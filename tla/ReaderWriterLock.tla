-------------------------- MODULE ReaderWriterLock --------------------------
(***************************************************************************)
(* What the lock of a cache set promises (the "Lock design" comment of     *)
(* cache_cntlr.cc): threads that only touch their own first-level cache    *)
(* share it, a thread that touches the levels below has it for itself, and *)
(* a thread that has it for itself may keep a share of it or pass it on.   *)
(***************************************************************************)
CONSTANT Actors, NoActor

VARIABLES
  readers,      \* the actors that hold the lock in shared mode
  writer        \* the actor that holds it in exclusive mode, or NoActor

RWInit == readers = {} /\ writer = NoActor

AcquireShared(t) == /\ writer = NoActor /\ t \notin readers
                    /\ readers' = readers \union {t}
                    /\ UNCHANGED writer

ReleaseShared(t) == /\ t \in readers
                    /\ readers' = readers \ {t}
                    /\ UNCHANGED writer

AcquireExclusive(t) == /\ writer = NoActor /\ readers = {}
                       /\ writer' = t
                       /\ UNCHANGED readers

ReleaseExclusive(t) == /\ writer = t
                       /\ writer' = NoActor
                       /\ UNCHANGED readers

Downgrade(t) == /\ writer = t
                /\ writer' = NoActor
                /\ readers' = {t}

PassOn(t, u) == /\ writer = t
                /\ writer' = u
                /\ UNCHANGED readers

RWNext == \E t \in Actors :
            \/ AcquireShared(t) \/ ReleaseShared(t)
            \/ AcquireExclusive(t) \/ ReleaseExclusive(t)
            \/ Downgrade(t) \/ \E u \in Actors : PassOn(t, u)

RWSpec == RWInit /\ [][RWNext]_<<readers, writer>>
=============================================================================
