------------------------------ MODULE SyncServer ------------------------------
(***************************************************************************)
(* The synchronisation server (system/sync_server.cc): the mutexes, the    *)
(* condition variables and the barrier of the simulated application.  A    *)
(* mutex is handed to the first thread that waits for it, so a thread that *)
(* is resumed owns it already.                                             *)
(***************************************************************************)
EXTENDS ThreadManager, SequencesExt

CONSTANTS
  Mutexes, Conds,   \* the addresses of mutexes and condition variables
  BarrierCount      \* the count the application's barrier was created with

ASSUME BarrierAssumption == BarrierCount \in Nat \ {0}

VARIABLES
  owner,            \* SimMutex::m_owner
  mutexWaiting,     \* SimMutex::m_waiting
  condWaiting,      \* SimCond::m_waiting
  barrierWaiting    \* SimBarrier::m_waiting

syncVars == <<owner, mutexWaiting, condWaiting, barrierWaiting>>

CondWaiter == [thread : Threads, mutex : Mutexes]

SyncInit == /\ owner = [m \in Mutexes |-> None]
            /\ mutexWaiting = [m \in Mutexes |-> <<>>]
            /\ condWaiting = [c \in Conds |-> <<>>]
            /\ barrierWaiting = <<>>
-----------------------------------------------------------------------------
(***************************************************************************)
(* SimMutex.                                                               *)
(***************************************************************************)
\* A mutex is not locked for its owner: the owner that tries it queues up.
isLocked(m, t) == owner[m] \notin {None, t}

lock(t, m) ==
  /\ Calls(t)
  /\ \/ /\ owner[m] = None
        /\ owner' = [owner EXCEPT ![m] = t]
        /\ UNCHANGED <<threadVars, mutexWaiting>>
     \/ /\ owner[m] # None
        /\ mutexWaiting' = [mutexWaiting EXCEPT ![m] = Append(@, t)]
        /\ Stall(t, "mutex", {})
        /\ UNCHANGED <<waiter, owner>>
  /\ UNCHANGED <<condWaiting, barrierWaiting>>

mutexTrylock(t, m) ==
  \/ Calls(t) /\ isLocked(m, t) /\ UNCHANGED <<threadVars, syncVars>>
  \/ ~isLocked(m, t) /\ lock(t, m)

\* unlock(): the new owner and the threads that are resumed.
MutHandedTo(m) == None
HandedTo(m) == IF mutexWaiting[m] = <<>> THEN None ELSE Head(mutexWaiting[m])
Unlocked(m) ==
  /\ owner' = [owner EXCEPT ![m] = HandedTo(m)]
  /\ mutexWaiting' = [mutexWaiting EXCEPT ![m] = IF @ = <<>> THEN @ ELSE Tail(@)]

mutexUnlock(t, m) ==
  /\ Calls(t) /\ owner[m] = t
  /\ Unlocked(m)
  /\ Resume({HandedTo(m)})
  /\ UNCHANGED <<condWaiting, barrierWaiting>>
-----------------------------------------------------------------------------
(***************************************************************************)
(* SimCond.                                                                *)
(***************************************************************************)
condWait(t, c, m) ==
  /\ Calls(t) /\ owner[m] = t
  /\ Unlocked(m)
  /\ condWaiting' = [condWaiting EXCEPT ![c] = Append(@, [thread |-> t, mutex |-> m])]
  /\ Stall(t, "cond", {HandedTo(m)})
  /\ UNCHANGED <<waiter, barrierWaiting>>

\* lock_async() for the waiters in `woken`, in their order: the first waiter for
\* a free mutex gets it and is resumed, the others wait for the mutex instead.
OnMutex(woken, m) ==
  LET mine   == {i \in DOMAIN woken : woken[i].mutex = m}
      Nth(n) == CHOOSE i \in mine : Cardinality({j \in mine : j <= i}) = n
  IN [n \in 1..Cardinality(mine) |-> woken[Nth(n)].thread]

LockAsync(woken) ==
  LET granted == {m \in Mutexes : owner[m] = None /\ OnMutex(woken, m) # <<>>} IN
  /\ owner' = [m \in Mutexes |-> IF m \in granted THEN Head(OnMutex(woken, m))
                                                  ELSE owner[m]]
  /\ mutexWaiting' = [m \in Mutexes |-> mutexWaiting[m] \o
                        IF m \in granted THEN Tail(OnMutex(woken, m))
                                         ELSE OnMutex(woken, m)]
  /\ Resume({Head(OnMutex(woken, m)) : m \in granted})

condSignal(t, c) ==
  /\ Calls(t)
  /\ LET woken == IF condWaiting[c] = <<>> THEN <<>> ELSE <<Head(condWaiting[c])>> IN
     /\ condWaiting' = [condWaiting EXCEPT ![c] = IF @ = <<>> THEN @ ELSE Tail(@)]
     /\ LockAsync(woken)
  /\ UNCHANGED barrierWaiting

condBroadcast(t, c) ==
  /\ Calls(t)
  /\ LockAsync(condWaiting[c])
  /\ condWaiting' = [condWaiting EXCEPT ![c] = <<>>]
  /\ UNCHANGED barrierWaiting
-----------------------------------------------------------------------------
(***************************************************************************)
(* SimBarrier.                                                             *)
(***************************************************************************)
MutLastToArrive == Len(barrierWaiting) = BarrierCount
LastToArrive == Len(barrierWaiting) = BarrierCount - 1

barrierWait(t) ==
  /\ Calls(t)
  /\ \/ /\ LastToArrive
        /\ Resume(ToSet(barrierWaiting))
        /\ barrierWaiting' = <<>>
     \/ /\ ~LastToArrive
        /\ barrierWaiting' = Append(barrierWaiting, t)
        /\ Stall(t, "barrier", {})
        /\ UNCHANGED waiter
  /\ UNCHANGED <<owner, mutexWaiting, condWaiting>>

SyncCall(t) ==
  \/ \E m \in Mutexes : lock(t, m) \/ mutexTrylock(t, m) \/ mutexUnlock(t, m)
  \/ \E c \in Conds : condSignal(t, c) \/ condBroadcast(t, c)
  \/ \E c \in Conds, m \in Mutexes : condWait(t, c, m)
  \/ barrierWait(t)
-----------------------------------------------------------------------------
SyncTypeOK == /\ owner \in [Mutexes -> Threads \union {None}]
              /\ mutexWaiting \in [Mutexes -> Seq(Threads)]
              /\ condWaiting \in [Conds -> Seq(CondWaiter)]
              /\ barrierWaiting \in Seq(Threads)
=============================================================================
