------------------------- MODULE HostPrimitivesProofs -------------------------
(***************************************************************************)
(* The primitives of the host: the semaphore (Semaphore), those that share *)
(* a condition variable (ConditionVariable), and the threads that sleep on *)
(* the condition of a core's network queue (Network).  Independent         *)
(* specifications, each with its own variables and its own theorem.        *)
(***************************************************************************)
EXTENDS Semaphore, ConditionVariable, Network, FiniteSetTheorems, TLAPS

(***************************************************************************)
(* The semaphore, for any finite set of threads and any count.             *)
(* The conjunction of the three invariants is inductive as it stands:      *)
(* WaitingCounted tells signal() that somebody is inside wait() exactly    *)
(* when _numWaiting > 0, and NoLostWakeup carries the bookkeeping of       *)
(* units against threads on their way back to the test of _count.          *)
(***************************************************************************)
Inv == TypeOK /\ WaitingCounted /\ NoLostWakeup

InWait == Threads \ At("out")

\* Every set of threads is finite, so its size is a natural number, and adding
\* or removing one thread changes the size by at most one.
LEMMA ThreadSets ==
  ASSUME NEW S \in SUBSET Threads
  PROVE  /\ IsFiniteSet(S)
         /\ Cardinality(S) \in Nat
         /\ \A t : t \in S => Cardinality(S \ {t}) = Cardinality(S) - 1
         /\ \A t : t \notin S => Cardinality(S \union {t}) = Cardinality(S) + 1
  BY ThreadsAssumption, FS_Subset, FS_CardinalityType, FS_AddElement,
     FS_RemoveElement

\* A set that contains another is at least as large.
LEMMA SubsetSmaller ==
  ASSUME NEW S \in SUBSET Threads, NEW T \in SUBSET S
  PROVE  Cardinality(T) <= Cardinality(S)
  BY ThreadSets, FS_Subset

\* The constructor establishes the invariant: no thread is inside wait().
LEMMA InitInv == Init => Inv
<1> SUFFICES ASSUME Init PROVE Inv
  OBVIOUS
<1>1. At("out") = Threads
  BY DEF Init, At
<1>2. TypeOK
  BY CountAssumption DEF Init, TypeOK, PcValues
<1>3. WaitingCounted
  BY <1>1, FS_EmptySet DEF Init, WaitingCounted
<1>4. NoLostWakeup
  BY <1>1 DEF NoLostWakeup, Awake, At
<1> QED
  BY <1>2, <1>3, <1>4 DEF Inv

\* The test of _count preserves the invariant when it is made by a thread that
\* enters wait(), or by one that was woken and has just lowered _numWaiting.
LEMMA TestCountInv ==
  ASSUME Inv, NEW t \in Threads, NEW waiting,
         TestCount(t, waiting),
         \/ pc[t] = "out" /\ waiting = numWaiting
         \/ pc[t] = "woken" /\ waiting = numWaiting - 1
  PROVE  Inv'
<1> USE DEF Inv
<1>1. /\ InWait \in SUBSET Threads /\ InWait' \in SUBSET Threads
      /\ Awake \in SUBSET Threads /\ Awake' \in SUBSET Threads
  BY DEF InWait, Awake, At
<1>2. waiting = Cardinality(InWait \ {t}) /\ waiting \in Nat
  <2>1. CASE pc[t] = "out" /\ waiting = numWaiting
    <3>1. InWait \ {t} = InWait
      BY <2>1 DEF InWait, At
    <3> QED
      BY <2>1, <3>1 DEF WaitingCounted, TypeOK, InWait
  <2>2. CASE pc[t] = "woken" /\ waiting = numWaiting - 1
    <3>1. t \in InWait
      BY <2>2 DEF InWait, At
    <3>2. Cardinality(InWait \ {t}) = Cardinality(InWait) - 1
      BY <3>1, <1>1, ThreadSets
    <3>3. InWait \ {t} \in SUBSET Threads
      BY <1>1
    <3>4. Cardinality(InWait \ {t}) \in Nat
      BY <3>3, ThreadSets
    <3> QED
      BY <2>2, <3>2, <3>4 DEF WaitingCounted, TypeOK, InWait
  <2> QED
    BY <2>1, <2>2
<1>3. CASE /\ count > 0 /\ count' = count - 1 /\ numWaiting' = waiting
           /\ pc' = [pc EXCEPT ![t] = "out"] /\ UNCHANGED futx
  <2>1. InWait' = InWait \ {t} /\ Awake' = Awake \ {t}
    BY <1>3 DEF InWait, Awake, At, TypeOK
  <2>2. TypeOK'
    BY <1>3, <1>2, CountAssumption DEF TypeOK, PcValues
  <2>3. WaitingCounted'
    BY <1>3, <1>2, <2>1 DEF WaitingCounted, InWait
  <2>4. NoLostWakeup'
    <3> SUFFICES ASSUME At("out")' \union Awake' # Threads
                 PROVE  Cardinality(Awake') >= count'
      BY DEF NoLostWakeup
    <3>1. At("out") \union Awake # Threads
      BY <1>3, <2>1 DEF At, TypeOK
    <3>2. Cardinality(Awake) >= count
      BY <3>1 DEF NoLostWakeup
    <3>3. Cardinality(Awake') >= Cardinality(Awake) - 1
      <4>1. CASE t \in Awake
        BY <4>1, <2>1, <1>1, ThreadSets
      <4>2. CASE t \notin Awake
        <5>1. Awake' = Awake
          BY <4>2, <2>1
        <5> QED
          BY <5>1, <1>1, ThreadSets
      <4> QED
        BY <4>1, <4>2
    <3>4. Cardinality(Awake) \in Nat /\ Cardinality(Awake') \in Nat
      BY <1>1, ThreadSets
    <3> QED
      BY <3>2, <3>3, <3>4, <1>3 DEF TypeOK
  <2> QED
    BY <2>2, <2>3, <2>4
<1>4. CASE /\ count <= 0 /\ numWaiting' = waiting + 1 /\ futx' = 0
           /\ pc' = [pc EXCEPT ![t] = "armed"] /\ UNCHANGED count
  <2>1. InWait' = (InWait \ {t}) \union {t}
    BY <1>4 DEF InWait, At, TypeOK
  <2>2. Cardinality(InWait') = Cardinality(InWait \ {t}) + 1
    <3>1. InWait \ {t} \in SUBSET Threads /\ t \notin InWait \ {t}
      BY <1>1
    <3> QED
      BY <3>1, <2>1, ThreadSets
  <2>3. TypeOK'
    BY <1>4, <1>2 DEF TypeOK, PcValues
  <2>4. WaitingCounted'
    BY <1>4, <1>2, <2>2 DEF WaitingCounted, InWait
  <2>5. NoLostWakeup'
    <3>1. Cardinality(Awake') \in Nat
      BY <1>1, ThreadSets
    <3> QED
      BY <3>1, <1>4 DEF NoLostWakeup, TypeOK
  <2> QED
    BY <2>3, <2>4, <2>5
<1> QED
  BY <1>3, <1>4 DEF TestCount

\* signal() and broadcast() preserve the invariant: a unit is added, and either
\* nobody is left behind in the kernel or one more thread is on its way back.
LEMMA PostInv ==
  ASSUME Inv, Post,
         IF numWaiting > 0 THEN WakeOne \/ WakeAll ELSE UNCHANGED pc
  PROVE  Inv'
<1> USE DEF Inv
<1>1. /\ InWait \in SUBSET Threads /\ Awake \in SUBSET Threads
      /\ Awake' \in SUBSET Threads /\ At("woken") \in SUBSET Threads
  BY DEF InWait, Awake, At
<1>2. pc' \in [Threads -> PcValues] /\ At("out")' = At("out")
  BY DEF WakeOne, WakeAll, At, TypeOK, PcValues
<1>3. TypeOK'
  BY <1>2, CountAssumption DEF TypeOK, Post
<1>4. WaitingCounted'
  BY <1>2 DEF WaitingCounted, Post
<1>5. NoLostWakeup'
  <2> SUFFICES ASSUME At("out")' \union Awake' # Threads
               PROVE  Cardinality(Awake') >= count'
    BY DEF NoLostWakeup
  <2>1. numWaiting > 0
    <3>1. InWait # {}
      BY <1>1, <1>2 DEF InWait, At, TypeOK
    <3>2. IsFiniteSet(InWait) /\ Cardinality(InWait) \in Nat
      BY <1>1, ThreadSets
    <3> QED
      BY <3>1, <3>2, FS_EmptySet DEF WaitingCounted, InWait
  <2>2. futx' = 1
    BY <2>1 DEF Post
  <2>3. PICK s \in At("asleep") : pc' = [pc EXCEPT ![s] = "woken"]
    <3>1. ~WakeAll
      <4> SUFFICES ASSUME WakeAll PROVE At("out")' \union Awake' = Threads
        OBVIOUS
      <4> QED
        BY <1>2, <2>2 DEF WakeAll, Awake, At, TypeOK, PcValues
    <3>2. ~(At("asleep") = {} /\ UNCHANGED pc)
      <4> SUFFICES ASSUME At("asleep") = {}, UNCHANGED pc
                   PROVE  At("out")' \union Awake' = Threads
        OBVIOUS
      <4> QED
        BY <2>2 DEF Awake, At, TypeOK, PcValues
    <3> QED
      BY <2>1, <3>1, <3>2 DEF WakeOne
  <2>4. s \in Threads /\ s \notin Awake /\ s \notin At("out")
    BY DEF At, Awake
  <2>5. Cardinality(Awake) >= count
    BY <2>4 DEF NoLostWakeup
  <2>6. Awake \union {s} \in SUBSET Awake'
    BY <2>2, <2>3, <2>4 DEF Awake, At, TypeOK
  <2>7. /\ Cardinality(Awake \union {s}) = Cardinality(Awake) + 1
        /\ Cardinality(Awake \union {s}) <= Cardinality(Awake')
        /\ Cardinality(Awake) \in Nat /\ Cardinality(Awake') \in Nat
    BY <1>1, <2>4, <2>6, ThreadSets, SubsetSmaller
  <2> QED
    BY <2>5, <2>7 DEF Post, TypeOK
<1> QED
  BY <1>3, <1>4, <1>5

\* Returning from the system call, or entering the sleep, changes neither the
\* units nor who is inside wait(), and never takes a thread out of Awake.
LEMMA KernelInv ==
  ASSUME Inv, NEW t \in Threads, FutexWait(t) \/ Interrupted(t)
  PROVE  Inv'
<1> USE DEF Inv
<1>1. pc' \in [Threads -> PcValues] /\ At("out")' = At("out")
  BY DEF FutexWait, Interrupted, At, TypeOK, PcValues
<1>2. UNCHANGED <<count, numWaiting, futx>>
  BY DEF FutexWait, Interrupted
<1>3. TypeOK' /\ WaitingCounted'
  BY <1>1, <1>2 DEF TypeOK, WaitingCounted
<1>4. /\ Awake \in SUBSET Threads /\ Awake' \in SUBSET Threads
      /\ Awake \in SUBSET Awake'
  BY <1>2 DEF FutexWait, Interrupted, Awake, At, TypeOK, PcValues
<1>5. NoLostWakeup'
  <2> SUFFICES ASSUME At("out")' \union Awake' # Threads
               PROVE  Cardinality(Awake') >= count'
    BY DEF NoLostWakeup
  <2>1. At("out") \union Awake # Threads
    BY <1>1, <1>4 DEF At
  <2>2. /\ Cardinality(Awake) >= count
        /\ Cardinality(Awake) <= Cardinality(Awake')
        /\ Cardinality(Awake) \in Nat /\ Cardinality(Awake') \in Nat
    BY <2>1, <1>4, ThreadSets, SubsetSmaller DEF NoLostWakeup
  <2> QED
    BY <2>2, <1>2 DEF TypeOK
<1> QED
  BY <1>3, <1>5

\* Every step of Semaphore preserves the invariant.
LEMMA NextInv == Inv /\ [Next]_vars => Inv'
<1> SUFFICES ASSUME Inv, [Next]_vars PROVE Inv'
  OBVIOUS
<1>1. CASE UNCHANGED vars
  BY <1>1 DEF Inv, TypeOK, WaitingCounted, NoLostWakeup, Awake, At, vars
<1>2. ASSUME NEW t \in Threads, Wait(t) PROVE Inv'
  BY <1>2, TestCountInv DEF Wait
<1>3. ASSUME NEW t \in Threads, Retry(t) PROVE Inv'
  BY <1>3, TestCountInv DEF Retry
<1>4. ASSUME NEW t \in Threads, FutexWait(t) \/ Interrupted(t) PROVE Inv'
  BY <1>4, KernelInv
<1>5. ASSUME NEW t \in Threads, Signal(t) \/ Broadcast(t) PROVE Inv'
  BY <1>5, PostInv DEF Signal, Broadcast
<1> QED
  BY <1>1, <1>2, <1>3, <1>4, <1>5 DEF Next

\* The semaphore of semaphore.cc never loses a wake-up, and its _numWaiting is
\* exact, for every number of threads and every bound on the count.
THEOREM SemaphoreSafe ==
  Spec => [](TypeOK /\ WaitingCounted /\ NoLostWakeup)
<1>1. Init => Inv
  BY InitInv
<1>2. Inv /\ [Next]_vars => Inv'
  BY NextInv
<1>3. Inv => TypeOK /\ WaitingCounted /\ NoLostWakeup
  BY DEF Inv
<1> QED
  BY <1>1, <1>2, <1>3, PTL DEF Spec

-----------------------------------------------------------------------------
(***************************************************************************)
(* The primitives that share a condition variable, for any number of       *)
(* threads, rounds, packets and places in the queue.                       *)
(*                                                                         *)
(* For the barrier the invariant says in which of two phases it is, when   *)
(* the threads come (Coming) and when they leave (Leaving), how many are   *)
(* inside, and what the futex word may be; the history counters differ by  *)
(* one round at most (Rounds).  For the queue it is that the places        *)
(* between last and first hold the values in turn (Ring), and that who     *)
(* waits waits at its own end (Ends).                                      *)
(***************************************************************************)
Sleepers == {"armed", "asleep", "woken"}
Places   == Sleepers \union {"out", "entering", "broadcast"}
Inside   == {t \in CvThreads : cvPc[t].at \in Sleepers}

\* What the threads of each kind of primitive may be doing.
PlacesOf(kind) == CASE kind = "barrier"  -> Places
                    [] kind = "node"     -> Places \ {"entering"}
                    [] kind = "queue"    -> Sleepers \union {"out"}
                    [] kind = "circular" -> {"out"}

CvTypeOK == /\ cvCfg \in CvConfigs
            /\ cvFutx \in [CvConds -> {0, 1}]
            /\ cvPc \in [CvThreads -> [at : PlacesOf(cvCfg.kind), on : CvConds]]

\* Only thread 1 waits for a packet.
NodeInv == /\ cvUser \in [queued : Nat, sent : Nat]
           /\ \A t \in CvThreads : cvPc[t].on = "cond" /\ (t \in Inside => t = 1)
           /\ InboxServed
-----------------------------------------------------------------------------
BarrierTypeOK == /\ cvUser \in [arrived : Nat, leaving : Nat, came : [CvThreads -> Nat], left : [CvThreads -> Nat]]
                 /\ cvUser.arrived < cvCfg.threads /\ cvUser.leaving < cvCfg.threads
                 /\ \A t \in CvThreads : cvPc[t].on = "cond"

\* Who waits sleeps or is bound to.
AllSleep == \A t \in Inside : cvPc[t].at # "woken" /\ cvFutx["cond"] = 0

Coming == cvUser.leaving = 0 => cvUser.arrived = Cardinality(Inside) /\ AllSleep
Leaving == cvUser.leaving > 0 =>
             /\ cvUser.arrived = 0 /\ Cardinality(Inside) = cvUser.leaving
             /\ \A t \in CvThreads : ~CvAt(t, "entering")
             /\ ~CvBroadcasting => cvFutx["cond"] = 1 /\ \A t \in CvThreads : ~CvAt(t, "asleep")

\* The last one to come wakes up all the others, before any of them leaves.
OneLast == \A t \in CvThreads : CvAt(t, "broadcast") =>
             /\ \A u \in CvThreads : CvAt(u, "broadcast") => t = u
             /\ cvUser.leaving = cvCfg.threads - 1 /\ AllSleep

\* All threads are in the same round, those inside one step ahead or behind.
Rounds == \E r \in Nat : \A t \in CvThreads :
            IF cvUser.leaving = 0
            THEN cvUser.left[t] = r /\ cvUser.came[t] = (IF t \in Inside THEN r + 1 ELSE r)
            ELSE cvUser.came[t] = r /\ cvUser.left[t] = (IF t \in Inside THEN r - 1 ELSE r)

BarrierInv == BarrierTypeOK /\ Coming /\ Leaving /\ OneLast /\ Rounds
-----------------------------------------------------------------------------
\* The place k after i, going round.
Pos(i, k) == IF i + k <= cvCfg.size THEN i + k ELSE i + k - (cvCfg.size + 1)

Slot   == 0 .. cvCfg.size
Record == [first : Slot, last : Slot, slots : [Slot -> Nat], pushed : Nat, popped : Nat, wrong : BOOLEAN]

Ring(r) == /\ r \in Record /\ ~r.wrong
           /\ r.pushed - r.popped \in Slot
           /\ r.first = Pos(r.last, r.pushed - r.popped)
           /\ \A k \in Slot : k < r.pushed - r.popped => r.slots[Pos(r.last, k)] = r.popped + 1 + k

\* Thread 1 waits for something to pop, thread 2 for a place to push to.
AtEnd(t, c) == (t = 1 /\ c = "empty") \/ (t = 2 /\ c = "full")
Ends == \A t \in Inside : AtEnd(t, cvPc[t].on)
QueueInv == Ring(cvUser) /\ Ends /\ QueueServed

CvInv == /\ CvTypeOK
         /\ cvCfg.kind = "barrier" => BarrierInv
         /\ cvCfg.kind = "node" => NodeInv
         /\ cvCfg.kind \in {"queue", "circular"} => QueueInv

-----------------------------------------------------------------------------
(***************************************************************************)
(* The ring.                                                               *)
(***************************************************************************)
LEMMA Modulus ==
  ASSUME NEW M \in Nat \ {0}, NEW i \in 0 .. M
  PROVE  i % M = IF i = M THEN 0 ELSE i
<1>1. /\ (i % M) \in 0 .. (M - 1)
      /\ i = M * (i \div M) + (i % M)
  OBVIOUS
<1>2. PICK q, m : q = i \div M /\ m = i % M
  OBVIOUS
<1>3. q \in Int /\ m \in 0 .. (M - 1) /\ i = M * q + m
  BY <1>1, <1>2
<1>4. m = IF i = M THEN 0 ELSE i
  <2>1. q <= 1 /\ q >= 0
    BY <1>3
  <2>2. q = 0 \/ q = 1
    BY <1>3, <2>1
  <2> QED
    BY <1>3, <2>2
<1> QED
  BY <1>2, <1>4

LEMMA RingNextIs ==
  ASSUME cvCfg.size \in Nat, NEW i \in Slot
  PROVE  ringNext(i) = Pos(i, 1) /\ Pos(i, 1) \in Slot
<1>1. cvCfg.size + 1 \in Nat \ {0} /\ i + 1 \in 0 .. (cvCfg.size + 1)
  BY DEF Slot
<1>2. ringNext(i) = IF i + 1 = cvCfg.size + 1 THEN 0 ELSE i + 1
  BY <1>1, Modulus DEF ringNext
<1> QED
  BY <1>2 DEF Pos, Slot

(* Going round from i: the place n after it.                               *)

LEMMA PosEnds ==
  ASSUME cvCfg.size \in Nat, NEW i \in Slot, NEW n \in Slot
  PROVE  (Pos(Pos(i, n), 1) = i <=> n = cvCfg.size) /\ (Pos(i, n) = i <=> n = 0)
<1>1. PICK s \in Nat : s = cvCfg.size
  OBVIOUS
<1>2. i \in 0 .. s /\ n \in 0 .. s
  BY <1>1 DEF Slot
<1>3. \A j, k : Pos(j, k) = IF j + k <= s THEN j + k ELSE j + k - (s + 1)
  BY <1>1 DEF Pos
<1>4. Pos(i, n) = i <=> n = 0
  BY <1>2, <1>3
<1>5. Pos(Pos(i, n), 1) = i <=> n = s
  BY <1>2, <1>3
<1> QED
  BY <1>1, <1>4, <1>5

LEMMA PosUp ==
  ASSUME cvCfg.size \in Nat, NEW i \in Slot, NEW n \in Slot, n # cvCfg.size
  PROVE  n + 1 \in Slot /\ Pos(Pos(i, n), 1) = Pos(i, n + 1)
  BY DEF Pos, Slot

LEMMA PosDown ==
  ASSUME cvCfg.size \in Nat, NEW i \in Slot, NEW n \in Slot, n # 0
  PROVE  n - 1 \in Slot /\ Pos(Pos(i, 1), n - 1) = Pos(i, n)
  BY DEF Pos, Slot

LEMMA PosOther ==
  ASSUME cvCfg.size \in Nat, NEW i \in Slot, NEW n \in Slot, NEW k \in Slot, k < n
  PROVE  Pos(i, k) \in Slot /\ Pos(i, k) # Pos(i, n)
  BY DEF Pos, Slot

LEMMA PosShift ==
  ASSUME cvCfg.size \in Nat, NEW i \in Slot, NEW n \in Slot, NEW k \in Slot, k < n - 1
  PROVE  k + 1 \in Slot /\ k + 1 < n /\ Pos(Pos(i, 1), k) = Pos(i, k + 1)
  BY DEF Pos, Slot

\* What Ring says, field by field, of n values from the place i on.
HoldsFrom(r, i, n) ==
  /\ n = r.pushed - r.popped /\ r.last = i /\ r.first = Pos(i, n) /\ Pos(i, n) \in Slot
  /\ r.pushed \in Nat /\ r.popped \in Nat
  /\ r.slots \in [Slot -> Nat] /\ r.wrong = FALSE
  /\ \A k \in Slot : k < n => r.slots[Pos(i, k)] = r.popped + 1 + k

LEMMA RingIs ==
  ASSUME NEW r, Ring(r)
  PROVE  \E i, n \in Slot : HoldsFrom(r, i, n)
  BY DEF Ring, Record, HoldsFrom

LEMMA RingRecord ==
  ASSUME NEW r, NEW i, NEW n, HoldsFrom(r, i, n), r \in Record
  PROVE  r = [first |-> Pos(i, n), last |-> i, slots |-> r.slots,
              pushed |-> r.pushed, popped |-> r.popped, wrong |-> FALSE]
  BY DEF HoldsFrom, Record

LEMMA RingFacts ==
  ASSUME cvCfg.size \in Nat, NEW r, Ring(r)
  PROVE  /\ full(r) <=> r.pushed - r.popped = cvCfg.size
         /\ empty(r) <=> r.pushed - r.popped = 0
<1>1. PICK i, n \in Slot : HoldsFrom(r, i, n)
  BY RingIs
<1>2. r.last = i /\ r.first = Pos(i, n) /\ Pos(i, n) \in Slot /\ n = r.pushed - r.popped
  BY <1>1 DEF HoldsFrom
<1>3. ringNext(Pos(i, n)) = Pos(Pos(i, n), 1)
  BY <1>2, RingNextIs
<1>4. (Pos(Pos(i, n), 1) = i <=> n = cvCfg.size) /\ (Pos(i, n) = i <=> n = 0)
  BY PosEnds
<1> QED
  BY <1>2, <1>3, <1>4 DEF full, empty

LEMMA RingPush ==
  ASSUME cvCfg.size \in Nat, NEW r, Ring(r), ~full(r)
  PROVE  Ring(push(r)) /\ push(r).pushed = r.pushed + 1 /\ push(r).popped = r.popped
<1>1. PICK i, n \in Slot : HoldsFrom(r, i, n)
  BY RingIs
<1>2. PICK f \in Slot : f = Pos(i, n) /\ f = r.first
  BY <1>1 DEF HoldsFrom
<1>3. ringNext(f) = Pos(f, 1) /\ Pos(f, 1) \in Slot /\ r \in Record
  BY RingNextIs DEF Ring
<1>4. n # cvCfg.size
  BY <1>1, RingFacts DEF HoldsFrom
<1>5. PICK q : q = push(r)
  OBVIOUS
<1>6. /\ q.first = Pos(f, 1) /\ q.last = i /\ q.pushed = r.pushed + 1
      /\ q.popped = r.popped /\ q.wrong = FALSE
      /\ q.slots = [r.slots EXCEPT ![f] = r.pushed + 1]
      /\ q \in Record
  <2>1. r = [first |-> Pos(i, n), last |-> i, slots |-> r.slots,
           pushed |-> r.pushed, popped |-> r.popped, wrong |-> FALSE]
    BY <1>1, <1>3, RingRecord
  <2>2. r.slots \in [Slot -> Nat] /\ r.pushed \in Nat /\ r.popped \in Nat
    BY <1>1 DEF HoldsFrom
  <2>3. PICK sl \in [Slot -> Nat], a \in Nat, b \in Nat :
          /\ r = [first |-> f, last |-> i, slots |-> sl, pushed |-> a, popped |-> b, wrong |-> FALSE]
          /\ sl = r.slots /\ a = r.pushed /\ b = r.popped
    BY <1>2, <2>1, <2>2
  <2>4. q = [first |-> ringNext(f), last |-> i, slots |-> [sl EXCEPT ![f] = a + 1],
             pushed |-> a + 1, popped |-> b, wrong |-> FALSE]
    BY <1>5, <2>3 DEF push
  <2>5. [sl EXCEPT ![f] = a + 1] \in [Slot -> Nat] /\ a + 1 \in Nat /\ i \in Slot
    OBVIOUS
  <2> QED
    BY <1>3, <2>3, <2>4, <2>5 DEF Record
<1>7. n + 1 \in Slot /\ q.first = Pos(i, n + 1)
  <2>1. n + 1 \in Slot /\ Pos(Pos(i, n), 1) = Pos(i, n + 1)
    BY <1>4, PosUp
  <2> QED
    BY <1>2, <1>6, <2>1
<1>8. q.pushed - q.popped = n + 1
  BY <1>1, <1>6 DEF Slot, HoldsFrom
<1>9. ASSUME NEW k \in Slot, k < n + 1 PROVE q.slots[Pos(i, k)] = q.popped + 1 + k
  <2>1. CASE k = n
    <3>1. q.slots[f] = r.pushed + 1 /\ Pos(i, k) = f
      BY <1>1, <1>2, <1>6, <2>1 DEF HoldsFrom
    <3>2. r.pushed + 1 = r.popped + 1 + k
      BY <1>1, <2>1 DEF Slot, HoldsFrom
    <3> QED
      BY <1>6, <3>1, <3>2
  <2>2. CASE k # n
    <3>1. k < n
      BY <1>9, <2>2 DEF Slot
    <3>2. Pos(i, k) \in Slot /\ Pos(i, k) # f
      BY <1>2, <3>1, PosOther
    <3>3. q.slots[Pos(i, k)] = r.slots[Pos(i, k)]
      BY <1>1, <1>6, <3>2 DEF HoldsFrom
    <3> QED
      BY <1>1, <1>6, <3>1, <3>3 DEF HoldsFrom
  <2> QED
    BY <2>1, <2>2
<1>10. Ring(q)
  BY <1>6, <1>7, <1>8, <1>9 DEF Ring
<1> QED
  BY <1>5, <1>6, <1>10

LEMMA RingPop ==
  ASSUME cvCfg.size \in Nat, NEW r, Ring(r), ~empty(r)
  PROVE  Ring(pop(r)) /\ pop(r).popped = r.popped + 1 /\ pop(r).pushed = r.pushed
<1>1. PICK i, n \in Slot : HoldsFrom(r, i, n)
  BY RingIs
<1>2. ringNext(i) = Pos(i, 1) /\ Pos(i, 1) \in Slot /\ r \in Record
  BY RingNextIs DEF Ring
<1>3. n # 0
  BY <1>1, RingFacts DEF HoldsFrom
<1>4. r.slots[i] = r.popped + 1
  <2>1. 0 \in Slot /\ 0 < n /\ Pos(i, 0) = i
    BY <1>3 DEF Slot, Pos
  <2>2. r.slots[Pos(i, 0)] = r.popped + 1 + 0
    BY <1>1, <2>1 DEF HoldsFrom
  <2> QED
    BY <1>1, <2>1, <2>2 DEF HoldsFrom
<1>5. PICK q : q = pop(r)
  OBVIOUS
<1>6. /\ q.first = r.first /\ q.last = Pos(i, 1) /\ q.pushed = r.pushed
      /\ q.popped = r.popped + 1 /\ q.wrong = FALSE /\ q.slots = r.slots
      /\ q \in Record
  <2>1. r = [first |-> Pos(i, n), last |-> i, slots |-> r.slots,
           pushed |-> r.pushed, popped |-> r.popped, wrong |-> FALSE]
    BY <1>1, <1>2, RingRecord
  <2>2. r.slots \in [Slot -> Nat] /\ r.pushed \in Nat /\ r.popped \in Nat
        /\ r.first = Pos(i, n) /\ Pos(i, n) \in Slot
    BY <1>1 DEF HoldsFrom
  <2>3. PICK f \in Slot, sl \in [Slot -> Nat], a \in Nat, b \in Nat :
          /\ r = [first |-> f, last |-> i, slots |-> sl, pushed |-> a, popped |-> b, wrong |-> FALSE]
          /\ f = r.first /\ sl = r.slots /\ a = r.pushed /\ b = r.popped
    BY <2>1, <2>2
  <2>4. q = [first |-> f, last |-> ringNext(i), slots |-> sl,
             pushed |-> a, popped |-> b + 1, wrong |-> FALSE \/ sl[i] # b + 1]
    BY <1>5, <2>3 DEF pop
  <2>5. sl[i] = b + 1
    BY <1>4, <2>3
  <2>6. q = [first |-> f, last |-> Pos(i, 1), slots |-> sl,
             pushed |-> a, popped |-> b + 1, wrong |-> FALSE]
    BY <1>2, <2>4, <2>5
  <2> QED
    BY <1>2, <2>3, <2>6 DEF Record
<1>7. n - 1 \in Slot /\ q.first = Pos(q.last, n - 1)
  <2>1. n - 1 \in Slot /\ Pos(Pos(i, 1), n - 1) = Pos(i, n)
    BY <1>3, PosDown
  <2> QED
    BY <1>1, <1>6, <2>1 DEF HoldsFrom
<1>8. q.pushed - q.popped = n - 1
  BY <1>1, <1>6 DEF Slot, HoldsFrom
<1>9. ASSUME NEW k \in Slot, k < n - 1 PROVE q.slots[Pos(q.last, k)] = q.popped + 1 + k
  <2>1. k + 1 \in Slot /\ k + 1 < n /\ Pos(Pos(i, 1), k) = Pos(i, k + 1)
    BY <1>9, PosShift
  <2>2. r.slots[Pos(i, k + 1)] = r.popped + 1 + (k + 1)
    BY <1>1, <2>1 DEF HoldsFrom
  <2>3. r.popped \in Nat /\ k \in Nat
    BY <1>1 DEF Slot, HoldsFrom
  <2>4. q.slots[Pos(q.last, k)] = r.popped + 1 + (k + 1) /\ q.popped = r.popped + 1
    BY <1>6, <2>1, <2>2
  <2> QED
    BY <2>3, <2>4
<1>10. Ring(q)
  BY <1>6, <1>7, <1>8, <1>9 DEF Ring
<1> QED
  BY <1>5, <1>6, <1>10

-----------------------------------------------------------------------------
(***************************************************************************)
(* The moves of the threads.                                               *)
(***************************************************************************)
PcOf(kind) == [CvThreads -> [at : PlacesOf(kind), on : CvConds]]

LEMMA CfgFacts ==
  ASSUME CvTypeOK
  PROVE  /\ cvCfg.kind \in {"barrier", "node", "queue", "circular"} /\ cvCfg.threads \in Nat \ {0}
         /\ cvCfg.signals \in BOOLEAN /\ cvCfg.max \in Nat
         /\ cvCfg.kind \in {"queue", "circular"} => cvCfg.size \in Nat \ {0}
         /\ 1 \in CvThreads
<1>1. cvCfg \in CvConfigs
  BY DEF CvTypeOK
<1> QED
  BY <1>1, CvAssumption DEF CvThreads

LEMMA GoIs ==
  ASSUME CvTypeOK, NEW t \in CvThreads, NEW p \in PlacesOf(cvCfg.kind), CvGo(t, p)
  PROVE  /\ cvPc' \in PcOf(cvCfg.kind)
         /\ cvPc'[t].at = p /\ cvPc'[t].on = cvPc[t].on
         /\ \A u \in CvThreads \ {t} : cvPc'[u] = cvPc[u]
<1>1. PICK P : P = PlacesOf(cvCfg.kind)
  OBVIOUS
<1>2. cvPc \in [CvThreads -> [at : P, on : CvConds]] /\ p \in P
  BY <1>1 DEF CvTypeOK
<1>3. /\ cvPc' \in [CvThreads -> [at : P, on : CvConds]]
      /\ cvPc'[t].at = p /\ cvPc'[t].on = cvPc[t].on
      /\ \A u \in CvThreads \ {t} : cvPc'[u] = cvPc[u]
  BY <1>2 DEF CvGo
<1> QED
  BY <1>1, <1>3 DEF PcOf

LEMMA WaitIs ==
  ASSUME CvTypeOK, NEW t \in CvThreads, NEW c \in CvConds, "armed" \in PlacesOf(cvCfg.kind), CondWait(t, c)
  PROVE  /\ cvPc' \in PcOf(cvCfg.kind) /\ cvFutx' \in [CvConds -> {0, 1}]
         /\ cvPc'[t].at = "armed" /\ cvPc'[t].on = c
         /\ \A u \in CvThreads \ {t} : cvPc'[u] = cvPc[u]
         /\ cvFutx'[c] = 0 /\ \A d \in CvConds \ {c} : cvFutx'[d] = cvFutx[d]
<1>1. PICK P : P = PlacesOf(cvCfg.kind)
  OBVIOUS
<1>2. /\ cvPc \in [CvThreads -> [at : P, on : CvConds]] /\ "armed" \in P
      /\ cvFutx \in [CvConds -> {0, 1}]
  BY <1>1 DEF CvTypeOK
<1>3. /\ cvPc' \in [CvThreads -> [at : P, on : CvConds]]
      /\ cvPc'[t].at = "armed" /\ cvPc'[t].on = c
      /\ \A u \in CvThreads \ {t} : cvPc'[u] = cvPc[u]
  BY <1>2 DEF CondWait
<1>4. cvFutx' \in [CvConds -> {0, 1}] /\ cvFutx'[c] = 0 /\ \A d \in CvConds \ {c} : cvFutx'[d] = cvFutx[d]
  BY <1>2 DEF CondWait
<1> QED
  BY <1>1, <1>3, <1>4 DEF PcOf

\* When one thread at most sleeps on the condition, nobody does after the signal.
LEMMA SignalIs ==
  ASSUME CvTypeOK, NEW t \in CvThreads, NEW c \in CvConds,
         {"woken", "out"} \subseteq PlacesOf(cvCfg.kind), CondSignal(t, c),
         \A u, v \in CvAsleep(c) : u = v
  PROVE  /\ cvPc' \in PcOf(cvCfg.kind) /\ cvFutx' \in [CvConds -> {0, 1}]
         /\ cvPc'[t].at = "out"
         /\ \A u \in CvThreads \ {t} : \/ cvPc'[u] = cvPc[u]
                                       \/ u \in CvAsleep(c) /\ cvPc'[u].at = "woken" /\ cvPc'[u].on = c
         /\ \A u \in CvThreads : ~(cvPc'[u].at = "asleep" /\ cvPc'[u].on = c)
         /\ cvFutx'[c] = 1 /\ \A d \in CvConds \ {c} : cvFutx'[d] = cvFutx[d]
<1>1. PICK P : P = PlacesOf(cvCfg.kind)
  OBVIOUS
<1>2. /\ cvPc \in [CvThreads -> [at : P, on : CvConds]] /\ "woken" \in P /\ "out" \in P
      /\ cvFutx \in [CvConds -> {0, 1}]
  BY <1>1 DEF CvTypeOK
<1>3. PICK woken \in {{}} \cup {{s} : s \in CvAsleep(c)} :
        /\ woken = {} => CvAsleep(c) = {}
        /\ cvPc' = [s \in CvThreads |-> IF s = t THEN CvOut ELSE IF s \in woken THEN [at |-> "woken", on |-> c] ELSE cvPc[s]]
  BY DEF CondSignal
<1>4. woken = CvAsleep(c)
  <2>1. CASE woken = {}
    BY <1>3, <2>1
  <2>2. CASE woken # {}
    <3>1. PICK s \in CvAsleep(c) : woken = {s}
      BY <1>3, <2>2
    <3> QED
      BY <3>1
  <2> QED
    BY <2>1, <2>2
<1>5. \A s \in CvThreads : cvPc'[s] = IF s = t THEN CvOut
                                      ELSE IF s \in CvAsleep(c) THEN [at |-> "woken", on |-> c] ELSE cvPc[s]
  BY <1>3, <1>4
<1>6. CvOut \in [at : P, on : CvConds] /\ [at |-> "woken", on |-> c] \in [at : P, on : CvConds]
      /\ CvOut.at = "out"
  BY <1>2 DEF CvOut, CvConds
<1>7. cvPc' \in [CvThreads -> [at : P, on : CvConds]]
  BY <1>2, <1>3, <1>6
<1>8. \A u \in CvThreads : ~(cvPc'[u].at = "asleep" /\ cvPc'[u].on = c)
  <2>1. SUFFICES ASSUME NEW u \in CvThreads, cvPc'[u].at = "asleep", cvPc'[u].on = c PROVE FALSE
    OBVIOUS
  <2>2. u # t /\ u \notin CvAsleep(c)
    BY <1>5, <1>6, <2>1
  <2>3. cvPc[u].at = "asleep" /\ cvPc[u].on = c
    BY <1>5, <2>1, <2>2
  <2>4. cvPc[u] = [at |-> "asleep", on |-> c]
    BY <1>2, <2>3
  <2> QED
    BY <2>2, <2>4 DEF CvAsleep
<1>9. cvFutx' \in [CvConds -> {0, 1}] /\ cvFutx'[c] = 1 /\ \A d \in CvConds \ {c} : cvFutx'[d] = cvFutx[d]
  BY <1>2 DEF CondSignal
<1>10. \A u \in CvThreads \ {t} : \/ cvPc'[u] = cvPc[u]
                                  \/ u \in CvAsleep(c) /\ cvPc'[u].at = "woken" /\ cvPc'[u].on = c
  BY <1>5
<1> QED
  BY <1>1, <1>5, <1>6, <1>7, <1>8, <1>9, <1>10 DEF PcOf

\* A broadcast wakes up everybody who sleeps.
LEMMA BroadcastIs ==
  ASSUME CvTypeOK, \A u \in CvThreads : cvPc[u].on = "cond", NEW t \in CvThreads,
         {"woken", "out"} \subseteq PlacesOf(cvCfg.kind), CondBroadcast(t)
  PROVE  /\ cvPc' \in PcOf(cvCfg.kind) /\ cvFutx' \in [CvConds -> {0, 1}] /\ cvFutx'["cond"] = 1
         /\ cvPc'[t] = CvOut
         /\ \A u \in CvThreads \ {t} :
              /\ cvPc'[u].on = "cond"
              /\ cvPc'[u].at = IF cvPc[u].at = "asleep" THEN "woken" ELSE cvPc[u].at
<1>1. PICK P : P = PlacesOf(cvCfg.kind)
  OBVIOUS
<1>2. /\ cvPc \in [CvThreads -> [at : P, on : CvConds]] /\ "woken" \in P /\ "out" \in P
      /\ cvFutx \in [CvConds -> {0, 1}]
  BY <1>1 DEF CvTypeOK
<1>3. \A s \in CvThreads : s \in CvAsleep("cond") <=> cvPc[s].at = "asleep"
  BY <1>2 DEF CvAsleep
<1>4. CvOut \in [at : P, on : CvConds] /\ "cond" \in CvConds
  BY <1>2 DEF CvOut, CvConds
<1>5. cvPc' = [s \in CvThreads |-> IF s = t THEN CvOut
                                  ELSE IF s \in CvAsleep("cond") THEN [cvPc[s] EXCEPT !.at = "woken"] ELSE cvPc[s]]
  BY DEF CondBroadcast
<1>6. cvPc' \in [CvThreads -> [at : P, on : CvConds]]
  BY <1>2, <1>4, <1>5
<1>7. cvFutx' \in [CvConds -> {0, 1}] /\ cvFutx'["cond"] = 1
  BY <1>2, <1>4 DEF CondBroadcast
<1>8. \A u \in CvThreads \ {t} :
        /\ cvPc'[u].on = "cond"
        /\ cvPc'[u].at = IF cvPc[u].at = "asleep" THEN "woken" ELSE cvPc[u].at
  BY <1>2, <1>3, <1>5
<1> QED
  BY <1>1, <1>5, <1>6, <1>7, <1>8 DEF PcOf

\* What FUTEX_WAIT does to the one who calls it.
LEMMA SleepIs ==
  ASSUME CvTypeOK, NEW t \in CvThreads, CondSleep(t), {"asleep", "woken"} \subseteq PlacesOf(cvCfg.kind)
  PROVE  /\ cvPc' \in PcOf(cvCfg.kind) /\ cvCfg' = cvCfg /\ cvFutx' = cvFutx /\ cvUser' = cvUser
         /\ cvPc[t].at = "armed" /\ cvPc'[t].on = cvPc[t].on
         /\ cvPc'[t].at = IF cvFutx[cvPc[t].on] = 0 THEN "asleep" ELSE "woken"
         /\ \A u \in CvThreads \ {t} : cvPc'[u] = cvPc[u]
<1>1. CvGo(t, IF cvFutx[cvPc[t].on] = 0 THEN "asleep" ELSE "woken")
  BY DEF CondSleep
<1>2. (IF cvFutx[cvPc[t].on] = 0 THEN "asleep" ELSE "woken") \in PlacesOf(cvCfg.kind)
  OBVIOUS
<1> QED
  BY <1>1, <1>2, GoIs DEF CondSleep, CvAt

-----------------------------------------------------------------------------
(***************************************************************************)
(* The bounded queue.                                                      *)
(***************************************************************************)
LEMMA TypeKept ==
  ASSUME CvTypeOK, cvCfg' = cvCfg, cvFutx' \in [CvConds -> {0, 1}], cvPc' \in PcOf(cvCfg.kind)
  PROVE  CvTypeOK' /\ CvThreads' = CvThreads
<1>1. CvThreads' = CvThreads
  BY DEF CvThreads
<1> QED
  BY <1>1 DEF CvTypeOK, PcOf, PlacesOf

LEMMA RingKept ==
  ASSUME cvCfg' = cvCfg, Ring(cvUser')
  PROVE  Ring(cvUser)'
  BY DEF Ring, Record, Slot, Pos

LEMMA CircularStep ==
  ASSUME CvInv, cvCfg.kind = "circular", CvNext
  PROVE  CvInv'
<1>1. CvTypeOK /\ QueueInv /\ cvCfg.size \in Nat \ {0}
  BY CfgFacts DEF CvInv
<1>2. \A t \in CvThreads : cvPc[t].at = "out"
  BY <1>1 DEF CvTypeOK, PlacesOf
<1>3. PICK t \in CvThreads : pushCircular(t)
  <2>1. 1 \in CvThreads /\ cvPc[1].at = "out"
    BY <1>1, <1>2, CfgFacts
  <2>2. PICK t \in CvThreads :
          \/ CondSleep(t) \/ CondInterrupted(t) \/ CondBroadcast(t)
          \/ BarrierEnter(t) \/ BarrierArrive(t) \/ BarrierLeave(t)
          \/ nodeSend(t) \/ pushWait(t) \/ popWait(t) \/ pushCircular(t)
    BY DEF CvNext, nodeRecv
  <2> QED
    BY <1>2, <2>2 DEF CondSleep, CondInterrupted, CondBroadcast, BarrierEnter, BarrierArrive, BarrierLeave,
       nodeSend, pushWait, popWait, CvAt
<1>4. cvUser' = push(IF full(cvUser) THEN pop(cvUser) ELSE cvUser) /\ cvCfg' = cvCfg /\ cvPc' = cvPc /\ cvFutx' = cvFutx
  BY <1>3 DEF pushCircular
<1>5. Ring(cvUser')
  <2>1. CASE ~full(cvUser)
    BY <1>1, <1>4, <2>1, RingPush DEF QueueInv
  <2>2. CASE full(cvUser)
    <3>1. cvUser.pushed - cvUser.popped = cvCfg.size /\ ~empty(cvUser)
      BY <1>1, <2>2, RingFacts DEF QueueInv
    <3>2. PICK q : q = pop(cvUser)
      OBVIOUS
    <3>3. Ring(q) /\ q.popped = cvUser.popped + 1 /\ q.pushed = cvUser.pushed
      BY <1>1, <3>1, <3>2, RingPop DEF QueueInv
    <3>4. cvUser.pushed \in Nat /\ cvUser.popped \in Nat
      BY <1>1 DEF QueueInv, Ring, Record
    <3>5. ~full(q)
      BY <1>1, <3>1, <3>3, <3>4, RingFacts
    <3> QED
      BY <1>1, <1>4, <2>2, <3>2, <3>3, <3>5, RingPush
  <2> QED
    BY <2>1, <2>2
<1>6. Ring(cvUser)'
  BY <1>4, <1>5, RingKept
<1>7. CvTypeOK' /\ CvThreads' = CvThreads
  BY <1>1, <1>4, TypeKept DEF CvTypeOK, PcOf
<1>8. Ends' /\ \A u \in CvThreads' : ~CvSleeps(u)'
  BY <1>2, <1>4, <1>7 DEF Ends, Inside, Sleepers, CvSleeps, CvAt
<1>9. QueueServed'
  BY <1>4, <1>6, <1>8 DEF QueueServed, Ring, Slot
<1> QED
  BY <1>4, <1>6, <1>7, <1>8, <1>9 DEF CvInv, QueueInv

\* A thread moves on to sleep only where it is bound to.
LEMMA QueueStep ==
  ASSUME CvInv, cvCfg.kind = "queue", CvNext
  PROVE  CvInv'
<1>1. CvTypeOK /\ Ring(cvUser) /\ Ends /\ QueueServed /\ cvCfg.size \in Nat \ {0}
  BY CfgFacts DEF CvInv, QueueInv
<1>2. PlacesOf(cvCfg.kind) = Sleepers \union {"out"}
  BY DEF PlacesOf
<1>3. \A u \in CvThreads : cvPc[u].at \in Sleepers \union {"out"}
  BY <1>1, <1>2 DEF CvTypeOK
<1>4. \A u \in CvThreads : CvSleeps(u) => IF cvPc[u].on = "empty" THEN empty(cvUser) ELSE full(cvUser)
  BY <1>1 DEF QueueServed
<1>5. \A u \in CvThreads : cvPc[u].at \in Sleepers => AtEnd(u, cvPc[u].on)
  BY <1>1 DEF Ends, Inside
<1>6. SUFFICES /\ cvCfg' = cvCfg /\ cvFutx' \in [CvConds -> {0, 1}] /\ cvPc' \in PcOf(cvCfg.kind)
               /\ Ring(cvUser')
               /\ \A u \in CvThreads : cvPc'[u].at \in Sleepers => AtEnd(u, cvPc'[u].on)
               /\ \A u \in CvThreads :
                    cvPc'[u].at = "asleep" \/ (cvPc'[u].at = "armed" /\ cvFutx'[cvPc'[u].on] = 0)
                    => IF cvPc'[u].on = "empty" THEN empty(cvUser') ELSE full(cvUser')
  <2>1. CvTypeOK' /\ CvThreads' = CvThreads
    BY <1>1, <1>6, TypeKept
  <2>2. Ring(cvUser)'
    BY <1>6, RingKept
  <2>3. Ends'
    BY <1>6, <2>1 DEF Ends, Inside
  <2>4. QueueServed'
    BY <1>6, <2>1, <2>2 DEF QueueServed, Ring, Slot, CvSleeps, CvAt, empty, full, ringNext
  <2> QED
    BY <1>6, <2>1, <2>2, <2>3, <2>4 DEF CvInv, QueueInv
<1>7. PICK t \in CvThreads : CondSleep(t) \/ CondInterrupted(t) \/ pushWait(t) \/ popWait(t)
  <2>1. 1 \in CvThreads
    BY <1>1, CfgFacts
  <2>2. PICK t \in CvThreads :
          \/ CondSleep(t) \/ CondInterrupted(t) \/ CondBroadcast(t)
          \/ BarrierEnter(t) \/ BarrierArrive(t) \/ BarrierLeave(t)
          \/ nodeSend(t) \/ pushWait(t) \/ popWait(t) \/ pushCircular(t)
    BY <2>1 DEF CvNext, nodeRecv
  <2> QED
    BY <1>3, <2>2 DEF CondBroadcast, BarrierEnter, BarrierArrive, BarrierLeave,
       nodeSend, pushCircular, CvAt, Sleepers
<1>8. CASE CondSleep(t)
  <2>1. /\ cvPc' \in PcOf(cvCfg.kind) /\ cvCfg' = cvCfg /\ cvFutx' = cvFutx /\ cvUser' = cvUser
        /\ cvPc[t].at = "armed" /\ cvPc'[t].on = cvPc[t].on
        /\ cvPc'[t].at = IF cvFutx[cvPc[t].on] = 0 THEN "asleep" ELSE "woken"
        /\ \A u \in CvThreads \ {t} : cvPc'[u] = cvPc[u]
    BY <1>1, <1>2, <1>8, SleepIs DEF Sleepers
  <2>2. \A u \in CvThreads : cvPc'[u].on = cvPc[u].on /\ (cvPc'[u].at \in Sleepers => cvPc[u].at \in Sleepers)
    BY <2>1 DEF Sleepers
  <2>3. \A u \in CvThreads :
          cvPc'[u].at = "asleep" \/ (cvPc'[u].at = "armed" /\ cvFutx[cvPc'[u].on] = 0) => CvSleeps(u)
    BY <2>1 DEF CvSleeps, CvAt
  <2> QED
    BY <1>1, <1>4, <1>5, <2>1, <2>2, <2>3 DEF CvTypeOK
<1>9. CASE CondInterrupted(t)
  <2>1. /\ cvPc' \in PcOf(cvCfg.kind) /\ cvCfg' = cvCfg /\ cvFutx' = cvFutx /\ cvUser' = cvUser
        /\ cvPc[t].at = "asleep" /\ cvPc'[t].on = cvPc[t].on /\ cvPc'[t].at = "woken"
        /\ \A u \in CvThreads \ {t} : cvPc'[u] = cvPc[u]
    BY <1>1, <1>2, <1>9, GoIs DEF Sleepers, CondInterrupted, CvAt
  <2>2. \A u \in CvThreads : cvPc'[u].on = cvPc[u].on /\ (cvPc'[u].at \in Sleepers => cvPc[u].at \in Sleepers)
    BY <2>1 DEF Sleepers
  <2>3. \A u \in CvThreads :
          cvPc'[u].at = "asleep" \/ (cvPc'[u].at = "armed" /\ cvFutx[cvPc'[u].on] = 0) => CvSleeps(u)
    BY <2>1 DEF CvSleeps, CvAt
  <2> QED
    BY <1>1, <1>4, <1>5, <2>1, <2>2, <2>3 DEF CvTypeOK
<1>10. CASE pushWait(t)
  <2>1. t = 2 /\ cvCfg' = cvCfg
    BY <1>10 DEF pushWait
  <2>2. CASE full(cvUser)
    <3>1. CondWait(t, "full") /\ cvUser' = cvUser
      BY <1>10, <2>2 DEF pushWait
    <3>2. /\ cvPc' \in PcOf(cvCfg.kind) /\ cvFutx' \in [CvConds -> {0, 1}]
          /\ cvPc'[t].at = "armed" /\ cvPc'[t].on = "full"
          /\ \A u \in CvThreads \ {t} : cvPc'[u] = cvPc[u]
          /\ \A d \in CvConds \ {"full"} : cvFutx'[d] = cvFutx[d]
      BY <1>1, <1>2, <3>1, WaitIs DEF Sleepers, CvConds
    <3>3. \A u \in CvThreads : cvPc'[u].at \in Sleepers => AtEnd(u, cvPc'[u].on)
      BY <1>5, <2>1, <3>2 DEF AtEnd
    <3>4. ASSUME NEW u \in CvThreads,
                 cvPc'[u].at = "asleep" \/ (cvPc'[u].at = "armed" /\ cvFutx'[cvPc'[u].on] = 0)
          PROVE  IF cvPc'[u].on = "empty" THEN empty(cvUser) ELSE full(cvUser)
      <4>1. CASE u = t
        BY <2>2, <3>2, <4>1
      <4>2. CASE u # t
        <5>1. cvPc'[u] = cvPc[u] /\ cvPc[u].on = "empty" /\ cvFutx'["empty"] = cvFutx["empty"]
          BY <1>5, <2>1, <3>2, <3>4, <4>2 DEF Sleepers, CvConds, AtEnd
        <5>2. CvSleeps(u)
          BY <3>4, <5>1 DEF CvSleeps, CvAt
        <5> QED
          BY <1>4, <5>1, <5>2
      <4> QED
        BY <4>1, <4>2
    <3> QED
      BY <1>1, <2>1, <3>1, <3>2, <3>3, <3>4
  <2>3. CASE ~full(cvUser)
    <3>1. cvUser' = push(cvUser) /\ IF empty(cvUser) THEN CondSignal(t, "empty") ELSE CvGo(t, "out") /\ UNCHANGED cvFutx
      BY <1>10, <2>3 DEF pushWait
    <3>2. Ring(cvUser')
      BY <1>1, <2>3, <3>1, RingPush
    <3>3. CASE empty(cvUser)
      <4>1. \A u, v \in CvAsleep("empty") : u = v
        BY <1>5 DEF CvAsleep, Sleepers, AtEnd
      <4>2. /\ cvPc' \in PcOf(cvCfg.kind) /\ cvFutx' \in [CvConds -> {0, 1}]
            /\ cvPc'[t].at = "out"
            /\ \A u \in CvThreads \ {t} :
                 \/ cvPc'[u] = cvPc[u]
                 \/ u \in CvAsleep("empty") /\ cvPc'[u].at = "woken" /\ cvPc'[u].on = "empty"
            /\ \A u \in CvThreads : ~(cvPc'[u].at = "asleep" /\ cvPc'[u].on = "empty")
            /\ cvFutx'["empty"] = 1
        BY <1>1, <1>2, <3>1, <3>3, <4>1, SignalIs DEF Sleepers, CvConds
      <4>3. \A u \in CvThreads : cvPc'[u].at \in Sleepers => u = 1 /\ cvPc'[u].on = "empty"
        <5>1. SUFFICES ASSUME NEW u \in CvThreads, cvPc'[u].at \in Sleepers
                       PROVE  u = 1 /\ cvPc'[u].on = "empty"
          OBVIOUS
        <5>2. u # t
          BY <4>2, <5>1 DEF Sleepers
        <5>3. CASE cvPc'[u] = cvPc[u]
          BY <1>5, <2>1, <5>1, <5>2, <5>3 DEF AtEnd
        <5>4. CASE u \in CvAsleep("empty") /\ cvPc'[u].on = "empty"
          <6>1. cvPc[u].at = "asleep" /\ cvPc[u].on = "empty"
            BY <5>4 DEF CvAsleep
          <6> QED
            BY <1>5, <5>4, <6>1 DEF AtEnd, Sleepers
        <5> QED
          BY <4>2, <5>2, <5>3, <5>4
      <4>4. \A u \in CvThreads :
              ~(cvPc'[u].at = "asleep" \/ (cvPc'[u].at = "armed" /\ cvFutx'[cvPc'[u].on] = 0))
        BY <4>2, <4>3 DEF Sleepers
      <4> QED
        BY <2>1, <3>2, <4>2, <4>3, <4>4 DEF AtEnd
    <3>4. CASE ~empty(cvUser)
      <4>1. /\ cvPc' \in PcOf(cvCfg.kind) /\ cvFutx' = cvFutx /\ cvPc'[t].at = "out"
            /\ \A u \in CvThreads \ {t} : cvPc'[u] = cvPc[u]
        BY <1>1, <1>2, <3>1, <3>4, GoIs
      <4>2. \A u \in CvThreads : cvPc'[u].at \in Sleepers => u # t /\ u = 1 /\ cvPc'[u].on = "empty"
        BY <1>5, <2>1, <4>1 DEF Sleepers, AtEnd
      <4>3. ASSUME NEW u \in CvThreads,
                   cvPc'[u].at = "asleep" \/ (cvPc'[u].at = "armed" /\ cvFutx'[cvPc'[u].on] = 0)
            PROVE  FALSE
        <5>1. cvPc'[u].at \in Sleepers
          BY <4>3 DEF Sleepers
        <5>2. cvPc'[u] = cvPc[u] /\ cvPc[u].on = "empty"
          BY <4>1, <4>2, <5>1
        <5>3. CvSleeps(u)
          BY <4>1, <4>3, <5>2 DEF CvSleeps, CvAt
        <5> QED
          BY <1>4, <3>4, <5>2, <5>3
      <4> QED
        BY <1>1, <2>1, <3>2, <4>1, <4>2, <4>3 DEF CvTypeOK, AtEnd
    <3> QED
      BY <3>3, <3>4
  <2> QED
    BY <2>2, <2>3
<1>11. CASE popWait(t)
  <2>1. t = 1 /\ cvCfg' = cvCfg
    BY <1>11 DEF popWait
  <2>2. CASE empty(cvUser)
    <3>1. CondWait(t, "empty") /\ cvUser' = cvUser
      BY <1>11, <2>2 DEF popWait
    <3>2. /\ cvPc' \in PcOf(cvCfg.kind) /\ cvFutx' \in [CvConds -> {0, 1}]
          /\ cvPc'[t].at = "armed" /\ cvPc'[t].on = "empty"
          /\ \A u \in CvThreads \ {t} : cvPc'[u] = cvPc[u]
          /\ \A d \in CvConds \ {"empty"} : cvFutx'[d] = cvFutx[d]
      BY <1>1, <1>2, <3>1, WaitIs DEF Sleepers, CvConds
    <3>3. \A u \in CvThreads : cvPc'[u].at \in Sleepers => AtEnd(u, cvPc'[u].on)
      BY <1>5, <2>1, <3>2 DEF AtEnd
    <3>4. ASSUME NEW u \in CvThreads,
                 cvPc'[u].at = "asleep" \/ (cvPc'[u].at = "armed" /\ cvFutx'[cvPc'[u].on] = 0)
          PROVE  IF cvPc'[u].on = "empty" THEN empty(cvUser) ELSE full(cvUser)
      <4>1. CASE u = t
        BY <2>2, <3>2, <4>1
      <4>2. CASE u # t
        <5>1. cvPc'[u] = cvPc[u] /\ cvPc[u].on = "full" /\ cvFutx'["full"] = cvFutx["full"]
          BY <1>5, <2>1, <3>2, <3>4, <4>2 DEF Sleepers, CvConds, AtEnd
        <5>2. CvSleeps(u)
          BY <3>4, <5>1 DEF CvSleeps, CvAt
        <5> QED
          BY <1>4, <5>1, <5>2
      <4> QED
        BY <4>1, <4>2
    <3> QED
      BY <1>1, <2>1, <3>1, <3>2, <3>3, <3>4
  <2>3. CASE ~empty(cvUser)
    <3>1. cvUser' = pop(cvUser) /\ IF full(cvUser) THEN CondSignal(t, "full") ELSE CvGo(t, "out") /\ UNCHANGED cvFutx
      BY <1>11, <2>3 DEF popWait
    <3>2. Ring(cvUser')
      BY <1>1, <2>3, <3>1, RingPop
    <3>3. CASE full(cvUser)
      <4>1. \A u, v \in CvAsleep("full") : u = v
        BY <1>5 DEF CvAsleep, Sleepers, AtEnd
      <4>2. /\ cvPc' \in PcOf(cvCfg.kind) /\ cvFutx' \in [CvConds -> {0, 1}]
            /\ cvPc'[t].at = "out"
            /\ \A u \in CvThreads \ {t} :
                 \/ cvPc'[u] = cvPc[u]
                 \/ u \in CvAsleep("full") /\ cvPc'[u].at = "woken" /\ cvPc'[u].on = "full"
            /\ \A u \in CvThreads : ~(cvPc'[u].at = "asleep" /\ cvPc'[u].on = "full")
            /\ cvFutx'["full"] = 1
        BY <1>1, <1>2, <3>1, <3>3, <4>1, SignalIs DEF Sleepers, CvConds
      <4>3. \A u \in CvThreads : cvPc'[u].at \in Sleepers => u = 2 /\ cvPc'[u].on = "full"
        <5>1. SUFFICES ASSUME NEW u \in CvThreads, cvPc'[u].at \in Sleepers
                       PROVE  u = 2 /\ cvPc'[u].on = "full"
          OBVIOUS
        <5>2. u # t
          BY <4>2, <5>1 DEF Sleepers
        <5>3. CASE cvPc'[u] = cvPc[u]
          BY <1>5, <2>1, <5>1, <5>2, <5>3 DEF AtEnd
        <5>4. CASE u \in CvAsleep("full") /\ cvPc'[u].on = "full"
          <6>1. cvPc[u].at = "asleep" /\ cvPc[u].on = "full"
            BY <5>4 DEF CvAsleep
          <6> QED
            BY <1>5, <5>4, <6>1 DEF AtEnd, Sleepers
        <5> QED
          BY <4>2, <5>2, <5>3, <5>4
      <4>4. \A u \in CvThreads :
              ~(cvPc'[u].at = "asleep" \/ (cvPc'[u].at = "armed" /\ cvFutx'[cvPc'[u].on] = 0))
        BY <4>2, <4>3 DEF Sleepers
      <4> QED
        BY <2>1, <3>2, <4>2, <4>3, <4>4 DEF AtEnd
    <3>4. CASE ~full(cvUser)
      <4>1. /\ cvPc' \in PcOf(cvCfg.kind) /\ cvFutx' = cvFutx /\ cvPc'[t].at = "out"
            /\ \A u \in CvThreads \ {t} : cvPc'[u] = cvPc[u]
        BY <1>1, <1>2, <3>1, <3>4, GoIs
      <4>2. \A u \in CvThreads : cvPc'[u].at \in Sleepers => u # t /\ u = 2 /\ cvPc'[u].on = "full"
        BY <1>5, <2>1, <4>1 DEF Sleepers, AtEnd
      <4>3. ASSUME NEW u \in CvThreads,
                   cvPc'[u].at = "asleep" \/ (cvPc'[u].at = "armed" /\ cvFutx'[cvPc'[u].on] = 0)
            PROVE  FALSE
        <5>1. cvPc'[u].at \in Sleepers
          BY <4>3 DEF Sleepers
        <5>2. cvPc'[u] = cvPc[u] /\ cvPc[u].on = "full"
          BY <4>1, <4>2, <5>1
        <5>3. CvSleeps(u)
          BY <4>1, <4>3, <5>2 DEF CvSleeps, CvAt
        <5> QED
          BY <1>4, <3>4, <5>2, <5>3
      <4> QED
        BY <1>1, <2>1, <3>2, <4>1, <4>2, <4>3 DEF CvTypeOK, AtEnd
    <3> QED
      BY <3>3, <3>4
  <2> QED
    BY <2>2, <2>3
<1> QED
  BY <1>7, <1>8, <1>9, <1>10, <1>11

-----------------------------------------------------------------------------
(***************************************************************************)
(* The inbox of a node.                                                    *)
(***************************************************************************)
LEMMA NodeStep ==
  ASSUME CvInv, cvCfg.kind = "node", CvNext
  PROVE  CvInv'
<1>1. /\ CvTypeOK /\ cvUser \in [queued : Nat, sent : Nat] /\ InboxServed /\ 1 \in CvThreads
      /\ \A u \in CvThreads : cvPc[u].on = "cond" /\ (cvPc[u].at \in Sleepers => u = 1)
  BY CfgFacts DEF CvInv, NodeInv, Inside
<1>2. PlacesOf(cvCfg.kind) = Sleepers \union {"out", "broadcast"}
  BY DEF PlacesOf, Places, Sleepers
<1>3. CvSleeps(1) /\ cvUser.queued > 0 => \E u \in CvThreads : cvPc[u].at = "broadcast"
  BY <1>1 DEF InboxServed, CvBroadcasting, CvAt
<1> DEFINE After ==
             /\ cvCfg' = cvCfg /\ cvFutx' \in [CvConds -> {0, 1}] /\ cvPc' \in PcOf(cvCfg.kind)
             /\ cvUser' \in [queued : Nat, sent : Nat]
             /\ \A u \in CvThreads : cvPc'[u].on = "cond" /\ (cvPc'[u].at \in Sleepers => u = 1)
             /\ (cvPc'[1].at = "asleep" \/ (cvPc'[1].at = "armed" /\ cvFutx'["cond"] = 0)) /\ cvUser'.queued > 0
                => \E u \in CvThreads : cvPc'[u].at = "broadcast"
<1>4. SUFFICES After
  <2>1. CvTypeOK' /\ CvThreads' = CvThreads
    BY <1>1, <1>4, TypeKept
  <2>2. InboxServed'
    BY <1>1, <1>4, <2>1 DEF InboxServed, CvBroadcasting, CvAt, CvSleeps
  <2>3. NodeInv'
    BY <1>4, <2>1, <2>2 DEF NodeInv, Inside
  <2> QED
    BY <1>4, <2>1, <2>3 DEF CvInv
<1>5. CASE nodeRecv
  <2>1. cvCfg' = cvCfg
    BY <1>5 DEF nodeRecv
  <2>2. CASE cvUser.queued > 0
    <3>1. cvUser' = [cvUser EXCEPT !.queued = @ - 1] /\ CvGo(1, "out") /\ cvFutx' = cvFutx
      BY <1>5, <2>2 DEF nodeRecv
    <3>2. cvUser' \in [queued : Nat, sent : Nat]
      BY <1>1, <2>2, <3>1
    <3>3. /\ cvPc' \in PcOf(cvCfg.kind) /\ cvPc'[1].at = "out" /\ cvPc'[1].on = cvPc[1].on
          /\ \A u \in CvThreads \ {1} : cvPc'[u] = cvPc[u]
      BY <1>1, <1>2, <3>1, GoIs
    <3>4. \A u \in CvThreads : cvPc'[u].on = "cond" /\ (cvPc'[u].at \in Sleepers => u = 1)
      BY <1>1, <3>3
    <3> QED
      BY <1>1, <2>1, <3>1, <3>2, <3>3, <3>4 DEF CvTypeOK
  <2>3. CASE ~(cvUser.queued > 0)
    <3>1. CondWait(1, "cond") /\ cvUser' = cvUser
      BY <1>5, <2>3 DEF nodeRecv
    <3>2. /\ cvPc' \in PcOf(cvCfg.kind) /\ cvFutx' \in [CvConds -> {0, 1}] /\ cvPc'[1].on = "cond"
          /\ \A u \in CvThreads \ {1} : cvPc'[u] = cvPc[u]
      BY <1>1, <1>2, <3>1, WaitIs DEF Sleepers, CvConds
    <3>3. \A u \in CvThreads : cvPc'[u].on = "cond" /\ (cvPc'[u].at \in Sleepers => u = 1)
      BY <1>1, <3>2
    <3> QED
      BY <1>1, <2>1, <2>3, <3>1, <3>2, <3>3
  <2> QED
    BY <2>2, <2>3
<1>6. ASSUME NEW t \in CvThreads, nodeSend(t)
      PROVE  After
  <2>1. /\ t # 1 /\ cvPc[t].at = "out" /\ CvGo(t, "broadcast") /\ cvFutx' = cvFutx /\ cvCfg' = cvCfg
        /\ cvUser' = [queued |-> cvUser.queued + 1, sent |-> cvUser.sent + 1]
    BY <1>6 DEF nodeSend, CvAt
  <2>2. /\ cvPc' \in PcOf(cvCfg.kind) /\ cvPc'[t].at = "broadcast" /\ cvPc'[t].on = cvPc[t].on
        /\ \A u \in CvThreads \ {t} : cvPc'[u] = cvPc[u]
    BY <1>1, <1>2, <2>1, GoIs
  <2>3. \A u \in CvThreads : cvPc'[u].on = "cond" /\ (cvPc'[u].at \in Sleepers => u = 1)
    BY <1>1, <2>2 DEF Sleepers
  <2>4. cvUser' \in [queued : Nat, sent : Nat]
    BY <1>1, <2>1
  <2> QED
    BY <1>1, <2>1, <2>2, <2>3, <2>4 DEF CvTypeOK
<1>7. ASSUME NEW t \in CvThreads, CondBroadcast(t)
      PROVE  After
  <2>1. /\ cvPc' \in PcOf(cvCfg.kind) /\ cvFutx' \in [CvConds -> {0, 1}] /\ cvFutx'["cond"] = 1
        /\ cvPc'[t] = CvOut
        /\ \A u \in CvThreads \ {t} :
             /\ cvPc'[u].on = "cond"
             /\ cvPc'[u].at = IF cvPc[u].at = "asleep" THEN "woken" ELSE cvPc[u].at
    BY <1>1, <1>2, <1>7, BroadcastIs DEF Sleepers
  <2>2. cvPc'[t].on = "cond" /\ cvPc'[t].at = "out"
    BY <2>1 DEF CvOut
  <2>3. \A u \in CvThreads : cvPc'[u].on = "cond" /\ (cvPc'[u].at \in Sleepers => u = 1)
    BY <1>1, <2>1, <2>2 DEF Sleepers
  <2>4. ~(cvPc'[1].at = "asleep" \/ (cvPc'[1].at = "armed" /\ cvFutx'["cond"] = 0))
    BY <1>1, <2>1, <2>2
  <2>5. cvCfg' = cvCfg /\ cvUser' = cvUser
    BY <1>7 DEF CondBroadcast
  <2> QED
    BY <1>1, <2>1, <2>3, <2>4, <2>5
<1>8. ASSUME NEW t \in CvThreads, CondSleep(t)
      PROVE  After
  <2>1. /\ cvPc' \in PcOf(cvCfg.kind) /\ cvCfg' = cvCfg /\ cvFutx' = cvFutx /\ cvUser' = cvUser
        /\ cvPc[t].at = "armed" /\ cvPc'[t].on = cvPc[t].on
        /\ cvPc'[t].at = IF cvFutx[cvPc[t].on] = 0 THEN "asleep" ELSE "woken"
        /\ \A u \in CvThreads \ {t} : cvPc'[u] = cvPc[u]
    BY <1>1, <1>2, <1>8, SleepIs DEF Sleepers
  <2>2. \A u \in CvThreads : cvPc'[u].on = "cond" /\ (cvPc'[u].at \in Sleepers => u = 1)
    BY <1>1, <2>1 DEF Sleepers
  <2>3. cvPc'[1].at = "asleep" \/ (cvPc'[1].at = "armed" /\ cvFutx["cond"] = 0) => CvSleeps(1)
    BY <1>1, <2>1 DEF CvSleeps, CvAt
  <2>4. \A u \in CvThreads : cvPc[u].at = "broadcast" => cvPc'[u].at = "broadcast"
    BY <2>1
  <2> QED
    BY <1>1, <1>3, <2>1, <2>2, <2>3, <2>4 DEF CvTypeOK
<1>9. ASSUME NEW t \in CvThreads, CondInterrupted(t)
      PROVE  After
  <2>1. /\ cvPc' \in PcOf(cvCfg.kind) /\ cvCfg' = cvCfg /\ cvFutx' = cvFutx /\ cvUser' = cvUser
        /\ cvPc[t].at = "asleep" /\ cvPc'[t].on = cvPc[t].on /\ cvPc'[t].at = "woken"
        /\ \A u \in CvThreads \ {t} : cvPc'[u] = cvPc[u]
    BY <1>1, <1>2, <1>9, GoIs DEF Sleepers, CondInterrupted, CvAt
  <2>2. \A u \in CvThreads : cvPc'[u].on = "cond" /\ (cvPc'[u].at \in Sleepers => u = 1)
    BY <1>1, <2>1 DEF Sleepers
  <2>3. cvPc'[1].at = "asleep" \/ (cvPc'[1].at = "armed" /\ cvFutx["cond"] = 0) => CvSleeps(1)
    BY <1>1, <2>1 DEF CvSleeps, CvAt
  <2>4. \A u \in CvThreads : cvPc[u].at = "broadcast" => cvPc'[u].at = "broadcast"
    BY <2>1
  <2> QED
    BY <1>1, <1>3, <2>1, <2>2, <2>3, <2>4 DEF CvTypeOK
<1>10. \A u \in CvThreads : cvPc[u].at # "entering"
  <2>1. \A u \in CvThreads : cvPc[u].at \in Sleepers \union {"out", "broadcast"}
    BY <1>1, <1>2 DEF CvTypeOK
  <2> QED
    BY <2>1 DEF Sleepers
<1>11. nodeRecv \/ \E t \in CvThreads : CondSleep(t) \/ CondInterrupted(t) \/ CondBroadcast(t) \/ nodeSend(t)
  BY <1>10 DEF CvNext, BarrierEnter, BarrierArrive, BarrierLeave, pushWait, popWait, pushCircular, CvAt
<1> QED
  BY <1>5, <1>6, <1>7, <1>8, <1>9, <1>11

-----------------------------------------------------------------------------
(***************************************************************************)
(* The barrier.                                                            *)
(***************************************************************************)
LEMMA Counting ==
  ASSUME NEW N \in Nat, NEW S \in SUBSET (1 .. N)
  PROVE  /\ Cardinality(S) \in Nat /\ Cardinality(S) <= N
         /\ Cardinality(S) = 0 <=> S = {}
         /\ \A t \in S : Cardinality(S \ {t}) = Cardinality(S) - 1
         /\ \A t \in (1 .. N) \ S :
              /\ Cardinality(S \union {t}) = Cardinality(S) + 1
              /\ Cardinality(S) <= N - 1
              /\ Cardinality(S) = N - 1 => S = (1 .. N) \ {t}
<1>1. IsFiniteSet(1 .. N) /\ Cardinality(1 .. N) = N
  BY FS_Interval
<1>2. IsFiniteSet(S) /\ Cardinality(S) <= N
  BY <1>1, FS_Subset
<1>3. Cardinality(S) \in Nat
  BY <1>2, FS_CardinalityType
<1>4. Cardinality(S) = 0 <=> S = {}
  BY <1>2, FS_EmptySet
<1>5. \A t \in S : Cardinality(S \ {t}) = Cardinality(S) - 1
  BY <1>2, FS_RemoveElement
<1>6. ASSUME NEW t \in (1 .. N) \ S
      PROVE  /\ Cardinality(S \union {t}) = Cardinality(S) + 1
             /\ Cardinality(S) <= N - 1
             /\ Cardinality(S) = N - 1 => S = (1 .. N) \ {t}
  <2>1. Cardinality(S \union {t}) = Cardinality(S) + 1
    BY <1>2, <1>6, FS_AddElement
  <2>2. IsFiniteSet((1 .. N) \ {t}) /\ Cardinality((1 .. N) \ {t}) = N - 1
    BY <1>1, FS_RemoveElement
  <2>3. PICK B : B = (1 .. N) \ {t}
    OBVIOUS
  <2>4. IsFiniteSet(B) /\ S \in SUBSET B /\ Cardinality(B) = N - 1
    BY <2>2, <2>3
  <2>5. Cardinality(S) <= Cardinality(B) /\ (Cardinality(B) = Cardinality(S) => B = S)
    BY <2>4, FS_Subset
  <2> QED
    BY <2>1, <2>3, <2>4, <2>5
<1> QED
  BY <1>2, <1>3, <1>4, <1>5, <1>6

\* What the lemmas on the steps of the barrier start from.
BarrierState == CvTypeOK /\ cvCfg.kind = "barrier" /\ BarrierInv

LEMMA BarrierFacts ==
  ASSUME BarrierState
  PROVE  /\ PlacesOf(cvCfg.kind) = Places /\ cvCfg.threads \in Nat \ {0} /\ CvThreads = 1 .. cvCfg.threads
         /\ Inside \in SUBSET (1 .. cvCfg.threads)
         /\ cvPc \in [CvThreads -> [at : Places, on : CvConds]]
         /\ \A t \in CvThreads : cvPc[t].on = "cond"
         /\ cvUser.arrived \in Nat /\ cvUser.leaving \in Nat
         /\ cvUser.arrived < cvCfg.threads /\ cvUser.leaving < cvCfg.threads
         /\ cvUser.came \in [CvThreads -> Nat] /\ cvUser.left \in [CvThreads -> Nat]
<1>1. PlacesOf(cvCfg.kind) = Places
  BY DEF BarrierState, PlacesOf
<1>2. cvCfg.threads \in Nat \ {0} /\ CvThreads = 1 .. cvCfg.threads
  BY CfgFacts DEF BarrierState, CvThreads
<1>3. Inside \in SUBSET (1 .. cvCfg.threads)
  BY <1>2 DEF Inside
<1> QED
  BY <1>1, <1>2, <1>3 DEF BarrierState, BarrierInv, BarrierTypeOK, CvTypeOK

LEMMA InsideCounts ==
  ASSUME BarrierState
  PROVE  /\ \A S \in SUBSET Inside : Cardinality(S) = 0 <=> S = {}
         /\ \A t \in Inside : Cardinality(Inside \ {t}) = Cardinality(Inside) - 1
         /\ \A t \in CvThreads \ Inside :
              /\ Cardinality(Inside \union {t}) = Cardinality(Inside) + 1
              /\ Cardinality(Inside) = cvCfg.threads - 1 => Inside = CvThreads \ {t}
<1>1. PICK N \in Nat : N = cvCfg.threads /\ CvThreads = 1 .. N
  BY BarrierFacts
<1>2. PICK I \in SUBSET (1 .. N) : I = Inside
  BY <1>1, BarrierFacts
<1>3. \A S \in SUBSET I : Cardinality(S) = 0 <=> S = {}
  <2>1. \A S \in SUBSET I : S \in SUBSET (1 .. N)
    OBVIOUS
  <2> QED
    BY <2>1, Counting
<1>4. \A t \in I : Cardinality(I \ {t}) = Cardinality(I) - 1
  BY Counting
<1>5. ASSUME NEW t \in (1 .. N) \ I
      PROVE  /\ Cardinality(I \union {t}) = Cardinality(I) + 1
             /\ Cardinality(I) = N - 1 => I = (1 .. N) \ {t}
  BY <1>5, Counting
<1> QED
  BY <1>2, <1>3, <1>4, <1>1, <1>5

\* Only a broadcast comes between, and it wakes nobody who has not been counted.
LEMMA BarrierSleep ==
  ASSUME BarrierState, NEW t \in CvThreads, CondSleep(t)
  PROVE  CvTypeOK' /\ BarrierInv'
<1>1. /\ cvPc' \in PcOf(cvCfg.kind) /\ cvCfg' = cvCfg /\ cvFutx' = cvFutx /\ cvUser' = cvUser
      /\ cvPc[t].at = "armed" /\ cvPc'[t].on = cvPc[t].on
      /\ cvPc'[t].at = IF cvFutx[cvPc[t].on] = 0 THEN "asleep" ELSE "woken"
      /\ \A u \in CvThreads \ {t} : cvPc'[u] = cvPc[u]
  BY BarrierFacts, SleepIs DEF BarrierState, Places, Sleepers
<1>2. CvTypeOK' /\ CvThreads' = CvThreads
  BY <1>1, TypeKept DEF BarrierState, CvTypeOK
<1>3. Inside' = Inside /\ t \in Inside
  BY <1>1, <1>2 DEF Inside, Sleepers
<1>4. cvPc[t].on = "cond"
  BY BarrierFacts
<1>5. AllSleep => AllSleep'
  <2>1. SUFFICES ASSUME AllSleep PROVE AllSleep'
    OBVIOUS
  <2>2. cvFutx["cond"] = 0
    BY <1>3, <2>1 DEF AllSleep
  <2>3. cvPc'[t].at = "asleep"
    BY <1>1, <1>4, <2>2
  <2> QED
    BY <1>1, <1>3, <2>1, <2>3 DEF AllSleep, Inside
<1>6. \A u \in CvThreads : /\ CvAt(u, "broadcast")' <=> CvAt(u, "broadcast")
                           /\ CvAt(u, "entering")' <=> CvAt(u, "entering")
  BY <1>1 DEF CvAt
<1>7. BarrierTypeOK'
  BY <1>1, <1>2 DEF BarrierState, BarrierInv, BarrierTypeOK
<1>8. Coming'
  BY <1>1, <1>3, <1>5 DEF BarrierState, BarrierInv, Coming
<1>9. Leaving'
  <2>1. SUFFICES ASSUME cvUser.leaving > 0
                 PROVE  /\ cvUser.arrived = 0 /\ Cardinality(Inside) = cvUser.leaving
                        /\ \A u \in CvThreads : ~CvAt(u, "entering")
                        /\ ~CvBroadcasting => cvFutx["cond"] = 1 /\ \A u \in CvThreads : ~CvAt(u, "asleep")'
    BY <1>1, <1>2, <1>3, <1>6 DEF Leaving, CvBroadcasting
  <2>2. /\ cvUser.arrived = 0 /\ Cardinality(Inside) = cvUser.leaving
        /\ \A u \in CvThreads : ~CvAt(u, "entering")
        /\ ~CvBroadcasting => cvFutx["cond"] = 1 /\ \A u \in CvThreads : ~CvAt(u, "asleep")
    BY <2>1 DEF BarrierState, BarrierInv, Leaving
  <2>3. ASSUME cvFutx["cond"] = 1, \A u \in CvThreads : ~CvAt(u, "asleep")
        PROVE  \A u \in CvThreads : ~CvAt(u, "asleep")'
    BY <1>1, <1>4, <2>3 DEF CvAt
  <2> QED
    BY <2>2, <2>3
<1>10. OneLast'
  BY <1>1, <1>2, <1>5, <1>6 DEF BarrierState, BarrierInv, OneLast
<1>11. Rounds'
  BY <1>1, <1>2, <1>3 DEF BarrierState, BarrierInv, Rounds
<1> QED
  BY <1>2, <1>7, <1>8, <1>9, <1>10, <1>11 DEF BarrierInv

\* The last one wakes all those up who have gone to sleep before.
LEMMA BarrierBroadcasts ==
  ASSUME BarrierState, NEW t \in CvThreads, CondBroadcast(t)
  PROVE  CvTypeOK' /\ BarrierInv'
<1>1. /\ cvPc' \in PcOf(cvCfg.kind) /\ cvFutx' \in [CvConds -> {0, 1}] /\ cvFutx'["cond"] = 1
      /\ cvPc'[t] = CvOut
      /\ \A u \in CvThreads \ {t} :
           /\ cvPc'[u].on = "cond"
           /\ cvPc'[u].at = IF cvPc[u].at = "asleep" THEN "woken" ELSE cvPc[u].at
  BY BarrierFacts, BroadcastIs DEF BarrierState, Places, Sleepers
<1>2. cvCfg' = cvCfg /\ cvUser' = cvUser /\ CvAt(t, "broadcast")
  BY DEF CondBroadcast
<1>3. CvTypeOK' /\ CvThreads' = CvThreads
  BY <1>1, <1>2, TypeKept DEF BarrierState
<1>4. cvPc'[t].at = "out" /\ cvPc'[t].on = "cond"
  BY <1>1 DEF CvOut
<1>5. Inside' = Inside /\ t \notin Inside
  BY <1>1, <1>2, <1>3, <1>4 DEF Inside, Sleepers, CvAt
<1>6. \A u \in CvThreads : ~CvAt(u, "broadcast")' /\ ~CvAt(u, "asleep")'
  BY <1>1, <1>2, <1>4 DEF BarrierState, BarrierInv, OneLast, CvAt
<1>7. BarrierTypeOK'
  BY <1>1, <1>2, <1>3, <1>4 DEF BarrierState, BarrierInv, BarrierTypeOK
<1>8. Coming'
  <2>1. SUFFICES ASSUME cvUser.leaving = 0 PROVE cvUser.arrived = Cardinality(Inside) /\ AllSleep'
    BY <1>2, <1>5 DEF Coming
  <2>2. cvUser.arrived = Cardinality(Inside) /\ cvUser.leaving = cvCfg.threads - 1
    BY <1>2, <2>1 DEF BarrierState, BarrierInv, Coming, OneLast
  <2>3. Cardinality(Inside) = 0
    BY <2>1, <2>2, BarrierFacts
  <2>4. Inside = {}
    BY <2>3, BarrierFacts, Counting
  <2> QED
    BY <1>5, <2>2, <2>4 DEF AllSleep
<1>9. Leaving'
  <2>1. \A u \in CvThreads : CvAt(u, "entering")' => CvAt(u, "entering")
    BY <1>1, <1>4 DEF CvAt
  <2> QED
    BY <1>1, <1>2, <1>3, <1>5, <1>6, <2>1 DEF BarrierState, BarrierInv, Leaving
<1>10. OneLast'
  BY <1>3, <1>6 DEF OneLast
<1>11. Rounds'
  BY <1>2, <1>3, <1>5 DEF BarrierState, BarrierInv, Rounds
<1> QED
  BY <1>3, <1>7, <1>8, <1>9, <1>10, <1>11 DEF BarrierInv

\* m_leaving keeps a thread out until the last one of the round has left.
LEMMA BarrierEnters ==
  ASSUME BarrierState, NEW t \in CvThreads, BarrierEnter(t)
  PROVE  CvTypeOK' /\ BarrierInv'
<1>1. /\ CvGo(t, "entering") /\ cvCfg' = cvCfg /\ cvFutx' = cvFutx /\ cvUser' = cvUser
      /\ cvPc[t].at = "out" /\ cvUser.leaving = 0
  BY BarrierFacts DEF BarrierEnter, CvAt
<1>2. /\ cvPc' \in PcOf(cvCfg.kind) /\ cvPc'[t].at = "entering" /\ cvPc'[t].on = cvPc[t].on
      /\ \A u \in CvThreads \ {t} : cvPc'[u] = cvPc[u]
  BY <1>1, BarrierFacts, GoIs DEF BarrierState, Places
<1>3. CvTypeOK' /\ CvThreads' = CvThreads
  BY <1>1, <1>2, TypeKept DEF BarrierState, CvTypeOK
<1>4. Inside' = Inside /\ t \notin Inside
  BY <1>1, <1>2, <1>3 DEF Inside, Sleepers
<1>5. AllSleep' <=> AllSleep
  BY <1>1, <1>2, <1>4 DEF AllSleep, Inside
<1>6. \A u \in CvThreads : CvAt(u, "broadcast")' <=> CvAt(u, "broadcast")
  BY <1>1, <1>2 DEF CvAt
<1>7. BarrierTypeOK'
  BY <1>1, <1>2, <1>3 DEF BarrierState, BarrierInv, BarrierTypeOK
<1>8. Coming'
  BY <1>1, <1>4, <1>5 DEF BarrierState, BarrierInv, Coming
<1>9. Leaving'
  BY <1>1 DEF Leaving
<1>10. OneLast'
  BY <1>1, <1>3, <1>5, <1>6 DEF BarrierState, BarrierInv, OneLast
<1>11. Rounds'
  BY <1>1, <1>3, <1>4 DEF BarrierState, BarrierInv, Rounds
<1> QED
  BY <1>3, <1>7, <1>8, <1>9, <1>10, <1>11 DEF BarrierInv

\* One more comes; when it is the last one, everybody else is inside.
LEMMA BarrierArrives ==
  ASSUME BarrierState, NEW t \in CvThreads, BarrierArrive(t)
  PROVE  CvTypeOK' /\ BarrierInv'
<1>1. cvCfg' = cvCfg /\ cvPc[t].at = "entering" /\ CvAt(t, "entering")
  BY DEF BarrierArrive, CvAt
<1>2. cvUser.leaving = 0 /\ cvUser.arrived = Cardinality(Inside) /\ AllSleep
  <2>1. cvUser.leaving = 0
    BY <1>1, BarrierFacts DEF BarrierState, BarrierInv, Leaving
  <2> QED
    BY <2>1 DEF BarrierState, BarrierInv, Coming
<1>3. t \in CvThreads \ Inside
  BY <1>1, BarrierFacts DEF Inside, Sleepers
<1>4. PICK r \in Nat : \A u \in CvThreads : cvUser.left[u] = r /\ cvUser.came[u] = (IF u \in Inside THEN r + 1 ELSE r)
  BY <1>2 DEF BarrierState, BarrierInv, Rounds
<1>5. /\ cvUser \in [arrived : Nat, leaving : Nat, came : [CvThreads -> Nat], left : [CvThreads -> Nat]]
      /\ CvThreads' = CvThreads
  BY <1>1 DEF BarrierState, BarrierInv, BarrierTypeOK, CvThreads
<1>6. PICK a \in Nat, l \in Nat, c \in [CvThreads -> Nat], f \in [CvThreads -> Nat] :
        cvUser = [arrived |-> a, leaving |-> l, came |-> c, left |-> f]
  BY <1>5
<1>7. CASE cvUser.arrived + 1 # cvCfg.threads
  <2>1. /\ CondWait(t, "cond")
        /\ cvUser' = [cvUser EXCEPT !.came[t] = @ + 1, !.arrived = @ + 1]
    BY <1>7 DEF BarrierArrive
  <2>2. /\ cvPc' \in PcOf(cvCfg.kind) /\ cvFutx' \in [CvConds -> {0, 1}]
        /\ cvPc'[t].at = "armed" /\ cvPc'[t].on = "cond"
        /\ \A u \in CvThreads \ {t} : cvPc'[u] = cvPc[u]
        /\ cvFutx'["cond"] = 0
    BY <2>1, BarrierFacts, WaitIs DEF BarrierState, Places, Sleepers, CvConds
  <2>3. CvTypeOK'
    BY <1>1, <2>2, TypeKept DEF BarrierState
  <2>4. Inside' = Inside \union {t}
    BY <1>5, <2>2 DEF Inside, Sleepers
  <2>5. /\ cvUser'.arrived = cvUser.arrived + 1 /\ cvUser'.leaving = 0 /\ cvUser'.left = cvUser.left
        /\ cvUser'.came = [cvUser.came EXCEPT ![t] = @ + 1]
        /\ cvUser' \in [arrived : Nat, leaving : Nat, came : [CvThreads -> Nat], left : [CvThreads -> Nat]]
    <3>1. cvUser' = [arrived |-> a + 1, leaving |-> l, came |-> [c EXCEPT ![t] = @ + 1], left |-> f]
      BY <1>6, <2>1
    <3>2. [c EXCEPT ![t] = @ + 1] \in [CvThreads -> Nat] /\ a + 1 \in Nat /\ l = 0
      BY <1>2, <1>6
    <3> QED
      BY <1>6, <3>1, <3>2
  <2>6. AllSleep'
    BY <1>2, <2>2, <2>4 DEF AllSleep, Inside
  <2>7. BarrierTypeOK'
    <3>1. cvUser'.arrived < cvCfg.threads /\ cvUser'.leaving < cvCfg.threads
      BY <1>7, <2>5, BarrierFacts
    <3>2. \A u \in CvThreads : cvPc'[u].on = "cond"
      BY <2>2, BarrierFacts
    <3> QED
      BY <1>1, <1>5, <2>5, <3>1, <3>2 DEF BarrierTypeOK
  <2>8. Coming'
    <3>1. Cardinality(Inside \union {t}) = Cardinality(Inside) + 1
      BY <1>3, InsideCounts
    <3> QED
      BY <1>2, <2>4, <2>5, <2>6, <3>1 DEF Coming
  <2>9. Leaving'
    BY <2>5 DEF Leaving
  <2>10. OneLast'
    <3>1. \A u \in CvThreads : CvAt(u, "broadcast")' => CvAt(u, "broadcast")
      BY <2>2 DEF CvAt
    <3> QED
      BY <1>1, <1>2, <1>5, <2>5, <2>6, <3>1 DEF BarrierState, BarrierInv, OneLast
  <2>11. Rounds'
    <3>1. \A u \in CvThreads : cvUser'.left[u] = r /\ cvUser'.came[u] = (IF u \in Inside' THEN r + 1 ELSE r)
      BY <1>3, <1>4, <1>5, <2>4, <2>5
    <3> QED
      BY <1>5, <2>5, <3>1 DEF Rounds
  <2> QED
    BY <2>3, <2>7, <2>8, <2>9, <2>10, <2>11 DEF BarrierInv
<1>8. CASE cvUser.arrived + 1 = cvCfg.threads
  <2>1. /\ CvGo(t, "broadcast") /\ cvFutx' = cvFutx
        /\ cvUser' = [cvUser EXCEPT !.came[t] = @ + 1, !.arrived = 0, !.leaving = cvCfg.threads - 1, !.left[t] = @ + 1]
    BY <1>8 DEF BarrierArrive
  <2>2. /\ cvPc' \in PcOf(cvCfg.kind)
        /\ cvPc'[t].at = "broadcast" /\ cvPc'[t].on = cvPc[t].on
        /\ \A u \in CvThreads \ {t} : cvPc'[u] = cvPc[u]
    BY <2>1, BarrierFacts, GoIs DEF BarrierState, Places
  <2>3. CvTypeOK'
    BY <1>1, <2>1, <2>2, TypeKept DEF BarrierState, CvTypeOK
  <2>4. Inside' = Inside
    BY <1>1, <1>5, <2>2 DEF Inside, Sleepers
  <2>5. cvUser.arrived = cvCfg.threads - 1 /\ cvCfg.threads - 1 \in Nat
    BY <1>8, BarrierFacts
  <2>6. /\ cvUser'.arrived = 0 /\ cvUser'.leaving = cvCfg.threads - 1
        /\ cvUser'.came = [cvUser.came EXCEPT ![t] = @ + 1] /\ cvUser'.left = [cvUser.left EXCEPT ![t] = @ + 1]
        /\ cvUser' \in [arrived : Nat, leaving : Nat, came : [CvThreads -> Nat], left : [CvThreads -> Nat]]
    <3>1. cvUser' = [arrived |-> 0, leaving |-> cvCfg.threads - 1,
                     came |-> [c EXCEPT ![t] = @ + 1], left |-> [f EXCEPT ![t] = @ + 1]]
      BY <1>6, <2>1
    <3>2. [c EXCEPT ![t] = @ + 1] \in [CvThreads -> Nat] /\ [f EXCEPT ![t] = @ + 1] \in [CvThreads -> Nat]
      OBVIOUS
    <3> QED
      BY <1>6, <2>5, <3>1, <3>2
  <2>7. Cardinality(Inside) = cvCfg.threads - 1 /\ Inside = CvThreads \ {t}
    <3>1. Cardinality(Inside) = cvCfg.threads - 1
      BY <1>2, <2>5
    <3> QED
      BY <1>3, <3>1, InsideCounts
  <2>8. AllSleep'
    <3>1. \A u \in Inside : cvPc'[u] = cvPc[u]
      BY <1>3, <2>2, <2>7
    <3> QED
      BY <1>2, <2>1, <2>4, <3>1 DEF AllSleep
  <2>9. \A u \in CvThreads \ {t} : cvPc'[u].at \in Sleepers
    BY <2>2, <2>7 DEF Inside
  <2>10. \A u \in CvThreads : /\ ~CvAt(u, "entering")'
                              /\ CvAt(u, "broadcast")' <=> u = t
    BY <2>2, <2>9 DEF CvAt, Sleepers
  <2>11. BarrierTypeOK'
    <3>1. cvUser'.arrived < cvCfg.threads /\ cvUser'.leaving < cvCfg.threads
      BY <2>6, BarrierFacts
    <3>2. \A u \in CvThreads : cvPc'[u].on = "cond"
      BY <2>2, BarrierFacts
    <3> QED
      BY <1>1, <1>5, <2>6, <3>1, <3>2 DEF BarrierTypeOK
  <2>12. Coming'
    BY <2>4, <2>6, <2>7, <2>8 DEF Coming
  <2>13. Leaving'
    BY <1>5, <2>4, <2>6, <2>7, <2>10 DEF Leaving, CvBroadcasting
  <2>14. OneLast'
    BY <1>1, <1>5, <2>6, <2>8, <2>10 DEF OneLast
  <2>15. Rounds'
    <3>1. cvUser'.came[t] = r + 1 /\ cvUser'.left[t] = r + 1
      BY <1>3, <1>4, <1>5, <2>6
    <3>2. \A u \in CvThreads \ {t} : u \in Inside /\ cvUser'.came[u] = r + 1 /\ cvUser'.left[u] = r
      BY <1>4, <1>5, <2>6, <2>7
    <3>3. cvUser'.leaving = 0 => CvThreads = {t}
      <4>1. SUFFICES ASSUME cvUser'.leaving = 0 PROVE Inside = {}
        BY <2>7
      <4>2. Cardinality(Inside) = 0
        BY <2>6, <2>7, <4>1
      <4> QED
        BY <4>2, BarrierFacts, InsideCounts
    <3>4. \A u \in CvThreads :
            IF cvUser'.leaving = 0
            THEN cvUser'.left[u] = r + 1 /\ cvUser'.came[u] = (IF u \in Inside' THEN r + 1 + 1 ELSE r + 1)
            ELSE cvUser'.came[u] = r + 1 /\ cvUser'.left[u] = (IF u \in Inside' THEN r + 1 - 1 ELSE r + 1)
      BY <1>3, <2>4, <3>1, <3>2, <3>3
    <3> QED
      BY <1>5, <3>4 DEF Rounds
  <2> QED
    BY <2>3, <2>11, <2>12, <2>13, <2>14, <2>15 DEF BarrierInv
<1> QED
  BY <1>7, <1>8

\* Who leaves has been woken, so everybody has come and the broadcast is over.
LEMMA BarrierLeaves ==
  ASSUME BarrierState, NEW t \in CvThreads, BarrierLeave(t)
  PROVE  CvTypeOK' /\ BarrierInv'
<1>1. /\ cvCfg' = cvCfg /\ cvFutx' = cvFutx /\ CvGo(t, "out") /\ cvPc[t].at = "woken"
      /\ cvUser' = [cvUser EXCEPT !.leaving = @ - 1, !.left[t] = @ + 1]
  BY DEF BarrierLeave, CvAt
<1>2. t \in Inside /\ ~AllSleep
  BY <1>1 DEF Inside, Sleepers, AllSleep
<1>3. /\ cvUser.leaving > 0 /\ cvUser.arrived = 0 /\ Cardinality(Inside) = cvUser.leaving
      /\ \A u \in CvThreads : ~CvAt(u, "entering")
      /\ \A u \in CvThreads : ~CvAt(u, "broadcast")
      /\ cvFutx["cond"] = 1 /\ \A u \in CvThreads : ~CvAt(u, "asleep")
  <2>1. cvUser.leaving > 0
    BY <1>2, BarrierFacts DEF BarrierState, BarrierInv, Coming
  <2>2. \A u \in CvThreads : ~CvAt(u, "broadcast")
    BY <1>2 DEF BarrierState, BarrierInv, OneLast
  <2> QED
    BY <2>1, <2>2 DEF BarrierState, BarrierInv, Leaving, CvBroadcasting
<1>4. /\ cvPc' \in PcOf(cvCfg.kind) /\ cvPc'[t].at = "out" /\ cvPc'[t].on = cvPc[t].on
      /\ \A u \in CvThreads \ {t} : cvPc'[u] = cvPc[u]
  BY <1>1, BarrierFacts, GoIs DEF BarrierState, Places
<1>5. CvTypeOK' /\ CvThreads' = CvThreads
  BY <1>1, <1>4, TypeKept DEF BarrierState, CvTypeOK
<1>6. Inside' = Inside \ {t}
  BY <1>4, <1>5 DEF Inside, Sleepers
<1>7. PICK r \in Nat : \A u \in CvThreads : cvUser.came[u] = r /\ cvUser.left[u] = (IF u \in Inside THEN r - 1 ELSE r)
  BY <1>3 DEF BarrierState, BarrierInv, Rounds
<1>8. cvUser \in [arrived : Nat, leaving : Nat, came : [CvThreads -> Nat], left : [CvThreads -> Nat]]
  BY DEF BarrierState, BarrierInv, BarrierTypeOK
<1>9. /\ cvUser'.arrived = 0 /\ cvUser'.leaving = cvUser.leaving - 1
      /\ cvUser'.came = cvUser.came /\ cvUser'.left = [cvUser.left EXCEPT ![t] = @ + 1]
      /\ cvUser' \in [arrived : Nat, leaving : Nat, came : [CvThreads -> Nat], left : [CvThreads -> Nat]]
  <2>1. PICK a \in Nat, l \in Nat, c \in [CvThreads -> Nat], f \in [CvThreads -> Nat] :
          cvUser = [arrived |-> a, leaving |-> l, came |-> c, left |-> f]
    BY <1>8
  <2>2. cvUser' = [arrived |-> a, leaving |-> l - 1, came |-> c, left |-> [f EXCEPT ![t] = @ + 1]]
    BY <1>1, <2>1
  <2>3. [f EXCEPT ![t] = @ + 1] \in [CvThreads -> Nat] /\ l - 1 \in Nat /\ a = 0
    BY <1>3, <2>1
  <2> QED
    BY <2>1, <2>2, <2>3
<1>10. Cardinality(Inside \ {t}) = cvUser.leaving - 1
  BY <1>2, <1>3, BarrierFacts, InsideCounts
<1>11. \A u \in CvThreads : ~CvAt(u, "entering")' /\ ~CvAt(u, "broadcast")' /\ ~CvAt(u, "asleep")'
  BY <1>3, <1>4 DEF CvAt
<1>12. BarrierTypeOK'
  <2>1. cvUser'.arrived < cvCfg.threads /\ cvUser'.leaving < cvCfg.threads
    BY <1>9, BarrierFacts
  <2>2. \A u \in CvThreads : cvPc'[u].on = "cond"
    BY <1>4, BarrierFacts
  <2> QED
    BY <1>1, <1>5, <1>9, <2>1, <2>2 DEF BarrierTypeOK
<1>13. Coming'
  <2>1. SUFFICES ASSUME cvUser'.leaving = 0 PROVE cvUser'.arrived = Cardinality(Inside') /\ AllSleep'
    BY DEF Coming
  <2>2. Cardinality(Inside \ {t}) = 0 /\ Inside \ {t} \in SUBSET Inside
    BY <1>9, <1>10, <2>1, BarrierFacts
  <2>3. Inside \ {t} = {}
    BY <2>2, BarrierFacts, InsideCounts
  <2> QED
    BY <1>6, <1>9, <2>2, <2>3 DEF AllSleep
<1>14. Leaving'
  BY <1>1, <1>3, <1>5, <1>6, <1>9, <1>10, <1>11 DEF Leaving
<1>15. OneLast'
  BY <1>5, <1>11 DEF OneLast
<1>16. Rounds'
  <2>1. cvUser'.left[t] = r
    BY <1>2, <1>7, <1>8, <1>9
  <2>2. \A u \in CvThreads : cvUser'.came[u] = r /\ cvUser'.left[u] = (IF u \in Inside' THEN r - 1 ELSE r)
    BY <1>6, <1>7, <1>8, <1>9, <2>1
  <2>3. cvUser'.leaving = 0 => Inside' = {}
    <3>1. SUFFICES ASSUME cvUser'.leaving = 0 PROVE Inside \ {t} = {}
      BY <1>6
    <3>2. Cardinality(Inside \ {t}) = 0 /\ Inside \ {t} \in SUBSET Inside
      BY <1>9, <1>10, <3>1, BarrierFacts
    <3> QED
      BY <3>2, BarrierFacts, InsideCounts
  <2> QED
    BY <1>5, <2>2, <2>3 DEF Rounds
<1> QED
  BY <1>5, <1>12, <1>13, <1>14, <1>15, <1>16 DEF BarrierInv

LEMMA BarrierStep ==
  ASSUME CvInv, cvCfg.kind = "barrier", ~cvCfg.signals, CvNext
  PROVE  CvInv'
<1>1. BarrierState
  BY DEF BarrierState, CvInv
<1>2. PICK t \in CvThreads : \/ CondSleep(t) \/ CondBroadcast(t)
                             \/ BarrierEnter(t) \/ BarrierArrive(t) \/ BarrierLeave(t)
  BY DEF CvNext, CondInterrupted, nodeRecv, nodeSend, pushWait, popWait, pushCircular
<1>3. CvTypeOK' /\ BarrierInv'
  BY <1>1, <1>2, BarrierSleep, BarrierBroadcasts, BarrierEnters, BarrierArrives, BarrierLeaves
<1>4. cvCfg' = cvCfg
  BY <1>2 DEF CondSleep, CondBroadcast, BarrierEnter, BarrierArrive, BarrierLeave
<1> QED
  BY <1>3, <1>4 DEF CvInv

-----------------------------------------------------------------------------
(***************************************************************************)
(* The theorem.                                                            *)
(***************************************************************************)
LEMMA CvInvInit ==
  ASSUME CvInit PROVE CvInv
<1>1. cvCfg \in CvConfigs /\ cvFutx = [c \in CvConds |-> 0] /\ cvPc = [t \in CvThreads |-> CvOut]
  BY DEF CvInit
<1>2. CvTypeOK
  <2>1. "out" \in PlacesOf(cvCfg.kind)
    BY <1>1, CvAssumption DEF PlacesOf, Places, Sleepers
  <2>2. CvOut \in [at : PlacesOf(cvCfg.kind), on : CvConds]
    BY <2>1 DEF CvOut, CvConds
  <2> QED
    BY <1>1, <2>2 DEF CvTypeOK
<1>3. \A t \in CvThreads : cvPc[t].at = "out" /\ cvPc[t].on = "cond"
  BY <1>1 DEF CvOut
<1>4. Inside = {} /\ \A t \in CvThreads : ~CvSleeps(t) /\ ~CvAt(t, "broadcast")
  BY <1>3 DEF Inside, Sleepers, CvSleeps, CvAt
<1>5. ASSUME cvCfg.kind = "barrier" PROVE BarrierInv
  <2>1. cvUser = [arrived |-> 0, leaving |-> 0, came |-> [t \in CvThreads |-> 0], left |-> [t \in CvThreads |-> 0]]
    BY <1>5 DEF CvInit
  <2>2. cvCfg.threads \in Nat \ {0}
    BY <1>2, CfgFacts
  <2>3. BarrierTypeOK
    BY <1>3, <2>1, <2>2 DEF BarrierTypeOK
  <2>4. Coming
    <3>1. Cardinality(Inside) = 0
      BY <1>4, FS_EmptySet
    <3> QED
      BY <1>4, <2>1, <3>1 DEF Coming, AllSleep
  <2>5. Leaving /\ OneLast
    BY <1>4, <2>1 DEF Leaving, OneLast
  <2>6. Rounds
    BY <1>4, <2>1 DEF Rounds
  <2> QED
    BY <2>3, <2>4, <2>5, <2>6 DEF BarrierInv
<1>6. ASSUME cvCfg.kind = "node" PROVE NodeInv
  <2>1. cvUser = [queued |-> 0, sent |-> 0]
    BY <1>6 DEF CvInit
  <2> QED
    BY <1>3, <1>4, <2>1 DEF NodeInv, InboxServed
<1>7. ASSUME cvCfg.kind \in {"queue", "circular"} PROVE QueueInv
  <2>1. cvUser = [first |-> 0, last |-> 0, slots |-> [i \in 0 .. cvCfg.size |-> 0],
                  pushed |-> 0, popped |-> 0, wrong |-> FALSE]
    BY <1>7 DEF CvInit
  <2>2. cvCfg.size \in Nat \ {0}
    BY <1>2, <1>7, CfgFacts
  <2>3. Ring(cvUser)
    <3>1. cvUser \in Record /\ Pos(0, 0) = 0 /\ 0 \in Slot
      BY <2>1, <2>2 DEF Record, Slot, Pos
    <3> QED
      BY <2>1, <3>1 DEF Ring, Slot
  <2> QED
    BY <1>4, <2>3 DEF QueueInv, Ends, QueueServed, Ring, Slot
<1> QED
  BY <1>2, <1>5, <1>6, <1>7 DEF CvInv

LEMMA CvInvStep ==
  ASSUME \A c \in CvConfigs : c.kind = "barrier" => ~c.signals, CvInv, [CvNext]_cvVars
  PROVE  CvInv'
<1>1. CASE UNCHANGED cvVars
  <2>1. cvCfg' = cvCfg /\ cvFutx' = cvFutx /\ cvPc' = cvPc /\ cvUser' = cvUser
    BY <1>1 DEF cvVars
  <2>2. CvThreads' = CvThreads /\ Inside' = Inside /\ (AllSleep' <=> AllSleep)
    BY <2>1 DEF CvThreads, Inside, AllSleep
  <2>3. CvTypeOK' <=> CvTypeOK
    BY <2>1, <2>2 DEF CvTypeOK, PlacesOf
  <2>4. (CvBroadcasting' <=> CvBroadcasting) /\ \A t \in CvThreads : CvSleeps(t)' <=> CvSleeps(t)
    BY <2>1, <2>2 DEF CvBroadcasting, CvSleeps, CvAt
  <2>5. BarrierInv' <=> BarrierInv
    <3>1. (BarrierTypeOK' <=> BarrierTypeOK) /\ (Coming' <=> Coming)
      BY <2>1, <2>2 DEF BarrierTypeOK, Coming
    <3>2. (Leaving' <=> Leaving) /\ (OneLast' <=> OneLast)
      <4>1. \A t \in CvThreads : \A p \in {"entering", "asleep", "broadcast"} : CvAt(t, p)' <=> CvAt(t, p)
      BY <2>1 DEF CvAt
    <4>2. Leaving' <=> Leaving
      BY <2>1, <2>2, <2>4, <4>1 DEF Leaving
    <4> QED
      BY <2>1, <2>2, <4>1, <4>2 DEF OneLast
    <3>3. Rounds' <=> Rounds
      BY <2>1, <2>2 DEF Rounds
    <3> QED
      BY <3>1, <3>2, <3>3 DEF BarrierInv
  <2>6. NodeInv' <=> NodeInv
    <3>1. CvSleeps(1)' <=> CvSleeps(1)
      BY <2>1 DEF CvSleeps, CvAt
    <3> QED
      BY <2>1, <2>2, <2>4, <3>1 DEF NodeInv, InboxServed
  <2>7. QueueInv' <=> QueueInv
    <3>1. Ring(cvUser)' <=> Ring(cvUser)
      BY <2>1 DEF Ring, Record, Slot, Pos
    <3>2. (Ends' <=> Ends) /\ (QueueServed' <=> QueueServed)
      BY <2>1, <2>2, <2>4 DEF Ends, QueueServed, empty, full, ringNext
    <3> QED
      BY <3>1, <3>2 DEF QueueInv
  <2> QED
    BY <2>1, <2>3, <2>5, <2>6, <2>7 DEF CvInv
<1>2. CASE CvNext
  <2>1. cvCfg.kind \in {"barrier", "node", "queue", "circular"} /\ (cvCfg.kind = "barrier" => ~cvCfg.signals)
    BY CfgFacts DEF CvInv, CvTypeOK
  <2> QED
    BY <1>2, <2>1, BarrierStep, NodeStep, QueueStep, CircularStep
<1> QED
  BY <1>1, <1>2

\* Everybody is in the same round, and who still sleeps in it waits for the broadcast.
LEMMA BarrierInvHolds ==
  ASSUME BarrierState
  PROVE  BarrierHolds
<1>1. ASSUME NEW t \in CvThreads, NEW u \in CvThreads
      PROVE  cvUser.left[t] <= cvUser.came[u]
  BY BarrierFacts DEF BarrierState, BarrierInv, Rounds
<1>2. ASSUME NEW t \in CvThreads, CvSleeps(t), \A u \in CvThreads : cvUser.came[u] >= cvUser.came[t]
      PROVE  CvBroadcasting
  <2>1. t \in Inside /\ cvPc[t].on = "cond"
    BY <1>2, BarrierFacts DEF CvSleeps, CvAt, Inside, Sleepers
  <2>2. CASE cvUser.leaving = 0
    <3>1. PICK r \in Nat : \A u \in CvThreads : cvUser.came[u] = (IF u \in Inside THEN r + 1 ELSE r)
      BY <2>2 DEF BarrierState, BarrierInv, Rounds
    <3>2. \A u \in CvThreads : u \in Inside
      BY <1>2, <2>1, <3>1
    <3>3. Inside = 1 .. cvCfg.threads
      BY <3>2, BarrierFacts
    <3>4. Cardinality(Inside) = cvCfg.threads
      <4>1. PICK N \in Nat \ {0} : N = cvCfg.threads /\ Inside = 1 .. N
        BY <3>3, BarrierFacts
      <4>2. Cardinality(1 .. N) = N
        BY FS_Interval
      <4> QED
        BY <4>1, <4>2
    <3>5. cvUser.arrived = Cardinality(Inside)
      BY <2>2 DEF BarrierState, BarrierInv, Coming
    <3> QED
      BY <3>4, <3>5, BarrierFacts
  <2>3. CASE cvUser.leaving > 0
    BY <1>2, <2>1, <2>3 DEF BarrierState, BarrierInv, Leaving, CvSleeps, CvAt
  <2> QED
    BY <2>2, <2>3, BarrierFacts
<1> QED
  BY <1>1, <1>2 DEF BarrierHolds

LEMMA CvInvHolds ==
  ASSUME CvInv
  PROVE  WaitersWoken
<1>1. BarrierHolds
  BY BarrierInvHolds DEF BarrierHolds, BarrierState, CvInv
<1>2. InboxServed
  BY DEF CvInv, NodeInv, InboxServed
<1>3. QueueServed
  BY DEF CvInv, QueueInv, QueueServed
<1> QED
  BY <1>1, <1>2, <1>3 DEF WaitersWoken

\* No thread waits on a condition variable for something that has already happened, in
\* any number of threads, rounds, packets and places: at the barrier everybody has come
\* and the broadcast is still to follow, in the inbox there is no packet, and the bounded
\* queue, whose values come out in order, is empty for its reader or full for its writer.
\* A signal of the host would break the barrier, whose wait() is not in a loop.
THEOREM CvWaitersWoken ==
  ASSUME \A c \in CvConfigs : c.kind = "barrier" => ~c.signals
  PROVE  CvSpec => []WaitersWoken
<1>1. CvInit => CvInv
  BY CvInvInit
<1>2. CvInv /\ [CvNext]_cvVars => CvInv'
  BY CvInvStep
<1>3. CvInv => WaitersWoken
  BY CvInvHolds
<1> QED
  BY <1>1, <1>2, <1>3, PTL DEF CvSpec
-----------------------------------------------------------------------------
(***************************************************************************)
(* The receivers of the network.  A packet is queued and its wake-up owed  *)
(* in one step, so it is enough that a thread goes to sleep only when no   *)
(* packet matches, and that only a wake-up takes what is owed.             *)
(***************************************************************************)

\* The thread of a core in netRecv: whether it waits, for whom, with a timeout.
Receivings == [st : {"idle", "waiting", "woken"}, from : SUBSET Int, timed : BOOLEAN]

\* The inductive invariant.
ReceiverInv ==
  /\ DOMAIN netQueue = AllCores(netCfg)
  /\ netWait \in [AllCores(netCfg) -> Receivings]
  /\ ReceiverWoken

LEMMA ReceiverInit == NetInit => ReceiverInv
<1> SUFFICES ASSUME NetInit PROVE ReceiverInv
  OBVIOUS
<1>1. netWait = [i \in AllCores(netCfg) |-> [st |-> "idle", from |-> {}, timed |-> FALSE]]
  BY DEF NetInit
<1>2. DOMAIN netQueue = AllCores(netCfg)
  BY DEF NetInit
<1> QED
  BY <1>1, <1>2 DEF ReceiverInv, ReceiverWoken, Receivings

\* A step that leaves the thread, the queue and the wake-ups of a core alone.
LEMMA SameReceiver ==
  ASSUME ReceiverInv, NEW i \in AllCores(netCfg),
         netWait'[i] = netWait[i], netQueue'[i] = netQueue[i],
         i \in netBcast => i \in netBcast'
  PROVE  netWait'[i].st = "waiting" /\ Matching(i, netWait[i])' # {} => i \in netBcast'
BY DEF ReceiverInv, ReceiverWoken, Matching

\* netRecv() sleeps only when no packet in the queue matches.
LEMMA ScanKeeps ==
  ASSUME ReceiverInv, NEW me \in AllCores(netCfg), NEW w \in Receivings, NEW retry \in BOOLEAN,
         Scan(me, w, retry), UNCHANGED <<netCfg, netBcast>>
  PROVE  ReceiverInv'
<1> DEFINE rest == [st |-> "idle", from |-> {}, timed |-> FALSE]
<1>1. /\ DOMAIN netQueue = AllCores(netCfg)
      /\ netWait \in [AllCores(netCfg) -> Receivings]
  BY DEF ReceiverInv
<1>2. rest \in Receivings
  BY DEF Receivings
<1>3. CASE Matching(me, w) # {}
  <2>1. /\ netQueue' = [netQueue EXCEPT ![me] = RemoveAt(@, Earliest(me, w))]
        /\ netWait' = [netWait EXCEPT ![me] = rest]
    BY <1>3 DEF Scan
  <2>2. DOMAIN netQueue' = AllCores(netCfg) /\ netWait' \in [AllCores(netCfg) -> Receivings]
    BY <1>1, <1>2, <2>1
  <2>3. ReceiverWoken'
    <3> SUFFICES ASSUME NEW i \in AllCores(netCfg)
                 PROVE  (netWait[i].st = "waiting" /\ Matching(i, netWait[i]) # {} => i \in netBcast)'
      BY DEF ReceiverWoken
    <3>1. CASE i = me
      BY <1>1, <2>1, <3>1
    <3>2. CASE i # me
      BY <1>1, <2>1, <3>2, SameReceiver
    <3> QED BY <3>1, <3>2
  <2> QED BY <2>2, <2>3 DEF ReceiverInv
<1>4. CASE Matching(me, w) = {}
  <2>1. /\ netQueue' = netQueue
        /\ netWait' = [netWait EXCEPT ![me] = IF retry THEN [w EXCEPT !.st = "waiting"] ELSE rest]
    BY <1>4 DEF Scan
  <2>2. PICK r \in Receivings : /\ netWait' = [netWait EXCEPT ![me] = r]
                                /\ r.st = "waiting" => r.from = w.from
    <3>1. [w EXCEPT !.st = "waiting"] \in Receivings /\ [w EXCEPT !.st = "waiting"].from = w.from
      BY DEF Receivings
    <3> QED BY <1>2, <2>1, <3>1
  <2>3. DOMAIN netQueue' = AllCores(netCfg) /\ netWait' \in [AllCores(netCfg) -> Receivings]
    BY <1>1, <2>1, <2>2
  <2>4. ReceiverWoken'
    <3> SUFFICES ASSUME NEW i \in AllCores(netCfg)
                 PROVE  (netWait[i].st = "waiting" /\ Matching(i, netWait[i]) # {} => i \in netBcast)'
      BY DEF ReceiverWoken
    <3>1. CASE i = me
      <4>1. netWait'[i] = r
        BY <1>1, <2>2, <3>1
      <4>2. netWait'[i].st = "waiting" => Matching(i, netWait[i])' = {}
        BY <1>4, <2>1, <2>2, <3>1, <4>1 DEF Matching
      <4> QED BY <4>2
    <3>2. CASE i # me
      BY <1>1, <2>1, <2>2, <3>2, SameReceiver
    <3> QED BY <3>1, <3>2
  <2> QED BY <2>3, <2>4 DEF ReceiverInv
<1> QED BY <1>3, <1>4

\* A packet that is queued brings a wake-up.
LEMMA PullKeeps ==
  ASSUME ReceiverInv, NEW me \in AllCores(netCfg), Pull(me)
  PROVE  ReceiverInv'
<1>1. /\ DOMAIN netQueue = AllCores(netCfg)
      /\ netWait \in [AllCores(netCfg) -> Receivings]
  BY DEF ReceiverInv
<1>2. netWait' = netWait /\ netCfg' = netCfg
  BY DEF Pull
<1>3. \/ netQueue' = netQueue /\ netBcast' = netBcast
      \/ \E x : netQueue' = [netQueue EXCEPT ![me] = x] /\ netBcast' = netBcast \cup {me}
  BY DEF Pull, Accept, Enqueue
<1>4. DOMAIN netQueue' = AllCores(netCfg)
  BY <1>1, <1>3
<1>5. ReceiverWoken'
  <2> SUFFICES ASSUME NEW i \in AllCores(netCfg)
               PROVE  (netWait[i].st = "waiting" /\ Matching(i, netWait[i]) # {} => i \in netBcast)'
    BY <1>2 DEF ReceiverWoken
  <2>1. \/ i \in netBcast'
        \/ netQueue'[i] = netQueue[i] /\ (i \in netBcast => i \in netBcast')
    BY <1>1, <1>3
  <2> QED BY <1>2, <2>1, SameReceiver
<1> QED BY <1>1, <1>2, <1>4, <1>5 DEF ReceiverInv

\* Who is woken does not wait, and a broadcast reaches whoever waits.
LEMMA WakeKeeps ==
  ASSUME ReceiverInv, NEW me \in AllCores(netCfg), WakeReceiver(me) \/ TimeOut(me)
  PROVE  ReceiverInv'
<1>1. /\ DOMAIN netQueue = AllCores(netCfg)
      /\ netWait \in [AllCores(netCfg) -> Receivings]
  BY DEF ReceiverInv
<1>2. /\ UNCHANGED <<netQueue, netCfg>>
      /\ \A i \in AllCores(netCfg) : i # me => (i \in netBcast => i \in netBcast')
  BY DEF WakeReceiver, TimeOut
<1>3. PICK r \in Receivings : netWait' = [netWait EXCEPT ![me] = r] /\ r.st # "waiting"
  <2>1. PICK x \in {"idle", "waiting", "woken"} :
          x # "waiting" /\ netWait' = [netWait EXCEPT ![me].st = x]
    <3>1. CASE WakeReceiver(me)
      <4>1. netWait' = [netWait EXCEPT ![me].st = IF netWait[me].st = "waiting" THEN "woken" ELSE netWait[me].st]
        BY <3>1 DEF WakeReceiver
      <4>2. netWait[me].st \in {"idle", "waiting", "woken"}
        BY <1>1 DEF Receivings
      <4> QED BY <4>1, <4>2
    <3>2. CASE TimeOut(me)
      BY <3>2 DEF TimeOut
    <3> QED BY <3>1, <3>2
  <2>2. netWait[me] \in Receivings
    BY <1>1
  <2>3. [netWait[me] EXCEPT !.st = x] \in Receivings /\ [netWait[me] EXCEPT !.st = x].st = x
    BY <2>2 DEF Receivings
  <2> QED BY <2>1, <2>3
<1>4. netWait' \in [AllCores(netCfg) -> Receivings]
  BY <1>1, <1>3
<1>5. ReceiverWoken'
  <2> SUFFICES ASSUME NEW i \in AllCores(netCfg)
               PROVE  (netWait[i].st = "waiting" /\ Matching(i, netWait[i]) # {} => i \in netBcast)'
    BY <1>2 DEF ReceiverWoken
  <2>1. CASE i = me
    BY <1>1, <1>3, <2>1
  <2>2. CASE i # me
    BY <1>1, <1>2, <1>3, <2>2, SameReceiver
  <2> QED BY <2>1, <2>2
<1> QED BY <1>1, <1>2, <1>4, <1>5 DEF ReceiverInv

\* The steps of netSend() and enableModels() leave the receivers alone.
LEMMA OtherKeeps ==
  ASSUME ReceiverInv, UNCHANGED <<netCfg, netQueue, netWait, netBcast>>
  PROVE  ReceiverInv'
BY DEF ReceiverInv, ReceiverWoken, Matching

LEMMA ReceiverNext ==
  ASSUME ReceiverInv, [NetNext]_netVars
  PROVE  ReceiverInv'
<1>1. ASSUME NEW me \in AllCores(netCfg), NEW dest, NEW type, NEW req, NEW t,
             netSend(me, dest, type, req, t)
      PROVE  ReceiverInv'
  BY <1>1, OtherKeeps DEF netSend
<1>2. ASSUME NEW me \in AllCores(netCfg), Pull(me) PROVE ReceiverInv'
  BY <1>2, PullKeeps
<1>3. ASSUME NEW me \in AllCores(netCfg), WakeReceiver(me) \/ TimeOut(me) PROVE ReceiverInv'
  BY <1>3, WakeKeeps
<1>4. ASSUME NEW me \in AllCores(netCfg), netRecv(me) PROVE ReceiverInv'
  <2>1. PICK from \in {{}, {me}}, timed \in BOOLEAN :
          Scan(me, [st |-> "idle", from |-> from, timed |-> timed], TRUE)
    BY <1>4 DEF netRecv
  <2>2. UNCHANGED <<netCfg, netBcast>>
    BY <1>4 DEF netRecv
  <2>3. PICK w \in Receivings : Scan(me, w, TRUE)
    <3>1. me \in Int
      BY DEF AllCores
    <3>2. [st |-> "idle", from |-> from, timed |-> timed] \in Receivings
      BY <3>1 DEF Receivings
    <3> QED BY <2>1, <3>2
  <2> QED BY <2>2, <2>3, ScanKeeps
<1>5. ASSUME NEW me \in AllCores(netCfg), Rescan(me) PROVE ReceiverInv'
  <2>1. netWait[me] \in Receivings
    BY DEF ReceiverInv
  <2>2. PICK w \in Receivings, retry \in BOOLEAN : Scan(me, w, retry)
    BY <1>5, <2>1 DEF Rescan
  <2>3. UNCHANGED <<netCfg, netBcast>>
    BY <1>5 DEF Rescan
  <2> QED BY <2>2, <2>3, ScanKeeps
<1>6. ASSUME NEW s \in netBusy, Shortcut(s) \/ TransportSend(s) PROVE ReceiverInv'
  BY <1>6, OtherKeeps DEF Shortcut, TransportSend
<1>7. ASSUME EnableModels PROVE ReceiverInv'
  BY <1>7, OtherKeeps DEF EnableModels
<1>8. ASSUME UNCHANGED netVars PROVE ReceiverInv'
  BY <1>8, OtherKeeps DEF netVars
<1> QED
  BY <1>1, <1>2, <1>3, <1>4, <1>5, <1>6, <1>7, <1>8 DEF NetNext

\* network.cc, netPullFromTransport() and netRecv(): a thread that sleeps in netRecv()
\* while a packet it waits for is in the queue is going to be woken, although the
\* condition is signalled after the lock was released; for every configuration, route
\* and order of the packets.
THEOREM ReceiversWoken == NetSpec => []ReceiverWoken
<1>1. ReceiverInv /\ [NetNext]_netVars => ReceiverInv'
  BY ReceiverNext
<1>2. ReceiverInv => ReceiverWoken
  BY DEF ReceiverInv
<1> QED
  BY ReceiverInit, <1>1, <1>2, PTL DEF NetSpec
=============================================================================
