------------------------------ MODULE Semaphore ------------------------------
(***************************************************************************)
(* The counting semaphore of misc/semaphore.cc, built on a Linux futex.    *)
(*                                                                         *)
(* wait() and signal() run under the semaphore's own _lock, except for the *)
(* FUTEX_WAIT system call, which wait() makes between two critical         *)
(* sections.  Each critical section is one step here; the kernel's atomic  *)
(* "compare _futx with 0 and sleep" is a step of its own, so every         *)
(* interleaving of a signal with a thread that has decided to sleep but    *)
(* does not sleep yet is a behaviour of this specification.                *)
(***************************************************************************)
EXTENDS Integers, FiniteSets

CONSTANTS
  Threads,      \* the host threads that share the semaphore
  InitCount,    \* the argument of the constructor
  MaxCount      \* bound: no thread signals when _count has this value

ASSUME ThreadsAssumption == IsFiniteSet(Threads)
ASSUME CountAssumption   == /\ InitCount \in Nat /\ MaxCount \in Nat
                            /\ InitCount <= MaxCount

VARIABLES
  count,        \* _count
  numWaiting,   \* _numWaiting
  futx,         \* _futx
  pc            \* where each thread is in wait()

vars == <<count, numWaiting, futx, pc>>

\* "out"    not in wait();  "armed"  has released _lock and is about to call
\* FUTEX_WAIT;  "asleep"  in the kernel;  "woken"  about to re-acquire _lock.
PcValues == {"out", "armed", "asleep", "woken"}

At(label) == {t \in Threads : pc[t] = label}

Init == /\ count = InitCount
        /\ numWaiting = 0
        /\ futx = 0
        /\ pc = [t \in Threads |-> "out"]
-----------------------------------------------------------------------------
(***************************************************************************)
(* wait().  `waiting' is _numWaiting as it is when the while condition is  *)
(* evaluated: the loop is re-entered after _numWaiting has been lowered.   *)
(***************************************************************************)
TestCount(t, waiting) ==
  \/ /\ count > 0
     /\ count' = count - 1
     /\ numWaiting' = waiting
     /\ pc' = [pc EXCEPT ![t] = "out"]
     /\ UNCHANGED futx
  \/ /\ count <= 0
     /\ numWaiting' = waiting + 1
     /\ futx' = 0
     /\ pc' = [pc EXCEPT ![t] = "armed"]
     /\ UNCHANGED count

Wait(t) == pc[t] = "out" /\ TestCount(t, numWaiting)

MutRetrySleepsAgain(t) ==
  /\ pc[t] = "woken" /\ pc' = [pc EXCEPT ![t] = "armed"]
  /\ UNCHANGED <<count, numWaiting, futx>>
Retry(t) == pc[t] = "woken" /\ TestCount(t, numWaiting - 1)

\* The system call sleeps only if the futex word still has the value 0.
FutexWait(t) ==
  /\ pc[t] = "armed"
  /\ pc' = [pc EXCEPT ![t] = IF futx = 0 THEN "asleep" ELSE "woken"]
  /\ UNCHANGED <<count, numWaiting, futx>>

\* A signal delivered to the process makes FUTEX_WAIT return early (EINTR).
Interrupted(t) ==
  /\ pc[t] = "asleep"
  /\ pc' = [pc EXCEPT ![t] = "woken"]
  /\ UNCHANGED <<count, numWaiting, futx>>
-----------------------------------------------------------------------------
(***************************************************************************)
(* signal() and broadcast().  FUTEX_WAKE wakes one sleeping thread, or all *)
(* of them; it does nothing when none sleeps.                              *)
(***************************************************************************)
WakeOne ==
  \/ At("asleep") = {} /\ UNCHANGED pc
  \/ \E s \in At("asleep") : pc' = [pc EXCEPT ![s] = "woken"]

WakeAll == pc' = [t \in Threads |-> IF pc[t] = "asleep" THEN "woken" ELSE pc[t]]

MutPostWordUnset ==
  /\ count < MaxCount
  /\ count' = count + 1
  /\ UNCHANGED <<numWaiting, futx>>
Post ==
  /\ count < MaxCount
  /\ count' = count + 1
  /\ futx' = IF numWaiting > 0 THEN 1 ELSE futx
  /\ UNCHANGED numWaiting

Signal(t) ==
  /\ pc[t] = "out"
  /\ Post
  /\ IF numWaiting > 0 THEN WakeOne ELSE UNCHANGED pc

Broadcast(t) ==
  /\ pc[t] = "out"
  /\ Post
  /\ IF numWaiting > 0 THEN WakeAll ELSE UNCHANGED pc

Next == \E t \in Threads :
          \/ Wait(t) \/ Retry(t) \/ FutexWait(t) \/ Interrupted(t)
          \/ Signal(t) \/ Broadcast(t)

\* Only the steps inside wait() are owed: nobody has to call wait() or
\* signal(), and EINTR may never come.
Fairness == \A t \in Threads : WF_vars(Retry(t)) /\ WF_vars(FutexWait(t))

Spec == Init /\ [][Next]_vars /\ Fairness
-----------------------------------------------------------------------------
TypeOK == /\ count \in 0..MaxCount
          /\ numWaiting \in Nat
          /\ futx \in {0, 1}
          /\ pc \in [Threads -> PcValues]

\* _numWaiting, which signal() uses to skip the system call, is the number of
\* threads between the two critical sections of wait().
WaitingCounted == numWaiting = Cardinality(Threads \ At("out"))

\* The threads that will look at _count again without any further wake-up.
Awake == At("woken") \union (IF futx = 1 THEN At("armed") ELSE {})

\* A thread that is about to sleep although units are available is a lost
\* wake-up: while a thread sleeps (or is bound to), as many threads are on
\* their way back to the test of _count as there are units (semaphore.cc's
\* wait() resets _futx, signal() skips FUTEX_WAKE when nobody waits).
NoLostWakeup ==
  At("out") \union Awake # Threads => Cardinality(Awake) >= count

\* A thread in wait() does not stay there while units remain available: unless
\* other threads keep taking the last unit, wait() returns.
UnitsAreTaken ==
  \A t \in Threads : []<>(pc[t] = "out" \/ count = 0)
=============================================================================
