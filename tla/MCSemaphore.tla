----------------------------- MODULE MCSemaphore -----------------------------
(***************************************************************************)
(* The primitives host threads wait on, for TLC: the semaphore, and the    *)
(* users of the condition variable.  They share no state, so a behaviour   *)
(* is one of the semaphore or of a condition variable; the other rests.    *)
(***************************************************************************)
EXTENDS Semaphore, ConditionVariable

VARIABLE part   \* the primitive that takes the steps

CvConfig(kind, threads, size, signals, max) ==
  [kind |-> kind, threads |-> threads, size |-> size, signals |-> signals, max |-> max]
CvRest == CvConfig("circular", 1, 2, FALSE, 7)
CvConfigSet ==
  {CvConfig("barrier", 3, 0, FALSE, 3), CvConfig("barrier", 4, 0, FALSE, 3),
   CvConfig("node", 4, 0, TRUE, 5), CvConfig("queue", 2, 1, TRUE, 5), CvConfig("queue", 2, 2, TRUE, 7),
   CvRest}

MCInit ==
  \/ part = "semaphore" /\ Init /\ cvCfg = CvRest /\ CvInit
  \/ part = "condition" /\ Init /\ CvInit

MCNext ==
  /\ UNCHANGED part
  /\ \/ part = "semaphore" /\ Next /\ UNCHANGED cvVars
     \/ part = "condition" /\ CvNext /\ UNCHANGED vars

allVars == <<part, vars, cvVars>>

MCSpec == MCInit /\ [][MCNext]_allVars /\ Fairness
=============================================================================
