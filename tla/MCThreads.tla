------------------------------ MODULE MCThreads ------------------------------
(***************************************************************************)
(* Scheduling, the trace front end and sampling for TLC: components that   *)
(* decide which thread runs where and how it is simulated.  They share no  *)
(* state, so every behaviour is one of a single component; the others rest *)
(* in an initial state.                                                    *)
(***************************************************************************)
EXTENDS Scheduler, TraceManager, TraceThread, Sampling

VARIABLE part   \* the component that takes the steps

allVars == <<part, schedVars, trVars, ttVars, spVars>>

(* Constants                                                               *)
Seq12 == (0 :> 2) @@ (1 :> 1)
\* Long enough for a thread to wait too long, or for two reshuffles.
SchedTimes == [t \in SchedulerTypes |-> IF t = "big_small" THEN 16 ELSE 20]

TtStatic(a, s, b, k, e, p) ==
  [addr |-> a, size |-> s, branch |-> b, kind |-> k, executed |-> e, mapped |-> p]
TtProgram ==
  {TtStatic(1, 1, FALSE, "pair", TRUE, TRUE), TtStatic(2, 2, TRUE, "none", TRUE, TRUE),
   TtStatic(4, 1, FALSE, "atomic", FALSE, TRUE), TtStatic(5, 1, TRUE, "prefetch", TRUE, FALSE)}
\* The ids 0 and 1.
TtBits == {{}, {0}}

SpPlain ==
  [manager |-> "sampling", quantum |-> 2, detailed |-> 1, ff |-> 2, sync |-> 2, warmup |-> 1,
   dwarmup |-> 0, dsync |-> TRUE, uncoordinated |-> FALSE, placement |-> FALSE, start |-> FALSE,
   period |-> 2, width |-> 2]
SpAll ==
  {SpPlain, [SpPlain EXCEPT !.detailed = 3, !.dsync = FALSE, !.dwarmup = 1],
   [SpPlain EXCEPT !.placement = TRUE, !.start = TRUE], [SpPlain EXCEPT !.uncoordinated = TRUE],
   [SpPlain EXCEPT !.manager = "oneipc", !.detailed = 3]}
-----------------------------------------------------------------------------
RestScheduler == stype = "pinned" /\ SchedInit
RestManager   == trNum = 2 /\ trFirst = FALSE /\ trRestart = FALSE /\ TrInit
RestThread    == ttMode = "DETAILED" /\ TtInit
RestSampling  == spCfg = SpPlain /\ SpInit

MCInit ==
  \/ part = "scheduler" /\ SchedInit /\ RestManager /\ RestThread /\ RestSampling
  \/ part = "manager" /\ TrInit /\ RestScheduler /\ RestThread /\ RestSampling
  \/ part = "thread" /\ TtInit /\ RestScheduler /\ RestManager /\ RestSampling
  \/ part = "sampling" /\ SpInit /\ RestScheduler /\ RestManager /\ RestThread

MCNext ==
  /\ UNCHANGED part
  /\ \/ part = "scheduler" /\ SchedNext /\ UNCHANGED <<trVars, ttVars, spVars>>
     \/ part = "manager" /\ TrNext /\ UNCHANGED <<schedVars, ttVars, spVars>>
     \/ part = "thread" /\ TtNext /\ UNCHANGED <<schedVars, trVars, spVars>>
     \/ part = "sampling" /\ SpNext /\ UNCHANGED <<schedVars, trVars, ttVars>>

MCSpec == MCInit /\ [][MCNext]_allVars
=============================================================================
