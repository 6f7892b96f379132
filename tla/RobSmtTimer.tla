------------------------------ MODULE RobSmtTimer ------------------------------
(***************************************************************************)
(* The multi-threaded reorder-buffer model                                 *)
(* (rob_performance_model/rob_smt_timer.cc): the hardware threads of a     *)
(* core share its reservation stations, queues and issue ports; each has   *)
(* its own buffer, a share of the window and its own front end.            *)
(* Dependencies are found when a micro-op is dispatched, not when it is    *)
(* fetched.  A thread whose next_event is in the future is passed over by  *)
(* the issue stage, and only a core with one thread jumps over cycles.     *)
(* The barrier that makes the threads take turns is module SmtTimer.       *)
(***************************************************************************)
EXTENDS RobTimer, TLC

CONSTANTS
    SmtConfigs,    \* configurations, as RobConfigs, with threads, repartition and
                   \* simultaneous
    SmtUops,       \* micro-ops the threads execute
    SmtMaxUops,    \* number of them per thread
    SmtMaxNops,    \* number of RobNop that follow, per thread
    SmtSleepers,   \* the threads that may stall
    SmtMaxToggles  \* number of times they do

VARIABLES smtCfg, smt

smtVars == <<smtCfg, smt>>

SmtThreads == 1..smtCfg.threads
NextThread(k) == (k % smtCfg.threads) + 1

(* computeCurrentWindowsize *)
currentWindowSize ==
    LET awake == Cardinality({k \in SmtThreads : smt.running[k]})
    IN  IF ~smtCfg.repartition THEN smtCfg.window \div smtCfg.threads
        ELSE IF awake > 0 THEN smtCfg.window \div awake ELSE smtCfg.window

NewSmtThread == [now |-> 0, event |-> 0] @@ [NewThread EXCEPT !.cpi = "smt"]

(***************************************************************************)
(* Dispatch: round-robin, from one thread per cycle                        *)
(***************************************************************************)
eligible(t, k, now) ==
    t.stall <= now /\ smt.running[k] /\ t.now <= now /\ t.num < currentWindowSize

(* What the loop of tryDispatch found, d, is the new state of thread k. *)
Tried(a, k, d, event) ==
    LET next == Earlier(a.next, d.next)
    IN  [a EXCEPT !.th[k] = [d.t EXCEPT !.event = IF event /\ d.n > 0 THEN Earlier(@, next) ELSE @],
                  !.s = d.s,
                  !.next = IF d.t.num < currentWindowSize
                           THEN Earlier(next, d.t.stall) ELSE next,
                  !.from = IF d.n > 0 THEN k ELSE @, !.has = d.n > 0]

MutTryDispatch(a, k) == Tried(a, k, dispatchLoop(smtCfg, currentWindowSize, TRUE, a.th[k], a.s), FALSE)

(* tryDispatch for thread k: its next event is not later than that of what *)
(* was dispatched.                                                         *)
tryDispatch(a, k) == Tried(a, k, dispatchLoop(smtCfg, currentWindowSize, TRUE, a.th[k], a.s), TRUE)

Turns(first) == [i \in SmtThreads |-> ((first + i - 2) % smtCfg.threads) + 1]

smtDispatch(th, s) ==
    FoldLeft(LAMBDA a, k : IF eligible(a.th[k], k, s.now) /\ ~a.has
                           THEN tryDispatch(a, k) ELSE a,
             [th |-> th, s |-> s, next |-> MaxTime, has |-> FALSE, from |-> smt.dispatch],
             Turns(smt.dispatch))

(***************************************************************************)
(* Issue: round-robin, from one thread unless issue is simultaneous        *)
(***************************************************************************)
smtIssueReady(t, s) == issueLoop(smtCfg, t, s)

IssuedFrom(a, k, i) ==
    [th |-> [a.th EXCEPT ![k] = [i.t EXCEPT !.event = i.next]], s |-> i.s,
     next |-> Earlier(a.next, i.next), n |-> a.n + i.n,
     stop |-> i.n > 0 /\ ~smtCfg.simultaneous,
     last |-> IF i.n > 0 /\ ~smtCfg.simultaneous THEN k ELSE a.last]

smtIssueThread(a, k) ==
    IF a.stop \/ a.th[k].event > a.s.now \/ a.th[k].num = 0 THEN a
    ELSE IssuedFrom(a, k, smtIssueReady(a.th[k], a.s))

smtIssue(th, s) ==
    FoldLeft(smtIssueThread,
             [th |-> th, next |-> MaxTime, n |-> 0, stop |-> FALSE, last |-> smt.issue,
              s |-> IF smtCfg.model = "none" THEN s ELSE [s EXCEPT !.ports = initCycle(@)]],
             Turns(smt.issue))

(* doCommit: every thread commits up to the full width *)
smtCommit(th, now) == [k \in SmtThreads |-> doCommit(smtCfg, th[k], now)]

(***************************************************************************)
(* A cycle                                                                 *)
(***************************************************************************)
canExecuteThread(k) == eligible(smt.th[k], k, smt.s.now)
canExecute ==
    \A k \in SmtThreads : canExecuteThread(k) =>
        Len(smt.th[k].rob) >= smt.th[k].num + 2 * smtCfg.width

smtRetired(d, i, th) ==
    [th |-> th, s |-> i.s, dispatch |-> NextThread(d.from), issue |-> NextThread(i.last),
     next |-> Earlier(d.next, Earlier(i.next, FrontDone(th[1]))),
     idle |-> ~d.has /\ i.n = 0 /\ \A k \in SmtThreads : th[k].num = i.th[k].num]
smtThenCommit(d, i, now) == smtRetired(d, i, smtCommit(i.th, now))
smtThenIssue(d, now) == smtThenCommit(d, smtIssue(d.th, d.s), now)
smtStages(s) == smtThenIssue(smtDispatch(smt.th, s), s.now)

SmtInit ==
    /\ smtCfg \in SmtConfigs
    /\ smt = [th |-> [k \in 1..smtCfg.threads |-> NewSmtThread], s |-> NewShared(smtCfg),
              running |-> [k \in 1..smtCfg.threads |-> TRUE],
              wakeup |-> [k \in 1..smtCfg.threads |-> FALSE],
              dispatch |-> 1, issue |-> 1, ran |-> 0, toggles |-> 0]

SmtSupply(k) ==
    IF smt.th[k].next <= SmtMaxUops THEN SmtUops
    ELSE IF smt.th[k].next <= SmtMaxUops + SmtMaxNops THEN {RobNop} ELSE {}

(* RobSmtPerformanceModel::simulate: pushInstructions, then returnLatency  *)
(* brings the time of the thread to that of the core.                      *)
smtSimulate(k, u) ==
    /\ smt.running[k] /\ ~canExecute
    /\ Len(smt.th[k].rob) < smt.th[k].num + 2 * smtCfg.width
    /\ smt' = [smt EXCEPT !.th[k] = [append(@, u) EXCEPT !.now = Later(@, smt.s.now)]]
    /\ UNCHANGED smtCfg

(* executeCycle *)
executeCycle ==
    /\ canExecute
    /\ \E k \in SmtThreads : smt.running[k]
    /\ \E r \in {smtStages(smt.s)} :
          smt' = [smt EXCEPT !.th = r.th, !.dispatch = r.dispatch, !.issue = r.issue,
                             !.ran = smt.s.now,
                             !.s = [r.s EXCEPT !.now = IF /\ smtCfg.threads = 1
                                                         /\ r.next # MaxTime /\ r.next > @ + 1
                                                       THEN r.next ELSE @ + 1]]
    /\ UNCHANGED smtCfg

(* SmtTimer::threadStall *)
smtThreadStall(k) ==
    /\ k \in SmtSleepers /\ smt.toggles < SmtMaxToggles /\ smt.running[k]
    /\ smt' = [smt EXCEPT !.running[k] = FALSE, !.toggles = @ + 1]
    /\ UNCHANGED smtCfg

(* SmtTimer::threadResume *)
smtThreadResume(k) ==
    /\ ~smt.running[k]
    /\ smt' = [smt EXCEPT !.running[k] = TRUE, !.wakeup[k] = TRUE]
    /\ UNCHANGED smtCfg

(* synchronize: the thread is at the time it was woken at, a little later  *)
(* than that of the core.                                                  *)
smtSynchronize(k) ==
    LET th == [smt.th EXCEPT ![k].now = smt.s.now + 2]
        earliest == Min({th[j].now : j \in SmtThreads})
    IN  /\ smt.wakeup[k]
        /\ smt' = [smt EXCEPT !.th = th, !.wakeup[k] = FALSE,
                              !.ran = IF earliest > smt.s.now THEN earliest ELSE @,
                              !.s.now = Later(@, earliest)]
        /\ UNCHANGED smtCfg

SmtNext ==
    \/ \E k \in SmtThreads : \E u \in SmtSupply(k) : smtSimulate(k, u)
    \/ executeCycle
    \/ \E k \in SmtThreads : \/ smtThreadStall(k)
                             \/ smtThreadResume(k)
                             \/ smtSynchronize(k)

(***************************************************************************)
(* Properties                                                              *)
(***************************************************************************)
(* "Cycle would have been skipped but stuff happened" (would_have_skipped  *)
(* in tryIssue): a thread the issue stage passes over because its          *)
(* next_event is in the future has nothing it could issue, although the    *)
(* resources it waits for are shared; the reservation stations in use are  *)
(* those of all the threads; the operands of a micro-op are there when it  *)
(* issues; a stalled front end has a reason (the assertion in doDispatch). *)
SmtPassedOver ==
    LET th == smt.th
        waiting(k) == {i \in 1..th[k].num : th[k].rob[i].done = MaxTime}
    IN  /\ \A k \in SmtThreads : th[k].event > smt.s.now =>
              smtIssueReady(th[k], [smt.s EXCEPT !.ports = initCycle(@)]).n = 0
        /\ smt.s.rs = Cardinality({<<k, i>> \in SmtThreads \X (1..9) : i \in waiting(k)})
        /\ smt.s.rs <= smtCfg.rs
        /\ \A k \in SmtThreads : \A i \in DOMAIN th[k].rob :
              th[k].rob[i].issued # MaxTime =>
                \A n \in th[k].rob[i].from : InRob(th[k], n) =>
                   Result(smtCfg, th[k].rob[Pos(th[k], n)]) <= th[k].rob[i].issued
        /\ \A k \in SmtThreads : th[k].stall > smt.s.now => th[k].cpi # "none"

(* The same for the jump of a core with one thread: in none of the cycles  *)
(* that are jumped over would anything have been dispatched, issued or     *)
(* committed. In no run: doIssue() does not keep it, see the README.       *)
SmtSkipsNothing ==
    \A n \in smt.ran + 1 .. smt.s.now - 1 : smtStages([smt.s EXCEPT !.now = n]).idle

(* A thread that has been woken gets no latency until synchronize() has    *)
(* told it the time it was woken at (in_wakeup "signals simulate() to not  *)
(* return any latency until RobSmtTimer::synchronize() was called"). In no *)
(* run: nothing reads in_wakeup, see the README.                           *)
WakeupReturnsNothing ==
    [][\A k \in SmtThreads : smt.wakeup[k] /\ smt'.wakeup[k] =>
            smt'.th[k].now = smt.th[k].now]_smtVars

=============================================================================
