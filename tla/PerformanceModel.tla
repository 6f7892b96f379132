-------------------------- MODULE PerformanceModel --------------------------
(***************************************************************************)
(* The clock of one core: PerformanceModel, which owns the elapsed time,   *)
(* the two kinds of detailed model that advance it (OneIPCPerformanceModel *)
(* and MicroOpPerformanceModel, whose interval and ROB timers keep a clock *)
(* of their own) and FastforwardPerformanceModel, which advances it while  *)
(* the detailed model does not run.  Time is in femtoseconds and a cycle   *)
(* lasts `period' of them, so costs need not be whole cycles.              *)
(*                                                                         *)
(* The timers themselves are in RobTimer, RobSmtTimer and IntervalTimer;   *)
(* here a call of simulate() takes any of PmCycles cycles.  Another thread *)
(* may switch the models on and off, or to fast-forward, between any two   *)
(* instructions of iterate(): nothing locks the performance model.         *)
(***************************************************************************)
EXTENDS Integers, Sequences, SequencesExt, TLC

CONSTANTS PmConfigs,    \* records [model, period, cutoff, branchCost, cpi, mem, branch]
          PmInstrs,     \* instructions a thread may queue: records [kind, loads, execs, stores]
          PmPseudo,     \* pseudo instructions: records [kind, cost]; of a "sync", the time to wake up
          PmLatencies,  \* latencies the memory system may answer
          PmCycles,     \* cycles that one simulate() may take
          PmMaxTime, PmMaxQueue  \* bounds on the clock and on the waiting instructions

ASSUME PmAssumption ==
  /\ \A c \in PmConfigs : /\ c.period \in Nat \ {0}
                          /\ {c.branchCost, c.cpi, c.branch} \subseteq Nat
  /\ \A i \in PmInstrs : "cost" \notin DOMAIN i /\ i.loads \in Seq(Nat)
  /\ \A p \in PmPseudo : "cost" \in DOMAIN p /\ p.cost \in Nat
  /\ PmLatencies \union PmCycles \union {PmMaxTime} \subseteq Nat

VARIABLES pmCfg, pm, pmUops
pmVars == <<pmCfg, pm, pmUops>>

PmComponents == {"start", "sync", "recv", "delay", "base", "oob", "ffwd"}
IdleKinds == {"sync", "delay", "recv"}

\* The performance model of a core as its constructor leaves it.
PmFresh == [elapsed |-> 0, idle |-> 0, timer |-> 0, enabled |-> FALSE, ff |-> FALSE,
            dsync |-> TRUE, queue |-> <<>>, cpi |-> [k \in PmComponents |-> 0]]

\* SubsecondTime::divideRounded adds one femtosecond more than half the divisor.
divideRounded(a, b) == (a + b \div 2 + 1) \div b

--------------------------------------------------------------------------------
\* Micro-operations of an instruction: its loads, then its executes, which wait
\* for all the loads, then its stores, which wait for all the executes.

Uop(type, offset, deps) ==
  [type |-> type, staticOffset |-> offset, offset |-> offset, deps |-> deps,
   squashed |-> FALSE, count |-> 0, first |-> FALSE, last |-> FALSE]

decode(ins) ==
  LET nl == Len(ins.loads)
      ns == Len(ins.stores)
      ne == IF nl + ins.execs + ns = 0 THEN 1 ELSE ins.execs
      uops == [i \in 1 .. nl |-> Uop("load", i - 1, 0)]
              \o [i \in 1 .. ne |-> Uop("exec", i - 1, nl)]
              \o [i \in 1 .. ns |-> Uop("store", i - 1, ne)]
  IN [uops EXCEPT ![1].first = TRUE, ![nl + ne + ns].last = TRUE]

Live(uops) == {i \in DOMAIN uops : ~uops[i].squashed}

\* DynamicMicroOp::squash: the first and the last of what is left take over the
\* marks that delimit the instruction.
squash(uops, k) ==
  LET u == [uops EXCEPT ![k].squashed = TRUE] IN
  [u EXCEPT ![Min(Live(u))].first = TRUE, ![Max(Live(u))].last = TRUE]

\* Accesses of one instruction to a line it accesses already.
Repeats(lines) == SelectSeq([i \in DOMAIN lines |-> i],
                            LAMBDA i : \E j \in 1 .. i - 1 : lines[j] = lines[i])

Recounted(uops) ==
  [i \in DOMAIN uops |->
     LET same == {j \in Live(uops) : j < i /\ uops[j].type = uops[i].type} IN
     [uops[i] EXCEPT !.count = Cardinality(1 .. i \ Live(uops)),
                     !.offset = IF i \in Live(uops) THEN Cardinality(same) ELSE @]]

\* doSquashing: the dependencies of an instruction are counted back from the
\* first micro-op of the type, so squashed producers must leave the count.
MutDoSquashing(uops) == Recounted(uops)
doSquashing(uops) ==
  LET u == Recounted(uops) IN
  [i \in DOMAIN u |->
     LET base == i - u[i].staticOffset IN
     IF i \in Live(u) /\ u[i].deps # 0
     THEN [u[i] EXCEPT !.deps = @ - (u[base].count - u[base - @].count)]
     ELSE u[i]]

\* The micro-ops handed to simulate().
CurrentUops(ins) ==
  LET uops == decode(ins)
      stores == {i \in DOMAIN uops : uops[i].type = "store"}
      repeated == Repeats(ins.loads)
                  \o [i \in DOMAIN Repeats(ins.stores) |-> Min(stores) - 1 + Repeats(ins.stores)[i]]
  IN IF repeated = <<>> THEN uops ELSE doSquashing(FoldLeft(squash, uops, repeated))

\* A timer numbers the micro-ops that are not squashed, and getDependency
\* counts back from that number.
SequenceNumber(uops, i) == Cardinality({j \in Live(uops) : j < i})
getDependency(uops, i, index) == SequenceNumber(uops, i) - uops[i].offset - uops[i].deps + index

--------------------------------------------------------------------------------
\* Time.

\* The detailed model is told that time has jumped; the one-IPC model has no
\* clock of its own.
notifyElapsedTimeUpdate(s) == [s EXCEPT !.timer = s.elapsed]

Spend(s, component, t) == [s EXCEPT !.elapsed = @ + t, !.cpi[component] = @ + t]

incrementIdleElapsedTime(s, component, t) ==
  notifyElapsedTimeUpdate([Spend(s, component, t) EXCEPT !.idle = @ + t])

\* INST_SPAWN: only at the start of a thread; never backwards in time.
setElapsedTime(s, t) ==
  incrementIdleElapsedTime(s, IF s.elapsed > 0 THEN "sync" ELSE "start", t - s.elapsed)

\* A wake-up at a time the core has already passed costs nothing.
handleIdleInstruction(s, p) ==
  IF s.ff /\ ~s.dsync THEN s
  ELSE IF p.kind = "sync"
       THEN incrementIdleElapsedTime(s, "sync", Max({p.cost - s.elapsed, 0}))
       ELSE incrementIdleElapsedTime(s, p.kind, p.cost)

\* FastforwardPerformanceModel::incrementElapsedTime and its callers.
ffIncrement(s, t) == Spend(s, "ffwd", t)
ffCountInstructions(c, s, n) == ffIncrement(s, n * c.cpi)
ffHandleMemoryLatency(c, s, t) == IF c.mem THEN ffIncrement(s, t) ELSE s
ffHandleBranchMispredict(c, s) == ffIncrement(s, c.branch)
ffQueuePseudoInstruction(s, p) == ffIncrement(s, p.cost)

\* PerformanceModel::queuePseudoInstruction without INST_SPAWN.
queuePseudoInstruction(s, p) ==
  IF ~s.enabled THEN s
  ELSE IF p.kind \in IdleKinds THEN handleIdleInstruction(s, p)
  ELSE IF s.ff THEN ffQueuePseudoInstruction(s, p)
  ELSE [s EXCEPT !.queue = Append(@, p)]

\* PerformanceModel::setFastForward: fast-forward has controlled time for a
\* while, and the detailed model catches up.
MutSetFastForward(s, ff, dsync) ==
  IF s.ff = ff THEN s ELSE [s EXCEPT !.ff = ff, !.dsync = dsync]
setFastForward(s, ff, dsync) ==
  LET t == [s EXCEPT !.ff = ff, !.dsync = dsync] IN
  IF s.ff = ff THEN s ELSE IF ff THEN t ELSE notifyElapsedTimeUpdate(t)

--------------------------------------------------------------------------------
\* Detailed simulation of one instruction.

Pseudo(ins) == "cost" \in DOMAIN ins

\* A latency the timer did not return, taken into account at once: a pseudo
\* instruction that serialises, or a long-latency access to memory.
OutOfBand(c, ins) ==
  IF ~Pseudo(ins) \/ (ins.kind = "mem" /\ ~(c.cutoff > 0 /\ ins.cost > c.cutoff * c.period))
  THEN 0 ELSE ins.cost

handleMicroOps(c, s, ins, cycles) ==
  LET t == [Spend(s, "base", cycles * c.period) EXCEPT !.timer = @ + cycles * c.period]
      u == Spend(t, "oob", OutOfBand(c, ins))
  IN IF OutOfBand(c, ins) > 0 THEN notifyElapsedTimeUpdate(u) ELSE u

\* Reads above the cut-off pay their latency; pseudo instructions and branches
\* their own cost, which for a branch is a static one, mispredicted or not;
\* everything else takes one cycle.
isModeled(ins) == Pseudo(ins) \/ ins.kind = "branch"
handleOneIPC(c, s, ins, lat) ==
  LET reads == IF ~Pseudo(ins) /\ lat > c.cutoff * c.period THEN Len(ins.loads) * lat ELSE 0
      own == IF ~isModeled(ins) THEN c.period
             ELSE IF Pseudo(ins) THEN ins.cost ELSE c.branchCost * c.period
  IN Spend(s, "base", reads + own)

\* The cycles that simulate() may take: none at all without a micro-op.
SimulatedCycles(c, ins) ==
  IF c.model = "oneipc" \/ (Pseudo(ins) /\ ins.cost = 0) THEN {0}
  ELSE IF Pseudo(ins) /\ ins.kind = "mem" /\ OutOfBand(c, ins) = 0
       THEN {d + divideRounded(ins.cost, c.period) : d \in PmCycles}
  ELSE PmCycles

--------------------------------------------------------------------------------
PmInit == pmCfg \in PmConfigs /\ pm = PmFresh /\ pmUops = <<>>

Running == pm.elapsed < PmMaxTime /\ UNCHANGED pmCfg

EnableModel == Running /\ ~pm.enabled /\ pm' = [pm EXCEPT !.enabled = TRUE] /\ UNCHANGED pmUops
DisableModel == Running /\ pm.enabled /\ pm' = [pm EXCEPT !.enabled = FALSE] /\ UNCHANGED pmUops

SetFastForward ==
  /\ Running
  /\ \E ff, dsync \in BOOLEAN : ff # pm.ff /\ pm' = setFastForward(pm, ff, dsync)
  /\ UNCHANGED pmUops

SpawnThread ==
  /\ Running
  /\ \E t \in pm.elapsed .. PmMaxTime : pm' = setElapsedTime(pm, t)
  /\ UNCHANGED pmUops

QueuePseudo ==
  /\ Running
  /\ Len(pm.queue) < PmMaxQueue
  /\ \E p \in PmPseudo : pm' = queuePseudoInstruction(pm, p)
  /\ UNCHANGED pmUops

\* queueInstruction: ignored in fast-forward, when the thread has not changed
\* its instrumentation yet.
QueueInstruction ==
  /\ Running
  /\ Len(pm.queue) < PmMaxQueue
  /\ ~pm.ff /\ pm.enabled
  /\ \E i \in PmInstrs : pm' = [pm EXCEPT !.queue = Append(@, i)]
  /\ UNCHANGED pmUops

\* One turn of the loop of iterate(): an instruction that was queued before
\* fast-forward began, or before the model was disabled, is dropped.
Iterate ==
  /\ Running
  /\ pm.queue # <<>>
  /\ LET ins == Head(pm.queue)
         s == [pm EXCEPT !.queue = Tail(@)]
     IN IF pm.ff \/ ~pm.enabled
        THEN pm' = s /\ UNCHANGED pmUops
        ELSE /\ pmUops' = IF Pseudo(ins) \/ pmCfg.model = "oneipc" THEN <<>> ELSE CurrentUops(ins)
             /\ \E lat \in PmLatencies, d \in SimulatedCycles(pmCfg, ins) :
                  pm' = IF pmCfg.model = "oneipc" THEN handleOneIPC(pmCfg, s, ins, lat)
                        ELSE handleMicroOps(pmCfg, s, ins, d)

\* countInstructions, handleMemoryLatency and handleBranchMispredict do nothing
\* unless the core is in fast-forward.
FastForwarded ==
  /\ Running
  /\ pm.ff
  /\ \/ \E n \in 1 .. 2 : pm' = ffCountInstructions(pmCfg, pm, n)
     \/ \E t \in PmLatencies : pm' = ffHandleMemoryLatency(pmCfg, pm, t)
     \/ pm' = ffHandleBranchMispredict(pmCfg, pm)
  /\ UNCHANGED pmUops

PmNext == EnableModel \/ DisableModel \/ SetFastForward \/ SpawnThread \/ QueuePseudo
          \/ QueueInstruction \/ Iterate \/ FastForwarded

PmSpec == PmInit /\ [][PmNext]_pmVars

--------------------------------------------------------------------------------
IdleTime(cpi) == cpi["start"] + cpi["sync"] + cpi["recv"] + cpi["delay"]
AllTime(cpi) == IdleTime(cpi) + cpi["base"] + cpi["oob"] + cpi["ffwd"]

\* The detailed timer and the core agree on the time whenever the detailed model
\* is in control, whatever jumped the clock before: idle time, a thread start, a
\* latency the timer did not see, or fast-forward.  And every femtosecond is in
\* exactly one component of the CPI stack.
TimeKept ==
  /\ (~pm.ff /\ pmCfg.model = "microop") => pm.timer = pm.elapsed
  /\ pm.elapsed = AllTime(pm.cpi)
  /\ pm.idle = IdleTime(pm.cpi)

\* Squashing repeated accesses of a scatter or gather leaves an instruction
\* whose executes wait for exactly the loads that are left and whose stores for
\* exactly its executes, by the arithmetic of getDependency, and that begins and
\* ends once.
SquashSound ==
  LET Of(type) == {SequenceNumber(pmUops, j) : j \in {k \in Live(pmUops) : pmUops[k].type = type}} IN
  /\ \A i \in Live(pmUops) :
       {getDependency(pmUops, i, n) : n \in 0 .. pmUops[i].deps - 1} =
         (CASE pmUops[i].type = "load" -> {}
            [] pmUops[i].type = "exec" -> Of("load")
            [] pmUops[i].type = "store" -> Of("exec"))
  /\ pmUops # <<>> => /\ {i \in Live(pmUops) : pmUops[i].first} = {Min(Live(pmUops))}
                      /\ {i \in Live(pmUops) : pmUops[i].last} = {Max(Live(pmUops))}

\* The instruction loop keeps the time, and hands the timing model micro-ops
\* whose dependencies are right (performance_model.cc, micro_op_performance_model.cc).
CoreTimeSound == TimeKept /\ SquashSound
=============================================================================
