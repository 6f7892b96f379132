------------------------------ MODULE Sampling ------------------------------
(***************************************************************************)
(* Sampled simulation.  SamplingManager alternates, for all cores at once, *)
(* between detailed simulation and fast-forward, as PeriodicSampling asks  *)
(* when the clock skew barrier calls HOOK_PERIODIC.  In fast-forward a     *)
(* core only enters the barrier through its instruction callback (Core),   *)
(* so the whole simulation hangs on these being set.  The other user of    *)
(* fast-forward, FastForwardPerformanceManager, steps through it at one    *)
(* instruction per cycle until it is disabled.                             *)
(*                                                                         *)
(* The barrier is reduced to what the two see of it: the cores that wait,  *)
(* their clocks, and the time of the next release (BarrierSyncServer has   *)
(* the rest).  A thread may stall and come back at any point.              *)
(***************************************************************************)
EXTENDS Integers, FiniteSets, FiniteSetsExt

CONSTANTS SpCores,
          SpConfigs,   \* records [manager, quantum, detailed, ff, sync, warmup, dwarmup,
                       \*          dsync, uncoordinated, placement, start, period, width]
          SpLatencies, \* latencies of a detailed instruction, and idle periods
          SpMaxTime    \* bound on the time of the barrier and of a core

VARIABLES spCfg,   \* the configuration, which never changes
          spCore,  \* [SpCores -> record of the core and its performance model]
          spBar,   \* barrier: next release, last release, fast-forward, HOOK_PERIODIC running
          spMan,   \* SamplingManager, PeriodicSampling, FastForwardPerformanceManager
          spOops   \* the assertions of PeriodicSampling that failed
spVars == <<spCfg, spCore, spBar, spMan, spOops>>

NoCallback == -1   \* UINT64_MAX

\* The simulator without its configuration, as the operators below pass it on.
World == [core |-> spCore, bar |-> spBar, man |-> spMan, oops |-> spOops]

SpRounded(a, b) == (a + b \div 2 + 1) \div b
MaxTime(w, S) == Max({w.core[c].elapsed : c \in S} \cup {0})
RunningCores(w) == {c \in SpCores : w.core[c].state # "off"}

--------------------------------------------------------------------------------
\* Core and its performance model.

\* m_instructions_callback, as the instructions that are left until then.
setInstructionsCallback(k, n) == [k EXCEPT !.callback = n]

\* PerformanceModel::setFastForward: the timer of the detailed model catches up.
coreFastForward(k, ff) ==
  IF k.ff = ff THEN k
  ELSE [k EXCEPT !.ff = ff, !.timer = IF ff THEN @ ELSE k.elapsed]

\* FastforwardPerformanceModel::incrementElapsedTime.
ffAdvance(k, t) == [k EXCEPT !.elapsed = @ + t, !.ffwd = @ + t]

\* How far to the end of the fast-forward, in instructions of the current CPI.
recalibrate(cfg, w, c) ==
  LET k == w.core[c]
      oneIpc == cfg.manager = "oneipc"
      cpi == IF oneIpc \/ k.cpi = 0 THEN cfg.period ELSE k.cpi
  IN IF k.elapsed > w.man.target THEN setInstructionsCallback(k, 1)
     ELSE [setInstructionsCallback(k, SpRounded(w.man.target - k.elapsed, cpi))
             EXCEPT !.cpi = IF oneIpc THEN cpi ELSE @]

RecalibrateAll(cfg, w) == [w EXCEPT !.core = [c \in SpCores |-> recalibrate(cfg, w, c)]]

--------------------------------------------------------------------------------
\* SamplingManager.

barrierFastForward(w, ff, t) == [w EXCEPT !.bar.ff = ff, !.bar.next = Max({@, t})]

MutEnableFastForward(cfg, w, until, warmup) ==
  LET x == [w EXCEPT !.man.ff = TRUE, !.man.warm = warmup, !.man.target = until,
                     !.core = [c \in SpCores |-> coreFastForward(@[c], TRUE)]]
  IN barrierFastForward([x EXCEPT !.core = [c \in SpCores |->
       IF c \in RunningCores(x) THEN recalibrate(cfg, x, c) ELSE x.core[c]]], TRUE, MaxTime(x, SpCores))
enableFastForward(cfg, w, until, warmup) ==
  LET x == [w EXCEPT !.man.ff = TRUE, !.man.warm = warmup, !.man.target = until,
                     !.core = [c \in SpCores |-> coreFastForward(@[c], TRUE)]]
  IN barrierFastForward(RecalibrateAll(cfg, x), TRUE, MaxTime(x, SpCores))

\* In uncoordinated mode the cores are set to the same time: the detailed timer of
\* a core stays where setFastForward left it, and the difference, which wraps when
\* a core without a thread is ahead, takes that core back.  A thread is on the core
\* of its own number, as the call of isThreadRunning(core_id) takes for granted.
disableFastForward(cfg, w) ==
  LET x == [w EXCEPT !.man.ff = FALSE, !.man.warm = FALSE,
                     !.core = [c \in SpCores |-> [coreFastForward(@[c], FALSE) EXCEPT !.callback = NoCallback]]]
      t == MaxTime(x, RunningCores(x))
      y == IF ~cfg.uncoordinated THEN x
           ELSE [x EXCEPT !.core = [c \in SpCores |-> ffAdvance(@[c], t - @[c].elapsed)]]
  IN barrierFastForward(y, FALSE, t)

resetCoreHistoricCPIs(w) ==
  [w EXCEPT !.core = [c \in SpCores |->
     [@[c] EXCEPT !.count = 0, !.measured = 0, !.ffwd = 0]]]

\* 0 stands for a core that was idle for most of the interval or executed nothing.
getCoreHistoricCPI(cfg, k) ==
  IF k.count = 0 \/ k.measured <= cfg.detailed \div 5 THEN 0 ELSE k.measured \div k.count

\* CPI to fast-forward with: of the last interval that measured one, and at most
\* the dispatch width of the core in instructions per cycle.
FastForwardCpi(cfg, k) ==
  LET h == getCoreHistoricCPI(cfg, k)
      cpi == IF h # 0 THEN h ELSE IF k.history # 0 THEN k.history ELSE cfg.period
  IN [k EXCEPT !.history = IF h # 0 THEN h ELSE @,
               !.cpi = Min({Max({cpi, cfg.period \div cfg.width}), 100 * cfg.period})]

--------------------------------------------------------------------------------
\* PeriodicSampling.

stepFastForward(cfg, w, time) ==
  LET f == Min({w.man.ffLeft, cfg.sync})
      r == Min({w.man.warmLeft, cfg.sync})
  IN IF w.man.ffLeft > 0 THEN enableFastForward(cfg, [w EXCEPT !.man.ffLeft = @ - f], time + f, FALSE)
     ELSE enableFastForward(cfg, [w EXCEPT !.man.warmLeft = @ - r], time + r, TRUE)

StepsLeft(w) == w.man.ffLeft > 0 \/ w.man.warmLeft > 0

\* Offsets of the detailed interval that the random placement may choose.
Offsets(cfg) == IF cfg.placement
                THEN {(k * cfg.sync) % (cfg.ff + cfg.warmup) : k \in 0 .. 3} ELSE {0}

callbackDetailed(cfg, w, time, offset) ==
  IF w.man.start
  THEN IF time < w.man.offset THEN w
       ELSE resetCoreHistoricCPIs([w EXCEPT !.man.last = time, !.man.start = FALSE])
  ELSE IF time > w.man.last + cfg.detailed
  THEN LET x == [w EXCEPT !.core = [c \in SpCores |-> FastForwardCpi(cfg, @[c])],
                          !.oops = IF w.man.dleft = 0 THEN @ ELSE @ \cup {"warming up"},
                          !.man.ffLeft = IF cfg.placement
                                         THEN cfg.ff + cfg.warmup - w.man.offset + offset ELSE cfg.ff,
                          !.man.offset = IF cfg.placement THEN offset ELSE @,
                          !.man.warmLeft = cfg.warmup,
                          !.man.last = time]
       IN IF StepsLeft(x) THEN stepFastForward(cfg, x, time)
          ELSE [x EXCEPT !.oops = @ \cup {"nothing to do"}]
  ELSE IF w.man.dleft > 0 /\ time > w.man.last + cfg.dwarmup
  THEN resetCoreHistoricCPIs([w EXCEPT !.man.dleft = 0])
  ELSE w

MutCallbackFastForward(cfg, w, time) ==
  IF StepsLeft(w) THEN stepFastForward(cfg, w, time)
  ELSE [disableFastForward(cfg, w) EXCEPT !.man.last = time, !.man.dleft = cfg.dwarmup]
callbackFastForward(cfg, w, time) ==
  IF StepsLeft(w) THEN stepFastForward(cfg, w, time)
  ELSE [disableFastForward(cfg, resetCoreHistoricCPIs(w))
          EXCEPT !.man.last = time, !.man.dleft = cfg.dwarmup]

--------------------------------------------------------------------------------
\* FastForwardPerformanceManager.

step(cfg, w) ==
  LET x == [w EXCEPT !.man.target = w.bar.global + cfg.sync,
                     !.core = [c \in SpCores |-> coreFastForward(@[c], TRUE)]]
  IN barrierFastForward(RecalibrateAll(cfg, x), TRUE, MaxTime(x, SpCores))

releaseAll(w) == [w EXCEPT !.core = [c \in SpCores |->
                    [@[c] EXCEPT !.state = IF @ = "wait" THEN "run" ELSE @]]]

enable(cfg, w) == step(cfg, releaseAll([w EXCEPT !.man.ff = TRUE, !.bar.ff = TRUE]))

disable(cfg, w) ==
  LET x == [w EXCEPT !.man.ff = FALSE,
                     !.core = [c \in SpCores |-> [coreFastForward(@[c], FALSE) EXCEPT !.callback = NoCallback]]]
  IN releaseAll(barrierFastForward(x, FALSE, MaxTime(x, RunningCores(x))))

--------------------------------------------------------------------------------
\* The barrier.

\* HOOK_PERIODIC.
samplingPeriodic(cfg, w, time, offset) ==
  CASE cfg.manager = "sampling" /\ w.man.ff -> callbackFastForward(cfg, w, time)
    [] cfg.manager = "sampling" /\ ~w.man.ff -> callbackDetailed(cfg, w, time, offset)
    [] cfg.manager = "oneipc" -> IF w.man.ff THEN step(cfg, w) ELSE w

isBarrierReached(w) ==
  /\ RunningCores(w) # {}
  /\ \A c \in RunningCores(w) : w.core[c].state = "wait"
                                /\ (w.bar.ff \/ w.core[c].elapsed >= w.bar.next)

\* barrierRelease: the next release is as far as the clock of a core that waits,
\* and everybody before the one after it goes on.
RECURSIVE barrierRelease(_, _, _)
barrierRelease(cfg, w, offset) ==
  LET waiting == {c \in SpCores : w.core[c].state = "wait"}
      t == IF w.bar.ff THEN Max({w.bar.next, MaxTime(w, waiting)}) ELSE w.bar.next
      x == samplingPeriodic(cfg, [w EXCEPT !.bar.next = t, !.bar.global = t], t, offset)
      next == x.bar.next + cfg.quantum
      free == {c \in waiting : w.core[c].elapsed < next}
      y == [x EXCEPT !.bar.next = next,
                     !.core = [c \in SpCores |->
                        [@[c] EXCEPT !.state = IF c \in free THEN "run" ELSE @]]]
  IN IF free = {} THEN barrierRelease(cfg, y, offset) ELSE y

Released(cfg, w, offset) == IF isBarrierReached(w) THEN barrierRelease(cfg, w, offset) ELSE w

SpWaiting(w, c) == [w EXCEPT !.core[c].state = "wait"]

\* BarrierSyncServer::synchronize by a core in detailed mode.
synchronize(cfg, w, c, offset) ==
  IF w.core[c].elapsed < w.bar.next THEN w ELSE Released(cfg, SpWaiting(w, c), offset)

\* HOOK_INSTR_COUNT: into the barrier, whatever the time.  Uncoordinated, the first
\* core to get there ends the fast-forward for everyone.
instr_count(cfg, w, c, offset) ==
  LET x == IF cfg.uncoordinated
           THEN [w EXCEPT !.core = [d \in SpCores |-> setInstructionsCallback(@[d], 1)]] ELSE w
  IN IF w.man.ff THEN Released(cfg, SpWaiting(x, c), offset) ELSE w

\* Core::countInstructions.
countInstructions(cfg, w, c, n, offset) ==
  LET k == ffAdvance(w.core[c], n * w.core[c].cpi)
      left == IF k.callback = NoCallback THEN NoCallback ELSE Max({0, k.callback - n})
      x == [w EXCEPT !.core[c] = [k EXCEPT !.callback = left]]
  IN IF left = 0
     THEN instr_count(cfg, [x EXCEPT !.core[c].callback = NoCallback], c, offset)
     ELSE x

--------------------------------------------------------------------------------
SpInit ==
  /\ spCfg \in SpConfigs
  /\ spCore = [c \in SpCores |->
       [state |-> "run", elapsed |-> 0, timer |-> 0, ff |-> FALSE,
        callback |-> NoCallback, cpi |-> 0, history |-> 0,
        count |-> 0, measured |-> 0, ffwd |-> 0]]
  /\ spBar = [next |-> spCfg.quantum, global |-> 0, ff |-> FALSE]
  /\ \E o \in (IF spCfg.start THEN {0, 2} ELSE {0}) :
       spMan = [ff |-> FALSE, warm |-> FALSE, target |-> 0, ffLeft |-> 0, warmLeft |-> 0,
                dleft |-> 0, last |-> 0, start |-> spCfg.start, offset |-> o]
  /\ spOops = {}

Become(w) == /\ spCore' = w.core /\ spBar' = w.bar /\ spMan' = w.man /\ spOops' = w.oops
             /\ UNCHANGED spCfg

Going(c) == /\ spBar.global < SpMaxTime /\ spCore[c].elapsed < SpMaxTime
            /\ spCore[c].state = "run"

\* An instruction of the detailed model, or time that passes idle; the core then
\* calls into the barrier.
DetailedStep(c) ==
  /\ Going(c) /\ ~spCore[c].ff
  /\ \E t \in SpLatencies, idle \in BOOLEAN, o \in Offsets(spCfg) :
       LET k == [spCore[c] EXCEPT !.elapsed = @ + t, !.timer = @ + t,
                                  !.measured = IF idle /\ spCfg.dsync THEN @ ELSE @ + t,
                                  !.count = IF idle THEN @ ELSE @ + 1]
       IN Become(synchronize(spCfg, [World EXCEPT !.core[c] = k], c, o))

\* Instructions that only advance the clock, and sometimes reach the callback.
FastForwardStep(c) ==
  /\ Going(c) /\ spCore[c].ff
  /\ \E n \in 1 .. 2, o \in Offsets(spCfg) : Become(countInstructions(spCfg, World, c, n, o))

\* Idle time in fast-forward counts when synchronisation is simulated in detail,
\* and the callback is aimed again.
FastForwardIdle(c) ==
  /\ Going(c) /\ spCore[c].ff /\ spCfg.dsync
  /\ \E t \in SpLatencies :
       LET k == [spCore[c] EXCEPT !.elapsed = @ + t, !.timer = spCore[c].elapsed + t]
           w == [World EXCEPT !.core[c] = k]
       IN Become([w EXCEPT !.core[c] = recalibrate(spCfg, w, c)])

ThreadStall(c) ==
  /\ Going(c)
  /\ Cardinality(RunningCores(World)) > 1
  /\ \E o \in Offsets(spCfg) :
       Become(Released(spCfg, [World EXCEPT !.core[c].state = "off"], o))

\* The thread wakes up at the time of the last release.
ThreadResume(c) ==
  /\ spCore[c].state = "off"
  /\ spBar.global < SpMaxTime
  /\ LET t == Max({spBar.global, spCore[c].elapsed})
         d == t - spCore[c].elapsed
         k == [spCore[c] EXCEPT !.state = "run"]
         w == [World EXCEPT !.core[c] =
                 IF k.ff /\ ~spCfg.dsync THEN k
                 ELSE [k EXCEPT !.elapsed = t, !.timer = t, !.measured = IF k.ff \/ spCfg.dsync THEN @ ELSE @ + d]]
     IN Become(IF k.ff /\ spCfg.dsync THEN [w EXCEPT !.core[c] = recalibrate(spCfg, w, c)] ELSE w)

ToggleOneIpc ==
  /\ spCfg.manager = "oneipc"
  /\ spBar.global < SpMaxTime
  /\ Become(IF spMan.ff THEN disable(spCfg, World) ELSE enable(spCfg, World))

SpNext == (\E c \in SpCores : DetailedStep(c) \/ FastForwardStep(c) \/ FastForwardIdle(c)
                              \/ ThreadStall(c) \/ ThreadResume(c)) \/ ToggleOneIpc

SpSpec == SpInit /\ [][SpNext]_spVars

--------------------------------------------------------------------------------
\* Nobody is waited for in vain: in fast-forward every core that is not in the
\* barrier, also one whose thread comes back later, has a callback that takes it
\* there, no further than the end of the fast-forward; in detailed mode no callback
\* is left over; and no assertion of PeriodicSampling fails.
CallbackArmed ==
  /\ \A c \in SpCores :
       IF spMan.ff /\ spCore[c].state # "wait"
       THEN /\ spCore[c].callback # NoCallback
            /\ spCore[c].callback <= 1 + Max({0, SpRounded(spMan.target - spCore[c].elapsed, Max({1, spCore[c].cpi}))})
       ELSE spMan.ff \/ spCore[c].callback = NoCallback
  /\ spOops = {}

\* What a detailed interval measures is detailed: since the CPI of a core was last
\* reset it was not fast-forwarded, and its detailed timer agrees with its clock.
SampleClean ==
  (~spMan.ff /\ ~spCfg.uncoordinated) =>
    \A c \in SpCores : /\ spCore[c].timer = spCore[c].elapsed
                       /\ spCfg.manager = "sampling" => spCore[c].ffwd = 0

\* Switching between fast-forward and detailed intervals loses no core and
\* mixes no fast-forwarded time into what a detailed interval measures.
SamplingSound == CallbackArmed /\ SampleClean
=============================================================================
