-------------------------- MODULE BarrierSyncServer --------------------------
(***************************************************************************)
(* The clock barrier (system/barrier_sync_server.cc, with the client in    *)
(* barrier_sync_client.cc): a core that has reached the next barrier time  *)
(* sleeps until all running cores have, then the barrier time moves on by  *)
(* a quantum and the cores behind it continue, HostCores at a time.  A     *)
(* thread that stalls or exits takes its core out of the barrier.          *)
(*                                                                         *)
(* Every core runs one thread (static scheduler, no SMT groups).  All      *)
(* operations run under the lock of the thread manager and are one step    *)
(* each; what the application does between two of them is another.         *)
(***************************************************************************)
EXTENDS Integers, FiniteSetsExt

CONSTANTS
  Cores,
  None,             \* INVALID_THREAD_ID
  Quantum,          \* m_barrier_interval
  Steps,            \* by how much a core's clock may go forward at once
  HostCores,        \* getNumHostCores()
  MaxTime,          \* bound: a core at this time executes nothing more
  Switches          \* which mode switches happen: "stop", "roi-begin", "roi-end"

ASSUME BarrierAssumption ==
  /\ None \notin Cores /\ IsFiniteSet(Cores)
  /\ Quantum \in Nat \ {0} /\ HostCores \in Nat \ {0} /\ MaxTime \in Nat
  /\ Switches \subseteq {"stop", "roi-begin", "roi-end"}
  /\ Steps \subseteq Nat \ {0} /\ Steps # {} /\ IsFiniteSet(Steps)

VARIABLES
  run,              \* what the thread of a core does, as the thread manager sees it
  place,            \* where its host thread is
  clock,            \* the elapsed time of the core
  local,            \* m_local_clock_list
  acquired,         \* m_barrier_acquire_list, as a set
  toRelease,        \* m_to_release: it is shuffled, so its order is no matter
  next,             \* m_next_barrier_time
  fastforward,      \* m_fastforward
  disabled,         \* m_disable
  endless,          \* barrierRelease() loops and nobody can be released
  asserted          \* m_to_release was empty whenever the barrier was reached

serverVars == <<local, acquired, toRelease, next, fastforward, disabled, endless, asserted>>
vars == <<run, place, clock, serverVars>>

\* "new"  not started;  "sleeping"  stalled with a timeout;  "gone"  exited.
RunStates == {"new", "running", "stalled", "sleeping", "gone"}
\* "exec"  executes, or its thread is stalled;  "due"  is about to synchronize;
\* "asleep"  waits on the condition variable of its core.
Places == {"exec", "due", "asleep"}

Init == /\ \E first \in Cores : run = [c \in Cores |-> IF c = first THEN "running" ELSE "new"]
        /\ place = [c \in Cores |-> "exec"]
        /\ clock = [c \in Cores |-> 0]
        /\ local = [c \in Cores |-> 0]
        /\ acquired = {} /\ toRelease = {}
        /\ next = Quantum
        /\ fastforward = ("roi-begin" \in Switches) /\ disabled = FALSE
        /\ endless = FALSE /\ asserted = TRUE

Running(r) == {c \in Cores : r[c] = "running"}
Executes(c) == run[c] = "running" /\ place[c] = "exec"

\* A barrierRelease() that does not end never gives the lock back.
LockFree == ~endless

Latest(S) == Max({0} \union S)

\* BarrierSyncClient::m_next_sync_time is the end of the quantum in which the core
\* last synchronized: it is about to synchronize when its clock, now clk, has left
\* that quantum, or, in fast-forward mode, with HOOK_INSTR_COUNT.
Due(plc, clk) ==
  [c \in Cores |->
     IF \/ clk[c] \div Quantum > clock[c] \div Quantum
        \/ fastforward /\ clk[c] > clock[c]
     THEN "due" ELSE plc[c]]
-----------------------------------------------------------------------------
\* In fast-forward mode it is enough that a core waits, in detailed mode its
\* clock must have been at the barrier when it last entered it.
MutReachedByNobody(r, loc, acq) ==
  IF fastforward THEN acq # {} /\ Running(r) \subseteq acq
                 ELSE \A c \in Running(r) : loc[c] >= next
MutReachedLastTime(r, loc, acq) ==
  IF fastforward THEN acq # {} /\ Running(r) \subseteq acq
                 ELSE /\ Running(r) # {}
                      /\ \A c \in Running(r) : loc[c] >= next - Quantum
isBarrierReached(r, loc, acq) ==
  IF fastforward THEN acq # {} /\ Running(r) \subseteq acq
                 ELSE /\ Running(r) # {}
                      /\ \A c \in Running(r) : loc[c] >= next

\* doRelease(n): the sets of cores that may be signalled.
doRelease(n, rel) == {s \in SUBSET rel : Cardinality(s) = Min({n, Cardinality(rel)})}

Woken(plc, s) == [c \in Cores |-> IF c \in s THEN "exec" ELSE plc[c]]

\* What HOOK_PERIODIC may do: threads whose timeout has come are resumed.
Resumed(r, s) == [c \in Cores |-> IF c \in s THEN "running" ELSE r[c]]
ClockAt(s, time) == [c \in Cores |-> IF c \in s THEN Max({clock[c], time}) ELSE clock[c]]

\* setFastForward(): the barrier skips the time that was fast-forwarded.
SwitchedTime(from, ff, r) ==
  Latest({from} \union {clock[c] : c \in IF ff THEN Cores ELSE Running(r)})

\* The loop of barrierRelease(): quanta are added until a core can continue.
MutCanContinue(loc, acq, time) == acq
CanContinue(loc, acq, time) == {c \in acq : loc[c] < time}

\* barrierRelease(caller) in a state where the run states are r, the places plc,
\* and so on, because of what the same operation has done before.
barrierRelease(caller, r, plc, loc, acq, rel) ==
  /\ asserted' = (asserted /\ rel = {})
  /\ local' = loc
  /\ UNCHANGED disabled
  /\ IF acq = {}
     THEN /\ endless' = TRUE
          /\ run' = r /\ place' = plc /\ acquired' = acq /\ toRelease' = rel
          /\ UNCHANGED <<clock, next, fastforward>>
     ELSE \E timedOut \in SUBSET {c \in Cores : r[c] = "sleeping"} :
          LET base  == IF fastforward THEN Latest({next} \union {loc[c] : c \in Cores})
                                      ELSE next
              enough(k) == CanContinue(loc, acq, base + k * Quantum) # {}
              time  == base + Quantum * Min({k \in 1..(Latest({loc[c] : c \in acq}) + 1) : enough(k)})
              freed == CanContinue(loc, acq, time)
              rest  == (rel \union freed) \ {caller}
          IN \E s \in doRelease(IF fastforward THEN Cardinality(Cores) ELSE HostCores, rest),
                at \in {t \in base..(time - Quantum) : (t - base) % Quantum = 0} :
             /\ next' = time
             /\ acquired' = acq \ freed
             /\ toRelease' = rest \ s
             /\ run' = Resumed(r, timedOut)
             /\ clock' = ClockAt(timedOut, at)
             /\ place' = Due(Woken(plc, s \union (freed \intersect {caller})), clock')
             /\ UNCHANGED <<fastforward, endless>>
-----------------------------------------------------------------------------
(***************************************************************************)
(* A core executes and synchronizes.                                       *)
(***************************************************************************)
Execute(c) ==
  /\ Executes(c) /\ clock[c] < MaxTime
  /\ \E d \in Steps : clock' = [clock EXCEPT ![c] = @ + d]
  /\ place' = Due(place, clock')
  /\ UNCHANGED <<run, serverVars>>

\* One thread enters the barrier, another one can resume.
synchronize(c) ==
  /\ place[c] = "due" /\ LockFree
  /\ IF disabled \/ (clock[c] < next /\ ~fastforward)
     THEN place' = [place EXCEPT ![c] = "exec"] /\ UNCHANGED <<run, clock, serverVars>>
     ELSE \E s \in doRelease(1, toRelease) :
          LET plc == [Woken(place, s) EXCEPT ![c] = "asleep"]
              loc == [local EXCEPT ![c] = clock[c]]
              acq == acquired \union {c}
              rel == toRelease \ s
          IN IF isBarrierReached(run, loc, acq)
             THEN barrierRelease(c, run, plc, loc, acq, rel)
             ELSE /\ place' = plc /\ local' = loc /\ acquired' = acq /\ toRelease' = rel
                  /\ UNCHANGED <<run, clock, next, fastforward, disabled, endless, asserted>>
-----------------------------------------------------------------------------
(***************************************************************************)
(* The hooks of the thread manager.                                        *)
(***************************************************************************)
\* releaseThread(), then signal(): the others may have waited for this core.
MutThreadStops(c, r) ==
  /\ run' = r
  /\ \E s \in doRelease(1, toRelease) : /\ place' = Woken(place, s)
                                        /\ toRelease' = toRelease \ s
  /\ UNCHANGED <<clock, local, acquired, next, fastforward, disabled, endless, asserted>>
ThreadStops(c, r) ==
  \E s \in doRelease(1, toRelease) :
    LET plc == Woken(place, s)
        rel == toRelease \ s
    IN IF ~disabled /\ isBarrierReached(r, local, acquired)
       THEN barrierRelease(None, r, plc, local, acquired, rel)
       ELSE /\ run' = r /\ place' = plc /\ toRelease' = rel
            /\ UNCHANGED <<clock, local, acquired, next, fastforward, disabled, endless, asserted>>

threadStall(c, how) ==
  /\ Executes(c) /\ LockFree
  /\ Running(run) # {c} /\ clock[c] < MaxTime
  /\ ThreadStops(c, [run EXCEPT ![c] = how])

\* The last running thread stalls: stallThread() calls advance() until the hook
\* has resumed somebody.
StallAndAdvance(c, how) ==
  /\ Executes(c) /\ LockFree
  /\ Running(run) = {c} /\ clock[c] < MaxTime
  /\ LET r == [run EXCEPT ![c] = how]
         base == IF fastforward THEN Latest({next} \union {local[d] : d \in Cores}) ELSE next
     IN \E timedOut \in (SUBSET {d \in Cores : r[d] = "sleeping"}) \ {{}},
           time \in IF disabled THEN {base} ELSE {base, base + Quantum} :
          /\ run' = Resumed(r, timedOut)
          /\ clock' = ClockAt(timedOut, time)
          /\ place' = Due(place, clock')
          /\ next' = time
          /\ asserted' = (asserted /\ toRelease = {})
  /\ UNCHANGED <<local, acquired, toRelease, fastforward, disabled, endless>>

threadExit(c) ==
  /\ Executes(c) /\ LockFree
  /\ ThreadStops(c, [run EXCEPT ![c] = "gone"])

\* Thread d creates, or resumes, the thread of c, which continues at d's time.
\* A thread that starts reports its core with HOOK_THREAD_MIGRATE.
threadMigrate(d, c) ==
  /\ Executes(d) /\ LockFree /\ run[c] = "new"
  /\ run' = [run EXCEPT ![c] = "running"]
  /\ clock' = [clock EXCEPT ![c] = Max({clock[c], clock[d]})]
  /\ \E s \in doRelease(1, toRelease) : /\ place' = Due(Woken(place, s), clock')
                                        /\ toRelease' = toRelease \ s
  /\ UNCHANGED <<local, acquired, next, fastforward, disabled, endless, asserted>>

Resume(d, c) ==
  /\ Executes(d) /\ LockFree /\ run[c] = "stalled"
  /\ run' = [run EXCEPT ![c] = "running"]
  /\ clock' = [clock EXCEPT ![c] = Max({clock[c], clock[d]})]
  /\ place' = Due(place, clock')
  /\ UNCHANGED serverVars
-----------------------------------------------------------------------------
(***************************************************************************)
(* Mode switches by the application or by a script.                        *)
(***************************************************************************)
MutabortBarrier == place' = Woken(place, acquired) /\ UNCHANGED acquired
abortBarrier == /\ place' = Woken(place, acquired)
                /\ acquired' = {}

setDisable(c) ==
  /\ "stop" \in Switches /\ Executes(c) /\ LockFree /\ ~disabled /\ ~fastforward
  /\ disabled' = TRUE
  /\ abortBarrier
  /\ UNCHANGED <<run, clock, local, toRelease, next, fastforward, endless, asserted>>

\* FastForwardPerformanceManager: enable() at the end of the region of interest,
\* disable() at its beginning.
setFastForward(c, on) ==
  /\ (IF on THEN "roi-end" ELSE "roi-begin") \in Switches
  /\ Executes(c) /\ LockFree /\ ~disabled /\ fastforward # on
  /\ fastforward' = on
  /\ next' = SwitchedTime(next, on, run)
  /\ abortBarrier
  /\ UNCHANGED <<run, clock, local, toRelease, disabled, endless, asserted>>
-----------------------------------------------------------------------------
Next == \E c \in Cores :
  \/ Execute(c) \/ synchronize(c) \/ threadExit(c)
  \/ \E how \in {"stalled", "sleeping"} : threadStall(c, how) \/ StallAndAdvance(c, how)
  \/ \E d \in Cores : threadMigrate(d, c) \/ Resume(d, c)
  \/ setDisable(c) \/ \E on \in BOOLEAN : setFastForward(c, on)

Spec == Init /\ [][Next]_vars
-----------------------------------------------------------------------------
TypeOK == /\ run \in [Cores -> RunStates] /\ place \in [Cores -> Places]
          /\ clock \in [Cores -> Nat]
          /\ local \in [Cores -> Nat] /\ next \in Nat
          /\ acquired \subseteq Cores /\ toRelease \subseteq Cores
          /\ {fastforward, disabled, endless, asserted} \subseteq BOOLEAN

\* A host thread sleeps if and only if the server still knows that it has to wake
\* it: it is in the barrier or in the list of those to be released, not in both,
\* and its thread runs.  Nobody is forgotten by a release in several portions.
SleepersKnown ==
  /\ acquired \intersect toRelease = {}
  /\ {c \in Cores : place[c] = "asleep"} = acquired \union toRelease
  /\ acquired \union toRelease \subseteq Running(run)

\* barrier_sync_server.cc:249 "Reached the barrier while some threads haven't even
\* restarted?": the barrier is not reached again before everybody it released has
\* been let go.
EverybodyRestarted == asserted

\* barrier_sync_server.cc:261 "If a core cannot be resumed, we have to advance the
\* sync time till a core can be resumed": whenever the barrier is released there is
\* a core that can be, so the loop ends.
ReleaseEnds == ~endless

\* In detailed mode no core executes at or past the barrier time, and none is
\* further behind it than a quantum and the longest step of a core that had to be
\* waited for.
SkewBounded == ~fastforward /\ ~disabled =>
  \A c \in Cores : Executes(c) => /\ clock[c] < next
                                  /\ clock[c] + Quantum + Max(Steps) >= next

\* Not everybody waits for everybody: as long as a host thread sleeps in the
\* barrier, that of another running thread is outside and will come to it, stall
\* or exit.
SomebodyIsOut ==
  (\E c \in Cores : place[c] = "asleep") => \E c \in Running(run) : place[c] # "asleep"
=============================================================================
