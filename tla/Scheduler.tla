------------------------------- MODULE Scheduler -------------------------------
(***************************************************************************)
(* The thread schedulers (scheduler/): static, pinned, roaming, big_small  *)
(* and sequential, with the part of the thread manager they drive          *)
(* (ThreadManager::moveThread, Thread::setCore, Thread::reschedule).       *)
(*                                                                         *)
(* A handler of the scheduler runs under m_thread_lock and calls the       *)
(* thread manager, which calls back into the scheduler (moveThread resumes *)
(* a thread, the resume hook looks for a free core and reschedules that).  *)
(* So the state they share is one record, `sched', and the handlers are    *)
(* functions on it; an action applies a handler and moves a host thread.   *)
(* Where the code draws a random number a handler returns a set of states. *)
(***************************************************************************)
EXTENDS Integers, FiniteSets, FiniteSetsExt, TLC

CONSTANTS
  NumThreads,     \* threads the application creates, numbered from 0
  NumCores,       \* Config::getApplicationCores()
  SchedulerTypes, \* the values of scheduler/type that are explored
  CoreMask,       \* scheduler/.../core_mask: the cores that may be used
  BigCores,       \* the cores with the tag "big"
  Interleaving,   \* scheduler/pinned/interleaving
  Sequence,       \* scheduler/sequential/sequence: threads per core
  Period,         \* time between two periodic hooks
  Quantum,        \* scheduler/.../quantum
  SchedMaxTime,   \* bound: simulated time, for each type of scheduler
  SchedMaxCalls   \* bound: calls of the application that stall, yield or set an affinity

SThreads == 0 .. NumThreads - 1
SCores   == 0 .. NumCores - 1
NoId     == -1        \* INVALID_THREAD_ID, INVALID_CORE_ID

VARIABLES
  stype,      \* scheduler/type
  sched,      \* state of scheduler and thread manager
  shost,      \* where the host thread of each thread is
  sat,        \* the core a host thread believes to run on (its local `core')
  snow,       \* simulated time of the last periodic hook
  scalls,     \* calls made so far
  swait       \* history: periods for which a runnable thread had no core,
              \* while no thread that starts up kept one

schedVars == <<stype, sched, shost, sat, snow, scalls, swait>>

\* "absent" not created; "new" onThreadStart() is to come; "app" executes the
\* application; "barrier" waits for the end of the quantum; "check" is about to
\* compare its core with m_core in Thread::reschedule(); "stalling" is in
\* stallThread(), with the lock; "waiting" asleep; "gone" exited.
SHosts == {"absent", "new", "app", "barrier", "check", "stalling", "waiting", "gone"}

Pinned == {"pinned", "roaming", "big_small", "sequential"}  \* SchedulerPinnedBase

ThreadInfo0 ==
  [aff |-> [t \in SThreads |-> {}],           \* m_core_affinity
   has |-> [t \in SThreads |-> FALSE],        \* m_has_affinity
   on  |-> [t \in SThreads |-> NoId],         \* m_core_running
   \* m_last_scheduled_in of a thread that runs, m_last_scheduled_out of one
   \* that does not: the other one is not read
   since |-> [t \in SThreads |-> 0]]

SchedInit ==
  /\ stype \in SchedulerTypes
  /\ sched = ThreadInfo0 @@
       [running  |-> [c \in SCores |-> NoId],       \* m_core_thread_running
        left     |-> [c \in SCores |-> 0],          \* m_quantum_left
        runnable |-> [t \in SThreads |-> FALSE],    \* m_threads_runnable
        status   |-> [t \in SThreads |-> "NONE"],   \* m_thread_state[].status
        why      |-> [t \in SThreads |-> "none"],   \* .stalled_reason
        core     |-> [t \in SThreads |-> NoId],     \* Thread::m_core
        cstate   |-> [c \in SCores |-> "IDLE"],     \* Core::getState()
        signal   |-> {},                            \* threads signalled in this step
        nextCore |-> 0,                             \* SchedulerPinned::m_next_core
        isbig    |-> {},                            \* m_thread_isbig
        shuffled |-> 0,                             \* m_last_reshuffle
        queue    |-> [c \in SCores |-> {}],         \* core_waiting_threads
        nextUp   |-> [c \in SCores |-> FoldSet(LAMBDA i, n : n + Sequence[i], 0, 0 .. c - 1)],
        seqs     |-> Sequence,
        set      |-> 0,                             \* current_pinball_set
        failed   |-> {}]                            \* assertions that failed
  /\ shost = [t \in SThreads |-> "absent"]
  /\ sat = [t \in SThreads |-> NoId]
  /\ snow = 0 /\ scalls = 0
  /\ swait = [t \in SThreads |-> 0]
-----------------------------------------------------------------------------
\* Scheduler::findFirstFreeCore() under the mask of SchedulerStatic.
findFirstFreeMaskedCore(s) ==
  LET free == {c \in CoreMask : s.cstate[c] = "IDLE"}
  IN  IF free = {} THEN NoId ELSE Min(free)

findFreeCoreForThread(s, t) ==
  LET free == {c \in s.aff[t] : s.running[c] = NoId}
  IN  IF free = {} THEN NoId ELSE Min(free)

\* SchedulerPinned: cores in steps of the interleaving, then the next lane.
RECURSIVE getNextCore(_)
getNextCore(c) ==
  LET up == c + Interleaving
      n  == IF up >= NumCores THEN ((up % NumCores) + 1) % Interleaving ELSE up
  IN  IF n \in CoreMask THEN n ELSE getNextCore(n)

RECURSIVE getFreeCore(_, _, _)
getFreeCore(s, c, first) ==
  IF s.running[c] = NoId /\ c \in CoreMask THEN c
  ELSE LET n == getNextCore(c) IN IF n = first THEN first ELSE getFreeCore(s, n, first)

\* The thread that reschedule() gives core c to: the one with the largest score,
\* the first of them in the order of the ids.
Candidates(s, c) ==
  {t \in SThreads : c \in s.aff[t] /\ s.runnable[t] /\ s.on[t] \in {NoId, c}}
Score(s, t, time) ==
  IF s.on[t] # NoId THEN s.since[t] - time ELSE time - s.since[t]
MutFind(s, c, time) ==
  LET cand == Candidates(s, c)
  IN  IF cand = {} THEN NoId ELSE Min(cand)
FindThread(s, c, time) ==
  LET cand == Candidates(s, c)
      best == {t \in cand : \A u \in cand : Score(s, u, time) <= Score(s, t, time)}
  IN  IF best = {} THEN NoId ELSE Min(best)

\* Thread::setCore() asserts that nobody else is on the core.
setCore(s, t, c) ==
  LET bad == c # NoId /\ \E u \in SThreads \ {t} : s.core[u] = c
  IN  [s EXCEPT !.core[t] = c, !.failed = IF bad THEN @ \union {"setCore"} ELSE @]

RECURSIVE reschedule(_, _, _)
rescheduleIfAny(s, c, time) == IF c = NoId THEN s ELSE reschedule(s, c, time)
rescheduleFree(s, t, time) == rescheduleIfAny(s, findFreeCoreForThread(s, t), time)

\* The resume hook: SchedulerDynamic::__threadResume().
threadResume(s, t, time) ==
  IF stype \notin Pinned THEN s ELSE rescheduleFree([s EXCEPT !.runnable[t] = TRUE], t, time)

resumeThread(s, t, time) ==
  threadResume([s EXCEPT !.status[t] = "RUNNING", !.why[t] = "none",
                         !.signal = @ \union {t}], t, time)

\* ThreadManager::moveThread(): the old core becomes idle, a thread that had none
\* is resumed, the new core runs unless the thread is stalled.
OffCore(s, t) == IF s.core[t] = NoId THEN s ELSE [s EXCEPT !.cstate[s.core[t]] = "IDLE"]
Awake(s, t, time) ==
  IF s.core[t] = NoId /\ s.status[t] = "STALLED" /\ s.why[t] = "unscheduled"
  THEN resumeThread(s, t, time) ELSE s
CoreRuns(s, t, c) == IF s.status[t] = "STALLED" THEN s ELSE [s EXCEPT !.cstate[c] = "RUNNING"]
moveThread(s, t, c, time) ==
  IF c = NoId THEN setCore(OffCore(s, t), t, NoId)
  ELSE CoreRuns(setCore(Awake(OffCore(s, t), t, time), t, c), t, c)

\* A thread that leaves core c gets a small penalty, the number of the core, so
\* that the same periodic() does not give it the next core.
MutSwapOut(s, c, cur, time) == s
SwapOut(s, c, cur, time) ==
  IF cur = NoId THEN s
  ELSE moveThread([s EXCEPT !.on[cur] = NoId, !.since[cur] = time + c], cur, NoId, time)
SwapIn(s, c, new, time) ==
  IF new = NoId THEN [s EXCEPT !.running[c] = NoId]
  ELSE moveThread([s EXCEPT !.running[c] = new, !.on[new] = c, !.since[new] = time], new, c, time)
Exchange(s, c, new, time) ==
  IF s.running[c] = new THEN s ELSE SwapIn(SwapOut(s, c, s.running[c], time), c, new, time)
reschedule(s, c, time) ==
  IF s.running[c] # NoId /\ s.status[s.running[c]] = "INITIALIZING" THEN s
  ELSE [Exchange(s, c, FindThread(s, c, time), time) EXCEPT !.left[c] = Quantum]
-----------------------------------------------------------------------------
threadYield(s, t, time) ==
  LET Back(r) == IF s.on[t] \in r.aff[t] THEN r ELSE rescheduleFree(r, t, time)
  IN  IF s.on[t] = NoId THEN s
      ELSE Back(reschedule([s EXCEPT !.left[s.on[t]] = 0], s.on[t], time))

\* SchedulerPinnedBase::threadSetAffinity() with a mask: what follows for the
\* thread, once the mask is stored.
AffinityChanged(s, caller, t, mask, time) ==
  IF s.status[t] = "NONE" THEN s
  ELSE IF t = caller THEN threadYield(s, t, time)
  ELSE IF s.on[t] # NoId /\ s.on[t] \notin mask THEN [s EXCEPT !.left[s.on[t]] = 0]
  ELSE IF s.runnable[t] /\ s.on[t] = NoId THEN rescheduleFree(s, t, time)
  ELSE s
threadSetAffinity(s, caller, t, mask, time) ==
  AffinityChanged([s EXCEPT !.aff[t] = mask, !.has[t] = @ \/ mask # {}], caller, t, mask, time)

moveToSmall(s, t, time) ==
  [threadSetAffinity(s, NoId, t, SCores \ BigCores, time) EXCEPT !.isbig = @ \ {t}]
moveToBig(s, t, time) ==
  [threadSetAffinity(s, NoId, t, BigCores, time) EXCEPT !.isbig = @ \union {t}]

\* A random eligible thread is promoted: the set of outcomes.
pickBigThread(s, time) ==
  LET eligible == {t \in SThreads : t \notin s.isbig /\ s.runnable[t]}
  IN  IF eligible = {} THEN {s} ELSE {moveToBig(s, t, time) : t \in eligible}

pinnedAffinity(s, t, c) == [s EXCEPT !.aff[t] = {c}, !.has[t] = TRUE, !.nextCore = getNextCore(c)]
threadSetInitialAffinity(s, t, time) ==
  CASE stype = "pinned" -> pinnedAffinity(s, t, getFreeCore(s, s.nextCore, s.nextCore))
    [] stype = "roaming" -> [s EXCEPT !.aff[t] = CoreMask, !.has[t] = TRUE]
    [] stype = "big_small" -> moveToSmall(s, t, time)
    [] stype = "sequential" ->
         [s EXCEPT !.aff[t] = {s.set}, !.has[t] = TRUE, !.seqs[s.set] = @ - 1,
                   !.set = IF s.seqs[s.set] = 1 THEN @ + 1 ELSE @]

\* SchedulerPinnedBase::threadCreate() or SchedulerStatic::threadCreate(), and
\* what createThread_unlocked() does with the core it returns.
Booked(s, t, c) ==
  IF c = NoId THEN [s EXCEPT !.on[t] = NoId]
  ELSE [s EXCEPT !.on[t] = c, !.running[c] = t, !.left[c] = Quantum]
Placed(s, t, c) ==
  IF c = NoId THEN s ELSE [setCore(s, t, c) EXCEPT !.cstate[c] = "INITIALIZING"]
pinnedCreate(s, t) ==
  LET At(c) == Placed(Booked(s, t, c), t, c) IN At(findFreeCoreForThread(s, t))
threadCreate(s, t, time) ==
  LET Create(r) ==
        IF stype = "static" THEN Placed(r, t, findFirstFreeMaskedCore(r))
        ELSE pinnedCreate(IF r.has[t] THEN r ELSE threadSetInitialAffinity(r, t, time), t)
  IN  Create([s EXCEPT !.status[t] = "INITIALIZING"])

\* The start hook.  A sequential thread either is the one its core runs or is
\* put in the queue of the core and taken out of the competition.
sequentialStart(s, t, c) ==
  IF s.running[c] = t THEN [s EXCEPT !.runnable[t] = TRUE, !.nextUp[c] = @ + 1]
  ELSE [s EXCEPT !.runnable[t] = FALSE, !.queue[c] = @ \union {t}]
threadStart(s, t, time) ==
  IF stype = "static" THEN s
  ELSE IF stype = "sequential" THEN sequentialStart(s, t, Min(s.aff[t]))
  ELSE rescheduleFree([s EXCEPT !.runnable[t] = TRUE], t, time)

\* SchedulerPinnedBase: whoever leaves its core leaves it to somebody else.
releaseCore(s, t, time) == rescheduleIfAny(s, s.on[t], time)

\* The stall hook, for a reason other than STALL_UNSCHEDULED.
threadStall(s, t, time) ==
  LET Stall(r) == IF stype = "big_small" /\ t \in r.isbig
                  THEN {releaseCore(moveToSmall(p, t, time), t, time) : p \in pickBigThread(r, time)}
                  ELSE {releaseCore(r, t, time)}
  IN  IF stype = "static" THEN {s} ELSE Stall([s EXCEPT !.runnable[t] = FALSE])

\* SchedulerSequential::threadExit(): the next thread of the core follows, if it
\* is the one whose turn it is and it has been started.
Succeed(s, c, top, time) ==
  reschedule([s EXCEPT !.queue[c] = @ \ {top}, !.runnable[top] = TRUE, !.nextUp[c] = @ + 1], c, time)
sequentialExit(s, c, time) ==
  IF s.queue[c] = {} \/ Min(s.queue[c]) # s.nextUp[c] THEN s
  ELSE Succeed(s, c, Min(s.queue[c]), time)

threadExit(s, t, time) ==
  LET Exit(r) ==
        CASE stype = "static" -> {s}
          [] stype = "sequential" ->
               {sequentialExit([r EXCEPT !.since[t] = time], Min(r.aff[t]), time)}
          [] OTHER -> {releaseCore(p, t, time) :
                         p \in IF stype = "big_small" /\ t \in r.isbig
                               THEN pickBigThread(r, time) ELSE {r}}
  IN  Exit([s EXCEPT !.runnable[t] = FALSE])

\* SchedulerPinnedBase::periodic(): core after core, in the order of the ids.
RECURSIVE periodicFrom(_, _, _)
periodicFrom(s, c, time) ==
  IF c = NumCores THEN s
  ELSE periodicFrom(IF Period > s.left[c] \/ s.running[c] = NoId
                    THEN reschedule(s, c, time)
                    ELSE [s EXCEPT !.left[c] = @ - Period], c + 1, time)

RECURSIVE allToSmall(_, _, _), promote(_, _, _)
allToSmall(s, t, time) ==
  IF t = NumThreads THEN s
  ELSE allToSmall(IF t \in s.isbig THEN moveToSmall(s, t, time) ELSE s, t + 1, time)
promote(ss, n, time) ==
  IF n = 0 THEN ss ELSE promote(UNION {pickBigThread(s, time) : s \in ss}, n - 1, time)

Created(s) == {t \in SThreads : s.status[t] # "NONE"}

periodic(s, time) ==
  LET many == Min({Cardinality(BigCores), Cardinality(Created(s))})
      reshuffled == {[p EXCEPT !.shuffled = time] :
                       p \in promote({allToSmall(s, 0, time)}, many, time)}
  IN  IF stype = "static" THEN {s}
      ELSE {periodicFrom(p, 0, time) :
              p \in IF stype = "big_small" /\ time > s.shuffled + Quantum
                    THEN reshuffled ELSE {s}}
-----------------------------------------------------------------------------
(***************************************************************************)
(* The host threads.  A thread that was signalled leaves its sleep and     *)
(* checks its core.                                                        *)
(***************************************************************************)
SLockFree == \A t \in SThreads : shost[t] # "stalling"
SCalls(t) == shost[t] = "app" /\ SLockFree
anyRunning(s) == \E t \in SThreads : s.status[t] \in {"RUNNING", "INITIALIZING"}

Waiting(s, t) == s.status[t] \in {"RUNNING", "STALLED"} /\ s.runnable[t] /\ s.on[t] = NoId
StartingUp(s) == \E u \in SThreads : s.status[u] = "INITIALIZING"

\* A handler returns state s; hosts is where the host threads go; ticks is the
\* number of periods that pass.
Becomes(s, hosts, ticks) ==
  /\ sched' = [s EXCEPT !.signal = {}]
  /\ shost' = [u \in SThreads |-> IF u \in s.signal /\ hosts[u] = "waiting"
                                  THEN "check" ELSE hosts[u]]
  /\ swait' = [u \in SThreads |-> IF ~Waiting(s, u) \/ StartingUp(s) THEN 0
                                  ELSE swait[u] + ticks]
  /\ UNCHANGED stype

\* The static scheduler ends the simulation when no core is left, so such an
\* application is not one of those modelled.
createThread(t) ==
  /\ SLockFree /\ sched.status[t] = "NONE"
  /\ \A u \in SThreads : u < t => sched.status[u] # "NONE"
  /\ t = 0 \/ stype = "sequential" \/ \E u \in SThreads : shost[u] = "app"
  /\ stype = "static" => findFirstFreeMaskedCore(sched) # NoId
  /\ Becomes(threadCreate(sched, t, snow), [shost EXCEPT ![t] = "new"], 0)
  /\ UNCHANGED <<sat, snow, scalls>>

Started(s, t) ==
  IF s.core[t] # NoId THEN [s EXCEPT !.cstate[s.core[t]] = "RUNNING"]
  ELSE [s EXCEPT !.status[t] = "STALLED", !.why[t] = "unscheduled"]
onThreadStart(t) ==
  /\ SLockFree /\ shost[t] = "new"
  /\ \E s \in {threadStart([sched EXCEPT !.status[t] = "RUNNING"], t, snow)} :
       /\ Becomes(Started(s, t), [shost EXCEPT ![t] = "check"], 0)
       /\ sat' = [sat EXCEPT ![t] = s.core[t]]
  /\ UNCHANGED <<snow, scalls>>

\* onThreadExit() asserts that the thread has a core and is running.
LeftCore(s, t) ==
  [setCore(s, t, NoId) EXCEPT !.status[t] = "IDLE",
     !.cstate = [d \in SCores |-> IF d = s.core[t] THEN "IDLE" ELSE @[d]],
     !.failed = IF s.core[t] = NoId \/ s.status[t] # "RUNNING" THEN @ \union {"exit"} ELSE @]
onThreadExit(t) ==
  /\ SCalls(t)
  /\ \E s \in threadExit(LeftCore(sched, t), t, snow) : Becomes(s, [shost EXCEPT ![t] = "gone"], 0)
  /\ UNCHANGED <<sat, snow, scalls>>

\* The application waits for a lock, a futex, another thread ...
stallThread(t) ==
  /\ SCalls(t) /\ scalls < SchedMaxCalls
  /\ \E s \in threadStall([sched EXCEPT !.status[t] = "STALLED", !.why[t] = "sync"], t, snow) :
       Becomes(s, [shost EXCEPT ![t] = "stalling"], 0)
  /\ scalls' = scalls + 1
  /\ UNCHANGED <<sat, snow>>

\* ... and is resumed by a thread that runs, or by a periodic hook while
\* everybody is stalled.
wakeThread(t) ==
  /\ sched.status[t] = "STALLED" /\ sched.why[t] = "sync"
  /\ \/ SLockFree /\ \E u \in SThreads : shost[u] = "app"
     \/ ~SLockFree /\ ~anyRunning(sched)
  /\ Becomes(resumeThread(sched, t, snow), shost, 0)
  /\ UNCHANGED <<sat, snow, scalls>>

\* stallThread() ends.  One that was resumed meanwhile does not go to sleep.
finishStall(t) ==
  /\ shost[t] = "stalling" /\ anyRunning(sched)
  /\ shost' = [shost EXCEPT ![t] = IF sched.status[t] = "RUNNING" THEN "check" ELSE "waiting"]
  /\ UNCHANGED <<stype, sched, sat, snow, scalls, swait>>

\* Thread::reschedule(): the thread is still where it was, is now on another
\* core, or has none and stalls for the reason STALL_UNSCHEDULED.
MutThreadReschedule(t) ==
  /\ SLockFree /\ shost[t] = "check"
  /\ shost' = [shost EXCEPT ![t] = "app"]
  /\ sat' = [sat EXCEPT ![t] = IF sched.core[t] # NoId THEN sched.core[t] ELSE @]
  /\ UNCHANGED <<sched, stype, snow, scalls, swait>>
threadReschedule(t) ==
  /\ SLockFree /\ shost[t] = "check"
  /\ IF sched.core[t] # NoId
     THEN /\ shost' = [shost EXCEPT ![t] = "app"]
          /\ sat' = [sat EXCEPT ![t] = sched.core[t]]
          /\ UNCHANGED sched
     ELSE /\ sched' = [sched EXCEPT !.status[t] = "STALLED", !.why[t] = "unscheduled"]
          /\ shost' = [shost EXCEPT ![t] = "stalling"]
          /\ UNCHANGED sat
  /\ UNCHANGED <<stype, snow, scalls, swait>>

schedYield(t) ==
  /\ SCalls(t) /\ stype \in Pinned /\ scalls < SchedMaxCalls
  /\ Becomes(threadYield(sched, t, snow), [shost EXCEPT ![t] = "check"], 0)
  /\ scalls' = scalls + 1
  /\ UNCHANGED <<sat, snow>>

\* sched_setaffinity(): of the caller itself or of another thread.
schedSetAffinity(t, u, mask) ==
  /\ SCalls(t) /\ stype \in Pinned \ {"sequential"} /\ scalls < SchedMaxCalls
  /\ sched.status[u] \notin {"NONE", "IDLE"}
  /\ Becomes(threadSetAffinity(sched, t, u, mask, snow), [shost EXCEPT ![t] = "check"], 0)
  /\ scalls' = scalls + 1
  /\ UNCHANGED <<sat, snow>>

enterBarrier(t) ==
  /\ SCalls(t) /\ snow < SchedMaxTime[stype]
  /\ shost' = [shost EXCEPT ![t] = "barrier"]
  /\ UNCHANGED <<stype, sched, sat, snow, scalls, swait>>

\* The barrier opens when every running core has arrived, or is advanced by a
\* thread that stalls while nobody runs; the periodic hook is called.
advanceTime ==
  /\ snow < SchedMaxTime[stype]
  /\ \/ SLockFree /\ \E t \in SThreads : shost[t] = "barrier"
     \/ ~SLockFree /\ ~anyRunning(sched)
  /\ \A t \in SThreads :
       sched.core[t] # NoId /\ sched.status[t] = "RUNNING" => shost[t] = "barrier"
  /\ snow' = snow + Period
  /\ \E s \in periodic(sched, snow') :
       Becomes(s, [t \in SThreads |-> IF shost[t] = "barrier" THEN "check" ELSE shost[t]], 1)
  /\ UNCHANGED <<sat, scalls>>

SchedNext ==
  \/ \E t \in SThreads :
       \/ createThread(t) \/ onThreadStart(t) \/ onThreadExit(t)
       \/ stallThread(t) \/ wakeThread(t) \/ finishStall(t)
       \/ threadReschedule(t) \/ schedYield(t) \/ enterBarrier(t)
       \/ \E u \in SThreads, mask \in SUBSET SCores \ {{}} : schedSetAffinity(t, u, mask)
  \/ advanceTime
-----------------------------------------------------------------------------
\* The scheduler's two maps are inverse to each other, a thread that has not
\* exited is on the core the scheduler believes it to be on, and the assertions
\* of Thread::setCore() (nobody else is on the core) and onThreadExit() hold.
MapsAgree ==
  /\ sched.failed = {}
  /\ stype \in Pinned =>
       /\ \A t \in SThreads, c \in SCores : sched.on[t] = c <=> sched.running[c] = t
       /\ \A t \in SThreads : sched.status[t] # "IDLE" => sched.core[t] = sched.on[t]

\* A host thread that executes the application does so for a running thread, on
\* the core that the thread has: nobody executes on a core that was taken away.
RunsWhereScheduled ==
  \A t \in SThreads : shost[t] \in {"app", "barrier"} =>
    sched.status[t] = "RUNNING" /\ sched.core[t] # NoId /\ sat[t] = sched.core[t]

\* A runnable thread waits no longer, counted in the periods of the pinned
\* schedulers' periodic(), than the others can run one quantum each, although a
\* call that stalls, yields or changes an affinity reschedules in between.
WaitBound == (NumThreads - 1) * ((Quantum \div Period) + 1)
NobodyStarves == \A t \in SThreads : swait[t] <= WaitBound

\* The maps of the scheduler, the states of the thread manager and what the host
\* threads execute agree through starts, stalls, exits, changes of affinity and
\* the periodic reschedule, and no assertion of the schedulers fails.
SchedulerAgrees == MapsAgree /\ RunsWhereScheduled
=============================================================================
