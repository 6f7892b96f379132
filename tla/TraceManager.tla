----------------------------- MODULE TraceManager -----------------------------
(***************************************************************************)
(* The trace front end (trace_frontend/trace_manager.cc and the life of a  *)
(* TraceThread): applications that start, create threads, fork, end with   *)
(* exit_group or by the end of their traces, and are restarted, and the    *)
(* count of unfinished applications that ends the simulation.              *)
(*                                                                         *)
(* Every thread of a trace is a host thread.  createThread(),              *)
(* createApplication() and signalDone() hold m_lock.  start() and          *)
(* endApplication() walk over m_threads without it (endApplication() takes *)
(* it for each thread it aborts), while the others append to the vector;   *)
(* each turn of their loops is a step.                                     *)
(***************************************************************************)
EXTENDS Integers, Sequences, FiniteSets

CONSTANTS
  TrNumApps,   \* configurations of traceinput/num_apps: applications at the start
  TrMaxApps,   \* bound: applications, forked ones included
  TrMaxNew,    \* bound: threads created after the first ones
  TrMaxEnders  \* bound: threads that call exit_group

\* There is a trace to simulate.
ASSUME TrAssumption == TrNumApps \subseteq Nat \ {0}

VARIABLES
  trNum,      \* traceinput/num_apps
  trFirst,    \* traceinput/stop_with_first_app
  trRestart,  \* traceinput/restart_apps
  trApps,     \* m_app_info: sequence of [num, count, runs]
  trNonfinish,\* m_num_apps_nonfinish
  trThreads,  \* m_threads: sequence of [app, stop, stopped, pc, at, len]
  trRunning,  \* m_num_threads_running
  trStarted,  \* has signalStarted() been called?
  trDone,     \* signals of m_done
  trMain,     \* TraceManager::run(): "start", "wait", "over"
  trSpawned,  \* the iterator of start()
  trEnders,   \* history: the threads that called endApplication()
  trCrashed   \* undefined behaviour: newThread() read past the end of m_tracefiles,
              \* an iterator was used after m_threads had moved, or a thread that
              \* already runs was spawned again

trVars == <<trNum, trFirst, trRestart, trApps, trNonfinish, trThreads, trRunning, trStarted,
            trDone, trMain, trSpawned, trEnders, trCrashed>>

\* "created" not spawned; "start" in run() before the first instruction; "loop"
\* reads the trace; "blocked" in a system call that sleeps; "ending" walks over
\* m_threads in endApplication(), its iterator is at `at' of a vector that had
\* len elements; "exit" left the loop; "over" back from signalDone().
TrPcs == {"created", "start", "loop", "blocked", "ending", "exit", "over"}

TrThread(a, spawn) == [app |-> a, stop |-> FALSE, stopped |-> FALSE, at |-> 0, len |-> 0,
                       pc |-> IF spawn THEN "start" ELSE "created"]

\* TraceManager::TraceManager(), init()
TrInit ==
  /\ trNum \in TrNumApps /\ trFirst \in BOOLEAN /\ trRestart \in BOOLEAN
  /\ trApps = [a \in 1 .. trNum |-> [num |-> 1, count |-> 1, runs |-> 0]]
  /\ trNonfinish = trNum
  /\ trThreads = [a \in 1 .. trNum |-> TrThread(a, FALSE)]
  /\ trRunning = trNum
  /\ trStarted = FALSE /\ trDone = 0 /\ trMain = "start" /\ trSpawned = 1
  /\ trEnders = {} /\ trCrashed = FALSE
-----------------------------------------------------------------------------
TrSet == [apps |-> trApps, nonfinish |-> trNonfinish, threads |-> trThreads,
          running |-> trRunning, done |-> trDone, crashed |-> trCrashed]
TrCommit(s) ==
  /\ trApps' = s.apps /\ trNonfinish' = s.nonfinish /\ trThreads' = s.threads
  /\ trRunning' = s.running /\ trDone' = s.done /\ trCrashed' = s.crashed

\* push_back() moves the elements of a vector that is full; the capacity doubles,
\* and init() appended one thread after the other.  An iterator taken when
\* m_threads had len elements points nowhere from then on.
Moves(n) == \E k \in 0 .. n : n = 2 ^ k
Dangling(len) == \E n \in len .. Len(trThreads) - 1 : Moves(n)

\* newThread(): `first' starts a run of the application; a run that does not
\* create its fifos takes the names of m_tracefiles, which has an entry for the
\* applications of the configuration only: a forked one that is restarted reads
\* past its end.
newThread(s, a, first, init_fifo) ==
  [s EXCEPT !.apps[a] = [@ EXCEPT !.num = IF first THEN 1 ELSE s.apps[a].num + 1,
                                  !.count = IF first THEN 1 ELSE s.apps[a].count + 1],
            !.running = @ + 1,
            !.threads = Append(@, TrThread(a, TRUE)),
            !.crashed = @ \/ (~init_fifo /\ a > trNum)]

createApplication(s) ==
  newThread([s EXCEPT !.nonfinish = @ + 1, !.apps = Append(@, [num |-> 1, count |-> 1, runs |-> 0])],
            Len(s.apps) + 1, TRUE, TRUE)

\* stop(): ask every thread to stop, and wake up run().
stop(s) ==
  [s EXCEPT !.threads = [i \in DOMAIN @ |-> [@[i] EXCEPT !.stop = TRUE]], !.done = @ + 1]

\* signalDone() of thread i.
AppExit(s, a) ==
  LET s1 == [s EXCEPT !.apps[a].runs = @ + 1,
                      !.nonfinish = IF s.apps[a].runs = 0 THEN @ - 1 ELSE @]
  IN  IF trFirst \/ s1.nonfinish = 0 THEN stop(s1)
      ELSE IF trRestart /\ Len(s1.threads) < trNum + TrMaxNew THEN newThread(s1, a, TRUE, FALSE)
      ELSE s1
MutSignalDone(s, i, aborted) ==
  LET a  == s.threads[i].app
      s1 == [s EXCEPT !.threads[i].stopped = TRUE, !.apps[a].num = @ - 1]
      s2 == IF ~aborted /\ s1.apps[a].num = 0 THEN AppExit(s1, a) ELSE s1
  IN  [s2 EXCEPT !.running = @ - 1]
signalDone(s, i, aborted) ==
  LET a  == s.threads[i].app
      s1 == [s EXCEPT !.threads[i].stopped = TRUE, !.apps[a].num = @ - 1]
      s2 == IF ~aborted /\ s1.apps[a].num = 0 THEN AppExit(s1, a) ELSE s1
  IN  IF s.threads[i].stopped THEN s ELSE [s2 EXCEPT !.running = @ - 1]
-----------------------------------------------------------------------------
\* A turn of the loop of start(): spawn the thread at the iterator, unless it is
\* at the end, which has moved on when threads were appended meanwhile: these are
\* running already.
MutStart ==
  LET k == trSpawned
      spawned == k < Len(trThreads) /\ trThreads[k].pc # "created"
      broken == Dangling(trNum) \/ spawned
      turn == ~broken /\ k < Len(trThreads)
  IN  /\ trMain = "start"
      /\ trCrashed' = broken
      /\ trThreads' = IF turn THEN [trThreads EXCEPT ![k].pc = "start"] ELSE trThreads
      /\ trSpawned' = IF turn THEN k + 1 ELSE k
      /\ trMain' = IF turn \/ broken THEN "start" ELSE "wait"
      /\ UNCHANGED <<trNum, trFirst, trRestart, trApps, trNonfinish, trRunning, trStarted, trDone,
                     trEnders>>
start ==
  LET k == trSpawned
      spawned == k <= Len(trThreads) /\ trThreads[k].pc # "created"
      broken == Dangling(trNum) \/ spawned
      turn == ~broken /\ k <= Len(trThreads)
  IN  /\ trMain = "start"
      /\ trCrashed' = broken
      /\ trThreads' = IF turn THEN [trThreads EXCEPT ![k].pc = "start"] ELSE trThreads
      /\ trSpawned' = IF turn THEN k + 1 ELSE k
      /\ trMain' = IF turn \/ broken THEN "start" ELSE "wait"
      /\ UNCHANGED <<trNum, trFirst, trRestart, trApps, trNonfinish, trRunning, trStarted, trDone,
                     trEnders>>

\* wait() returns, the simulation is over and the process ends.
wait ==
  /\ trMain = "wait" /\ trDone > 0
  /\ trMain' = "over" /\ trDone' = trDone - 1
  /\ UNCHANGED <<trNum, trFirst, trRestart, trApps, trNonfinish, trThreads, trRunning, trStarted,
                 trSpawned, trEnders, trCrashed>>

\* Monitor::run(), spawned by start(): no connection within a minute ends the
\* process.
monitorAborts ==
  /\ trMain # "over" /\ ~trStarted
  /\ trMain' = "over"
  /\ UNCHANGED <<trNum, trFirst, trRestart, trApps, trNonfinish, trThreads, trRunning, trStarted,
                 trDone, trSpawned, trEnders, trCrashed>>

TrStep(i, from, s) ==
  /\ trThreads[i].pc = from
  /\ TrCommit(s)
  /\ UNCHANGED <<trNum, trFirst, trRestart, trMain, trSpawned>>
TrAt(s, i, pc) == [s EXCEPT !.threads[i].pc = pc]

\* TraceThread::run() up to the first instruction.
runStart(i) ==
  /\ TrStep(i, "start", TrAt(TrSet, i, "loop"))
  /\ trStarted' = TRUE
  /\ UNCHANGED trEnders

\* The end of an iteration of run(): an instruction has been simulated.
runInstruction(i) ==
  /\ trThreads[i].stop
  /\ TrStep(i, "loop", TrAt(TrSet, i, "exit"))
  /\ UNCHANGED <<trStarted, trEnders>>

\* The trace ends.
runEnd(i) ==
  /\ TrStep(i, "loop", TrAt(TrSet, i, "exit"))
  /\ UNCHANGED <<trStarted, trEnders>>

\* onThreadExit(), then signalDone(): m_stop is read in between.
runExit(i) ==
  /\ TrStep(i, "exit", TrAt(signalDone(TrSet, i, trThreads[i].stop), i, "over"))
  /\ UNCHANGED <<trStarted, trEnders>>

handleNewThreadFunc(i) ==
  /\ Len(trThreads) < trNum + TrMaxNew
  /\ TrStep(i, "loop", newThread(TrSet, trThreads[i].app, FALSE, TRUE))
  /\ UNCHANGED <<trStarted, trEnders>>

handleForkFunc(i) ==
  /\ Len(trThreads) < trNum + TrMaxNew /\ Len(trApps) < TrMaxApps
  /\ TrStep(i, "loop", createApplication(TrSet))
  /\ UNCHANGED <<trStarted, trEnders>>

\* handleSyscallFunc(): a call that sleeps, and unblock().  Nobody wakes a
\* thread of an application that has ended.
handleSyscallFunc(i) ==
  /\ TrStep(i, "loop", TrAt(TrSet, i, "blocked"))
  /\ UNCHANGED <<trStarted, trEnders>>
unblock(i) ==
  /\ ~trThreads[i].stopped
  /\ TrStep(i, "blocked", TrAt(TrSet, i, "loop"))
  /\ UNCHANGED <<trStarted, trEnders>>

\* handleSyscallFunc(): SYS_exit_group, and the steps of endApplication().
handleExitGroup(i) ==
  /\ Cardinality(trEnders \union {i}) <= TrMaxEnders
  /\ TrStep(i, "loop", [TrSet EXCEPT !.threads[i] = [@ EXCEPT !.pc = "ending", !.at = 1,
                                                               !.len = Len(trThreads)]])
  /\ trEnders' = trEnders \union {i}
  /\ UNCHANGED trStarted
MutEndApplication(i) ==
  LET k == trThreads[i].at
      s == [TrSet EXCEPT !.threads[i].at = @ + 1]
      mine == trThreads[k].app = trThreads[i].app
  IN  /\ IF Dangling(trThreads[i].len) THEN TrStep(i, "ending", [TrSet EXCEPT !.crashed = TRUE])
         ELSE IF k > Len(trThreads)
         THEN TrStep(i, "ending",
                     [TrSet EXCEPT !.threads[i] = [@ EXCEPT !.pc = "loop", !.at = 0, !.len = 0]])
         ELSE TrStep(i, "ending", IF mine THEN signalDone([s EXCEPT !.threads[k].stop = TRUE], k, TRUE) ELSE s)
      /\ UNCHANGED <<trStarted, trEnders>>
endApplication(i) ==
  LET k == trThreads[i].at
      s == [TrSet EXCEPT !.threads[i].at = @ + 1]
      mine == k # i /\ trThreads[k].app = trThreads[i].app
  IN  /\ IF Dangling(trThreads[i].len) THEN TrStep(i, "ending", [TrSet EXCEPT !.crashed = TRUE])
         ELSE IF k > Len(trThreads)
         THEN TrStep(i, "ending",
                     [TrSet EXCEPT !.threads[i] = [@ EXCEPT !.pc = "loop", !.at = 0, !.len = 0]])
         ELSE TrStep(i, "ending", IF mine THEN signalDone([s EXCEPT !.threads[k].stop = TRUE], k, TRUE) ELSE s)
      /\ UNCHANGED <<trStarted, trEnders>>

TrNext ==
  /\ trMain # "over" /\ ~trCrashed
  /\ \/ start \/ wait \/ monitorAborts
     \/ \E i \in DOMAIN trThreads :
          \/ runStart(i) \/ runInstruction(i) \/ runEnd(i) \/ runExit(i)
          \/ handleNewThreadFunc(i) \/ handleForkFunc(i)
          \/ handleSyscallFunc(i) \/ unblock(i)
          \/ handleExitGroup(i) \/ endApplication(i)

TrSpec == TrInit /\ [][TrNext]_trVars
-----------------------------------------------------------------------------
\* The counts of the manager agree with the threads: an application has
\* num_threads threads for which signalDone() is still to come, whoever calls
\* it, the thread itself or the one that ends the application.
ThreadsCounted ==
  LET Live(S) == Cardinality({i \in S : ~trThreads[i].stopped})
  IN  /\ trRunning = Live(DOMAIN trThreads)
      /\ \A a \in DOMAIN trApps :
           trApps[a].num = Live({i \in DOMAIN trThreads : trThreads[i].app = a})
      /\ trNonfinish = Cardinality({a \in DOMAIN trApps : trApps[a].runs = 0})

\* The simulation ends: when every thread is over, or sleeps in a system call of
\* an application that has ended, m_done was signalled.
TrQuiet == \A i \in DOMAIN trThreads :
             \/ trThreads[i].pc = "over"
             \/ trThreads[i].pc = "blocked" /\ trThreads[i].stopped
AlwaysDone == TrQuiet => trDone > 0 \/ trMain = "over"

\* It does as long as one thread at a time ends an application (endApplication():
\* "except ourselves (we should end normally soon)").
DoneWhenAllOver ==
  (\A i, j \in trEnders : trThreads[i].app = trThreads[j].app => i = j) => AlwaysDone

\* start() forgets nobody, however m_threads grew under its iterator.
AllSpawned == trMain = "wait" => \A i \in DOMAIN trThreads : trThreads[i].pc # "created"

\* While start() still spawns the first threads, through restarts, new threads and
\* applications and the end of an application under its threads: every thread
\* runs, the counters of the manager are right and the simulation ends.
ApplicationsEnd == ThreadsCounted /\ AllSpawned /\ DoneWhenAllOver
=============================================================================
