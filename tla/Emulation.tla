------------------------------ MODULE Emulation ------------------------------
(***************************************************************************)
(* The services that stop and restart simulated threads, composed: the     *)
(* thread manager, the synchronisation server, the system call server, and *)
(* the passing of simulated time that wakes up threads with a timeout.     *)
(* The application is arbitrary, within the assertions of the code.        *)
(***************************************************************************)
EXTENDS SyncServer, SyscallServer

CONSTANTS
  JoinsUnstarted,   \* may a thread be joined before its onThreadStart()?
  LastMayLeave,     \* may the only thread that runs exit, or block in the host?
  BlockingCalls     \* does the application use system calls that block in the host?

ASSUME SwitchAssumption == {JoinsUnstarted, LastMayLeave, BlockingCalls} \subseteq BOOLEAN

VARIABLE aborted    \* "No threads running, no timeout. Application has deadlocked..."

vars == <<threadVars, syncVars, futexVars, aborted>>

Init == ThreadInit /\ SyncInit /\ FutexInit /\ aborted = FALSE
-----------------------------------------------------------------------------
\* Somebody other than t is left to make time pass.
OthersRun(t) == \E u \in Threads \ {t} : status[u] \in {"RUNNING", "INITIALIZING"}
MayLeave(t) == LastMayLeave \/ OthersRun(t)

ThreadCall(t) ==
  \/ \E u \in Threads : createThread(t, u)
  \/ \E u \in Threads : /\ status[u] # "INITIALIZING" \/ JoinsUnstarted
                        /\ joinThread(t, u)
  \/ BlockingCalls /\ MayLeave(t) /\ EnterBlockingCall(t)

Exit(t) == /\ MayLeave(t)
           /\ onThreadExit(t, TidWoken(t))
           /\ ClearTid(t)

\* The clock barrier is reached by all running threads, in synchronize() or in
\* the signal() of a thread that stalls: HOOK_PERIODIC is called.
Periodic == /\ \E t \in Threads : isThreadRunning(t)
            /\ futexPeriodic

\* stallThread() finds nobody running and lets the barrier advance.  A
\* simulation that is given up keeps the lock, so nobody goes on.
advance == /\ ~aborted
           /\ \E t \in Threads : host[t] = "stalling"
           /\ ~anyThreadRunning
           /\ futexPeriodic
           /\ aborted' = (~anyThreadRunning' /\ ~AnyTimeout')

Begin(t)  == onThreadStart(t) /\ UNCHANGED <<syncVars, futexVars, aborted>>
Finish(t) == FinishStall(t) /\ UNCHANGED <<syncVars, futexVars, aborted>>
Return(t) == LeaveBlockingCall(t) /\ UNCHANGED <<syncVars, futexVars, aborted>>
Tick      == Periodic /\ UNCHANGED <<syncVars, aborted>>
Advance   == advance /\ UNCHANGED syncVars

Next ==
  \/ \E t \in Threads :
       \/ Begin(t) \/ Finish(t) \/ Return(t)
       \/ ThreadCall(t) /\ UNCHANGED <<syncVars, futexVars, aborted>>
       \/ SyncCall(t) /\ UNCHANGED <<futexVars, aborted>>
       \/ FutexCall(t) /\ UNCHANGED <<syncVars, aborted>>
       \/ Exit(t) /\ UNCHANGED <<syncVars, aborted>>
  \/ Tick \/ Advance

\* Host threads that have the lock, or have just been created, go on; running
\* threads reach the barrier again and again.  The application owes nothing.
Fairness == /\ \A t \in Threads : WF_vars(Begin(t)) /\ WF_vars(Finish(t))
            /\ WF_vars(Tick) /\ WF_vars(Advance)

Spec == Init /\ [][Next]_vars /\ Fairness
-----------------------------------------------------------------------------
TypeOK == ThreadTypeOK /\ SyncTypeOK /\ FutexTypeOK /\ aborted \in BOOLEAN

\* Where a thread is queued, once for each time.
InJoin(t)    == {u \in Threads : waiter[u] = t}
InMutex(t)   == UNION {{m} \X {i \in DOMAIN mutexWaiting[m] : mutexWaiting[m][i] = t} :
                         m \in Mutexes}
InCond(t)    == UNION {{c} \X {i \in DOMAIN condWaiting[c] : condWaiting[c][i].thread = t} :
                         c \in Conds}
InBarrier(t) == {i \in DOMAIN barrierWaiting : barrierWaiting[i] = t}
InFutex(t)   == UNION {{a} \X {i \in DOMAIN futexWaiting[a] : futexWaiting[a][i].thread = t} :
                         a \in Futexes}
InSleep(t)   == {i \in DOMAIN sleeping : sleeping[i].thread = t}

Places(t, why) == CASE why = "join"    -> Cardinality(InJoin(t))
                    [] why = "mutex"   -> Cardinality(InMutex(t))
                    [] why = "cond"    -> Cardinality(InCond(t)) + Cardinality(InMutex(t))
                    [] why = "barrier" -> Cardinality(InBarrier(t))
                    [] why = "futex"   -> Cardinality(InFutex(t))
                    [] why = "sleep"   -> Cardinality(InSleep(t))
                    [] OTHER           -> 0

AllPlaces(t) == Cardinality(InJoin(t)) + Cardinality(InMutex(t)) + Cardinality(InCond(t))
                + Cardinality(InBarrier(t)) + Cardinality(InFutex(t)) + Cardinality(InSleep(t))

\* A stalled thread is in exactly one queue, one of the kind it stalled for, so
\* that exactly one resumeThread() is still to come; a thread that is not stalled
\* is in no queue, so that nobody resumes it out of a later, unrelated stall.
QueuedOnce == \A t \in Threads :
  IF status[t] = "STALLED" /\ reason[t] # "syscall"
  THEN Places(t, reason[t]) = 1 /\ AllPlaces(t) = 1
  ELSE AllPlaces(t) = 0

\* What the thread manager believes is what the host threads do: a thread that
\* executes the application runs, one that sleeps is stalled.  A lost signal or
\* one too many shows here (thread_manager.cc:357 "this signal was lost since we
\* weren't in wait()").
HostsAgree == \A t \in Threads :
  /\ host[t] = "app" => status[t] = "RUNNING"
  /\ host[t] \in {"waiting", "blocked"} => status[t] = "STALLED"

\* A mutex that somebody waits for has an owner, who has not exited holding it
\* unless the application let it: no hand-over loses the mutex, and nobody who
\* waits on a condition variable gets past the queue.
MutexesHandedOver == \A m \in Mutexes : mutexWaiting[m] # <<>> => owner[m] # None

\* The barrier never holds as many threads as it takes to open it.
BarrierOpens == Len(barrierWaiting) < BarrierCount

\* What the synchronisation server (sync_server.cc) keeps: nobody waits for a
\* mutex without owner or in a barrier that is full.
PrimitivesServed == MutexesHandedOver /\ BarrierOpens

\* A timeout is kept: a thread that sleeps, or waits on a futex with a timeout,
\* does not stay stalled (syscall_server.cc:332 "wake up potential others in the
\* next barrier synchronization").
HasTimeout(t) == \/ \E i \in InSleep(t) : sleeping[i].left # Never
                 \/ \E p \in InFutex(t) : futexWaiting[p[1]][p[2]].left # Never
TimeoutsKept == \A t \in Threads : HasTimeout(t) ~> ~HasTimeout(t)
=============================================================================
