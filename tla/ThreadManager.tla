---------------------------- MODULE ThreadManager ----------------------------
(***************************************************************************)
(* The thread manager (system/thread_manager.cc): which simulated threads  *)
(* exist, which of them run, and how their host threads are put to sleep   *)
(* and woken up.  Every simulated thread has a host thread and, under the  *)
(* static scheduler, a core of its own.                                    *)
(*                                                                         *)
(* All operations run under m_thread_lock.  stallThread() keeps the lock   *)
(* while it lets the barrier advance time and gives it up only to sleep,   *)
(* so a stall is several steps here: the call, the passing of time, and    *)
(* its end.                                                                *)
(***************************************************************************)
EXTENDS Integers, FiniteSets

CONSTANTS
  Threads,      \* the simulated threads the application may create
  MainThread,   \* the one that exists when the application starts
  None          \* INVALID_THREAD_ID, NO_OWNER, and nobody

ASSUME MainAssumption == MainThread \in Threads /\ None \notin Threads

VARIABLES
  status,       \* m_thread_state[t].status
  reason,       \* m_thread_state[t].stalled_reason while t is stalled, or None
  waiter,       \* m_thread_state[t].waiter: who waits for t
  host          \* where the host thread of t is

threadVars == <<status, reason, waiter, host>>

Statuses == {"NONE", "INITIALIZING", "RUNNING", "STALLED", "IDLE"}
Reasons  == {"join", "mutex", "cond", "barrier", "futex", "sleep", "syscall"}

\* "absent"   not created;  "new"  started, but onThreadStart() is to come;
\* "app"      executes the application;  "stalling"  in stallThread(), with the
\* lock;  "waiting"  asleep on the condition variable of its thread;
\* "blocked"  in a system call of the host;  "gone"  has exited.
HostPlaces == {"absent", "new", "app", "stalling", "waiting", "blocked", "gone"}

ThreadInit ==
  /\ status = [t \in Threads |-> IF t = MainThread THEN "INITIALIZING" ELSE "NONE"]
  /\ reason = [t \in Threads |-> None]
  /\ waiter = [t \in Threads |-> None]
  /\ host   = [t \in Threads |-> IF t = MainThread THEN "new" ELSE "absent"]

isThreadRunning(t) == status[t] = "RUNNING"
anyThreadRunning == \E t \in Threads : status[t] \in {"RUNNING", "INITIALIZING"}

\* m_thread_lock is kept over a step only by a thread in stallThread().
LockFree == \A t \in Threads : host[t] # "stalling"

\* Thread t runs application code and may call into the simulator.
Calls(t) == host[t] = "app" /\ LockFree
-----------------------------------------------------------------------------
(***************************************************************************)
(* Stalling and resuming.  signal() reaches a host thread only if it is    *)
(* asleep; one that is still in stallThread() finds its status changed.    *)
(***************************************************************************)
Signalled(t) == IF host[t] = "waiting" THEN "app" ELSE host[t]

ClearedReason(woken) == [t \in Threads |-> IF t \in woken THEN None ELSE reason[t]]

\* resumeThread() for every thread of `woken`.
Resume(woken) ==
  /\ status' = [t \in Threads |-> IF t \in woken THEN "RUNNING" ELSE status[t]]
  /\ host' = [t \in Threads |-> IF t \in woken THEN Signalled(t) ELSE host[t]]
  /\ reason' = ClearedReason(woken)
  /\ UNCHANGED waiter

\* stallThread(t, why) begins, after resumeThread() for every thread of `woken`.
Stall(t, why, woken) ==
  /\ status' = [u \in Threads |-> IF u = t THEN "STALLED"
                                  ELSE IF u \in woken THEN "RUNNING" ELSE status[u]]
  /\ reason' = [ClearedReason(woken) EXCEPT ![t] = why]
  /\ host' = [u \in Threads |-> IF u = t THEN "stalling"
                                ELSE IF u \in woken THEN Signalled(u) ELSE host[u]]

\* stallThread() ends: a thread that was resumed in the meantime has missed its
\* signal and must not go to sleep.
MutFinishStall(t) ==
  /\ host[t] = "stalling" /\ anyThreadRunning
  /\ host' = [host EXCEPT ![t] = "waiting"]
  /\ UNCHANGED <<status, reason, waiter>>
FinishStall(t) ==
  /\ host[t] = "stalling" /\ anyThreadRunning
  /\ host' = [host EXCEPT ![t] = IF isThreadRunning(t) THEN "app" ELSE "waiting"]
  /\ UNCHANGED <<status, reason, waiter>>

\* A system call that blocks in the host: stallThread_async(), no sleep here.
EnterBlockingCall(t) ==
  /\ Calls(t)
  /\ status' = [status EXCEPT ![t] = "STALLED"]
  /\ reason' = [reason EXCEPT ![t] = "syscall"]
  /\ host' = [host EXCEPT ![t] = "blocked"]
  /\ UNCHANGED waiter

LeaveBlockingCall(t) ==
  /\ host[t] = "blocked" /\ LockFree
  /\ status' = [status EXCEPT ![t] = "RUNNING"]
  /\ host' = [host EXCEPT ![t] = "app"]
  /\ reason' = [reason EXCEPT ![t] = None]
  /\ UNCHANGED waiter
-----------------------------------------------------------------------------
createThread(t, u) ==
  /\ Calls(t) /\ status[u] = "NONE"
  /\ status' = [status EXCEPT ![u] = "INITIALIZING"]
  /\ host' = [host EXCEPT ![u] = "new"]
  /\ UNCHANGED <<reason, waiter>>

\* Whoever waits for t is signalled, without a change of its status: meant for
\* waitForThreadStart(), which does not stall the thread that waits.
onThreadStart(t) ==
  /\ host[t] = "new" /\ LockFree
  /\ status' = [status EXCEPT ![t] = "RUNNING"]
  /\ host' = [u \in Threads |-> IF u = t THEN "app"
                                ELSE IF u = waiter[t] THEN Signalled(u) ELSE host[u]]
  /\ waiter' = [waiter EXCEPT ![t] = None]
  /\ UNCHANGED reason

\* The thread that joins t is resumed, and so are the threads of `woken`, which
\* wait on the futex that CLONE_CHILD_CLEARTID names.
onThreadExit(t, woken) ==
  /\ Calls(t)
  /\ LET resumed == woken \union {waiter[t]} IN
     /\ status' = [u \in Threads |-> IF u = t THEN "IDLE"
                                     ELSE IF u \in resumed THEN "RUNNING" ELSE status[u]]
     /\ host' = [u \in Threads |-> IF u = t THEN "gone"
                                   ELSE IF u \in resumed THEN Signalled(u) ELSE host[u]]
     /\ reason' = ClearedReason(resumed)
  /\ waiter' = [waiter EXCEPT ![t] = None]

\* Joining a thread that has exited returns at once.  The code asserts that no
\* two threads join the same one.
joinThread(t, u) ==
  /\ Calls(t) /\ u # t /\ status[u] \notin {"NONE", "IDLE"} /\ waiter[u] = None
  /\ Stall(t, "join", {})
  /\ waiter' = [waiter EXCEPT ![u] = t]
-----------------------------------------------------------------------------
ThreadTypeOK ==
  /\ status \in [Threads -> Statuses]
  /\ reason \in [Threads -> Reasons \union {None}]
  /\ waiter \in [Threads -> Threads \union {None}]
  /\ host   \in [Threads -> HostPlaces]
=============================================================================
