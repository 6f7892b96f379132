------------------------------- MODULE SmtTimer -------------------------------
(***************************************************************************)
(* The barrier between the hardware threads of an SMT core (smt_timer.cc). *)
(*                                                                         *)
(* Every hardware thread ("slot") has a queue of instructions that are not *)
(* yet in the ROB.  A host thread whose queue is full waits on the         *)
(* condition variable of its slot; when all running slots wait, one host   *)
(* thread is chosen to execute cycles for all of them, after which it      *)
(* synchronises with the global barrier, without m_lock, and releases the  *)
(* others.  Threads start, stall, resume, exit and migrate at any moment:  *)
(* those hooks run in other host threads, under m_lock.                    *)
(*                                                                         *)
(* m_lock is held from the start of simulate() to its end except in the    *)
(* wait and in synchronize(): an action is what happens in between.        *)
(***************************************************************************)
EXTENDS Integers, FiniteSets, FiniteSetsExt

CONSTANTS
  Slots,        \* hardware threads, numbered from 1
  Tasks,      \* software threads
  SmtLimit,        \* stands for 128: a longer queue enters the barrier
  SmtEnough,       \* stands for 2*dispatchWidth: a longer queue can execute
  SmtDirectMoves,  \* which of FALSE, TRUE: do threads move from core to core while they run?
  SmtMoves         \* bound: hooks that are called

ASSUME SmtAssumption ==
  /\ Slots \subseteq Nat \ {0} /\ Slots # {} /\ Tasks \subseteq Nat \ {0}
  /\ SmtLimit \in Nat /\ SmtEnough \in Nat /\ SmtMoves \in Nat
  /\ SmtDirectMoves \subseteq BOOLEAN

NoSlot == 0     \* INVALID_SMTTHREAD_ID, no core
Other  == -1    \* a core that does not belong to this SmtTimer
NoOne  == 0     \* NULL

VARIABLES
  smDirect, \* one of SmtDirectMoves
  sm,       \* [running, inb, thread : per slot, surplus, sync, enabled, exec]
  smPc,     \* per software thread: where its host thread is
  smCore,   \* per software thread: Thread::m_core
  smAt,     \* per software thread: the slot its host thread works for
  smSignal, \* host threads that wait and have been signalled
  smMoves   \* hooks called so far

smtBarrierVars == <<smDirect, sm, smPc, smCore, smAt, smSignal, smMoves>>

\* "run" outside simulate(), "check" back from it, "wait" on the condition variable, "execute" in
\* execute(), "sync" in the global barrier, "asleep" stalled or without a core,
\* "gone" exited, "failed" assertion, "endless" in a loop without an exit.
SmPcs == {"run", "check", "wait", "execute", "sync", "asleep", "gone", "failed", "endless"}

SmtBarrierInit ==
  /\ smDirect \in SmtDirectMoves
  /\ sm = [running |-> [k \in Slots |-> k \in Tasks],
           inb     |-> [k \in Slots |-> FALSE],
           thread  |-> [k \in Slots |-> IF k \in Tasks THEN k ELSE NoOne],
           surplus |-> [k \in Slots |-> 0],
           sync |-> FALSE, enabled |-> TRUE, exec |-> Min(Slots)]
  /\ smPc = [t \in Tasks |-> IF t \in Slots THEN "run" ELSE "asleep"]
  /\ smAt = [t \in Tasks |-> IF t \in Slots THEN t ELSE NoSlot]
  /\ smCore = smAt
  /\ smSignal = {}
  /\ smMoves = 0
-----------------------------------------------------------------------------
findSmtThreadFromThread(s, t) ==
  LET k == {i \in Slots : s.thread[i] = t} IN IF k = {} THEN NoSlot ELSE Min(k)

threadNumSurplusInstructions(s, k) == s.surplus[k]
threadHasEnoughInstructions(s, k)  == s.surplus[k] > SmtEnough
\* RobSmtTimer::canExecute(): `>=', not `>'.
smtCanExecute(s) == \A k \in Slots : s.running[k] => s.surplus[k] >= SmtEnough

MutIsBarrierReached(s) ==
  /\ \A k \in Slots : s.running[k] => s.inb[k]
  /\ \E k \in Slots : s.inb[k]
isBarrierReached(s) ==
  /\ ~s.sync
  /\ \A k \in Slots : s.running[k] => s.inb[k]
  /\ \E k \in Slots : s.inb[k]

\* barrierRelease(release_all, me): the slots it releases, and the slot that is
\* to execute.  The caller leaves its own in_barrier to barrier().
Hungry(s) == {k \in Slots : s.inb[k] /\ ~threadHasEnoughInstructions(s, k)}
\* Those the limit, which doubles, reaches first.
Limits == {l \in 1 .. 2 * (SmtLimit + 1) : \E n \in 0 .. SmtLimit + 1 : l = 2 ^ n}
LowestSurplus(s) ==
  LET full == {k \in Slots : s.inb[k] /\ s.running[k]}
      Under(k, l) == threadNumSurplusInstructions(s, k) < l
  IN  {k \in full : \A j \in full, l \in Limits : Under(j, l) => Under(k, l)}
Chosen(S, all) == IF all \/ S = {} THEN S ELSE {Min(S)}
Released(s, all) ==
  LET \* the loop counts running slots up to the one it stops at
      first == Chosen(Hungry(s), all)
      seen  == {k \in Slots : all \/ first = {} \/ k <= Min(first)}
      running == {k \in seen : s.running[k] /\ (~s.inb[k] \/ k \in first)}
  IN  IF running # {} THEN first ELSE first \union Chosen(LowestSurplus(s), all)
\* `while (num_running == 0)' has no exit when no slot runs.
ReleaseEndless(s) == \A k \in Slots : ~s.running[k]
Executor(s, all, me) ==
  LET r == Released(s, all)
      late == r \ Chosen(Hungry(s), all)
  IN  IF all \/ r = {} THEN me ELSE IF late # {} THEN Min(late) ELSE Min(r)

Release(s, all, me) ==
  [s EXCEPT !.exec = Executor(s, all, me),
            !.inb = [k \in Slots |-> s.inb[k] /\ (k = me \/ k \notin Released(s, all))]]
\* The host threads that wait on the condition variables of the slots in S.
WaitingAt(S) == {t \in Tasks : smPc[t] = "wait" /\ smAt[t] \in S}

\* signalBarrier(): the new state and the threads it signals.
MutSignalBarrier(s) == sm' = s /\ smSignal' = smSignal
signalBarrier(s) ==
  IF isBarrierReached(s)
  THEN /\ sm' = Release(s, FALSE, NoSlot)
       /\ smSignal' = smSignal \union WaitingAt(Released(s, FALSE))
  ELSE /\ sm' = s
       /\ smSignal' = smSignal
-----------------------------------------------------------------------------
Goto(t, p) == smPc' = [smPc EXCEPT ![t] = p]

\* pushInstructions(): one more instruction for the slot of t.
pushInstruction(t) ==
  /\ smPc[t] = "run" /\ smAt[t] \in Slots
  /\ sm.surplus[smAt[t]] <= SmtLimit
  /\ sm' = [sm EXCEPT !.surplus[smAt[t]] = @ + 1]
  /\ UNCHANGED <<smPc, smCore, smAt, smSignal, smMoves>>

\* simulate() up to the end of barrier() where the thread need not wait, up to
\* the wait where it must.
simulateEnter(t) ==
  LET k == smAt[t]
      s == [sm EXCEPT !.inb[k] = TRUE]
      r == Released(s, FALSE)
  IN  /\ smPc[t] = "run" /\ k \in Slots
      /\ sm.surplus[k] > SmtLimit /\ sm.enabled
      /\ UNCHANGED <<smCore, smAt, smMoves>>
      /\ IF sm.thread[k] = NoOne
         THEN Goto(t, "failed") /\ UNCHANGED <<sm, smSignal>>
         ELSE IF ~isBarrierReached(s)
         THEN Goto(t, "wait") /\ sm' = s /\ smSignal' = smSignal \ {t}
         ELSE IF ReleaseEndless(s)
         THEN Goto(t, "endless") /\ UNCHANGED <<sm, smSignal>>
         ELSE /\ sm' = [Release(s, FALSE, k) EXCEPT !.inb[k] = k \notin r]
              /\ smSignal' = (smSignal \ {t}) \union WaitingAt(r \ {k})
              /\ Goto(t, IF k \notin r THEN "wait"
                         ELSE IF Executor(s, FALSE, k) = k THEN "execute" ELSE "check")

\* The wait returns.
simulateWake(t) ==
  /\ smPc[t] = "wait" /\ t \in smSignal
  /\ smSignal' = smSignal \ {t}
  /\ Goto(t, IF sm.exec = smAt[t] THEN "execute" ELSE "check")
  /\ UNCHANGED <<sm, smCore, smAt, smMoves>>

\* execute(): cycles for all slots, until one that runs lacks instructions.
\* m_lock is held since barrier() returned: other host threads do not get
\* between, see Locked.
smtExecute(t) ==
  /\ smPc[t] = "execute"
  /\ IF \A k \in Slots : ~sm.running[k]
     THEN Goto(t, "endless") /\ UNCHANGED sm
     ELSE /\ \E left \in [Slots -> 0 .. SmtLimit + 1] :
               /\ \A k \in Slots : /\ left[k] <= sm.surplus[k]
                                   /\ ~sm.running[k] => left[k] = sm.surplus[k]
               /\ smtCanExecute(sm) => \A k \in Slots : sm.running[k] => left[k] >= SmtEnough \div 2
               /\ ~smtCanExecute(sm) => left = sm.surplus
               /\ ~smtCanExecute([sm EXCEPT !.surplus = left])
               /\ sm' = [sm EXCEPT !.surplus = left, !.exec = NoSlot, !.sync = TRUE]
          /\ Goto(t, "sync")
  /\ UNCHANGED <<smCore, smAt, smSignal, smMoves>>

\* client->synchronize() has returned: the tail of simulate().
simulateExit(t) ==
  LET s == [sm EXCEPT !.sync = FALSE]
  IN  /\ smPc[t] = "sync"
      /\ UNCHANGED <<smCore, smAt, smMoves>>
      /\ IF ReleaseEndless(s)
         THEN Goto(t, "endless") /\ UNCHANGED <<sm, smSignal>>
         ELSE /\ sm' = Release(s, TRUE, smAt[t])
              /\ smSignal' = smSignal \union WaitingAt(Released(s, TRUE) \ {smAt[t]})
              /\ Goto(t, "check")
-----------------------------------------------------------------------------
\* The hooks.  They are called by some other host thread or, for a stall or an
\* exit, by the thread itself, which is then outside simulate().
Hook == smMoves < SmtMoves /\ smMoves' = smMoves + 1

SetRunning(k, b) == IF k = NoSlot THEN sm ELSE [sm EXCEPT !.running[k] = b]

\* SmtTimer::threadStall(), threadExit()
threadStops(t, p) ==
  /\ smPc[t] = "run"
  /\ Hook
  /\ signalBarrier(SetRunning(findSmtThreadFromThread(sm, t), FALSE))
  /\ Goto(t, p)
  /\ UNCHANGED <<smCore, smAt>>

\* SmtTimer::threadResume(): the thread has a core, and wakes up.
threadResumes(t) ==
  /\ smPc[t] = "asleep" /\ smCore[t] # NoSlot
  /\ sm' = SetRunning(findSmtThreadFromThread(sm, t), TRUE)
  /\ Goto(t, "run")
  /\ UNCHANGED <<smCore, smAt, smSignal, smMoves>>

\* SmtTimer::threadMigrate(): t leaves its slot and, if `to' is one of ours,
\* takes that one.  A thread that waits at the old slot is signalled.
threadMigrate(s, t, to) ==
  LET k == findSmtThreadFromThread(s, t)
      out == IF k = NoSlot THEN s
             ELSE [s EXCEPT !.running[k] = FALSE, !.thread[k] = NoOne, !.inb[k] = FALSE]
  IN  IF to \in Slots THEN [out EXCEPT !.running[to] = TRUE, !.thread[to] = t] ELSE out
MigrateSignals(t) ==
  LET k == findSmtThreadFromThread(sm, t)
  IN  IF k # NoSlot /\ sm.inb[k] THEN WaitingAt({k}) ELSE {}

Free(c) == c = Other \/ \A u \in Tasks : smCore[u] # c
Unscheduled(u) == smPc[u] = "asleep" /\ smCore[u] = NoSlot

\* The scheduler gives a free core to a thread that has none; moveThread()
\* resumes it.
schedule(u, c) ==
  /\ Unscheduled(u) /\ Free(c)
  /\ sm' = threadMigrate(sm, u, c)
  /\ smCore' = [smCore EXCEPT ![u] = c]
  /\ Goto(u, "run")
  /\ UNCHANGED <<smAt, smSignal, smMoves>>

\* SchedulerPinnedBase::reschedule() in the periodic hook, which runs while the
\* thread that executed is in the global barrier: u gets the core of t.
replace(t, u) ==
  /\ sm.sync /\ smCore[t] \in Slots /\ smPc[t] \in {"wait", "sync"}
  /\ Unscheduled(u)
  /\ Hook
  /\ sm' = threadMigrate(threadMigrate(sm, t, NoSlot), u, smCore[t])
  /\ smSignal' = smSignal \union MigrateSignals(t)
  /\ smCore' = [smCore EXCEPT ![t] = NoSlot, ![u] = smCore[t]]
  /\ Goto(u, "run")
  /\ UNCHANGED smAt

\* threadSetAffinity(), SchedulerBigSmall: a running thread changes cores.
moveRunning(t, c) ==
  /\ smDirect
  /\ smCore[t] # NoSlot /\ c \notin {NoSlot, smCore[t]} /\ Free(c)
  /\ smPc[t] \notin {"asleep", "gone"}
  /\ Hook
  /\ sm' = threadMigrate(sm, t, c)
  /\ smSignal' = smSignal \union MigrateSignals(t)
  /\ smCore' = [smCore EXCEPT ![t] = c]
  /\ UNCHANGED <<smPc, smAt>>

\* Thread::reschedule(): the host thread follows its thread to the new core, or
\* stalls until it gets one (STALL_UNSCHEDULED, with the stall hook).
rescheduleHost(t) ==
  /\ smPc[t] = "check" \/ (smPc[t] = "run" /\ smAt[t] # smCore[t])
  /\ smAt' = [smAt EXCEPT ![t] = smCore[t]]
  /\ IF smCore[t] = NoSlot
     THEN Goto(t, "asleep") /\ signalBarrier(sm)
     ELSE Goto(t, "run") /\ UNCHANGED <<sm, smSignal>>
  /\ UNCHANGED <<smCore, smMoves>>

\* SmtTimer::disable(), enable(): at the end and the start of the region of
\* interest.
smtDisable ==
  /\ sm.enabled /\ Hook
  /\ sm' = [sm EXCEPT !.enabled = FALSE, !.inb = [k \in Slots |-> FALSE]]
  /\ smSignal' = smSignal \union WaitingAt({k \in Slots : sm.inb[k]})
  /\ UNCHANGED <<smPc, smCore, smAt>>
smtEnable ==
  /\ ~sm.enabled
  /\ sm' = [sm EXCEPT !.enabled = TRUE]
  /\ UNCHANGED <<smPc, smCore, smAt, smSignal, smMoves>>

Locked == \E t \in Tasks : smPc[t] \in {"execute", "endless", "failed"}

SmtBarrierNext ==
  /\ UNCHANGED smDirect
  /\ \/ \E t \in Tasks : smtExecute(t)
     \/ /\ ~Locked
        /\ \/ \E t \in Tasks : \/ pushInstruction(t) \/ simulateEnter(t)
                               \/ simulateWake(t) \/ simulateExit(t)
                               \/ threadStops(t, "asleep") \/ threadStops(t, "gone")
                               \/ threadResumes(t) \/ rescheduleHost(t)
                               \/ \E u \in Tasks : replace(t, u)
                               \/ \E c \in Slots \union {Other} : schedule(t, c) \/ moveRunning(t, c)
           \/ smtDisable \/ smtEnable

SmtBarrierSpec == SmtBarrierInit /\ [][SmtBarrierNext]_smtBarrierVars
-----------------------------------------------------------------------------
\* Somebody will open the barrier: a host thread that waits and is not signalled
\* has a slot that still runs instructions, a thread that executes for the core,
\* or one that is about to look at its core, to count on.
BarrierAlwaysOpened ==
  \/ \A t \in Tasks : smPc[t] = "wait" => t \in smSignal
  \/ smSignal # {}
  \/ \E t \in Tasks : \/ smPc[t] \in {"execute", "sync", "check"}
                      \/ smPc[t] = "run" /\ smCore[t] # smAt[t]
  \/ \E k \in Slots : sm.running[k] /\ ~sm.inb[k]
  \/ \A k \in Slots : ~sm.running[k]

\* It does as long as a thread changes cores only by way of no core: then it
\* stalls in between, and the stall hook of SmtTimer re-evaluates the barrier
\* (threadStall(): "maybe it was waiting for us?").
BarrierOpened == ~smDirect => BarrierAlwaysOpened

\* One thread at a time executes cycles and synchronises for the SMT core:
\* in_sync is one flag, cleared by whoever returns first, and a second executor
\* would run cycles with the queues the first one has emptied.
OneExecutes == Cardinality({t \in Tasks : smPc[t] \in {"execute", "sync"}}) <= 1

\* The barrier among the threads of an SMT core neither deadlocks nor lets two
\* of them execute (smt_timer.cc), while threads stall, resume, exit and migrate.
SmtBarrierSound == BarrierOpened /\ OneExecutes
=============================================================================
