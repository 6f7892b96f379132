------------------------------ MODULE SetLock ------------------------------
(***************************************************************************)
(* The lock of one set of the shared last-level cache (misc/setlock.cc): a *)
(* mutex per core that shares the cache.  Shared mode is one's own mutex,  *)
(* exclusive mode is all of them, taken and released one after the other.  *)
(*                                                                         *)
(* Its users are the threads of CacheCntlr (cache_cntlr.cc): the user      *)
(* thread of each core, which looks up its first-level cache in shared     *)
(* mode, upgrades on a miss, and waits for the network thread when the     *)
(* last level misses too; and the network thread, which takes the lock for *)
(* a message of the directory and passes it to the waiting user threads.   *)
(* A step acquires or releases one mutex.                                  *)
(***************************************************************************)
EXTENDS Integers, Sequences

CONSTANTS
  N,            \* m_locks.size(): the number of cores that share the cache
  MaxAccesses,  \* bound: accesses of a user thread
  MaxRequests   \* bound: messages of the directory that are not replies

ASSUME SharersAssumption == N \in Nat \ {0}
ASSUME BoundsAssumption  == MaxAccesses \in Nat /\ MaxRequests \in Nat

Users   == 1..N         \* a user thread, and the mutex of its core
Net     == 0            \* the network thread of the cache's master core
Actors  == 0..N
Free    == -1           \* the owner of a mutex that nobody holds
Waiter  == [core : Users, upgrade : BOOLEAN]

VARIABLES
  owner,        \* owner[i]: who holds the mutex of core i
  pc,           \* pc[t]: where the thread is, see PcValues
  idx,          \* idx[t]: the next mutex of a loop over m_locks
  lockAll,      \* lockAll[t]: this access took the stack lock from the start
  queue,        \* m_directory_waiters: user threads that missed everywhere
  replies,      \* replies of the directory that are on their way
  userSem,      \* userSem[t]: count of m_user_thread_sem
  netSem,       \* netSem[t]: count of m_network_thread_sem
  todo          \* todo[t]: accesses, or messages, that are still to come

vars == <<owner, pc, idx, lockAll, queue, replies, userSem, netSem, todo>>

\* "out" outside; "shared" with its own mutex; "gather" in acquire_exclusive();
\* "exclusive" with all mutexes; "narrow" in downgrade(); "filled" with its own
\* mutex again; "leave" and "giveUp" in release_exclusive(), before returning
\* and before waiting; "await" in waitForNetworkThread(); "passed" with all
\* mutexes, taken over from the network thread.  The network thread also has
\* "gatherReply", acquiring the lock for a reply, "loop", the wake-up loop,
\* "handed", waiting for the user thread it woke, "regather", re-acquiring the
\* lock after that, and "dequeue", about to take the waiter off the queue.
PcValues == {"out", "shared", "gather", "exclusive", "narrow", "filled", "leave",
             "giveUp", "await", "passed", "gatherReply", "loop", "handed",
             "regather", "dequeue"}

Init == /\ owner = [i \in Users |-> Free]
        /\ pc = [t \in Actors |-> "out"]
        /\ idx = [t \in Actors |-> 1]
        /\ lockAll = [t \in Users |-> FALSE]
        /\ queue = <<>>
        /\ replies = 0
        /\ userSem = [t \in Users |-> 0]
        /\ netSem = [t \in Users |-> 0]
        /\ todo = [t \in Actors |-> IF t = Net THEN MaxRequests ELSE MaxAccesses]

Goto(t, label) == pc' = [pc EXCEPT ![t] = label]

\* A loop over m_locks starts.
Enter(t, label) == Goto(t, label) /\ idx' = [idx EXCEPT ![t] = 1]
-----------------------------------------------------------------------------
(***************************************************************************)
(* The loops over m_locks.  acquire() blocks until the mutex is free.      *)
(***************************************************************************)
MutLockOf(t) == IF t = Net THEN idx[t] ELSE N + 1 - idx[t]
LockOf(t) == idx[t]

AcquireNext(t, label, next) ==
  /\ pc[t] = label
  /\ owner[LockOf(t)] = Free
  /\ owner' = [owner EXCEPT ![LockOf(t)] = t]
  /\ IF idx[t] = N THEN Enter(t, next)
                   ELSE idx' = [idx EXCEPT ![t] = @ + 1] /\ UNCHANGED pc

ReleaseNext(t, label, next) ==
  /\ pc[t] = label
  /\ owner' = [owner EXCEPT ![idx[t]] = Free]
  /\ IF idx[t] = N THEN Enter(t, next)
                   ELSE idx' = [idx EXCEPT ![t] = @ + 1] /\ UNCHANGED pc

\* downgrade() releases every mutex but the caller's own.
MutKeptNone(t, i) == FALSE
Kept(t, i) == i = t
Downgrade(t) ==
  /\ pc[t] = "narrow"
  /\ owner' = IF Kept(t, idx[t]) THEN owner ELSE [owner EXCEPT ![idx[t]] = Free]
  /\ IF idx[t] = N THEN Enter(t, "filled")
                   ELSE idx' = [idx EXCEPT ![t] = @ + 1] /\ UNCHANGED pc
  /\ UNCHANGED <<lockAll, queue, replies, userSem, netSem, todo>>
-----------------------------------------------------------------------------
(***************************************************************************)
(* The user thread: processMemOpFromCore() and doPrefetch().               *)
(***************************************************************************)
StartAccess(t) == /\ pc[t] = "out" /\ todo[t] > 0
                  /\ todo' = [todo EXCEPT ![t] = @ - 1]

\* acquireLock(): the access looks at the first-level cache only, for now.
AcquireShared(t) ==
  /\ StartAccess(t)
  /\ owner[t] = Free
  /\ owner' = [owner EXCEPT ![t] = t]
  /\ lockAll' = [lockAll EXCEPT ![t] = FALSE]
  /\ Goto(t, "shared")
  /\ UNCHANGED <<idx, queue, replies, userSem, netSem>>

\* acquireStackLock(): a write-through access, or a prefetch.
AcquireStack(t) ==
  /\ StartAccess(t)
  /\ lockAll' = [lockAll EXCEPT ![t] = TRUE]
  /\ Enter(t, "gather")
  /\ UNCHANGED <<owner, queue, replies, userSem, netSem>>

\* upgrade() releases the shared lock before it takes all of them.
Upgrade(t) ==
  /\ pc[t] = "shared"
  /\ owner' = [owner EXCEPT ![t] = Free]
  /\ Enter(t, "gather")
  /\ UNCHANGED <<lockAll, queue, replies, userSem, netSem, todo>>

ReleaseShared(t) ==
  /\ pc[t] \in {"shared", "filled"}
  /\ owner' = [owner EXCEPT ![t] = Free]
  /\ Goto(t, "out")
  /\ UNCHANGED <<idx, lockAll, queue, replies, userSem, netSem, todo>>

\* The line is in the last level, or has just been filled in: copy it up and
\* release the stack lock, down to one's own mutex if the access began with it.
CopyFromNextLevel(t) ==
  /\ pc[t] \in {"exclusive", "passed"}
  /\ Enter(t, IF lockAll[t] THEN "leave" ELSE "narrow")
  /\ UNCHANGED <<owner, lockAll, queue, replies, userSem, netSem, todo>>

\* The last level misses: queue up, the first waiter sends a request.
InitiateDirectoryAccess(t) ==
  /\ pc[t] = "exclusive"
  /\ \E upgrade \in BOOLEAN :
       queue' = Append(queue, [core |-> t, upgrade |-> upgrade])
  /\ replies' = IF queue = <<>> THEN replies + 1 ELSE replies
  /\ Enter(t, "giveUp")
  /\ UNCHANGED <<owner, lockAll, userSem, netSem, todo>>

\* waitForNetworkThread(), then wakeUpNetworkThread(): the lock is ours now.
PassedToUser(t) ==
  /\ pc[t] = "await" /\ userSem[t] > 0
  /\ userSem' = [userSem EXCEPT ![t] = @ - 1]
  /\ netSem' = [netSem EXCEPT ![t] = @ + 1]
  /\ Goto(t, "passed")
  /\ UNCHANGED <<owner, idx, lockAll, queue, replies, todo>>

UserLoops(t) ==
  /\ \/ AcquireNext(t, "gather", "exclusive")
     \/ ReleaseNext(t, "leave", "out")
     \/ ReleaseNext(t, "giveUp", "await")
  /\ UNCHANGED <<lockAll, queue, replies, userSem, netSem, todo>>

\* What a user thread does once its access has begun.
UserStep(t) ==
  \/ Upgrade(t) \/ ReleaseShared(t) \/ CopyFromNextLevel(t)
  \/ InitiateDirectoryAccess(t) \/ PassedToUser(t) \/ UserLoops(t) \/ Downgrade(t)
-----------------------------------------------------------------------------
(***************************************************************************)
(* The network thread: handleMsgFromDramDirectory().                       *)
(***************************************************************************)
ReceiveReply ==
  /\ pc[Net] = "out" /\ replies > 0
  /\ replies' = replies - 1
  /\ Enter(Net, "gatherReply")
  /\ UNCHANGED <<owner, lockAll, queue, userSem, netSem, todo>>

ReceiveRequest ==
  /\ pc[Net] = "out" /\ todo[Net] > 0
  /\ todo' = [todo EXCEPT ![Net] = @ - 1]
  /\ Enter(Net, "gather")
  /\ UNCHANGED <<owner, lockAll, queue, replies, userSem, netSem>>

HandleRequest ==
  /\ pc[Net] = "exclusive"
  /\ Enter(Net, "leave")
  /\ UNCHANGED <<owner, lockAll, queue, replies, userSem, netSem, todo>>

\* Nobody waits, or the first waiter needs more than the reply has brought: the
\* network thread asks for an upgrade in its place and returns.
LoopEnds ==
  /\ pc[Net] = "loop"
  /\ \/ queue = <<>> /\ UNCHANGED <<queue, replies>>
     \/ /\ queue # <<>> /\ Head(queue).upgrade
        /\ queue' = [queue EXCEPT ![1].upgrade = FALSE]
        /\ replies' = replies + 1
  /\ Enter(Net, "leave")
  /\ UNCHANGED <<owner, lockAll, userSem, netSem, todo>>

\* wakeUpUserThread(): the mutexes stay locked, they are the user thread's now.
MutWakeUser ==
  /\ pc[Net] = "loop" /\ queue # <<>> /\ ~Head(queue).upgrade
  /\ userSem' = [userSem EXCEPT ![Head(queue).core] = @ + 1]
  /\ owner' = [i \in Users |-> Free]
  /\ Goto(Net, "handed")
  /\ UNCHANGED <<idx, lockAll, queue, replies, netSem, todo>>
WakeUser ==
  /\ pc[Net] = "loop" /\ queue # <<>> /\ ~Head(queue).upgrade
  /\ userSem' = [userSem EXCEPT ![Head(queue).core] = @ + 1]
  /\ owner' = [i \in Users |-> Head(queue).core]
  /\ Goto(Net, "handed")
  /\ UNCHANGED <<idx, lockAll, queue, replies, netSem, todo>>

WaitForUser ==
  /\ pc[Net] = "handed" /\ netSem[Head(queue).core] > 0
  /\ netSem' = [netSem EXCEPT ![Head(queue).core] = @ - 1]
  /\ Enter(Net, "regather")
  /\ UNCHANGED <<owner, lockAll, queue, replies, userSem, todo>>

Dequeue ==
  /\ pc[Net] = "dequeue"
  /\ queue' = Tail(queue)
  /\ Goto(Net, "loop")
  /\ UNCHANGED <<owner, idx, lockAll, replies, userSem, netSem, todo>>

NetLoops ==
  /\ \/ AcquireNext(Net, "gather", "exclusive")
     \/ AcquireNext(Net, "gatherReply", "loop")
     \/ AcquireNext(Net, "regather", "dequeue")
     \/ ReleaseNext(Net, "leave", "out")
  /\ UNCHANGED <<lockAll, queue, replies, userSem, netSem, todo>>

\* Replies come because a user thread has asked for them.
NetStep ==
  \/ ReceiveReply \/ HandleRequest \/ LoopEnds \/ WakeUser \/ WaitForUser
  \/ Dequeue \/ NetLoops
-----------------------------------------------------------------------------
Next == \/ NetStep \/ ReceiveRequest
        \/ \E t \in Users : UserStep(t) \/ AcquireShared(t) \/ AcquireStack(t)

\* A host thread that can run does.  Nothing is assumed about the order in which
\* a mutex admits the threads that want it.
Fairness == /\ WF_vars(NetStep)
            /\ \A t \in Users : WF_vars(UserStep(t))

Spec == Init /\ [][Next]_vars /\ Fairness
-----------------------------------------------------------------------------
TypeOK == /\ owner \in [Users -> Actors \union {Free}]
          /\ pc \in [Actors -> PcValues]
          /\ idx \in [Actors -> Users]
          /\ lockAll \in [Users -> BOOLEAN]
          /\ queue \in Seq(Waiter)
          /\ replies \in Nat
          /\ userSem \in [Users -> Nat] /\ netSem \in [Users -> Nat]
          /\ todo \in [Actors -> Nat]

\* The lock a user thread waits for has been passed to it.
Granted(t) == t # Net /\ pc[t] = "await" /\ userSem[t] > 0

Reading(t) == pc[t] \in {"shared", "filled", "narrow"}
Writing(t) == pc[t] \in {"exclusive", "passed", "loop", "dequeue"} \/ Granted(t)

\* A thread that works on the whole cache stack of a set works alone: nobody
\* else works on the stack, and no core looks at its first-level cache
\* (cache_cntlr.cc, "Lock design"; setlock.cc takes the mutexes one by one).
Exclusion == \A t, u \in Actors :
               t # u /\ Writing(t) => ~Writing(u) /\ ~Reading(u)

\* The abstract lock: where its shares are, and who has it for itself.
Readers == {t \in Users : Reading(t)}
Writer  == IF \E t \in Actors : Writing(t)
           THEN CHOOSE t \in Actors : Writing(t) ELSE Free
RW == INSTANCE ReaderWriterLock
        WITH readers <- Readers, writer <- Writer, NoActor <- Free

\* Taking, releasing, upgrading, downgrading and passing on the mutexes one at a
\* time is, as far as their users can tell, one lock with a shared and an
\* exclusive mode, even while another thread is half way through the mutexes.
ImplementsLock == RW!RWSpec

\* Everybody gets through: no upgrade waits for another upgrade, no hand-over
\* waits for a thread that will not come, no waiter is left in the queue
\* (cache_cntlr.cc:2336 "If two threads decide to upgrade at the same time, we
\* could deadlock").
EverybodyLeaves == \A t \in Actors : []<>(pc[t] = "out")
=============================================================================
