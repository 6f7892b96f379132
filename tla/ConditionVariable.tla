--------------------------- MODULE ConditionVariable ---------------------------
(***************************************************************************)
(* The condition variable of misc/cond.cc and the three host primitives    *)
(* that many threads share through one: the barrier of misc/barrier.cc,    *)
(* the inbox of a node of the transport (transport/smtransport.cc) and the *)
(* bounded queue of misc/mt_circular_queue.h.                              *)
(*                                                                         *)
(* A condition variable keeps no count of its waiters, only a futex word   *)
(* that a waiter clears and a signal sets: a second waiter may clear it    *)
(* before the first one sleeps.  Whether a wake-up can be lost is a        *)
(* question to the primitive that uses it.                                 *)
(*                                                                         *)
(* What runs under the lock of the primitive is one step; wait() releases  *)
(* it before the system call and takes it again after.  A signal of the    *)
(* host ends the system call early: syscall() returns -1 then, so the loop *)
(* "while (res == -EINTR)" does not restart it.                            *)
(***************************************************************************)
EXTENDS Integers, FiniteSets

CONSTANT
  CvConfigs   \* [kind, threads, size, signals, max]: size of the bounded queue; max
              \* bounds the rounds of the barrier, the packets and the pushes

\* A bounded queue has room for one element; who waits for nothing needs no size.
ASSUME CvAssumption ==
  \A c \in CvConfigs :
    /\ c.kind \in {"barrier", "node", "queue", "circular"} /\ c.threads \in Nat \ {0}
    /\ c.signals \in BOOLEAN /\ c.max \in Nat
    /\ c.kind \in {"queue", "circular"} => c.size \in Nat \ {0}

VARIABLES
  cvCfg,      \* the configuration
  cvFutx,     \* m_futx of each condition variable of the primitive
  cvPc,       \* where each thread is: [at, on]
  cvUser      \* the state of the primitive

cvVars == <<cvCfg, cvFutx, cvPc, cvUser>>

CvConds == {"cond", "full", "empty"}
CvThreads == 1 .. cvCfg.threads
CvOut == [at |-> "out", on |-> "cond"]
CvAt(t, place) == cvPc[t].at = place
CvGo(t, place) == cvPc' = [cvPc EXCEPT ![t].at = place]
-----------------------------------------------------------------------------
(* ConditionVariable                                                       *)

\* wait(), up to the system call; the caller holds its lock, which is released.
CondWait(t, c) ==
  /\ cvFutx' = [cvFutx EXCEPT ![c] = 0]
  /\ cvPc' = [cvPc EXCEPT ![t] = [at |-> "armed", on |-> c]]

\* FUTEX_WAIT
CondSleep(t) ==
  /\ CvAt(t, "armed")
  /\ CvGo(t, IF cvFutx[cvPc[t].on] = 0 THEN "asleep" ELSE "woken")
  /\ UNCHANGED <<cvCfg, cvFutx, cvUser>>

CondInterrupted(t) ==
  /\ cvCfg.signals /\ CvAt(t, "asleep")
  /\ CvGo(t, "woken")
  /\ UNCHANGED <<cvCfg, cvFutx, cvUser>>

CvAsleep(c) == {t \in CvThreads : cvPc[t] = [at |-> "asleep", on |-> c]}

MutCondSignal(t, c) ==
  /\ cvFutx' = cvFutx
  /\ \E woken \in {{}} \cup {{s} : s \in CvAsleep(c)} :
       /\ woken = {} => CvAsleep(c) = {}
       /\ cvPc' = [s \in CvThreads |-> IF s = t THEN CvOut ELSE IF s \in woken THEN [at |-> "woken", on |-> c] ELSE cvPc[s]]
\* signal(), after which the caller is done.
CondSignal(t, c) ==
  /\ cvFutx' = [cvFutx EXCEPT ![c] = 1]
  /\ \E woken \in {{}} \cup {{s} : s \in CvAsleep(c)} :
       /\ woken = {} => CvAsleep(c) = {}
       /\ cvPc' = [s \in CvThreads |-> IF s = t THEN CvOut ELSE IF s \in woken THEN [at |-> "woken", on |-> c] ELSE cvPc[s]]

\* broadcast(), which its users call after they have released their lock.
CondBroadcast(t) ==
  /\ CvAt(t, "broadcast")
  /\ cvFutx' = [cvFutx EXCEPT !["cond"] = 1]
  /\ cvPc' = [s \in CvThreads |-> IF s = t THEN CvOut
                                  ELSE IF s \in CvAsleep("cond") THEN [cvPc[s] EXCEPT !.at = "woken"] ELSE cvPc[s]]
  /\ UNCHANGED <<cvCfg, cvUser>>
-----------------------------------------------------------------------------
(* Barrier: cvUser = [arrived, leaving, came, left], the last two history. *)

MutBarrierEnter(t) ==
  /\ cvCfg.kind = "barrier" /\ CvAt(t, "out") /\ cvUser.came[t] < cvCfg.max
  /\ CvGo(t, "entering")
  /\ UNCHANGED <<cvCfg, cvFutx, cvUser>>
\* The test of m_leaving, without the lock.
BarrierEnter(t) ==
  /\ cvCfg.kind = "barrier" /\ CvAt(t, "out") /\ cvUser.came[t] < cvCfg.max
  /\ cvUser.leaving <= 0
  /\ CvGo(t, "entering")
  /\ UNCHANGED <<cvCfg, cvFutx, cvUser>>

BarrierArrive(t) ==
  LET last == cvUser.arrived + 1 = cvCfg.threads
      came == [cvUser EXCEPT !.came[t] = @ + 1]
  IN  /\ CvAt(t, "entering")
      /\ cvUser' = IF last THEN [came EXCEPT !.arrived = 0, !.leaving = cvCfg.threads - 1, !.left[t] = @ + 1]
                   ELSE [came EXCEPT !.arrived = @ + 1]
      /\ IF last THEN CvGo(t, "broadcast") /\ UNCHANGED cvFutx ELSE CondWait(t, "cond")
      /\ UNCHANGED cvCfg

BarrierLeave(t) ==
  /\ cvCfg.kind = "barrier" /\ CvAt(t, "woken")
  /\ cvUser' = [cvUser EXCEPT !.leaving = @ - 1, !.left[t] = @ + 1]
  /\ CvGo(t, "out")
  /\ UNCHANGED <<cvCfg, cvFutx>>
-----------------------------------------------------------------------------
(* SmTransport::SmNode: cvUser = [queued, sent].  Thread 1 receives, the    *)
(* other ones send.                                                         *)

nodeSend(t) ==
  /\ cvCfg.kind = "node" /\ t # 1 /\ CvAt(t, "out") /\ cvUser.sent < cvCfg.max
  /\ cvUser' = [queued |-> cvUser.queued + 1, sent |-> cvUser.sent + 1]
  /\ CvGo(t, "broadcast")
  /\ UNCHANGED <<cvCfg, cvFutx>>

nodeRecv ==
  /\ cvCfg.kind = "node" /\ cvPc[1].at \in {"out", "woken"}
  /\ IF cvUser.queued > 0
     THEN /\ cvUser' = [cvUser EXCEPT !.queued = @ - 1]
          /\ CvGo(1, "out") /\ UNCHANGED cvFutx
     ELSE CondWait(1, "cond") /\ UNCHANGED cvUser
  /\ UNCHANGED cvCfg
-----------------------------------------------------------------------------
(* MTCircularQueue: cvUser = [first, last, slots, pushed, popped, wrong];  *)
(* the last three are history: how many values went in and out, and whether *)
(* one came out of turn.  Thread 1 pops, thread 2 pushes.                   *)

ringNext(i) == (i + 1) % (cvCfg.size + 1)
full(r) == ringNext(r.first) = r.last
empty(r) == r.first = r.last
push(r) == [r EXCEPT !.slots[r.first] = r.pushed + 1, !.first = ringNext(@), !.pushed = @ + 1]
pop(r) == [r EXCEPT !.last = ringNext(@), !.popped = @ + 1, !.wrong = @ \/ r.slots[r.last] # r.popped + 1]

MutPushWait(t) ==
  /\ cvCfg.kind = "queue" /\ t = 2 /\ cvPc[t].at \in {"out", "woken"}
  /\ CvAt(t, "out") => cvUser.pushed < cvCfg.max
  /\ IF full(cvUser) THEN CondWait(t, "full") /\ UNCHANGED cvUser
     ELSE /\ cvUser' = push(cvUser)
          /\ IF full(cvUser') THEN CondSignal(t, "empty") ELSE CvGo(t, "out") /\ UNCHANGED cvFutx
  /\ UNCHANGED cvCfg
\* push_wait(), from its start or from the loop around its wait.
pushWait(t) ==
  /\ cvCfg.kind = "queue" /\ t = 2 /\ cvPc[t].at \in {"out", "woken"}
  /\ CvAt(t, "out") => cvUser.pushed < cvCfg.max
  /\ IF full(cvUser) THEN CondWait(t, "full") /\ UNCHANGED cvUser
     ELSE /\ cvUser' = push(cvUser)
          /\ IF empty(cvUser) THEN CondSignal(t, "empty") ELSE CvGo(t, "out") /\ UNCHANGED cvFutx
  /\ UNCHANGED cvCfg

popWait(t) ==
  /\ cvCfg.kind = "queue" /\ t = 1 /\ cvPc[t].at \in {"out", "woken"}
  /\ IF empty(cvUser) THEN CondWait(t, "empty") /\ UNCHANGED cvUser
     ELSE /\ cvUser' = pop(cvUser)
          /\ IF full(cvUser) THEN CondSignal(t, "full") ELSE CvGo(t, "out") /\ UNCHANGED cvFutx
  /\ UNCHANGED cvCfg

\* pushCircular(), for the one thread that has the queue to itself.
pushCircular(t) ==
  /\ cvCfg.kind = "circular" /\ cvUser.pushed < cvCfg.max
  /\ cvUser' = push(IF full(cvUser) THEN pop(cvUser) ELSE cvUser)
  /\ UNCHANGED <<cvCfg, cvFutx, cvPc>>
-----------------------------------------------------------------------------
CvInit ==
  /\ cvCfg \in CvConfigs
  /\ cvFutx = [c \in CvConds |-> 0]
  /\ cvPc = [t \in CvThreads |-> CvOut]
  /\ cvUser = CASE cvCfg.kind = "barrier" ->
                     [arrived |-> 0, leaving |-> 0, came |-> [t \in CvThreads |-> 0], left |-> [t \in CvThreads |-> 0]]
                [] cvCfg.kind = "node" -> [queued |-> 0, sent |-> 0]
                [] OTHER -> [first |-> 0, last |-> 0, slots |-> [i \in 0 .. cvCfg.size |-> 0],
                             pushed |-> 0, popped |-> 0, wrong |-> FALSE]

CvNext ==
  \/ \E t \in CvThreads :
       \/ CondSleep(t) \/ CondInterrupted(t) \/ CondBroadcast(t)
       \/ BarrierEnter(t) \/ BarrierArrive(t) \/ BarrierLeave(t)
       \/ nodeSend(t) \/ pushWait(t) \/ popWait(t) \/ pushCircular(t)
  \/ nodeRecv

\* No fairness: MCSemaphore states that of a run.
CvSpec == CvInit /\ [][CvNext]_cvVars
-----------------------------------------------------------------------------
\* A thread sleeps, or is bound to.
CvSleeps(t) == \/ CvAt(t, "asleep")
               \/ CvAt(t, "armed") /\ cvFutx[cvPc[t].on] = 0
CvBroadcasting == \E t \in CvThreads : CvAt(t, "broadcast")

\* Nobody passes the barrier before everybody has come, and who sleeps in it after
\* the last one has come will be woken by the broadcast that is still to follow:
\* m_leaving keeps the first ones from clearing m_futx again under the last ones.
BarrierHolds ==
  cvCfg.kind = "barrier" =>
    /\ \A t, u \in CvThreads : cvUser.left[t] <= cvUser.came[u]
    /\ \A t \in CvThreads :
         CvSleeps(t) /\ (\A u \in CvThreads : cvUser.came[u] >= cvUser.came[t]) => CvBroadcasting

\* The network thread does not sleep over a packet in its inbox, although a packet
\* is announced after the lock was released.
InboxServed ==
  cvCfg.kind = "node" => (CvSleeps(1) /\ cvUser.queued > 0 => CvBroadcasting)

\* With one thread at each end nobody sleeps on a queue that is ready for it, though
\* only the first push and the first pop signal; values come out in order.
QueueServed ==
  cvCfg.kind \in {"queue", "circular"} =>
    /\ ~cvUser.wrong /\ (cvUser.pushed - cvUser.popped) \in 0 .. cvCfg.size
    /\ \A t \in CvThreads : CvSleeps(t) => IF cvPc[t].on = "empty" THEN empty(cvUser) ELSE full(cvUser)

\* No thread waits on a condition variable for something that has already happened:
\* the barrier, the inbox of a transport node and the bounded queue.
WaitersWoken == BarrierHolds /\ InboxServed /\ QueueServed
=============================================================================
