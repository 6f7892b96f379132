--------------------------- MODULE SetLockProofs ---------------------------
(***************************************************************************)
(* Exclusion, and the refinement of the abstract reader-writer lock, for   *)
(* every number of cores that share the cache.                             *)
(*                                                                         *)
(* The invariant says which mutexes a thread holds at every point of its   *)
(* loops over them (OwnerInv), and that the lock is passed only to a user  *)
(* thread that waits for it (QueueInv, SemInv).                            *)
(***************************************************************************)
EXTENDS SetLock, SequenceTheorems, TLAPS

UserPcs == {"out", "shared", "gather", "exclusive", "narrow", "filled", "leave",
            "giveUp", "await", "passed"}
NetPcs == {"out", "gather", "exclusive", "leave", "gatherReply", "loop", "handed",
           "regather", "dequeue"}

PcInv == (\A t \in Users : pc[t] \in UserPcs) /\ pc[Net] \in NetPcs

\* The mutexes that thread t has at its place in the code.
Holds(t, i) ==
  \/ Writing(t)
  \/ pc[t] \in {"shared", "filled", "narrow"} /\ i = t
  \/ pc[t] \in {"gather", "gatherReply", "regather"} /\ i < idx[t]
  \/ pc[t] \in {"leave", "giveUp", "narrow"} /\ i >= idx[t]

OwnerInv == \A i \in Users : \A t \in Actors : Holds(t, i) => owner[i] = t

\* A semaphore is posted only for a thread that waits, and once.
SemInv == \A t \in Users : userSem[t] > 0 => pc[t] = "await" /\ userSem[t] = 1

\* The first waiter has been woken and is still in the queue.
HeadServed == pc[Net] \in {"handed", "regather", "dequeue"}
First == IF HeadServed THEN 2 ELSE 1

QueueInv ==
  /\ HeadServed => queue # <<>>
  /\ \A i \in First..Len(queue) :
       /\ pc[queue[i].core] \in {"giveUp", "await"}
       /\ userSem[queue[i].core] = 0
       /\ \A j \in First..Len(queue) : queue[i].core = queue[j].core => i = j

IInv == TypeOK /\ PcInv /\ OwnerInv /\ SemInv /\ QueueInv
-----------------------------------------------------------------------------
LEMMA InitIInv == Init => IInv
  BY SharersAssumption, BoundsAssumption, EmptySeq
     DEF Init, IInv, TypeOK, PcInv, OwnerInv, SemInv, QueueInv, HeadServed, First,
         Holds, Writing, Granted, PcValues, UserPcs, NetPcs, Users, Actors, Net,
         Free, Waiter

\* A step of thread t leaves the others' mutexes alone if it only takes free ones
\* and only releases its own.
LEMMA OwnerStep ==
  ASSUME IInv, NEW t \in Actors,
         \A u \in Actors \ {t} :
            pc'[u] = pc[u] /\ idx'[u] = idx[u] /\ (u # Net => userSem'[u] = userSem[u]),
         \A i \in Users : Holds(t, i)' => owner'[i] = t,
         \A i \in Users : owner'[i] = owner[i] \/ owner[i] = Free \/ owner[i] = t
  PROVE  OwnerInv'
<1> SUFFICES ASSUME NEW i \in Users, NEW u \in Actors, u # t, Holds(u, i)'
             PROVE  owner'[i] = u
  BY DEF OwnerInv
<1>1. Holds(u, i)
  BY DEF Holds, Writing, Granted
<1>2. owner[i] = u
  BY <1>1 DEF IInv, OwnerInv
<1> QED
  BY <1>2 DEF Free, Actors

\* The waiters of the queue are user threads.
LEMMA QueueCores ==
  ASSUME IInv
  PROVE  \A i \in First..Len(queue) : i \in DOMAIN queue /\ queue[i].core \in Users
<1> SUFFICES ASSUME NEW i \in First..Len(queue)
             PROVE  i \in DOMAIN queue /\ queue[i].core \in Users
  OBVIOUS
<1>1. queue \in Seq(Waiter) /\ i \in 1..Len(queue)
  BY DEF IInv, TypeOK, First
<1>2. queue[i] \in Waiter
  BY <1>1
<1> QED
  BY <1>1, <1>2 DEF Waiter

LEMMA Threads ==
  /\ Actors = Users \union {Net} /\ Net \notin Users /\ Free \notin Actors
  /\ N \in Users /\ 1 \in Users
  /\ \A i \in Users : i >= 1 /\ i <= N /\ i \in Int /\ (i # N => i + 1 \in Users)
  BY SharersAssumption DEF Users, Actors, Net, Free

\* The queue is unaffected by a step of a user thread that is not in it.
LEMMA QueueFrame ==
  ASSUME IInv, UNCHANGED queue, pc'[Net] = pc[Net],
         NEW t \in Users, pc[t] \notin {"giveUp", "await"} \/ userSem[t] > 0,
         \A u \in Users \ {t} : pc'[u] = pc[u] /\ userSem'[u] = userSem[u]
  PROVE  QueueInv'
<1>1. HeadServed' = HeadServed /\ First' = First
  BY DEF HeadServed, First
<1>2. \A i \in First..Len(queue) : queue[i].core \in Users
  BY QueueCores
<1>3. \A i \in First..Len(queue) : queue[i].core # t
  BY <1>2 DEF IInv, QueueInv
<1> QED
  BY <1>1, <1>2, <1>3 DEF IInv, QueueInv
-----------------------------------------------------------------------------
(***************************************************************************)
(* The user thread.                                                        *)
(***************************************************************************)

\* What is left to show for a step of user thread t.
LEMMA UserIInv ==
  ASSUME IInv, NEW t \in Users, NEW label \in UserPcs, TypeOK', QueueInv',
         Goto(t, label),
         \A u \in Actors \ {t} : idx'[u] = idx[u],
         \A u \in Users \ {t} : userSem'[u] = userSem[u],
         userSem'[t] > 0 => userSem'[t] = 1 /\ label = "await",
         \A i \in Users : Holds(t, i)' => owner'[i] = t,
         \A i \in Users : owner'[i] = owner[i] \/ owner[i] = Free \/ owner[i] = t
  PROVE  IInv'
<1>0. /\ t \in Actors /\ t # Net /\ pc'[t] = label /\ Actors = Users \union {Net}
      /\ \A u \in Actors \ {t} : pc'[u] = pc[u]
  <2>1. pc \in [Actors -> PcValues]
    BY DEF IInv, TypeOK
  <2> QED
    BY <2>1, Threads DEF Goto
<1>1. PcInv'
  BY <1>0 DEF IInv, PcInv
<1>2. SemInv'
  BY <1>0 DEF IInv, SemInv
<1>3. OwnerInv'
  <2>1. \A u \in Actors \ {t} :
          pc'[u] = pc[u] /\ idx'[u] = idx[u] /\ (u # Net => userSem'[u] = userSem[u])
    BY <1>0
  <2> QED
    BY <1>0, <2>1, OwnerStep
<1> QED
  BY <1>1, <1>2, <1>3 DEF IInv

\* The same for a step that leaves the queue and the semaphores alone and is not
\* made by a waiter.
LEMMA QuietUserIInv ==
  ASSUME IInv, NEW t \in Users, NEW label \in UserPcs, TypeOK',
         Goto(t, label), UNCHANGED <<queue, userSem>>,
         pc[t] \notin {"giveUp", "await"},
         \A u \in Actors \ {t} : idx'[u] = idx[u],
         \A i \in Users : Holds(t, i)' => owner'[i] = t,
         \A i \in Users : owner'[i] = owner[i] \/ owner[i] = Free \/ owner[i] = t
  PROVE  IInv'
<1>1. t # Net /\ pc'[Net] = pc[Net] /\ \A u \in Users \ {t} : pc'[u] = pc[u]
  <2>1. pc \in [Actors -> PcValues]
    BY DEF IInv, TypeOK
  <2> QED
    BY <2>1, Threads DEF Goto
<1>2. QueueInv'
  BY <1>1, QueueFrame
<1>3. userSem'[t] > 0 => userSem'[t] = 1 /\ label = "await"
  BY DEF IInv, SemInv
<1> QED
  BY <1>2, <1>3, UserIInv

Facts(t) ==
  /\ t \in Actors /\ t # Net /\ t # Free
  /\ N \in Users /\ 1 \in Users
  /\ \A i \in Users : i >= 1 /\ i <= N /\ i \in Int /\ (i # N => i + 1 \in Users)
  /\ idx[t] \in Users /\ pc[t] \in UserPcs

LEMMA UserFacts == ASSUME IInv, NEW t \in Users PROVE Facts(t)
  BY Threads DEF Facts, IInv, TypeOK, PcInv

LEMMA StartIInv ==
  ASSUME IInv, NEW t \in Users, AcquireShared(t) \/ AcquireStack(t)
  PROVE  IInv'
<1>a. Facts(t)
  BY UserFacts
<1> USE <1>a DEF Facts
<1>0. pc[t] = "out" /\ todo' \in [Actors -> Nat] /\ lockAll' \in [Users -> BOOLEAN]
  <2>1. pc[t] = "out" /\ todo' \in [Actors -> Nat]
    <3>1. todo \in [Actors -> Nat]
      BY DEF IInv, TypeOK
    <3> QED
      BY <3>1 DEF AcquireShared, AcquireStack, StartAccess
  <2>2. lockAll \in [Users -> BOOLEAN]
    BY DEF IInv, TypeOK
  <2> QED
    BY <2>1, <2>2 DEF AcquireShared, AcquireStack
<1>1. CASE AcquireShared(t)
  <2>1. pc'[t] = "shared" /\ owner'[t] = t
    BY <1>1 DEF AcquireShared, Goto, IInv, TypeOK
  <2>2. \A i \in Users : Holds(t, i)' => owner'[i] = t
    BY <2>1 DEF Holds, Writing, Granted
  <2>3. TypeOK'
    BY <1>0, <1>1 DEF IInv, TypeOK, AcquireShared, Goto, PcValues
  <2> QED
    BY <1>0, <1>1, <2>2, <2>3, QuietUserIInv DEF AcquireShared, UserPcs, IInv, TypeOK
<1>2. CASE AcquireStack(t)
  <2>1. pc'[t] = "gather" /\ idx'[t] = 1
    BY <1>2 DEF AcquireStack, Enter, Goto, IInv, TypeOK
  <2>2. \A i \in Users : Holds(t, i)' => owner'[i] = t
    BY <2>1 DEF Holds, Writing, Granted
  <2>3. TypeOK'
    BY <1>0, <1>2 DEF IInv, TypeOK, AcquireStack, Enter, Goto, PcValues
  <2> QED
    BY <1>0, <1>2, <2>2, <2>3, QuietUserIInv DEF AcquireStack, Enter, UserPcs, IInv, TypeOK
<1> QED
  BY <1>1, <1>2

\* Own mutex given back: the end of an access, and the first half of upgrade().
LEMMA OwnIInv ==
  ASSUME IInv, NEW t \in Users, Upgrade(t) \/ ReleaseShared(t)
  PROVE  IInv'
<1>a. Facts(t)
  BY UserFacts
<1> USE <1>a DEF Facts
<1>0. /\ pc[t] \in {"shared", "filled"} /\ owner[t] = t
      /\ owner' = [owner EXCEPT ![t] = Free]
  BY DEF Upgrade, ReleaseShared, IInv, OwnerInv, Holds
<1>1. \A i \in Users : owner'[i] = owner[i] \/ owner[i] = Free \/ owner[i] = t
  BY <1>0 DEF IInv, TypeOK
<1>2. CASE Upgrade(t)
  <2>1. pc'[t] = "gather" /\ idx'[t] = 1
    BY <1>2 DEF Upgrade, Enter, Goto, IInv, TypeOK
  <2>2. \A i \in Users : Holds(t, i)' => owner'[i] = t
    BY <2>1 DEF Holds, Writing, Granted
  <2>3. TypeOK'
    BY <1>0, <1>2 DEF IInv, TypeOK, Upgrade, Enter, Goto, PcValues
  <2> QED
    BY <1>0, <1>1, <1>2, <2>2, <2>3, QuietUserIInv
       DEF Upgrade, Enter, UserPcs, IInv, TypeOK
<1>3. CASE ReleaseShared(t)
  <2>1. pc'[t] = "out"
    BY <1>3 DEF ReleaseShared, Goto, IInv, TypeOK
  <2>2. \A i \in Users : Holds(t, i)' => owner'[i] = t
    BY <2>1 DEF Holds, Writing, Granted
  <2>3. TypeOK'
    BY <1>0, <1>3 DEF IInv, TypeOK, ReleaseShared, Goto, PcValues
  <2> QED
    BY <1>0, <1>1, <1>3, <2>2, <2>3, QuietUserIInv
       DEF ReleaseShared, UserPcs, IInv, TypeOK
<1> QED
  BY <1>2, <1>3

\* The whole lock is held, and nothing is released yet.
LEMMA CopyIInv ==
  ASSUME IInv, NEW t \in Users, CopyFromNextLevel(t)
  PROVE  IInv'
<1>a. Facts(t)
  BY UserFacts
<1> USE <1>a DEF Facts
<1>0. \A i \in Users : owner[i] = t
  BY DEF CopyFromNextLevel, IInv, OwnerInv, Holds, Writing
<1> PICK label \in {"leave", "narrow"} : Enter(t, label)
  BY DEF CopyFromNextLevel
<1>1. pc[t] \in {"exclusive", "passed"} /\ UNCHANGED <<owner, queue, userSem>>
  BY DEF CopyFromNextLevel
<1>2. \A i \in Users : Holds(t, i)' => owner'[i] = t
  BY <1>0, <1>1
<1>3. TypeOK'
  BY <1>0 DEF IInv, TypeOK, CopyFromNextLevel, Enter, Goto, PcValues
<1> QED
  BY <1>1, <1>2, <1>3, QuietUserIInv DEF Enter, UserPcs, IInv, TypeOK

\* A user thread queues up: it is not in the queue yet.
LEMMA InitiateIInv ==
  ASSUME IInv, NEW t \in Users, InitiateDirectoryAccess(t)
  PROVE  IInv'
<1>a. Facts(t)
  BY UserFacts
<1> USE <1>a DEF Facts
<1> PICK upgrade \in BOOLEAN : queue' = Append(queue, [core |-> t, upgrade |-> upgrade])
  BY DEF InitiateDirectoryAccess
<1> DEFINE w == [core |-> t, upgrade |-> upgrade]
<1>0. \A i \in Users : owner[i] = t
  BY DEF InitiateDirectoryAccess, IInv, OwnerInv, Holds, Writing
<1>1. /\ pc[t] = "exclusive" /\ Enter(t, "giveUp") /\ UNCHANGED <<owner, userSem>>
      /\ pc \in [Actors -> PcValues] /\ queue \in Seq(Waiter)
      /\ userSem \in [Users -> Nat] /\ replies' \in Nat
  BY DEF InitiateDirectoryAccess, IInv, TypeOK
<1>2. w \in Waiter
  BY Zenon DEF Waiter
<1>3. /\ queue' \in Seq(Waiter) /\ Len(queue') = Len(queue) + 1
      /\ \A i \in 1..Len(queue) : queue'[i] = queue[i]
      /\ queue'[Len(queue) + 1] = w
  BY <1>1, <1>2
<1>4. TypeOK'
  BY <1>1, <1>3 DEF IInv, TypeOK, InitiateDirectoryAccess, Enter, Goto, PcValues
<1>5. userSem[t] = 0
  <2>1. userSem[t] \in Nat
    BY <1>1
  <2> QED
    BY <1>1, <2>1 DEF IInv, SemInv
<1>6. QueueInv'
  <2>1. /\ pc'[t] = "giveUp" /\ \A u \in Actors \ {t} : pc'[u] = pc[u]
        /\ HeadServed' = HeadServed /\ First' = First
    BY <1>1, Threads DEF Enter, Goto, HeadServed, First
  <2>2. HeadServed' => queue' # <<>>
    BY <1>3, EmptySeq
  <2>3. Len(queue) \in Nat /\ First \in {1, 2} /\ w.core = t
    BY <1>1 DEF First
  <2>4. \A i \in First..Len(queue) : queue'[i].core # t /\ queue'[i] = queue[i]
    BY <1>1, <1>3, <2>3 DEF IInv, QueueInv
  <2>5. \A i \in First..Len(queue) : queue[i].core \in Users
    BY QueueCores
  <2>6. \A i \in First'..Len(queue') : i \in First..Len(queue) \/ i = Len(queue) + 1
    BY <1>3, <2>1, <2>3
  <2>7. ASSUME NEW i \in First'..Len(queue')
        PROVE  pc'[queue'[i].core] \in {"giveUp", "await"} /\ userSem'[queue'[i].core] = 0
    BY <1>1, <1>3, <1>5, <2>1, <2>3, <2>4, <2>5, <2>6, Threads DEF IInv, QueueInv
  <2>8. ASSUME NEW i \in First'..Len(queue'), NEW j \in First'..Len(queue'),
               queue'[i].core = queue'[j].core
        PROVE  i = j
    BY <1>3, <2>3, <2>4, <2>6, <2>8 DEF IInv, QueueInv
  <2> QED
    BY <2>2, <2>7, <2>8 DEF QueueInv
<1>7. /\ \A u \in Actors \ {t} : idx'[u] = idx[u]
      /\ Goto(t, "giveUp") /\ "giveUp" \in UserPcs
  BY <1>1 DEF Enter, UserPcs, IInv, TypeOK
<1>8. /\ \A u \in Users \ {t} : userSem'[u] = userSem[u]
      /\ ~(userSem'[t] > 0)
      /\ \A i \in Users : owner'[i] = t /\ owner'[i] = owner[i]
  BY <1>0, <1>1, <1>5
<1>9. /\ userSem'[t] > 0 => userSem'[t] = 1 /\ "giveUp" = "await"
      /\ \A i \in Users : Holds(t, i)' => owner'[i] = t
      /\ \A i \in Users : owner'[i] = owner[i] \/ owner[i] = Free \/ owner[i] = t
  BY <1>8
<1> HIDE <1>a
<1> QED
  BY <1>4, <1>6, <1>7, <1>8, <1>9, UserIInv

\* The lock has been passed to t, and t goes on with it.
LEMMA PassedIInv ==
  ASSUME IInv, NEW t \in Users, PassedToUser(t)
  PROVE  IInv'
<1>a. Facts(t)
  BY UserFacts
<1> USE <1>a DEF Facts
<1>0. /\ Goto(t, "passed") /\ UNCHANGED <<owner, idx, queue>>
      /\ userSem \in [Users -> Nat] /\ netSem \in [Users -> Nat]
      /\ pc \in [Actors -> PcValues]
      /\ pc[t] = "await" /\ userSem[t] = 1
      /\ userSem' = [userSem EXCEPT ![t] = @ - 1]
  BY DEF PassedToUser, IInv, TypeOK, SemInv
<1>1. /\ userSem'[t] = 0 /\ userSem' \in [Users -> Nat]
      /\ \A u \in Users \ {t} : userSem'[u] = userSem[u] /\ pc'[u] = pc[u]
      /\ pc'[Net] = pc[Net]
  BY <1>0, Threads DEF Goto
<1>2. netSem' \in [Users -> Nat]
  BY <1>0 DEF PassedToUser
<1>3. TypeOK'
  BY <1>0, <1>1, <1>2 DEF IInv, TypeOK, PassedToUser, Goto, PcValues
<1>4. \A i \in Users : owner[i] = t
  BY <1>0 DEF IInv, OwnerInv, Holds, Writing, Granted
<1>5. QueueInv'
  BY <1>0, <1>1, QueueFrame
<1> QED
  BY <1>0, <1>1, <1>3, <1>4, <1>5, UserIInv DEF UserPcs

\* What a step of a loop over the mutexes does to the thread that runs it.
LEMMA LoopStep ==
  ASSUME IInv, NEW t \in Actors, NEW label, NEW next \in PcValues, pc[t] = label,
         IF idx[t] = N THEN Enter(t, next)
                       ELSE idx' = [idx EXCEPT ![t] = @ + 1] /\ UNCHANGED pc
  PROVE  /\ idx[t] \in Users /\ pc' \in [Actors -> PcValues] /\ idx' \in [Actors -> Users]
         /\ \A u \in Actors \ {t} : pc'[u] = pc[u] /\ idx'[u] = idx[u]
         /\ \/ idx[t] = N /\ pc'[t] = next /\ idx'[t] = 1 /\ Goto(t, next)
            \/ idx[t] # N /\ pc'[t] = label /\ idx'[t] = idx[t] + 1 /\ Goto(t, label)
<1>1. pc \in [Actors -> PcValues] /\ idx \in [Actors -> Users]
  BY DEF IInv, TypeOK
<1>2. pc = [pc EXCEPT ![t] = pc[t]]
  BY <1>1
<1> QED
  BY <1>1, <1>2, Threads DEF Enter, Goto

\* A thread that takes the mutexes in turn has those below its index, one that
\* releases them has the others.
LEMMA LoopOwner ==
  ASSUME IInv, NEW t \in Actors, NEW label, NEW next \in PcValues,
         \/ /\ AcquireNext(t, label, next)
            /\ label \in {"gather", "gatherReply", "regather"}
         \/ /\ ReleaseNext(t, label, next)
            /\ label \in {"leave", "giveUp"} /\ next \in {"out", "await"}
            /\ t # Net => ~(userSem'[t] > 0)
  PROVE  /\ owner' \in [Users -> Actors \union {Free}]
         /\ \A i \in Users : owner'[i] = owner[i] \/ owner[i] = Free \/ owner[i] = t
         /\ \A i \in Users : Holds(t, i)' => owner'[i] = t
<1>0. owner \in [Users -> Actors \union {Free}] /\ \A i \in Users : Holds(t, i) => owner[i] = t
  BY DEF IInv, TypeOK, OwnerInv
<1>1. CASE AcquireNext(t, label, next) /\ label \in {"gather", "gatherReply", "regather"}
  <2>1. /\ idx[t] \in Users /\ owner[idx[t]] = Free
        /\ owner' = [owner EXCEPT ![idx[t]] = t]
        /\ \/ idx[t] = N
           \/ idx[t] # N /\ pc'[t] = label /\ idx'[t] = idx[t] + 1
    BY <1>1, LoopStep DEF AcquireNext, LockOf
  <2>2. \A i \in Users : i < idx[t] => owner[i] = t
    BY <1>0, <1>1 DEF AcquireNext, Holds
  <2>3. \A i \in Users : i <= idx[t] => owner'[i] = t
    BY <1>0, <2>1, <2>2, Threads
  <2>4. \A i \in Users : Holds(t, i)' => owner'[i] = t
    BY <1>1, <2>1, <2>3, Threads DEF Holds, Writing, Granted
  <2> QED
    BY <1>0, <2>1, <2>4
<1>2. CASE /\ ReleaseNext(t, label, next)
           /\ label \in {"leave", "giveUp"} /\ next \in {"out", "await"}
           /\ t # Net => ~(userSem'[t] > 0)
  <2>1. /\ idx[t] \in Users
        /\ owner' = [owner EXCEPT ![idx[t]] = Free]
        /\ \/ pc'[t] = next
           \/ pc'[t] = label /\ idx'[t] = idx[t] + 1
    BY <1>2, LoopStep DEF ReleaseNext
  <2>2. \A i \in Users : i >= idx[t] => owner[i] = t
    BY <1>0, <1>2 DEF ReleaseNext, Holds
  <2>3. \A i \in Users : i > idx[t] => owner'[i] = t
    BY <1>0, <2>1, <2>2, Threads
  <2>4. \A i \in Users : Holds(t, i)' => owner'[i] = t
    BY <1>2, <2>1, <2>3, Threads DEF Holds, Writing, Granted
  <2> QED
    BY <1>0, <2>1, <2>2, <2>4, Threads
<1> QED
  BY <1>1, <1>2

LEMMA UserLoopsIInv ==
  ASSUME IInv, NEW t \in Users, UserLoops(t)
  PROVE  IInv'
<1>a. Facts(t)
  BY UserFacts
<1> USE <1>a DEF Facts
<1> PICK label \in {"gather", "leave", "giveUp"}, next \in {"exclusive", "out", "await"} :
      \/ AcquireNext(t, label, next) /\ label = "gather" /\ next = "exclusive"
      \/ ReleaseNext(t, label, next) /\ label = "leave" /\ next = "out"
      \/ ReleaseNext(t, label, next) /\ label = "giveUp" /\ next = "await"
  BY DEF UserLoops
<1>0. /\ pc[t] = label /\ next \in PcValues /\ next \in UserPcs /\ label \in UserPcs
      /\ UNCHANGED <<lockAll, queue, replies, userSem, netSem, todo>>
      /\ IF idx[t] = N THEN Enter(t, next)
                       ELSE idx' = [idx EXCEPT ![t] = @ + 1] /\ UNCHANGED pc
  BY DEF UserLoops, AcquireNext, ReleaseNext, PcValues, UserPcs
<1>1. ~(userSem[t] > 0)
  BY <1>0 DEF IInv, SemInv
<1>2. /\ owner' \in [Users -> Actors \union {Free}]
      /\ \A i \in Users : owner'[i] = owner[i] \/ owner[i] = Free \/ owner[i] = t
      /\ \A i \in Users : Holds(t, i)' => owner'[i] = t
  BY <1>0, <1>1, LoopOwner
<1>3. /\ pc' \in [Actors -> PcValues] /\ idx' \in [Actors -> Users]
      /\ \A u \in Actors \ {t} : pc'[u] = pc[u] /\ idx'[u] = idx[u]
      /\ \E l \in {label, next} : Goto(t, l) /\ pc'[t] = l
  BY <1>0, LoopStep
<1>4. TypeOK'
  BY <1>0, <1>2, <1>3 DEF IInv, TypeOK
<1>5. QueueInv'
  <2>1. CASE label # "giveUp"
    BY <1>0, <1>3, <2>1, Threads, QueueFrame
  <2>2. CASE label = "giveUp"
    <3>1. /\ pc'[t] \in {"giveUp", "await"} /\ pc'[Net] = pc[Net]
          /\ HeadServed' = HeadServed /\ First' = First
      BY <1>0, <1>3, <2>2, Threads DEF HeadServed, First
    <3>2. \A i \in First..Len(queue) : queue[i].core \in Users
      BY QueueCores
    <3> QED
      BY <1>0, <1>3, <3>1, <3>2, Threads DEF IInv, QueueInv
  <2> QED
    BY <2>1, <2>2
<1> QED
  BY <1>0, <1>1, <1>2, <1>3, <1>4, <1>5, UserIInv

LEMMA DowngradeIInv ==
  ASSUME IInv, NEW t \in Users, Downgrade(t)
  PROVE  IInv'
<1>a. Facts(t)
  BY UserFacts
<1> USE <1>a DEF Facts
<1>0. /\ pc[t] = "narrow" /\ UNCHANGED <<lockAll, queue, replies, userSem, netSem, todo>>
      /\ IF idx[t] = N THEN Enter(t, "filled")
                       ELSE idx' = [idx EXCEPT ![t] = @ + 1] /\ UNCHANGED pc
      /\ owner \in [Users -> Actors \union {Free}]
  BY DEF Downgrade, IInv, TypeOK
<1>1. /\ pc' \in [Actors -> PcValues] /\ idx' \in [Actors -> Users]
      /\ \A u \in Actors \ {t} : pc'[u] = pc[u] /\ idx'[u] = idx[u]
      /\ \/ Goto(t, "filled") /\ pc'[t] = "filled"
         \/ Goto(t, "narrow") /\ pc'[t] = "narrow" /\ idx'[t] = idx[t] + 1
  BY <1>0, LoopStep DEF PcValues
<1>2. \A i \in Users : i = t \/ i >= idx[t] => owner[i] = t
  BY <1>0 DEF IInv, OwnerInv, Holds
<1>3. /\ owner' \in [Users -> Actors \union {Free}]
      /\ \A i \in Users : owner'[i] = owner[i] \/ owner[i] = Free \/ owner[i] = t
      /\ \A i \in Users : i = t \/ i > idx[t] => owner'[i] = t
  <2>1. CASE idx[t] = t
    BY <1>0, <1>2, <2>1 DEF Downgrade, Kept
  <2>2. CASE idx[t] # t
    <3>1. owner' = [owner EXCEPT ![idx[t]] = Free] /\ owner[idx[t]] = t
      BY <1>2, <2>2 DEF Downgrade, Kept
    <3> QED
      BY <1>0, <1>2, <2>2, <3>1
  <2> QED
    BY <2>1, <2>2
<1>4. ASSUME NEW i \in Users, Holds(t, i)' PROVE owner'[i] = t
  <2>1. CASE pc'[t] = "filled"
    BY <1>3, <1>4, <2>1 DEF Holds, Writing, Granted
  <2>2. CASE pc'[t] = "narrow" /\ idx'[t] = idx[t] + 1
    <3>1. i = t \/ i >= idx[t] + 1
      BY <1>4, <2>2 DEF Holds, Writing, Granted
    <3> QED
      BY <1>3, <3>1
  <2> QED
    BY <1>1, <2>1, <2>2
<1>5. TypeOK'
  BY <1>0, <1>1, <1>3 DEF IInv, TypeOK
<1> QED
  BY <1>0, <1>1, <1>3, <1>4, <1>5, QuietUserIInv DEF UserPcs
-----------------------------------------------------------------------------
(***************************************************************************)
(* The network thread.                                                     *)
(***************************************************************************)
LEMMA NetIInv ==
  ASSUME IInv, NEW label \in NetPcs, TypeOK', QueueInv', pc' = [pc EXCEPT ![Net] = label],
         UNCHANGED userSem, \A u \in Users : idx'[u] = idx[u],
         \A i \in Users : Holds(Net, i)' => owner'[i] = Net,
         \A i \in Users : owner'[i] = owner[i] \/ owner[i] = Free \/ owner[i] = Net
  PROVE  IInv'
<1>0. /\ Net \in Actors /\ pc'[Net] = label
      /\ \A u \in Users : u \in Actors /\ u # Net /\ pc'[u] = pc[u]
  BY Threads DEF IInv, TypeOK
<1>1. PcInv' /\ SemInv'
  BY <1>0 DEF IInv, PcInv, SemInv
<1>2. OwnerInv'
  BY <1>0, Threads, OwnerStep
<1> QED
  BY <1>1, <1>2 DEF IInv

\* The queue when neither it nor a user thread moves.
LEMMA NetQueueFrame ==
  ASSUME IInv, NEW label \in NetPcs, UNCHANGED <<queue, userSem>>,
         pc' = [pc EXCEPT ![Net] = label], First' = First,
         HeadServed' => queue # <<>>
  PROVE  QueueInv'
<1>1. \A u \in Users : pc'[u] = pc[u]
  BY Threads DEF IInv, TypeOK
<1>2. \A i \in First..Len(queue) : queue[i].core \in Users
  BY QueueCores
<1> QED
  BY <1>1, <1>2 DEF IInv, QueueInv

LEMMA NetFacts ==
  ASSUME IInv
  PROVE  /\ Net \in Actors /\ pc \in [Actors -> PcValues] /\ pc[Net] \in NetPcs
         /\ idx \in [Actors -> Users] /\ queue \in Seq(Waiter)
         /\ owner \in [Users -> Actors \union {Free}]
         /\ NetPcs \subseteq PcValues
  BY Threads DEF IInv, TypeOK, PcInv, NetPcs, PcValues

\* A message arrives; the network thread is about to take the mutexes.
LEMMA ReceiveIInv ==
  ASSUME IInv, ReceiveReply \/ ReceiveRequest
  PROVE  IInv'
<1> PICK label \in {"gather", "gatherReply"} : Enter(Net, label)
  BY DEF ReceiveReply, ReceiveRequest
<1>0. pc[Net] = "out" /\ UNCHANGED <<owner, lockAll, queue, userSem, netSem>>
  BY DEF ReceiveReply, ReceiveRequest
<1>1. replies' \in Nat /\ todo' \in [Actors -> Nat]
  <2>1. replies \in Nat /\ todo \in [Actors -> Nat] /\ Net \in Actors
    BY NetFacts DEF IInv, TypeOK
  <2> QED
    BY <2>1 DEF ReceiveReply, ReceiveRequest
<1>2. /\ pc' = [pc EXCEPT ![Net] = label] /\ pc'[Net] = label /\ label \in NetPcs
      /\ idx'[Net] = 1 /\ \A u \in Users : idx'[u] = idx[u]
      /\ pc' \in [Actors -> PcValues] /\ idx' \in [Actors -> Users]
  BY NetFacts, Threads DEF Enter, Goto, NetPcs
<1>3. TypeOK'
  BY <1>0, <1>1, <1>2 DEF IInv, TypeOK
<1>4. QueueInv'
  <2>1. ~HeadServed /\ ~HeadServed' /\ First' = First
    BY <1>0, <1>2 DEF HeadServed, First
  <2> QED
    BY <1>0, <1>2, <2>1, NetQueueFrame
<1>5. \A i \in Users : ~Holds(Net, i)'
  <2> SUFFICES ASSUME NEW i \in Users PROVE ~Holds(Net, i)'
    OBVIOUS
  <2>1. i \in Int /\ i >= 1
    BY Threads
  <2>2. ~(i < idx'[Net])
    BY <1>2, <2>1
  <2> QED
    BY <1>2, <2>2 DEF Holds, Writing, Granted
<1> QED
  BY <1>0, <1>2, <1>3, <1>4, <1>5, NetIInv

\* The network thread is about to release the lock that it has.
LEMMA LeaveIInv ==
  ASSUME IInv, HandleRequest \/ LoopEnds
  PROVE  IInv'
<1>0. /\ pc[Net] \in {"exclusive", "loop"} /\ Enter(Net, "leave")
      /\ UNCHANGED <<owner, lockAll, userSem, netSem, todo>>
  BY DEF HandleRequest, LoopEnds
<1>1. /\ pc' = [pc EXCEPT ![Net] = "leave"] /\ pc'[Net] = "leave" /\ "leave" \in NetPcs
      /\ \A u \in Users : idx'[u] = idx[u] /\ pc'[u] = pc[u]
      /\ pc' \in [Actors -> PcValues] /\ idx' \in [Actors -> Users]
  BY <1>0, NetFacts, Threads DEF Enter, Goto, NetPcs
<1>2. \A i \in Users : owner[i] = Net
  BY <1>0, NetFacts DEF IInv, OwnerInv, Holds, Writing
<1>3. /\ queue' \in Seq(Waiter) /\ replies' \in Nat /\ Len(queue') = Len(queue)
      /\ \A i \in 1..Len(queue) : queue'[i].core = queue[i].core
  <2>0. queue \in Seq(Waiter) /\ replies \in Nat
    BY DEF IInv, TypeOK
  <2>1. CASE UNCHANGED <<queue, replies>>
    BY <2>0, <2>1
  <2>2. CASE /\ queue # <<>> /\ queue' = [queue EXCEPT ![1].upgrade = FALSE]
             /\ replies' = replies + 1
    <3>1. 1 \in DOMAIN queue /\ queue[1] \in Waiter
      BY <2>0, <2>2, EmptySeq
    <3>2. /\ [queue[1] EXCEPT !.upgrade = FALSE] \in Waiter
          /\ [queue[1] EXCEPT !.upgrade = FALSE].core = queue[1].core
      BY <3>1 DEF Waiter
    <3>3. queue' = [queue EXCEPT ![1] = [queue[1] EXCEPT !.upgrade = FALSE]]
      BY <2>2
    <3> QED
      BY <2>0, <2>2, <3>1, <3>2, <3>3
  <2> QED
    BY <2>1, <2>2 DEF HandleRequest, LoopEnds
<1>4. TypeOK'
  BY <1>0, <1>1, <1>3 DEF IInv, TypeOK
<1>5. QueueInv'
  <2>1. ~HeadServed' /\ ~HeadServed /\ First = 1 /\ First' = 1
    BY <1>0, <1>1 DEF HeadServed, First
  <2>2. \A i \in 1..Len(queue) : queue[i].core \in Users
    BY <2>1, QueueCores
  <2> QED
    BY <1>0, <1>1, <1>3, <2>1, <2>2 DEF IInv, QueueInv
<1> QED
  BY <1>0, <1>1, <1>2, <1>4, <1>5, NetIInv

\* The lock is passed on: the first waiter is in its wait, since it has released
\* all mutexes, and nobody else holds any.
LEMMA WakeUserIInv ==
  ASSUME IInv, WakeUser
  PROVE  IInv'
<1> DEFINE h == Head(queue).core
<1>0. /\ pc[Net] = "loop" /\ queue # <<>> /\ queue \in Seq(Waiter)
      /\ userSem' = [userSem EXCEPT ![h] = @ + 1] /\ userSem \in [Users -> Nat]
      /\ owner' = [i \in Users |-> h] /\ Goto(Net, "handed")
      /\ UNCHANGED <<idx, lockAll, queue, replies, netSem, todo>>
  BY DEF WakeUser, IInv, TypeOK
<1>1. First = 1 /\ First' = 2 /\ HeadServed'
  BY <1>0, NetFacts DEF First, HeadServed, Goto
<1>2. Head(queue) = queue[1] /\ 1 \in First..Len(queue) /\ h \in Users
  BY <1>0, <1>1, EmptySeq, QueueCores
<1>3. \A i \in Users : owner[i] = Net
  BY <1>0, NetFacts DEF IInv, OwnerInv, Holds, Writing
<1>4. pc[h] = "await" /\ userSem[h] = 0
  <2>1. pc[h] \in {"giveUp", "await"} /\ userSem[h] = 0
    BY <1>2 DEF IInv, QueueInv
  <2>2. ASSUME pc[h] = "giveUp" PROVE FALSE
    <3>1. idx[h] \in Users /\ h \in Actors /\ h # Net
      BY <1>2, NetFacts, Threads
    <3>2. idx[h] >= idx[h]
      BY <3>1, Threads
    <3>3. Holds(h, idx[h])
      BY <2>2, <3>2 DEF Holds
    <3> QED
      BY <1>3, <3>1, <3>3 DEF IInv, OwnerInv
  <2> QED
    BY <2>1, <2>2
<1>5. /\ pc'[Net] = "handed" /\ \A u \in Users : pc'[u] = pc[u]
      /\ pc' \in [Actors -> PcValues]
      /\ userSem' \in [Users -> Nat] /\ userSem'[h] = 1
      /\ \A u \in Users \ {h} : userSem'[u] = userSem[u]
  <2>1. /\ pc'[Net] = "handed" /\ \A u \in Users : pc'[u] = pc[u]
        /\ pc' \in [Actors -> PcValues]
    BY <1>0, NetFacts, Threads DEF Goto, PcValues
  <2>2. /\ userSem' \in [Users -> Nat] /\ userSem'[h] = 1
        /\ \A u \in Users \ {h} : userSem'[u] = userSem[u]
    BY <1>0, <1>2, <1>4
  <2> QED
    BY <2>1, <2>2
<1>6. TypeOK'
  BY <1>0, <1>2, <1>5, Threads DEF IInv, TypeOK
<1>7. PcInv' /\ SemInv'
  BY <1>2, <1>4, <1>5 DEF IInv, PcInv, SemInv, NetPcs
<1>8. OwnerInv'
  <2> SUFFICES ASSUME NEW i \in Users, NEW u \in Actors, Holds(u, i)', u # h
               PROVE  FALSE
    BY <1>0, <1>2 DEF OwnerInv
  <2>1. u # Net
    BY <1>5 DEF Holds, Writing, Granted
  <2>2. Holds(u, i)
    BY <1>0, <1>5, <2>1, Threads DEF Holds, Writing, Granted
  <2> QED
    BY <1>3, <2>1, <2>2 DEF IInv, OwnerInv
<1>9. QueueInv'
  <2>1. \A i \in 2..Len(queue) : i \in First..Len(queue) /\ i # 1
    BY <1>1
  <2>2. \A i \in 2..Len(queue) : queue[i].core \in Users \ {h}
    BY <1>2, <2>1, QueueCores DEF IInv, QueueInv
  <2> QED
    BY <1>0, <1>1, <1>5, <2>1, <2>2 DEF IInv, QueueInv
<1> QED
  BY <1>6, <1>7, <1>8, <1>9 DEF IInv

LEMMA WaitForUserIInv ==
  ASSUME IInv, WaitForUser
  PROVE  IInv'
<1>0. /\ pc[Net] = "handed" /\ Enter(Net, "regather")
      /\ UNCHANGED <<owner, lockAll, queue, replies, userSem, todo>>
  BY DEF WaitForUser
<1>1. /\ pc' = [pc EXCEPT ![Net] = "regather"] /\ pc'[Net] = "regather"
      /\ "regather" \in NetPcs /\ idx'[Net] = 1 /\ \A u \in Users : idx'[u] = idx[u]
      /\ pc' \in [Actors -> PcValues] /\ idx' \in [Actors -> Users]
  BY <1>0, NetFacts, Threads DEF Enter, Goto, NetPcs
<1>2. HeadServed /\ HeadServed' /\ First' = First /\ queue # <<>>
  BY <1>0, <1>1 DEF HeadServed, First, IInv, QueueInv
<1>3. netSem' \in [Users -> Nat]
  <2>1. netSem \in [Users -> Nat] /\ queue \in Seq(Waiter)
    BY DEF IInv, TypeOK
  <2>2. Head(queue) \in Waiter
    BY <1>2, <2>1, EmptySeq
  <2>3. Head(queue).core \in Users
    BY <2>2 DEF Waiter
  <2> QED
    BY <2>1, <2>3 DEF WaitForUser
<1>4. TypeOK'
  BY <1>0, <1>1, <1>3 DEF IInv, TypeOK
<1>5. QueueInv'
  BY <1>0, <1>1, <1>2, NetQueueFrame
<1>6. \A i \in Users : ~Holds(Net, i)'
  <2> SUFFICES ASSUME NEW i \in Users PROVE ~Holds(Net, i)'
    OBVIOUS
  <2>1. ~(i < idx'[Net])
    BY <1>1, Threads
  <2> QED
    BY <1>1, <2>1 DEF Holds, Writing, Granted
<1> QED
  BY <1>0, <1>1, <1>4, <1>5, <1>6, NetIInv

\* The waiter that has been served leaves the queue.
LEMMA DequeueIInv ==
  ASSUME IInv, Dequeue
  PROVE  IInv'
<1>0. /\ pc[Net] = "dequeue" /\ Goto(Net, "loop") /\ queue' = Tail(queue)
      /\ UNCHANGED <<owner, idx, lockAll, replies, userSem, netSem, todo>>
  BY DEF Dequeue
<1>1. /\ pc' = [pc EXCEPT ![Net] = "loop"] /\ pc'[Net] = "loop" /\ "loop" \in NetPcs
      /\ pc' \in [Actors -> PcValues] /\ \A u \in Users : pc'[u] = pc[u]
  BY <1>0, NetFacts, Threads DEF Goto, NetPcs
<1>2. /\ HeadServed /\ ~HeadServed' /\ First = 2 /\ First' = 1
      /\ queue # <<>> /\ queue \in Seq(Waiter)
  BY <1>0, <1>1, NetFacts DEF HeadServed, First, IInv, QueueInv
<1>3. /\ queue' \in Seq(Waiter) /\ Len(queue') = Len(queue) - 1 /\ Len(queue) \in Nat
      /\ \A i \in 1..Len(queue') : queue'[i] = queue[i + 1]
  BY <1>0, <1>2, HeadTailProperties, EmptySeq
<1>4. TypeOK'
  BY <1>0, <1>1, <1>3 DEF IInv, TypeOK
<1>5. QueueInv'
  <2>1. \A i \in 1..Len(queue') : i + 1 \in First..Len(queue)
    BY <1>2, <1>3
  <2>2. \A i \in 1..Len(queue') : queue'[i].core \in Users
    BY <1>3, <2>1, QueueCores
  <2>3. \A i, j \in 1..Len(queue') : i + 1 = j + 1 => i = j
    OBVIOUS
  <2> QED
    BY <1>0, <1>1, <1>2, <1>3, <2>1, <2>2, <2>3 DEF IInv, QueueInv
<1>6. \A i \in Users : owner[i] = Net
  BY <1>0, NetFacts DEF IInv, OwnerInv, Holds, Writing
<1> QED
  BY <1>0, <1>1, <1>4, <1>5, <1>6, NetIInv

LEMMA NetLoopsIInv ==
  ASSUME IInv, NetLoops
  PROVE  IInv'
<1> PICK label \in {"gather", "gatherReply", "regather", "leave"},
         next \in {"exclusive", "loop", "dequeue", "out"} :
      \/ AcquireNext(Net, label, next) /\ label = "gather" /\ next = "exclusive"
      \/ AcquireNext(Net, label, next) /\ label = "gatherReply" /\ next = "loop"
      \/ AcquireNext(Net, label, next) /\ label = "regather" /\ next = "dequeue"
      \/ ReleaseNext(Net, label, next) /\ label = "leave" /\ next = "out"
  BY DEF NetLoops
<1>0. /\ pc[Net] = label /\ next \in PcValues /\ next \in NetPcs /\ label \in NetPcs
      /\ UNCHANGED <<lockAll, queue, replies, userSem, netSem, todo>>
      /\ IF idx[Net] = N THEN Enter(Net, next)
                         ELSE idx' = [idx EXCEPT ![Net] = @ + 1] /\ UNCHANGED pc
  BY DEF NetLoops, AcquireNext, ReleaseNext, PcValues, NetPcs
<1>1. /\ owner' \in [Users -> Actors \union {Free}]
      /\ \A i \in Users : owner'[i] = owner[i] \/ owner[i] = Free \/ owner[i] = Net
      /\ \A i \in Users : Holds(Net, i)' => owner'[i] = Net
  BY <1>0, NetFacts, LoopOwner
<1>2. /\ pc' \in [Actors -> PcValues] /\ idx' \in [Actors -> Users]
      /\ \A u \in Users : idx'[u] = idx[u]
      /\ \E l \in {label, next} : pc' = [pc EXCEPT ![Net] = l] /\ pc'[Net] = l
  BY <1>0, NetFacts, Threads, LoopStep DEF Goto
<1>3. TypeOK'
  BY <1>0, <1>1, <1>2 DEF IInv, TypeOK
<1>4. HeadServed' = HeadServed /\ First' = First /\ (HeadServed' => queue # <<>>)
  BY <1>0, <1>2 DEF HeadServed, First, IInv, QueueInv
<1>5. QueueInv'
  BY <1>0, <1>2, <1>4, NetQueueFrame
<1> QED
  BY <1>0, <1>1, <1>2, <1>3, <1>5, NetIInv
-----------------------------------------------------------------------------
LEMMA NextIInv == IInv /\ [Next]_vars => IInv'
<1> SUFFICES ASSUME IInv, [Next]_vars PROVE IInv'
  OBVIOUS
<1>1. CASE NetStep \/ ReceiveRequest
  BY <1>1, ReceiveIInv, LeaveIInv, WakeUserIInv, WaitForUserIInv, DequeueIInv, NetLoopsIInv
     DEF NetStep
<1>2. ASSUME NEW t \in Users, UserStep(t) \/ AcquireShared(t) \/ AcquireStack(t)
      PROVE  IInv'
  BY <1>2, StartIInv, OwnIInv, CopyIInv, InitiateIInv, PassedIInv, UserLoopsIInv,
     DowngradeIInv DEF UserStep
<1>3. CASE UNCHANGED vars
  BY <1>3 DEF IInv, TypeOK, PcInv, OwnerInv, SemInv, QueueInv, HeadServed, First, Holds,
              Writing, Granted, vars
<1> QED
  BY <1>1, <1>2, <1>3 DEF Next

LEMMA IInvExclusion == IInv => Exclusion
<1> SUFFICES ASSUME IInv, NEW t \in Actors, NEW u \in Actors, t # u, Writing(t),
                    Writing(u) \/ Reading(u)
             PROVE  FALSE
  BY DEF Exclusion
<1>1. u # Net => u \in Users
  BY Threads
<1>2. \A i \in Users : owner[i] = t
  BY DEF IInv, OwnerInv, Holds
<1>3. CASE Writing(u)
  BY <1>2, <1>3, Threads DEF IInv, OwnerInv, Holds
<1>4. CASE Reading(u)
  <2>1. u # Net
    BY <1>4 DEF Reading, IInv, PcInv, NetPcs
  <2>2. Holds(u, u)
    BY <1>4 DEF Reading, Holds
  <2> QED
    BY <1>1, <1>2, <2>1, <2>2 DEF IInv, OwnerInv
<1> QED
  BY <1>3, <1>4

\* For every number of sharing cores, every number of accesses and of messages: a
\* thread that has the lock of a set in exclusive mode, whether it took it or got
\* it from the network thread, is alone (setlock.cc, cache_cntlr.cc "Lock design").
THEOREM SetLockExclusion == Spec => []Exclusion
<1> QED
  BY InitIInv, NextIInv, IInvExclusion, PTL DEF Spec
-----------------------------------------------------------------------------
(***************************************************************************)
(* The refinement.  The abstract lock changes only where a thread begins   *)
(* or stops to read or to write; Exclusion, before and after the step,     *)
(* gives the guard of the abstract action.                                 *)
(***************************************************************************)
LEMMA WriterIs ==
  ASSUME IInv
  PROVE  /\ \A t \in Actors : Writing(t) => Writer = t
         /\ (\A t \in Actors : ~Writing(t)) => Writer = Free
<1>1. Exclusion
  BY IInvExclusion
<1>2. ASSUME NEW t \in Actors, Writing(t) PROVE Writer = t
  <2>1. \A u \in Actors : Writing(u) => u = t
    BY <1>1, <1>2 DEF Exclusion
  <2> QED
    BY <1>2, <2>1 DEF Writer
<1>3. (\A t \in Actors : ~Writing(t)) => Writer = Free
  BY DEF Writer
<1> QED
  BY <1>2, <1>3

LEMMA WriterAfter ==
  ASSUME IInv'
  PROVE  /\ \A t \in Actors : Writing(t)' => Writer' = t
         /\ (\A t \in Actors : ~Writing(t)') => Writer' = Free
<1>1. Exclusion'
  BY IInvExclusion, PTL
<1>2. ASSUME NEW t \in Actors, Writing(t)' PROVE Writer' = t
  <2>1. \A u \in Actors : Writing(u)' => u = t
    BY <1>1, <1>2 DEF Exclusion
  <2> QED
    BY <1>2, <2>1 DEF Writer
<1>3. (\A t \in Actors : ~Writing(t)') => Writer' = Free
  BY DEF Writer
<1> QED
  BY <1>2, <1>3

\* A step of one thread t that does not go from reading to writing is a step of
\* the abstract lock, or none.
LEMMA LockStep ==
  ASSUME IInv, IInv', NEW t \in Actors,
         \A u \in Actors \ {t} : /\ Reading(u)' <=> Reading(u)
                                 /\ Writing(u)' <=> Writing(u),
         ~(Reading(t) /\ Writing(t)')
  PROVE  [RW!RWNext]_<<Readers, Writer>>
<1>1. Exclusion /\ Exclusion'
  BY IInvExclusion, PTL
<1>2. /\ \A u \in Actors : Writing(u) => Writer = u
      /\ (\A u \in Actors : ~Writing(u)) => Writer = Free
  BY WriterIs
<1>3. /\ \A u \in Actors : Writing(u)' => Writer' = u
      /\ (\A u \in Actors : ~Writing(u)') => Writer' = Free
  BY WriterAfter
<1>4. /\ \A u \in Actors : ~(Reading(u) /\ Writing(u)) /\ ~(Reading(u) /\ Writing(u))'
      /\ \A u \in Actors : Reading(u) \/ Reading(u)' => u \in Users
  BY Threads DEF Reading, Writing, Granted, IInv, PcInv, NetPcs
<1>5. Users \subseteq Actors
  BY Threads
<1>6. CASE (Reading(t)' <=> Reading(t)) /\ (Writing(t)' <=> Writing(t))
  <2>1. Readers' = Readers
    BY <1>5, <1>6 DEF Readers
  <2>2. Writer' = Writer
    BY <1>2, <1>3, <1>6
  <2> QED
    BY <2>1, <2>2
<1>7. CASE Reading(t)' /\ ~Reading(t) /\ ~Writing(t)
  <2>1. Readers' = Readers \union {t} /\ t \notin Readers
    BY <1>4, <1>5, <1>7 DEF Readers
  <2>2. \A u \in Actors : ~Writing(u) /\ ~Writing(u)'
    BY <1>1, <1>4, <1>7 DEF Exclusion
  <2> QED
    BY <1>2, <1>3, <2>1, <2>2 DEF RW!RWNext, RW!AcquireShared
<1>8. CASE Reading(t) /\ ~Reading(t)'
  <2>1. Readers' = Readers \ {t} /\ t \in Readers
    BY <1>4, <1>5, <1>8 DEF Readers
  <2>2. \A u \in Actors : ~Writing(u) /\ ~Writing(u)'
    BY <1>1, <1>4, <1>8 DEF Exclusion
  <2> QED
    BY <1>2, <1>3, <2>1, <2>2 DEF RW!RWNext, RW!ReleaseShared
<1>9. CASE ~Reading(t) /\ ~Writing(t) /\ Writing(t)'
  <2>1. \A u \in Actors : ~Reading(u) /\ ~Reading(u)' /\ ~Writing(u)
    BY <1>1, <1>4, <1>9 DEF Exclusion
  <2>2. Readers = {} /\ Readers' = {}
    BY <1>5, <2>1 DEF Readers
  <2> QED
    BY <1>2, <1>3, <1>9, <2>1, <2>2 DEF RW!RWNext, RW!AcquireExclusive
<1>10. CASE Writing(t) /\ ~Writing(t)'
  <2>1. \A u \in Actors \ {t} : ~Reading(u)' /\ ~Writing(u)'
    BY <1>1, <1>10 DEF Exclusion
  <2>2. Readers = {}
    BY <1>1, <1>4, <1>5, <1>10 DEF Exclusion, Readers
  <2>3. Writer = t /\ Writer' = Free
    BY <1>2, <1>3, <1>10, <2>1
  <2>4. CASE Reading(t)'
    <3>1. Readers' = {t}
      BY <1>4, <1>5, <2>1, <2>4 DEF Readers
    <3> QED
      BY <2>3, <3>1 DEF RW!RWNext, RW!Downgrade
  <2>5. CASE ~Reading(t)'
    <3>1. Readers' = {}
      BY <1>5, <2>1, <2>5 DEF Readers
    <3> QED
      BY <2>2, <2>3, <3>1 DEF RW!RWNext, RW!ReleaseExclusive
  <2> QED
    BY <2>4, <2>5
<1> QED
  BY <1>4, <1>6, <1>7, <1>8, <1>9, <1>10

\* The step of a user thread leaves the places of the other threads alone.
LEMMA UserLockStep ==
  ASSUME IInv, IInv', NEW t \in Users, UserStep(t) \/ AcquireShared(t) \/ AcquireStack(t)
  PROVE  [RW!RWNext]_<<Readers, Writer>>
<1>1. t \in Actors /\ t # Net
  BY Threads
<1>2. /\ pc \in [Actors -> PcValues] /\ userSem \in [Users -> Nat]
      /\ \A u \in Actors \ {Net} : u \in Users
  BY Threads DEF IInv, TypeOK
<1>3. /\ \A u \in Actors \ {t} : pc'[u] = pc[u]
      /\ \A u \in Users \ {t} : userSem'[u] = userSem[u]
  BY <1>1, <1>2
     DEF UserStep, AcquireShared, AcquireStack, StartAccess, Upgrade, ReleaseShared,
         CopyFromNextLevel, InitiateDirectoryAccess, PassedToUser, UserLoops, Downgrade,
         AcquireNext, ReleaseNext, Enter, Goto
<1>4. ~(Reading(t) /\ Writing(t)')
  <2> SUFFICES ASSUME Reading(t) PROVE pc'[t] \in {"gather", "out", "narrow", "filled"}
    BY DEF Writing, Granted
  <2> QED
    BY <1>1, <1>2
       DEF Reading, UserStep, AcquireShared, AcquireStack, StartAccess, Upgrade,
           ReleaseShared, CopyFromNextLevel, InitiateDirectoryAccess, PassedToUser,
           UserLoops, Downgrade, AcquireNext, ReleaseNext, Enter, Goto
<1>5. \A u \in Actors \ {t} : (Reading(u)' <=> Reading(u)) /\ (Writing(u)' <=> Writing(u))
  BY <1>2, <1>3 DEF Reading, Writing, Granted
<1> QED
  BY <1>1, <1>4, <1>5, LockStep

\* wakeUpUserThread() passes the lock on.
LEMMA PassOnStep ==
  ASSUME IInv, IInv', WakeUser
  PROVE  [RW!RWNext]_<<Readers, Writer>>
<1>1. pc[Net] = "loop" /\ queue # <<>> /\ queue \in Seq(Waiter) /\ pc \in [Actors -> PcValues]
  BY DEF WakeUser, IInv, TypeOK
<1>2. PICK c \in Users : c = Head(queue).core /\ pc[c] \in {"giveUp", "await"}
  <2>1. Len(queue) \in Nat /\ Len(queue) >= 1 /\ queue[1] = Head(queue)
    BY <1>1, EmptySeq
  <2>2. First = 1
    BY <1>1 DEF First, HeadServed
  <2> QED
    BY <2>1, <2>2, QueueCores DEF IInv, QueueInv
<1>3. /\ c \in Actors /\ c # Net /\ Net \in Actors
      /\ pc'[c] = pc[c] /\ pc'[Net] = "handed"
      /\ \A u \in Actors \ {Net} : pc'[u] = pc[u]
  BY <1>1, <1>2, Threads DEF WakeUser, Goto
<1>4. Writing(Net)
  BY <1>1 DEF Writing
<1>5. Writing(c)'
  <2>1. userSem \in [Users -> Nat] /\ userSem'[c] = userSem[c] + 1
    BY <1>2 DEF IInv, TypeOK, WakeUser
  <2>2. userSem'[c] > 0
    BY <1>2, <2>1
  <2> QED
    BY <1>2, <1>3, <2>2 DEF IInv, SemInv, Writing, Granted
<1>6. Writer = Net /\ Writer' = c
  BY <1>3, <1>4, <1>5, WriterIs, WriterAfter
<1>7. Readers' = Readers
  BY <1>1, <1>3, Threads DEF Readers, Reading
<1> QED
  BY <1>3, <1>6, <1>7 DEF RW!RWNext, RW!PassOn

\* The other steps of the network thread.
LEMMA NetLockStep ==
  ASSUME IInv, IInv', NetStep \/ ReceiveRequest
  PROVE  [RW!RWNext]_<<Readers, Writer>>
<1>1. CASE WakeUser
  BY <1>1, PassOnStep
<1>2. CASE ~WakeUser
  <2>1. /\ pc \in [Actors -> PcValues] /\ Net \in Actors
        /\ \A u \in Actors \ {Net} : u \in Users
    BY Threads DEF IInv, TypeOK
  <2>2. (\A u \in Actors \ {Net} : pc'[u] = pc[u]) /\ userSem' = userSem
    BY <1>2, <2>1
       DEF NetStep, ReceiveReply, ReceiveRequest, HandleRequest, LoopEnds, WaitForUser,
           Dequeue, NetLoops, AcquireNext, ReleaseNext, Enter, Goto
  <2>3. ~Reading(Net)
    BY DEF Reading, IInv, PcInv, NetPcs
  <2>4. \A u \in Actors \ {Net} :
          (Reading(u)' <=> Reading(u)) /\ (Writing(u)' <=> Writing(u))
    BY <2>1, <2>2 DEF Reading, Writing, Granted
  <2> QED
    BY <2>1, <2>3, <2>4, LockStep
<1> QED
  BY <1>1, <1>2

\* For every number of sharing cores: a mutex per core, taken and released one by
\* one, upgraded, downgraded and passed from thread to thread, is one lock with a
\* shared and an exclusive mode (setlock.cc, cache_cntlr.cc "Lock design").
THEOREM SetLockRefines == Spec => ImplementsLock
<1>1. Init => RW!RWInit
  <2> SUFFICES ASSUME Init PROVE Readers = {} /\ Writer = Free
    BY DEF RW!RWInit
  <2>1. \A t \in Actors : ~Reading(t) /\ ~Writing(t)
    BY DEF Init, Reading, Writing, Granted
  <2> QED
    BY <2>1, Threads DEF Readers, Writer
<1>2. IInv /\ IInv' /\ [Next]_vars => [RW!RWNext]_<<Readers, Writer>>
  <2> SUFFICES ASSUME IInv, IInv', [Next]_vars PROVE [RW!RWNext]_<<Readers, Writer>>
    OBVIOUS
  <2>1. CASE NetStep \/ ReceiveRequest
    BY <2>1, NetLockStep
  <2>2. ASSUME NEW t \in Users, UserStep(t) \/ AcquireShared(t) \/ AcquireStack(t)
        PROVE  [RW!RWNext]_<<Readers, Writer>>
    BY <2>2, UserLockStep
  <2>3. CASE UNCHANGED vars
    BY <2>3 DEF vars, Readers, Writer, Reading, Writing, Granted
  <2> QED
    BY <2>1, <2>2, <2>3 DEF Next
<1> QED
  BY <1>1, <1>2, InitIInv, NextIInv, PTL DEF Spec, ImplementsLock, RW!RWSpec
=============================================================================
