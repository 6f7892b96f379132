--------------------------- MODULE EmulationProofs ---------------------------
(***************************************************************************)
(* The emulated synchronisation, for any number of threads, mutexes,       *)
(* condition variables, futexes and timeouts.                              *)
(*                                                                         *)
(* The counts of QueuedOnce become two statements the prover can follow: a *)
(* queue holds a thread at most once (QueuesDistinct), and a thread sits   *)
(* in one queue exactly when it is stalled, a queue of the kind that fits  *)
(* the reason of its stall (Seated).                                       *)
(***************************************************************************)
EXTENDS Emulation, FiniteSetTheorems, FunctionTheorems, TLAPS

Distinct(q)      == \A i, j \in DOMAIN q : q[i] = q[j] => i = j
DistinctEach(q)  == \A i, j \in DOMAIN q : q[i].thread = q[j].thread => i = j

\* Every queue holds a thread at most once.
QueuesDistinct == /\ \A m \in Mutexes : Distinct(mutexWaiting[m])
                  /\ \A c \in Conds : DistinctEach(condWaiting[c])
                  /\ Distinct(barrierWaiting)
                  /\ \A a \in Futexes : DistinctEach(futexWaiting[a])
                  /\ DistinctEach(sleeping)

\* Thread t is in queue x of kind k.  There is one barrier and one list of sleepers.
Sits(t, k, x) ==
  \/ k = "join" /\ x \in Threads /\ waiter[x] = t
  \/ k = "mutex" /\ x \in Mutexes /\ t \in ToSet(mutexWaiting[x])
  \/ k = "cond" /\ x \in Conds /\ t \in ThreadsOf(condWaiting[x])
  \/ k = "barrier" /\ x = None /\ t \in ToSet(barrierWaiting)
  \/ k = "futex" /\ x \in Futexes /\ t \in ThreadsOf(futexWaiting[x])
  \/ k = "sleep" /\ x = None /\ t \in ThreadsOf(sleeping)

\* Who left a condition variable waits for its mutex before it goes on.
Fits(why, k) == k = why \/ (why = "cond" /\ k = "mutex")

\* Some other thread is to resume t.
Queues(t) == status[t] = "STALLED" /\ reason[t] # "syscall"

Only(t, k, x) == Sits(t, k, x) /\ \A l, y : Sits(t, l, y) => l = k /\ y = x
Nowhere(t)    == \A k, x : ~Sits(t, k, x)
Seated(t)     == IF Queues(t) THEN \E k, x : Fits(reason[t], k) /\ Only(t, k, x)
                              ELSE Nowhere(t)

\* Where a host thread is, and what the thread manager believes of its thread.
HostKnown(t) ==
  /\ host[t] = "absent"   => status[t] = "NONE"
  /\ host[t] = "new"      => status[t] = "INITIALIZING"
  /\ host[t] = "app"      => status[t] = "RUNNING"
  /\ host[t] = "stalling" => status[t] = "RUNNING" \/ Queues(t)
  /\ host[t] = "waiting"  => Queues(t)
  /\ host[t] = "blocked"  => status[t] = "STALLED" /\ reason[t] = "syscall"
  /\ host[t] = "gone"     => status[t] = "IDLE"

\* Only a thread that has started and not exited is waited for.
JoinedLives(t) == waiter[t] # None => status[t] \in {"RUNNING", "STALLED"}

Sound(t) == Seated(t) /\ HostKnown(t) /\ JoinedLives(t)

EInv == TypeOK /\ QueuesDistinct /\ \A t \in Threads : Sound(t)

\* A step leaves t where it sits.
Keeps(t) == \A k, x : Sits(t, k, x)' <=> Sits(t, k, x)
-----------------------------------------------------------------------------
(***************************************************************************)
(* Queues of threads, and of records that name a thread.                   *)
(***************************************************************************)
LEMMA QueueMembers ==
  ASSUME NEW q, NEW n, DOMAIN q = 1 .. n
  PROVE  /\ \A x : x \in ToSet(q) <=> \E i \in 1 .. n : q[i] = x
         /\ Distinct(q) <=> \A i, j \in 1 .. n : q[i] = q[j] => i = j
         /\ \A x : x \in ThreadsOf(q) <=> \E i \in 1 .. n : q[i].thread = x
         /\ DistinctEach(q) <=> \A i, j \in 1 .. n : q[i].thread = q[j].thread => i = j
<1>1. \A x : x \in ToSet(q) <=> \E i \in 1 .. n : q[i] = x
  BY DEF ToSet
<1>2. \A x : x \in ThreadsOf(q) <=> \E i \in 1 .. n : q[i].thread = x
  BY DEF ThreadsOf
<1> QED
  BY <1>1, <1>2 DEF Distinct, DistinctEach

LEMMA ThreadQueue ==
  ASSUME NEW q \in Seq(Threads), Distinct(q)
  PROVE  /\ \A t \in Threads \ ToSet(q) : /\ Append(q, t) \in Seq(Threads)
                                         /\ Distinct(Append(q, t))
                                         /\ ToSet(Append(q, t)) = ToSet(q) \union {t}
         /\ q # <<>> => /\ Tail(q) \in Seq(Threads) /\ Head(q) \in ToSet(q) /\ Distinct(Tail(q))
                        /\ ToSet(Tail(q)) = ToSet(q) \ {Head(q)}
         /\ ToSet(q) \subseteq Threads
         /\ ToSet(<<>>) = {} /\ Distinct(<<>>) /\ <<>> \in Seq(Threads)
<1> DEFINE n == Len(q)
<1>0. n \in Nat /\ DOMAIN q = 1 .. n /\ \A i \in 1 .. n : q[i] \in Threads
  OBVIOUS
<1> HIDE DEF n
<1>a. /\ \A x : x \in ToSet(q) <=> \E i \in 1 .. n : q[i] = x
      /\ Distinct(q) <=> \A i, j \in 1 .. n : q[i] = q[j] => i = j
  BY <1>0, QueueMembers
<1>1. ASSUME NEW t \in Threads \ ToSet(q)
      PROVE  /\ Append(q, t) \in Seq(Threads) /\ Distinct(Append(q, t))
             /\ ToSet(Append(q, t)) = ToSet(q) \union {t}
  <2> DEFINE r == Append(q, t)
  <2>1. /\ r \in Seq(Threads) /\ DOMAIN r = 1 .. (n + 1) /\ r[n + 1] = t
        /\ \A i \in 1 .. n : r[i] = q[i]
        /\ \A i \in 1 .. (n + 1) : i = n + 1 \/ i \in 1 .. n
        /\ \A i \in 1 .. n : i \in 1 .. (n + 1)
    BY DEF n
  <2>2. n + 1 \in 1 .. (n + 1)
    BY <1>0
  <2> HIDE DEF r
  <2>a. /\ \A x : x \in ToSet(r) <=> \E i \in 1 .. (n + 1) : r[i] = x
        /\ Distinct(r) <=> \A i, j \in 1 .. (n + 1) : r[i] = r[j] => i = j
    BY <2>1, QueueMembers
  <2>3. Distinct(r)
    <3>1. \A i \in 1 .. n : r[i] # t
      BY <1>a, <2>1
    <3> QED
      BY <1>a, <2>1, <2>a, <3>1
  <2>4. ToSet(r) = ToSet(q) \union {t}
    <3>1. \A x : x \in ToSet(r) <=> x \in ToSet(q) \/ x = t
      BY <1>a, <2>1, <2>2, <2>a
    <3> QED
      BY <3>1
  <2> QED
    BY <2>1, <2>3, <2>4 DEF r
<1>2. ASSUME q # <<>>
      PROVE  /\ Tail(q) \in Seq(Threads) /\ Head(q) \in ToSet(q) /\ Distinct(Tail(q))
             /\ ToSet(Tail(q)) = ToSet(q) \ {Head(q)}
  <2> DEFINE r == Tail(q)
  <2>1. /\ r \in Seq(Threads) /\ DOMAIN r = 1 .. (n - 1) /\ n # 0 /\ Head(q) = q[1]
        /\ \A i \in 1 .. (n - 1) : r[i] = q[i + 1] /\ i + 1 \in 1 .. n /\ i + 1 # 1
    BY <1>2 DEF n
  <2>2. 1 \in 1 .. n
    BY <1>0, <2>1
  <2>3. \A i \in 1 .. n : i # 1 => i - 1 \in 1 .. (n - 1) /\ (i - 1) + 1 = i
    BY <1>0
  <2> HIDE DEF r
  <2>a. /\ \A x : x \in ToSet(r) <=> \E i \in 1 .. (n - 1) : r[i] = x
        /\ Distinct(r) <=> \A i, j \in 1 .. (n - 1) : r[i] = r[j] => i = j
    BY <2>1, QueueMembers
  <2>4. Distinct(r)
    <3> SUFFICES ASSUME NEW i \in 1 .. (n - 1), NEW j \in 1 .. (n - 1), r[i] = r[j] PROVE i = j
      BY <2>a
    <3>1. i + 1 = j + 1
      BY <1>a, <2>1
    <3> QED
      BY <1>0, <3>1
  <2>5. ToSet(r) = ToSet(q) \ {Head(q)}
    <3>1. ASSUME NEW i \in 1 .. (n - 1) PROVE r[i] \in ToSet(q) /\ r[i] # Head(q)
      BY <1>a, <2>1, <2>2
    <3>2. ASSUME NEW i \in 1 .. n, q[i] # Head(q) PROVE q[i] \in ToSet(r)
      BY <2>1, <2>3, <2>a, <3>2
    <3>3. \A x : x \in ToSet(r) <=> x \in ToSet(q) /\ x # Head(q)
      BY <1>a, <2>a, <3>1, <3>2
    <3> QED
      BY <3>3
  <2>6. Head(q) \in ToSet(q)
    BY <1>a, <2>1, <2>2
  <2> QED
    BY <2>1, <2>4, <2>5, <2>6 DEF r
<1>3. ToSet(q) \subseteq Threads
  BY <1>0 DEF ToSet
<1>4. ToSet(<<>>) = {} /\ Distinct(<<>>) /\ <<>> \in Seq(Threads)
  BY DEF ToSet, Distinct
<1> QED
  BY <1>1, <1>2, <1>3, <1>4

LEMMA ThreadConcat ==
  ASSUME NEW q \in Seq(Threads), NEW r \in Seq(Threads), Distinct(q), Distinct(r),
         ToSet(q) \cap ToSet(r) = {}
  PROVE  /\ q \o r \in Seq(Threads) /\ Distinct(q \o r)
         /\ ToSet(q \o r) = ToSet(q) \union ToSet(r)
<1> DEFINE n == Len(q)
           m == Len(r)
           s == q \o r
<1>1. /\ n \in Nat /\ DOMAIN q = 1 .. n /\ m \in Nat /\ DOMAIN r = 1 .. m
      /\ s \in Seq(Threads) /\ DOMAIN s = 1 .. (n + m)
      /\ \A i \in 1 .. n : s[i] = q[i]
      /\ \A i \in 1 .. (n + m) : i \notin 1 .. n => s[i] = r[i - n]
  OBVIOUS
<1>2. /\ \A i \in 1 .. (n + m) : i \notin 1 .. n => i - n \in 1 .. m
      /\ \A i, j \in 1 .. (n + m) : i - n = j - n => i = j
      /\ \A i \in 1 .. n : i \in 1 .. (n + m)
      /\ \A i \in 1 .. m : i + n \in 1 .. (n + m) /\ i + n \notin 1 .. n /\ (i + n) - n = i
  BY <1>1
<1> HIDE DEF n, m, s
<1>a. /\ \A x : x \in ToSet(q) <=> \E i \in 1 .. n : q[i] = x
      /\ Distinct(q) <=> \A i, j \in 1 .. n : q[i] = q[j] => i = j
      /\ \A x : x \in ToSet(r) <=> \E i \in 1 .. m : r[i] = x
      /\ Distinct(r) <=> \A i, j \in 1 .. m : r[i] = r[j] => i = j
      /\ \A x : x \in ToSet(s) <=> \E i \in 1 .. (n + m) : s[i] = x
      /\ Distinct(s) <=> \A i, j \in 1 .. (n + m) : s[i] = s[j] => i = j
  <2>1. DOMAIN q = 1 .. n /\ DOMAIN r = 1 .. m /\ DOMAIN s = 1 .. (n + m)
    BY <1>1
  <2>2. /\ \A x : x \in ToSet(q) <=> \E i \in 1 .. n : q[i] = x
        /\ Distinct(q) <=> \A i, j \in 1 .. n : q[i] = q[j] => i = j
    BY <2>1, QueueMembers
  <2>3. /\ \A x : x \in ToSet(r) <=> \E i \in 1 .. m : r[i] = x
        /\ Distinct(r) <=> \A i, j \in 1 .. m : r[i] = r[j] => i = j
    BY <2>1, QueueMembers
  <2>4. /\ \A x : x \in ToSet(s) <=> \E i \in 1 .. (n + m) : s[i] = x
        /\ Distinct(s) <=> \A i, j \in 1 .. (n + m) : s[i] = s[j] => i = j
    BY <2>1, QueueMembers
  <2> QED
    BY <2>2, <2>3, <2>4
<1>3. Distinct(s)
  <2> SUFFICES ASSUME NEW i \in 1 .. (n + m), NEW j \in 1 .. (n + m), s[i] = s[j] PROVE i = j
    BY <1>a
  <2>1. \A k \in 1 .. n : s[k] \in ToSet(q)
    BY <1>1, <1>a
  <2>2. \A k \in 1 .. (n + m) : k \notin 1 .. n => s[k] \in ToSet(r)
    BY <1>1, <1>2, <1>a
  <2>3. i \in 1 .. n <=> j \in 1 .. n
    BY <2>1, <2>2
  <2>4. CASE i \in 1 .. n
    BY <1>1, <1>a, <2>3, <2>4
  <2>5. CASE i \notin 1 .. n
    BY <1>1, <1>2, <1>a, <2>3, <2>5
  <2> QED
    BY <2>4, <2>5
<1>4. ToSet(s) = ToSet(q) \union ToSet(r)
  <2>1. ASSUME NEW i \in 1 .. (n + m) PROVE s[i] \in ToSet(q) \union ToSet(r)
    BY <1>1, <1>2, <1>a
  <2>2. ASSUME NEW i \in 1 .. n PROVE q[i] \in ToSet(s)
    BY <1>1, <1>2, <1>a
  <2>3. ASSUME NEW i \in 1 .. m PROVE r[i] \in ToSet(s)
    <3>1. s[i + n] = r[i] /\ i + n \in 1 .. (n + m)
      BY <1>1, <1>2
    <3> QED
      BY <1>a, <3>1
  <2>4. \A x : x \in ToSet(s) <=> x \in ToSet(q) \/ x \in ToSet(r)
    BY <1>a, <2>1, <2>2, <2>3
  <2> QED
    BY <2>4
<1>5. s \in Seq(Threads)
  BY <1>1
<1> QED
  BY <1>3, <1>4, <1>5 DEF s

\* The threads a queue of records names, in its order.
Names(q) == [i \in DOMAIN q |-> q[i].thread]

LEMMA NamesFacts ==
  ASSUME NEW S, \A w \in S : w.thread \in Threads, NEW q \in Seq(S)
  PROVE  /\ Names(q) \in Seq(Threads) /\ Len(Names(q)) = Len(q)
         /\ \A i \in 1 .. Len(q) : Names(q)[i] = q[i].thread
         /\ ThreadsOf(q) = ToSet(Names(q)) /\ ToSet(Names(q)) \subseteq Threads
         /\ DistinctEach(q) <=> Distinct(Names(q))
<1> DEFINE p == Names(q)
           n == Len(q)
<1>1. n \in Nat /\ DOMAIN q = 1 .. n /\ \A i \in 1 .. n : q[i] \in S
  OBVIOUS
<1>2. p = [i \in 1 .. n |-> q[i].thread]
  BY <1>1 DEF Names
<1> HIDE DEF n, p
<1>3. p \in Seq(Threads) /\ Len(p) = n /\ DOMAIN p = 1 .. n /\ \A i \in 1 .. n : p[i] = q[i].thread
  BY <1>1, <1>2
<1>4. /\ \A x : x \in ToSet(p) <=> \E i \in 1 .. n : p[i] = x
      /\ Distinct(p) <=> \A i, j \in 1 .. n : p[i] = p[j] => i = j
      /\ \A x : x \in ThreadsOf(q) <=> \E i \in 1 .. n : q[i].thread = x
      /\ DistinctEach(q) <=> \A i, j \in 1 .. n : q[i].thread = q[j].thread => i = j
  BY <1>1, <1>3, QueueMembers
<1>5. \A x : x \in ThreadsOf(q) <=> x \in ToSet(p)
  BY <1>3, <1>4
<1>6. ToSet(p) \subseteq Threads
  BY <1>1, <1>3, <1>4
<1>7. DistinctEach(q) <=> Distinct(p)
  BY <1>3, <1>4
<1>8. ThreadsOf(q) = ToSet(p)
  BY <1>5
<1> QED
  BY <1>3, <1>6, <1>7, <1>8 DEF n, p

\* A queue whose threads are those of p, one by one.
LEMMA NamesEqual ==
  ASSUME NEW S, \A w \in S : w.thread \in Threads, NEW q \in Seq(S), NEW p \in Seq(Threads),
         Len(p) = Len(q), \A i \in 1 .. Len(q) : p[i] = q[i].thread
  PROVE  Names(q) = p
  BY NamesFacts

LEMMA WaiterQueue ==
  ASSUME NEW S, \A w \in S : w.thread \in Threads, NEW q \in Seq(S), DistinctEach(q)
  PROVE  /\ \A w \in S : w.thread \notin ThreadsOf(q) =>
              /\ Append(q, w) \in Seq(S) /\ DistinctEach(Append(q, w))
              /\ ThreadsOf(Append(q, w)) = ThreadsOf(q) \union {w.thread}
         /\ q # <<>> => /\ Tail(q) \in Seq(S) /\ Head(q) \in S /\ Head(q).thread \in ThreadsOf(q)
                        /\ DistinctEach(Tail(q))
                        /\ ThreadsOf(Tail(q)) = ThreadsOf(q) \ {Head(q).thread}
         /\ ThreadsOf(q) \subseteq Threads
         /\ ThreadsOf(<<>>) = {} /\ DistinctEach(<<>>) /\ <<>> \in Seq(S)
<1> DEFINE p == Names(q)
<1>1. /\ p \in Seq(Threads) /\ Len(p) = Len(q) /\ \A i \in 1 .. Len(q) : p[i] = q[i].thread
      /\ ThreadsOf(q) = ToSet(p) /\ Distinct(p) /\ ToSet(p) \subseteq Threads
  BY NamesFacts
<1> HIDE DEF p
<1>2. ASSUME NEW w \in S, w.thread \notin ThreadsOf(q)
      PROVE  /\ Append(q, w) \in Seq(S) /\ DistinctEach(Append(q, w))
             /\ ThreadsOf(Append(q, w)) = ThreadsOf(q) \union {w.thread}
  <2> DEFINE r == Append(q, w)
  <2>1. r \in Seq(S) /\ Append(p, w.thread) \in Seq(Threads) /\ Len(Append(p, w.thread)) = Len(r)
        /\ \A i \in 1 .. Len(r) : Append(p, w.thread)[i] = r[i].thread
    BY <1>1
  <2> HIDE DEF r
  <2>2. Names(r) = Append(p, w.thread)
    BY <2>1, NamesEqual
  <2>3. Distinct(Append(p, w.thread)) /\ ToSet(Append(p, w.thread)) = ToSet(p) \union {w.thread}
    BY <1>1, <1>2, ThreadQueue
  <2>4. ThreadsOf(r) = ToSet(Names(r)) /\ (DistinctEach(r) <=> Distinct(Names(r)))
    BY <2>1, NamesFacts
  <2>5. r \in Seq(S) /\ DistinctEach(r) /\ ThreadsOf(r) = ThreadsOf(q) \union {w.thread}
    BY <1>1, <2>1, <2>2, <2>3, <2>4
  <2> QED
    BY <2>5 DEF r
<1>3. ASSUME q # <<>>
      PROVE  /\ Tail(q) \in Seq(S) /\ Head(q) \in S /\ Head(q).thread \in ThreadsOf(q)
             /\ DistinctEach(Tail(q)) /\ ThreadsOf(Tail(q)) = ThreadsOf(q) \ {Head(q).thread}
  <2> DEFINE r == Tail(q)
  <2>1. r \in Seq(S) /\ Tail(p) \in Seq(Threads) /\ Len(Tail(p)) = Len(r)
        /\ \A i \in 1 .. Len(r) : Tail(p)[i] = r[i].thread
    BY <1>1, <1>3
  <2>2. p # <<>> /\ Head(p) = Head(q).thread /\ Head(q) \in S
    BY <1>1, <1>3
  <2> HIDE DEF r
  <2>3. Names(r) = Tail(p)
    BY <2>1, NamesEqual
  <2>4. Distinct(Tail(p)) /\ ToSet(Tail(p)) = ToSet(p) \ {Head(p)} /\ Head(p) \in ToSet(p)
    BY <1>1, <2>2, ThreadQueue
  <2>5. ThreadsOf(r) = ToSet(Names(r)) /\ (DistinctEach(r) <=> Distinct(Names(r)))
    BY <2>1, NamesFacts
  <2>6. r \in Seq(S) /\ DistinctEach(r) /\ ThreadsOf(r) = ThreadsOf(q) \ {Head(q).thread}
        /\ Head(q).thread \in ThreadsOf(q)
    BY <1>1, <2>1, <2>2, <2>3, <2>4, <2>5
  <2> QED
    BY <2>2, <2>6 DEF r
<1>4. ThreadsOf(<<>>) = {} /\ DistinctEach(<<>>) /\ <<>> \in Seq(S)
  BY DEF ThreadsOf, DistinctEach
<1> QED
  BY <1>1, <1>2, <1>3, <1>4

LEMMA WaiterConcat ==
  ASSUME NEW S, \A w \in S : w.thread \in Threads, NEW q \in Seq(S), NEW r \in Seq(S),
         DistinctEach(q), DistinctEach(r), ThreadsOf(q) \cap ThreadsOf(r) = {}
  PROVE  /\ q \o r \in Seq(S) /\ DistinctEach(q \o r)
         /\ ThreadsOf(q \o r) = ThreadsOf(q) \union ThreadsOf(r)
<1>1. /\ Names(q) \in Seq(Threads) /\ Len(Names(q)) = Len(q)
      /\ \A i \in 1 .. Len(q) : Names(q)[i] = q[i].thread
      /\ ThreadsOf(q) = ToSet(Names(q)) /\ Distinct(Names(q))
  BY NamesFacts
<1>2. /\ Names(r) \in Seq(Threads) /\ Len(Names(r)) = Len(r)
      /\ \A i \in 1 .. Len(r) : Names(r)[i] = r[i].thread
      /\ ThreadsOf(r) = ToSet(Names(r)) /\ Distinct(Names(r))
  BY NamesFacts
<1>3. q \o r \in Seq(S)
  OBVIOUS
<1>4. Names(q \o r) = Names(q) \o Names(r)
  <2> DEFINE s == q \o r
             p == Names(q) \o Names(r)
  <2>1. s \in Seq(S) /\ p \in Seq(Threads) /\ Len(p) = Len(s)
        /\ \A i \in 1 .. Len(s) : p[i] = s[i].thread
    <3>1. s \in Seq(S) /\ p \in Seq(Threads) /\ Len(s) = Len(q) + Len(r) /\ Len(p) = Len(q) + Len(r)
          /\ Len(q) \in Nat /\ Len(r) \in Nat
      <4>1. \A u, v \in Seq(Threads) : u \o v \in Seq(Threads) /\ Len(u \o v) = Len(u) + Len(v)
        OBVIOUS
      <4>2. s \in Seq(S) /\ Len(s) = Len(q) + Len(r) /\ Len(q) \in Nat /\ Len(r) \in Nat
        OBVIOUS
      <4> QED
        BY <1>1, <1>2, <4>1, <4>2
    <3>2. ASSUME NEW i \in 1 .. Len(q) PROVE p[i] = s[i].thread
      BY <1>1, <3>2
    <3>3. ASSUME NEW i \in 1 .. Len(s), i \notin 1 .. Len(q) PROVE p[i] = s[i].thread
      <4>1. i - Len(q) \in 1 .. Len(r)
        BY <3>1, <3>3
      <4>2. s[i] = r[i - Len(q)]
        BY <3>1, <3>3
      <4>3. p[i] = Names(r)[i - Len(q)]
        BY <1>1, <1>2, <3>1, <3>3
      <4> QED
        BY <1>2, <4>1, <4>2, <4>3
    <3> QED
      BY <3>1, <3>2, <3>3
  <2> HIDE DEF s, p
  <2>2. Names(s) = p
    BY <2>1, NamesEqual
  <2> QED
    BY <2>2 DEF s, p
<1>5. /\ ThreadsOf(q \o r) = ToSet(Names(q \o r))
      /\ DistinctEach(q \o r) <=> Distinct(Names(q \o r))
  BY <1>3, NamesFacts
<1>6. /\ Distinct(Names(q) \o Names(r))
      /\ ToSet(Names(q) \o Names(r)) = ToSet(Names(q)) \union ToSet(Names(r))
  BY <1>1, <1>2, ThreadConcat
<1> QED
  BY <1>1, <1>2, <1>3, <1>4, <1>5, <1>6

LEMMA SubSeqRest ==
  ASSUME NEW S, NEW q \in Seq(S), NEW n \in Nat, n < Len(q)
  PROVE  /\ SubSeq(q, n + 1, Len(q)) \in Seq(S)
         /\ Len(SubSeq(q, n + 1, Len(q))) = Len(q) - n
         /\ \A i \in 1 .. (Len(q) - n) : SubSeq(q, n + 1, Len(q))[i] = q[i + n]
OBVIOUS

LEMMA WokenStaying ==
  ASSUME NEW q \in Seq(Waiter), DistinctEach(q), NEW n \in Nat
  PROVE  /\ Staying(q, n) \in Seq(Waiter) /\ DistinctEach(Staying(q, n))
         /\ ThreadsOf(Woken(q, n)) \subseteq ThreadsOf(q)
         /\ ThreadsOf(Staying(q, n)) = ThreadsOf(q) \ ThreadsOf(Woken(q, n))
<1> DEFINE l == Len(q)
           k == IF n < l THEN n ELSE l
           w == Woken(q, n)
           r == Staying(q, n)
<1>1. /\ l \in Nat /\ k \in Nat /\ k <= l /\ DOMAIN q = 1 .. l
      /\ w \in Seq(Waiter) /\ DOMAIN w = 1 .. k /\ \A i \in 1 .. k : w[i] = q[i]
  BY DEF Woken
<1>2. /\ r \in Seq(Waiter) /\ DOMAIN r = 1 .. (l - k)
      /\ \A i \in 1 .. (l - k) : r[i] = q[i + k]
  <2>1. CASE n < l
    <3>1. k = n
      BY <1>1, <2>1
    <3>2. r = SubSeq(q, n + 1, Len(q))
      BY DEF Staying
    <3>3. r \in Seq(Waiter) /\ Len(r) = l - n /\ \A i \in 1 .. (l - n) : r[i] = q[i + n]
      BY <2>1, <3>2, SubSeqRest
    <3> QED
      BY <3>1, <3>3
  <2>2. CASE ~(n < l)
    <3>1. k = l /\ l - k = 0 /\ n + 1 > l
      BY <1>1, <2>2
    <3>2. r = SubSeq(q, n + 1, l)
      BY DEF Staying
    <3>3. \A i, j \in Nat : i > j => SubSeq(q, i, j) = <<>>
      OBVIOUS
    <3> HIDE DEF l, k, w, r
    <3>4. n + 1 \in Nat /\ l \in Nat
      BY <1>1
    <3>5. SubSeq(q, n + 1, l) = <<>>
      BY <3>1, <3>3, <3>4
    <3>6. r = <<>>
      BY <3>2, <3>5
    <3> QED
      BY <3>1, <3>6
  <2> QED
    BY <2>1, <2>2
<1> HIDE DEF l, k, w, r
<1>3. /\ \A x : x \in ThreadsOf(q) <=> \E i \in 1 .. l : q[i].thread = x
      /\ \A i, j \in 1 .. l : q[i].thread = q[j].thread => i = j
      /\ \A x : x \in ThreadsOf(w) <=> \E i \in 1 .. k : w[i].thread = x
      /\ \A x : x \in ThreadsOf(r) <=> \E i \in 1 .. (l - k) : r[i].thread = x
      /\ DistinctEach(r) <=> \A i, j \in 1 .. (l - k) : r[i].thread = r[j].thread => i = j
  <2>1. DOMAIN q = 1 .. l /\ DOMAIN w = 1 .. k /\ DOMAIN r = 1 .. (l - k)
    BY <1>1, <1>2
  <2>2. /\ \A x : x \in ThreadsOf(q) <=> \E i \in 1 .. l : q[i].thread = x
        /\ \A i, j \in 1 .. l : q[i].thread = q[j].thread => i = j
    BY <2>1, QueueMembers
  <2>3. \A x : x \in ThreadsOf(w) <=> \E i \in 1 .. k : w[i].thread = x
    BY <2>1, QueueMembers
  <2>4. /\ \A x : x \in ThreadsOf(r) <=> \E i \in 1 .. (l - k) : r[i].thread = x
        /\ DistinctEach(r) <=> \A i, j \in 1 .. (l - k) : r[i].thread = r[j].thread => i = j
    BY <2>1, QueueMembers
  <2> QED
    BY <2>2, <2>3, <2>4
<1>4. /\ \A i \in 1 .. k : i \in 1 .. l
      /\ \A i \in 1 .. (l - k) : i + k \in 1 .. l /\ i + k \notin 1 .. k
      /\ \A i \in 1 .. l : i \notin 1 .. k => i - k \in 1 .. (l - k) /\ (i - k) + k = i
      /\ \A i, j \in 1 .. (l - k) : i + k = j + k => i = j
  BY <1>1
<1>5. DistinctEach(r)
  BY <1>2, <1>3, <1>4
<1>6. \A x : x \in ThreadsOf(w) => x \in ThreadsOf(q)
  BY <1>1, <1>3, <1>4
<1>7. \A x : x \in ThreadsOf(r) <=> x \in ThreadsOf(q) /\ x \notin ThreadsOf(w)
  <2>1. ASSUME NEW i \in 1 .. (l - k) PROVE r[i].thread \in ThreadsOf(q) /\ r[i].thread \notin ThreadsOf(w)
    <3>1. r[i] = q[i + k] /\ i + k \in 1 .. l
      BY <1>2, <1>4
    <3>2. ASSUME NEW j \in 1 .. k, w[j].thread = r[i].thread PROVE FALSE
      BY <1>1, <1>3, <1>4, <3>1, <3>2
    <3> QED
      BY <1>3, <3>1, <3>2
  <2>2. ASSUME NEW i \in 1 .. l, q[i].thread \notin ThreadsOf(w) PROVE q[i].thread \in ThreadsOf(r)
    <3>1. i \notin 1 .. k
      BY <1>1, <1>3, <2>2
    <3>2. r[i - k] = q[i] /\ i - k \in 1 .. (l - k)
      BY <1>2, <1>4, <3>1
    <3> QED
      BY <1>3, <3>2
  <2> QED
    BY <1>3, <2>1, <2>2
<1>8. ThreadsOf(w) \subseteq ThreadsOf(q) /\ ThreadsOf(r) = ThreadsOf(q) \ ThreadsOf(w)
  BY <1>6, <1>7
<1> QED
  BY <1>2, <1>5, <1>8 DEF w, r

LEMMA OneLaterFacts ==
  ASSUME NEW w \in Waiter
  PROVE  OneLater(w) \in Waiter /\ OneLater(w).thread = w.thread
<1>1. w.left \in 0 .. Never /\ w.thread \in Threads /\ Never \in Nat
  BY FutexAssumption DEF Waiter, Never
<1>2. PICK d : d = IF w.left \in {0, Never} THEN w.left ELSE w.left - 1
  OBVIOUS
<1>3. d \in 0 .. Never
  BY <1>1, <1>2
<1>4. OneLater(w) = [w EXCEPT !.left = d]
  BY <1>2 DEF OneLater
<1> QED
  BY <1>3, <1>4 DEF Waiter

\* The first waiter whose time has come leaves; everybody else stays.
LEMMA LaterFacts ==
  ASSUME NEW q \in Seq(Waiter), DistinctEach(q)
  PROVE  /\ Later(q) \in Seq(Waiter) /\ DistinctEach(Later(q))
         /\ TimedOut(q) \subseteq ThreadsOf(q)
         /\ ThreadsOf(Later(q)) = ThreadsOf(q) \ TimedOut(q)
<1> DEFINE n == Len(q)
           gone == FirstExpired(q)
           r == Later(q)
<1>1. n \in Nat /\ DOMAIN q = 1 .. n /\ gone \subseteq 1 .. n /\ \A i \in 1 .. n : q[i] \in Waiter
  BY DEF FirstExpired, Expired
<1>2. \A i, j \in gone : i = j
  <2> SUFFICES ASSUME NEW i \in gone, NEW j \in gone PROVE i = j
    OBVIOUS
  <2>1. i \in Nat /\ j \in Nat /\ i <= j /\ j <= i
    BY <1>1 DEF FirstExpired
  <2> QED
    BY <2>1
<1>3. /\ \A x : x \in ThreadsOf(q) <=> \E i \in 1 .. n : q[i].thread = x
      /\ \A i, j \in 1 .. n : q[i].thread = q[j].thread => i = j
  BY <1>1, QueueMembers
<1>4. \A x : x \in TimedOut(q) <=> \E i \in gone : q[i].thread = x
  BY DEF TimedOut
<1>5. TimedOut(q) \subseteq ThreadsOf(q)
  BY <1>1, <1>3, <1>4
<1>6. CASE gone = {}
  <2>1. r = [i \in 1 .. n |-> OneLater(q[i])]
    <3>1. Cardinality(gone) = 0
      BY <1>6, FS_EmptySet
    <3>2. n - Cardinality(gone) = n
      BY <1>1, <3>1
    <3>3. r = [i \in 1 .. (n - Cardinality(gone)) |->
                 OneLater(q[IF \E j \in gone : j <= i THEN i + 1 ELSE i])]
      BY DEF Later
    <3> HIDE DEF gone, r, n
    <3> QED
      BY <1>6, <3>2, <3>3
  <2>2. r \in Seq(Waiter) /\ DOMAIN r = 1 .. n /\ \A i \in 1 .. n : r[i].thread = q[i].thread
    <3> HIDE DEF gone, r, n
    <3> QED
      BY <1>1, <2>1, OneLaterFacts
  <2> HIDE DEF gone, r, n
  <2>3. /\ \A x : x \in ThreadsOf(r) <=> \E i \in 1 .. n : r[i].thread = x
        /\ DistinctEach(r) <=> \A i, j \in 1 .. n : r[i].thread = r[j].thread => i = j
    BY <2>2, QueueMembers
  <2>4. DistinctEach(r)
    BY <1>3, <2>2, <2>3
  <2>5. TimedOut(q) = {}
    BY <1>4, <1>6
  <2>6. \A x : x \in ThreadsOf(r) <=> x \in ThreadsOf(q)
    BY <1>3, <2>2, <2>3
  <2>7. ThreadsOf(r) = ThreadsOf(q) \ TimedOut(q)
    BY <2>5, <2>6
  <2> QED
    BY <1>5, <2>2, <2>4, <2>7 DEF r
<1>7. CASE gone # {}
  <2>1. PICK g \in 1 .. n : gone = {g}
    BY <1>1, <1>2, <1>7
  <2> DEFINE At(i) == IF g <= i THEN i + 1 ELSE i
  <2>2. r = [i \in 1 .. (n - 1) |-> OneLater(q[At(i)])]
    <3>1. Cardinality(gone) = 1
      BY <2>1, FS_Singleton
    <3>2. r = [i \in 1 .. (n - Cardinality(gone)) |->
                 OneLater(q[IF \E j \in gone : j <= i THEN i + 1 ELSE i])]
      BY DEF Later
    <3>3. \A i : (\E j \in gone : j <= i) <=> g <= i
      BY <2>1
    <3> HIDE DEF gone, r, n
    <3> QED
      BY <3>1, <3>2, <3>3
  <2> HIDE DEF gone, r, n
  <2>3. /\ \A i \in 1 .. (n - 1) : At(i) \in 1 .. n /\ At(i) # g
        /\ \A i, j \in 1 .. (n - 1) : At(i) = At(j) => i = j
        /\ \A k \in 1 .. n : k # g => \E i \in 1 .. (n - 1) : At(i) = k
    <3>1. \A i \in 1 .. (n - 1) : At(i) \in 1 .. n /\ At(i) # g
      BY <1>1
    <3>2. \A i, j \in 1 .. (n - 1) : At(i) = At(j) => i = j
      BY <1>1
    <3>3. ASSUME NEW k \in 1 .. n, k # g PROVE \E i \in 1 .. (n - 1) : At(i) = k
      <4>1. CASE k < g
        <5>1. k \in 1 .. (n - 1) /\ At(k) = k
          BY <1>1, <4>1
        <5> QED
          BY <5>1
      <4>2. CASE g < k
        <5>1. k - 1 \in 1 .. (n - 1) /\ At(k - 1) = k
          BY <1>1, <4>2
        <5> HIDE DEF At
        <5> QED
          BY <5>1
      <4> QED
        BY <1>1, <3>3, <4>1, <4>2
    <3> QED
      BY <3>1, <3>2, <3>3
  <2> HIDE DEF At
  <2>4. r \in Seq(Waiter) /\ DOMAIN r = 1 .. (n - 1)
        /\ \A i \in 1 .. (n - 1) : r[i].thread = q[At(i)].thread
    BY <1>1, <2>2, <2>3, OneLaterFacts
  <2>5. /\ \A x : x \in ThreadsOf(r) <=> \E i \in 1 .. (n - 1) : r[i].thread = x
        /\ DistinctEach(r) <=> \A i, j \in 1 .. (n - 1) : r[i].thread = r[j].thread => i = j
    BY <2>4, QueueMembers
  <2>6. DistinctEach(r)
    BY <1>3, <2>3, <2>4, <2>5
  <2>7. \A x : x \in TimedOut(q) <=> x = q[g].thread
    BY <1>4, <2>1
  <2>8. \A x : x \in ThreadsOf(r) <=> x \in ThreadsOf(q) /\ x \notin TimedOut(q)
    <3>1. ASSUME NEW i \in 1 .. (n - 1)
          PROVE  r[i].thread \in ThreadsOf(q) /\ r[i].thread \notin TimedOut(q)
      BY <1>3, <2>3, <2>4, <2>7
    <3>2. ASSUME NEW k \in 1 .. n, q[k].thread \notin TimedOut(q) PROVE q[k].thread \in ThreadsOf(r)
      <4>1. k # g
        BY <2>7, <3>2
      <4>2. PICK i \in 1 .. (n - 1) : At(i) = k
        BY <2>3, <4>1
      <4> QED
        BY <2>4, <2>5, <4>2
    <3> QED
      BY <1>3, <2>5, <3>1, <3>2
  <2>9. ThreadsOf(r) = ThreadsOf(q) \ TimedOut(q)
    BY <2>8
  <2> QED
    BY <1>5, <2>4, <2>6, <2>9 DEF r
<1> QED
  BY <1>6, <1>7

\* The elements of a finite set of numbers, counted from below.
LEMMA Counting ==
  ASSUME NEW M \in SUBSET Nat, IsFiniteSet(M)
  PROVE  LET Rank(i) == Cardinality({j \in M : j <= i}) IN
         /\ Cardinality(M) \in Nat
         /\ \A i \in M : Rank(i) \in 1 .. Cardinality(M)
         /\ \A i, j \in M : Rank(i) = Rank(j) => i = j
         /\ \A n \in 1 .. Cardinality(M) : \E i \in M : Rank(i) = n
<1> DEFINE Below(i) == {j \in M : j <= i}
           Rank(i) == Cardinality(Below(i))
           N == Cardinality(M)
<1>1. N \in Nat
  BY FS_CardinalityType
<1>2. \A i \in M : i \in Below(i) /\ Below(i) \subseteq M
  OBVIOUS
<1>3. ASSUME NEW i \in M
      PROVE  IsFiniteSet(Below(i)) /\ Rank(i) \in 1 .. N
  <2>1. IsFiniteSet(Below(i)) /\ Rank(i) <= N
    BY <1>2, FS_Subset
  <2>2. Rank(i) \in Nat
    BY <2>1, FS_CardinalityType
  <2>3. Rank(i) # 0
    <3> HIDE DEF Below
    <3> QED
      BY <1>2, <2>1, FS_EmptySet
  <2>4. \A x \in Nat : x # 0 /\ x <= N => x \in 1 .. N
    BY <1>1
  <2>5. IsFiniteSet(Below(i))
    BY <2>1
  <2> HIDE DEF Rank, N
  <2>6. Rank(i) \in 1 .. N
    BY <2>1, <2>2, <2>3, <2>4
  <2> QED
    BY <2>5, <2>6
<1>4. ASSUME NEW i \in M, NEW j \in M, Rank(i) = Rank(j), i < j PROVE FALSE
  <2>1. Below(i) \subseteq Below(j)
    <3>1. i \in Nat /\ j \in Nat /\ i < j /\ \A k \in M : k \in Nat
      BY <1>4
    <3>2. \A k \in M : k <= i => k <= j
      BY <3>1
    <3> QED
      BY <3>2
  <2>2. j \in Below(j) /\ j \notin Below(i)
    BY <1>4
  <2>3. IsFiniteSet(Below(j))
    BY <1>3
  <2> HIDE DEF Below
  <2>4. Below(i) = Below(j)
    BY <1>4, <2>1, <2>3, FS_Subset
  <2> QED
    BY <2>2, <2>4
<1>5. ASSUME NEW i \in M, NEW j \in M, Rank(i) = Rank(j) PROVE i = j
  <2>1. i \in Nat /\ j \in Nat
    OBVIOUS
  <2> HIDE DEF Rank
  <2> QED
    BY <1>4, <1>5, <2>1
<1>6. ASSUME NEW n \in 1 .. N PROVE \E i \in M : Rank(i) = n
  <2> DEFINE f == [i \in M |-> Rank(i)]
  <2>1. f \in [M -> 1 .. N]
    <3> HIDE DEF Rank, N
    <3> QED
      BY <1>3
  <2>2. \A i \in M : f[i] = Rank(i)
    OBVIOUS
  <2>3. IsFiniteSet(1 .. N) /\ Cardinality(1 .. N) = N
    <3> HIDE DEF N
    <3>1. /\ IsFiniteSet(1 .. N)
          /\ Cardinality(1 .. N) = IF 1 > N THEN 0 ELSE N - 1 + 1
      BY <1>1, FS_Interval
    <3> QED
      BY <1>1, <3>1
  <2> HIDE DEF f, Rank
  <2>4. f \in Injection(M, 1 .. N)
    <3>1. \A i, j \in M : f[i] = f[j] => i = j
      BY <1>5, <2>2
    <3> QED
      BY <2>1, <3>1, Fun_IsInj
  <2>5. f \in Surjection(M, 1 .. N)
    <3>1. Cardinality(M) = Cardinality(1 .. N) <=> f \in Surjection(M, 1 .. N)
      BY <2>3, <2>4, FS_Injection
    <3> QED
      BY <2>3, <3>1
  <2>6. \E i \in M : f[i] = n
    BY <1>6, <2>5 DEF Surjection
  <2> QED
    BY <2>2, <2>6
<1> QED
  BY <1>1, <1>3, <1>5, <1>6

\* The waiters for m, in their order: all of them, each of them once.
LEMMA OnMutexFacts ==
  ASSUME NEW q \in Seq(CondWaiter), NEW m
  PROVE  /\ OnMutex(q, m) \in Seq(Threads)
         /\ DistinctEach(q) => Distinct(OnMutex(q, m))
         /\ \A t : t \in ToSet(OnMutex(q, m))
                     <=> \E i \in 1 .. Len(q) : q[i].mutex = m /\ q[i].thread = t
<1> DEFINE M == {i \in DOMAIN q : q[i].mutex = m}
           Rank(i) == Cardinality({j \in M : j <= i})
           Nth(n) == CHOOSE i \in M : Rank(i) = n
           N == Cardinality(M)
           r == OnMutex(q, m)
<1>1. Len(q) \in Nat /\ DOMAIN q = 1 .. Len(q) /\ \A i \in 1 .. Len(q) : q[i] \in CondWaiter
  OBVIOUS
<1>2. M \subseteq 1 .. Len(q) /\ M \in SUBSET Nat /\ IsFiniteSet(M)
  <2>1. IsFiniteSet(1 .. Len(q))
    BY <1>1, FS_Interval
  <2> QED
    BY <1>1, <2>1, FS_Subset
<1>3. \A i : i \in M <=> i \in 1 .. Len(q) /\ q[i].mutex = m
  BY <1>1
<1>4. r = [n \in 1 .. N |-> q[Nth(n)].thread]
  BY DEF OnMutex
<1> HIDE DEF M
<1>5. /\ N \in Nat
      /\ \A i \in M : Rank(i) \in 1 .. N
      /\ \A i, j \in M : Rank(i) = Rank(j) => i = j
      /\ \A n \in 1 .. N : \E i \in M : Rank(i) = n
  BY <1>2, Counting
<1> HIDE DEF N, Rank, r
<1>6. \A n \in 1 .. N : Nth(n) \in M /\ Rank(Nth(n)) = n
  BY <1>5
<1>7. \A i \in M : Nth(Rank(i)) = i
  BY <1>5, <1>6
<1> HIDE DEF Nth
<1>8. \A i \in 1 .. Len(q) : q[i].thread \in Threads
  BY <1>1 DEF CondWaiter
<1>9. r \in Seq(Threads) /\ DOMAIN r = 1 .. N /\ \A n \in 1 .. N : r[n] = q[Nth(n)].thread
  <2>1. \A n \in 1 .. N : q[Nth(n)].thread \in Threads
    BY <1>2, <1>6, <1>8
  <2>2. r = [n \in 1 .. N |-> q[Nth(n)].thread]
    BY <1>4 DEF Nth
  <2> QED
    BY <1>5, <2>1, <2>2
<1>10. /\ \A x : x \in ToSet(r) <=> \E n \in 1 .. N : r[n] = x
       /\ Distinct(r) <=> \A i, j \in 1 .. N : r[i] = r[j] => i = j
  BY <1>9, QueueMembers
<1>11. DistinctEach(q) => \A i, j \in 1 .. Len(q) : q[i].thread = q[j].thread => i = j
  BY <1>1, QueueMembers
<1>12. ASSUME DistinctEach(q) PROVE Distinct(r)
  <2>1. \A i, j \in 1 .. N : r[i] = r[j] => Nth(i) = Nth(j)
    BY <1>2, <1>6, <1>9, <1>11, <1>12
  <2> QED
    BY <1>6, <1>10, <2>1
<1>13. ASSUME NEW t
       PROVE  t \in ToSet(r) <=> \E i \in 1 .. Len(q) : q[i].mutex = m /\ q[i].thread = t
  <2>1. ASSUME NEW n \in 1 .. N, r[n] = t
        PROVE  \E i \in 1 .. Len(q) : q[i].mutex = m /\ q[i].thread = t
    BY <1>3, <1>6, <1>9, <2>1
  <2>2. ASSUME NEW i \in 1 .. Len(q), q[i].mutex = m, q[i].thread = t PROVE \E n \in 1 .. N : r[n] = t
    <3>1. i \in M
      BY <1>3, <2>2
    <3>2. Rank(i) \in 1 .. N /\ Nth(Rank(i)) = i
      BY <1>5, <1>7, <3>1
    <3> QED
      BY <1>9, <2>2, <3>2
  <2> QED
    BY <1>10, <2>1, <2>2
<1> QED
  BY <1>9, <1>12, <1>13 DEF r

-----------------------------------------------------------------------------
(***************************************************************************)
(* Stalling and resuming.                                                  *)
(***************************************************************************)
\* A thread that keeps its seat, its status and its reason stays seated.
LEMMA StaysSeated ==
  ASSUME NEW t, Seated(t), Keeps(t), Queues(t)' <=> Queues(t), Queues(t) => reason'[t] = reason[t]
  PROVE  Seated(t)'
<1>1. CASE Queues(t)
  <2>1. PICK k, x : Fits(reason[t], k) /\ Only(t, k, x)
    BY <1>1 DEF Seated
  <2>2. Only(t, k, x)'
    BY <2>1 DEF Only, Keeps
  <2>3. Fits(reason[t], k)'
    BY <1>1, <2>1 DEF Fits
  <2> QED
    BY <1>1, <2>2, <2>3 DEF Seated
<1>2. CASE ~Queues(t)
  BY <1>2 DEF Seated, Nowhere, Keeps
<1> QED
  BY <1>1, <1>2

LEMMA NewlySeated ==
  ASSUME NEW t, NEW k, NEW x, Queues(t)', Fits(reason'[t], k), Only(t, k, x)'
  PROVE  Seated(t)'
  BY DEF Seated, Fits

LEMMA ResumeSeats ==
  ASSUME ThreadTypeOK, \A t \in Threads : Sound(t), NEW W, Resume(W),
         \A t \in Threads : t \in W => Queues(t) /\ Nowhere(t)',
         \A t \in Threads \ W : \/ Keeps(t)
                                \/ Queues(t) /\ \E k, x : Fits(reason[t], k) /\ Only(t, k, x)'
  PROVE  ThreadTypeOK' /\ \A t \in Threads : Sound(t)'
<1>1. /\ status' = [t \in Threads |-> IF t \in W THEN "RUNNING" ELSE status[t]]
      /\ host' = [t \in Threads |-> IF t \in W THEN Signalled(t) ELSE host[t]]
      /\ reason' = [t \in Threads |-> IF t \in W THEN None ELSE reason[t]]
      /\ waiter' = waiter
  BY DEF Resume, ClearedReason
<1>2. /\ status \in [Threads -> Statuses] /\ reason \in [Threads -> Reasons \union {None}]
      /\ waiter \in [Threads -> Threads \union {None}] /\ host \in [Threads -> HostPlaces]
  BY DEF ThreadTypeOK
<1>3. \A t \in Threads : Signalled(t) \in HostPlaces
  BY <1>2 DEF Signalled, HostPlaces
<1>4. ThreadTypeOK'
  <2>1. status' \in [Threads -> Statuses]
    BY <1>1, <1>2 DEF Statuses
  <2>2. reason' \in [Threads -> Reasons \union {None}]
    BY <1>1, <1>2
  <2>3. host' \in [Threads -> HostPlaces]
    BY <1>1, <1>2, <1>3
  <2> QED
    BY <1>1, <1>2, <2>1, <2>2, <2>3 DEF ThreadTypeOK
<1>5. ASSUME NEW t \in Threads PROVE Sound(t)'
  <2>1. Seated(t) /\ HostKnown(t) /\ JoinedLives(t)
    BY DEF Sound
  <2>2. CASE t \in W
    <3>1. status'[t] = "RUNNING" /\ Queues(t) /\ Nowhere(t)'
      BY <1>1, <2>2
    <3>2. Seated(t)'
      BY <3>1 DEF Seated, Queues
    <3>3. HostKnown(t)'
      <4>1. host[t] \in {"stalling", "waiting"}
        BY <1>2, <2>1, <3>1 DEF HostKnown, Queues, HostPlaces
      <4>2. host'[t] \in {"stalling", "app"}
        BY <1>1, <2>2, <4>1 DEF Signalled
      <4> QED
        BY <3>1, <4>2 DEF HostKnown
    <3>4. JoinedLives(t)'
      BY <3>1 DEF JoinedLives
    <3> QED
      BY <3>2, <3>3, <3>4 DEF Sound
  <2>3. CASE t \notin W
    <3>1. status'[t] = status[t] /\ reason'[t] = reason[t] /\ host'[t] = host[t] /\ waiter'[t] = waiter[t]
      BY <1>1, <2>3
    <3>2. Queues(t)' <=> Queues(t)
      BY <3>1 DEF Queues
    <3>3. Seated(t)'
      BY <2>1, <2>3, <3>1, <3>2, StaysSeated, NewlySeated
    <3>4. HostKnown(t)'
      BY <2>1, <3>1, <3>2 DEF HostKnown
    <3>5. JoinedLives(t)'
      BY <2>1, <3>1 DEF JoinedLives
    <3> QED
      BY <3>3, <3>4, <3>5 DEF Sound
  <2> QED
    BY <2>2, <2>3
<1> QED
  BY <1>4, <1>5

LEMMA StallSeats ==
  ASSUME ThreadTypeOK, \A t \in Threads : Sound(t), NEW t \in Threads, host[t] = "app",
         NEW why \in Reasons \ {"syscall"}, NEW y, NEW W, Stall(t, why, W),
         Only(t, why, y)', t \notin W,
         \A u \in Threads : u \in W => Queues(u) /\ Nowhere(u)',
         \A u \in Threads : u # t /\ u \notin W => Keeps(u),
         waiter' \in [Threads -> Threads \union {None}],
         \A u \in Threads : waiter'[u] = waiter[u] \/ status[u] \in {"RUNNING", "STALLED"}
  PROVE  ThreadTypeOK' /\ \A u \in Threads : Sound(u)'
<1>1. /\ status \in [Threads -> Statuses] /\ reason \in [Threads -> Reasons \union {None}]
      /\ host \in [Threads -> HostPlaces]
  BY DEF ThreadTypeOK
<1>2. /\ status' = [u \in Threads |-> IF u = t THEN "STALLED"
                                      ELSE IF u \in W THEN "RUNNING" ELSE status[u]]
      /\ reason' = [u \in Threads |-> IF u = t THEN why ELSE IF u \in W THEN None ELSE reason[u]]
      /\ host' = [u \in Threads |-> IF u = t THEN "stalling"
                                    ELSE IF u \in W THEN Signalled(u) ELSE host[u]]
  BY DEF Stall, ClearedReason
<1>3. \A u \in Threads : Signalled(u) \in HostPlaces
  BY <1>1 DEF Signalled, HostPlaces
<1>4. ThreadTypeOK'
  <2>1. status' \in [Threads -> Statuses]
    BY <1>1, <1>2 DEF Statuses
  <2>2. reason' \in [Threads -> Reasons \union {None}]
    BY <1>1, <1>2
  <2>3. host' \in [Threads -> HostPlaces]
    BY <1>1, <1>2, <1>3 DEF HostPlaces
  <2> QED
    BY <2>1, <2>2, <2>3 DEF ThreadTypeOK
<1>5. Sound(t)'
  <2>1. status'[t] = "STALLED" /\ reason'[t] = why /\ host'[t] = "stalling" /\ Queues(t)'
    BY <1>2 DEF Queues
  <2>2. Seated(t)'
    BY <2>1, NewlySeated DEF Fits
  <2>3. HostKnown(t)' /\ JoinedLives(t)'
    BY <2>1 DEF HostKnown, JoinedLives
  <2> QED
    BY <2>2, <2>3 DEF Sound
<1>6. ASSUME NEW u \in Threads, u # t PROVE Sound(u)'
  <2>1. Seated(u) /\ HostKnown(u) /\ JoinedLives(u)
    BY DEF Sound
  <2>2. CASE u \in W
    <3>1. status'[u] = "RUNNING" /\ Queues(u) /\ Nowhere(u)'
      BY <1>2, <1>6, <2>2
    <3>2. Seated(u)'
      BY <3>1 DEF Seated, Queues
    <3>3. HostKnown(u)'
      <4>1. host[u] \in {"stalling", "waiting"}
        BY <1>1, <2>1, <3>1 DEF HostKnown, Queues, HostPlaces
      <4>2. host'[u] \in {"stalling", "app"}
        BY <1>2, <1>6, <2>2, <4>1 DEF Signalled
      <4> QED
        BY <3>1, <4>2 DEF HostKnown
    <3>4. JoinedLives(u)'
      BY <3>1 DEF JoinedLives
    <3> QED
      BY <3>2, <3>3, <3>4 DEF Sound
  <2>3. CASE u \notin W
    <3>1. status'[u] = status[u] /\ reason'[u] = reason[u] /\ host'[u] = host[u]
      BY <1>2, <1>6, <2>3
    <3>2. Queues(u)' <=> Queues(u)
      BY <3>1 DEF Queues
    <3>3. Seated(u)'
      BY <1>6, <2>1, <2>3, <3>1, <3>2, StaysSeated
    <3>4. HostKnown(u)'
      BY <2>1, <3>1, <3>2 DEF HostKnown
    <3>5. JoinedLives(u)'
      BY <2>1, <3>1 DEF JoinedLives
    <3> QED
      BY <3>3, <3>4, <3>5 DEF Sound
  <2> QED
    BY <2>2, <2>3
<1> QED
  BY <1>4, <1>5, <1>6

\* The threads of every queue, and that nothing else is a seat.
LEMMA Seats ==
  ASSUME NEW t
  PROVE  /\ \A x : Sits(t, "join", x) <=> x \in Threads /\ waiter[x] = t
         /\ \A x : Sits(t, "mutex", x) <=> x \in Mutexes /\ t \in ToSet(mutexWaiting[x])
         /\ \A x : Sits(t, "cond", x) <=> x \in Conds /\ t \in ThreadsOf(condWaiting[x])
         /\ \A x : Sits(t, "barrier", x) <=> x = None /\ t \in ToSet(barrierWaiting)
         /\ \A x : Sits(t, "futex", x) <=> x \in Futexes /\ t \in ThreadsOf(futexWaiting[x])
         /\ \A x : Sits(t, "sleep", x) <=> x = None /\ t \in ThreadsOf(sleeping)
         /\ \A k, x : Sits(t, k, x) => k \in Reasons \ {"syscall"}
  BY DEF Sits, Reasons

LEMMA SeatsNext ==
  ASSUME NEW t
  PROVE  /\ \A x : Sits(t, "join", x)' <=> x \in Threads /\ waiter'[x] = t
         /\ \A x : Sits(t, "mutex", x)' <=> x \in Mutexes /\ t \in ToSet(mutexWaiting'[x])
         /\ \A x : Sits(t, "cond", x)' <=> x \in Conds /\ t \in ThreadsOf(condWaiting'[x])
         /\ \A x : Sits(t, "barrier", x)' <=> x = None /\ t \in ToSet(barrierWaiting')
         /\ \A x : Sits(t, "futex", x)' <=> x \in Futexes /\ t \in ThreadsOf(futexWaiting'[x])
         /\ \A x : Sits(t, "sleep", x)' <=> x = None /\ t \in ThreadsOf(sleeping')
         /\ \A k, x : Sits(t, k, x)' => k \in Reasons \ {"syscall"}
  BY DEF Sits, Reasons, ToSet, ThreadsOf

\* Who executes the application sits nowhere, who sits somewhere is stalled.
LEMMA CallerIsFree ==
  ASSUME NEW t, Sound(t)
  PROVE  /\ host[t] = "app" => status[t] = "RUNNING" /\ ~Queues(t) /\ Nowhere(t)
         /\ \A k, x : Sits(t, k, x) => Queues(t) /\ Only(t, k, x) /\ Fits(reason[t], k)
<1>1. Seated(t) /\ HostKnown(t)
  BY DEF Sound
<1>2. host[t] = "app" => status[t] = "RUNNING"
  BY <1>1 DEF HostKnown
<1>3. host[t] = "app" => ~Queues(t)
  BY <1>2 DEF Queues
<1>4. ASSUME NEW k, NEW x, Sits(t, k, x) PROVE Queues(t) /\ Only(t, k, x) /\ Fits(reason[t], k)
  <2>1. Queues(t)
    BY <1>1, <1>4 DEF Seated, Nowhere
  <2>2. PICK l, y : Fits(reason[t], l) /\ Only(t, l, y)
    BY <1>1, <2>1 DEF Seated
  <2>3. k = l /\ x = y
    BY <1>4, <2>2 DEF Only
  <2> QED
    BY <2>1, <2>2, <2>3
<1> QED
  BY <1>1, <1>2, <1>3, <1>4 DEF Seated

LEMMA LeavesSeat ==
  ASSUME NEW t, Sound(t), NEW k, NEW y, Sits(t, k, y),
         \A l, x : Sits(t, l, x)' => Sits(t, l, x) /\ ~(l = k /\ x = y)
  PROVE  Queues(t) /\ Nowhere(t)'
<1>1. Queues(t) /\ Only(t, k, y)
  BY CallerIsFree
<1>2. Nowhere(t)'
  BY <1>1 DEF Only, Nowhere
<1> QED
  BY <1>1, <1>2

LEMMA TakesSeat ==
  ASSUME NEW t, Nowhere(t), NEW k, NEW y, \A l, x : Sits(t, l, x)' <=> Sits(t, l, x) \/ (l = k /\ x = y)
  PROVE  Only(t, k, y)'
  BY DEF Only, Nowhere

LEMMA EInvFacts ==
  ASSUME EInv
  PROVE  /\ ThreadTypeOK /\ SyncTypeOK /\ FutexTypeOK /\ aborted \in BOOLEAN /\ QueuesDistinct
         /\ \A t \in Threads : Sound(t)
  BY DEF EInv, TypeOK

LEMMA EInvNext ==
  ASSUME ThreadTypeOK', SyncTypeOK', FutexTypeOK', aborted' \in BOOLEAN, QueuesDistinct',
         \A t \in Threads : Sound(t)'
  PROVE  EInv'
  BY DEF EInv, TypeOK

SyncDistinct == /\ \A m \in Mutexes : Distinct(mutexWaiting[m])
                /\ \A c \in Conds : DistinctEach(condWaiting[c])
                /\ Distinct(barrierWaiting)
FutexDistinct == /\ \A a \in Futexes : DistinctEach(futexWaiting[a])
                 /\ DistinctEach(sleeping)

LEMMA SyncStays ==
  ASSUME UNCHANGED syncVars
  PROVE  /\ SyncTypeOK => SyncTypeOK'
         /\ SyncDistinct => SyncDistinct'
  BY DEF syncVars, SyncTypeOK, SyncDistinct, Distinct, DistinctEach

LEMMA FutexStays ==
  ASSUME UNCHANGED futexVars
  PROVE  /\ FutexTypeOK => FutexTypeOK'
         /\ FutexDistinct => FutexDistinct'
  BY DEF futexVars, FutexTypeOK, FutexDistinct, DistinctEach

LEMMA AllStays ==
  ASSUME UNCHANGED <<syncVars, futexVars, waiter>>
  PROVE  \A t : Keeps(t)
  BY DEF syncVars, futexVars, Keeps, Sits, ToSet, ThreadsOf

\* One thread changes, and is not resumed by others before or after.
LEMMA OneThread ==
  ASSUME EInv, UNCHANGED <<syncVars, futexVars, waiter, aborted>>, NEW t \in Threads,
         NEW s \in Statuses, NEW r \in Reasons \union {None}, NEW h \in HostPlaces,
         status' = [status EXCEPT ![t] = s], reason' = [reason EXCEPT ![t] = r],
         host' = [host EXCEPT ![t] = h],
         Queues(t)' <=> Queues(t), Queues(t) => r = reason[t], HostKnown(t)', JoinedLives(t)'
  PROVE  EInv'
<1>1. /\ ThreadTypeOK /\ SyncTypeOK /\ FutexTypeOK /\ aborted \in BOOLEAN /\ QueuesDistinct
      /\ \A u \in Threads : Sound(u)
  BY EInvFacts
<1>2. ThreadTypeOK'
  BY <1>1 DEF ThreadTypeOK
<1>3. SyncTypeOK' /\ FutexTypeOK' /\ QueuesDistinct' /\ aborted' \in BOOLEAN
  <2>1. SyncDistinct /\ FutexDistinct
    BY <1>1 DEF QueuesDistinct, SyncDistinct, FutexDistinct
  <2>2. SyncTypeOK' /\ FutexTypeOK' /\ SyncDistinct' /\ FutexDistinct'
    BY <1>1, <2>1, SyncStays, FutexStays
  <2> QED
    BY <1>1, <2>2 DEF QueuesDistinct, SyncDistinct, FutexDistinct
<1>4. \A u : Keeps(u)
  BY AllStays
<1>5. ASSUME NEW u \in Threads PROVE Sound(u)'
  <2>1. Seated(u) /\ HostKnown(u) /\ JoinedLives(u)
    BY <1>1 DEF Sound
  <2>2. CASE u = t
    <3>1. reason'[t] = r
      BY <1>1 DEF ThreadTypeOK
    <3>2. Seated(t)'
      BY <1>4, <2>1, <2>2, <3>1, StaysSeated
    <3> QED
      BY <2>2, <3>2 DEF Sound
  <2>3. CASE u # t
    <3>1. status'[u] = status[u] /\ reason'[u] = reason[u] /\ host'[u] = host[u] /\ waiter'[u] = waiter[u]
      BY <1>1, <2>3 DEF ThreadTypeOK
    <3>2. Queues(u)' <=> Queues(u)
      BY <3>1 DEF Queues
    <3>3. Seated(u)'
      BY <1>4, <2>1, <3>1, <3>2, StaysSeated
    <3>4. HostKnown(u)' /\ JoinedLives(u)'
      BY <2>1, <3>1, <3>2 DEF HostKnown, JoinedLives
    <3> QED
      BY <3>3, <3>4 DEF Sound
  <2> QED
    BY <2>2, <2>3
<1> QED
  BY <1>2, <1>3, <1>5, EInvNext
-----------------------------------------------------------------------------
(***************************************************************************)
(* The steps of the thread manager.                                        *)
(***************************************************************************)
LEMMA StepBegin ==
  ASSUME EInv, NEW t \in Threads, Begin(t)
  PROVE  EInv'
<1>1. ThreadTypeOK /\ HostKnown(t) /\ JoinedLives(t)
  BY EInvFacts DEF Sound
<1>2. host[t] = "new" /\ status[t] = "INITIALIZING" /\ waiter[t] = None
  BY <1>1 DEF Begin, onThreadStart, HostKnown, JoinedLives
<1>3. /\ status' = [status EXCEPT ![t] = "RUNNING"] /\ reason' = [reason EXCEPT ![t] = reason[t]]
      /\ host' = [host EXCEPT ![t] = "app"] /\ UNCHANGED <<syncVars, futexVars, waiter, aborted>>
  <2>1. waiter' = waiter /\ reason' = [reason EXCEPT ![t] = reason[t]]
    BY <1>1, <1>2 DEF Begin, onThreadStart, ThreadTypeOK
  <2>2. \A u \in Threads : u # waiter[t]
    BY <1>2, MainAssumption
  <2>3. host' = [u \in Threads |-> IF u = t THEN "app" ELSE host[u]]
    BY <2>2 DEF Begin, onThreadStart
  <2>4. host' = [host EXCEPT ![t] = "app"]
    BY <1>1, <2>3 DEF ThreadTypeOK
  <2> QED
    BY <2>1, <2>4 DEF Begin, onThreadStart
<1>4. status'[t] = "RUNNING" /\ host'[t] = "app"
  BY <1>1, <1>3 DEF ThreadTypeOK
<1>5. ~Queues(t) /\ ~Queues(t)' /\ HostKnown(t)' /\ JoinedLives(t)'
  BY <1>2, <1>4 DEF Queues, HostKnown, JoinedLives
<1>6. "RUNNING" \in Statuses /\ reason[t] \in Reasons \union {None} /\ "app" \in HostPlaces
  BY <1>1 DEF ThreadTypeOK, Statuses, HostPlaces
<1> QED
  BY <1>3, <1>5, <1>6, OneThread

LEMMA StepFinish ==
  ASSUME EInv, NEW t \in Threads, Finish(t)
  PROVE  EInv'
<1>1. ThreadTypeOK /\ HostKnown(t) /\ JoinedLives(t)
  BY EInvFacts DEF Sound
<1> DEFINE h == IF isThreadRunning(t) THEN "app" ELSE "waiting"
<1>2. /\ host[t] = "stalling" /\ host' = [host EXCEPT ![t] = h]
      /\ UNCHANGED <<status, reason, syncVars, futexVars, waiter, aborted>>
  BY DEF Finish, FinishStall
<1>3. status' = [status EXCEPT ![t] = status[t]] /\ reason' = [reason EXCEPT ![t] = reason[t]]
  BY <1>1, <1>2 DEF ThreadTypeOK
<1>4. host'[t] = h /\ status'[t] = status[t] /\ waiter'[t] = waiter[t]
  BY <1>1, <1>2 DEF ThreadTypeOK
<1>5. Queues(t)' <=> Queues(t)
  BY <1>2 DEF Queues
<1>6. HostKnown(t)' /\ JoinedLives(t)'
  BY <1>1, <1>2, <1>4, <1>5 DEF HostKnown, JoinedLives, isThreadRunning
<1>7. status[t] \in Statuses /\ reason[t] \in Reasons \union {None} /\ h \in HostPlaces
  BY <1>1 DEF ThreadTypeOK, HostPlaces
<1> HIDE DEF h
<1> QED
  BY <1>2, <1>3, <1>5, <1>6, <1>7, OneThread

LEMMA StepReturn ==
  ASSUME EInv, NEW t \in Threads, Return(t)
  PROVE  EInv'
<1>1. ThreadTypeOK /\ HostKnown(t) /\ JoinedLives(t)
  BY EInvFacts DEF Sound
<1>2. /\ host[t] = "blocked" /\ host' = [host EXCEPT ![t] = "app"]
      /\ status' = [status EXCEPT ![t] = "RUNNING"] /\ reason' = [reason EXCEPT ![t] = None]
      /\ UNCHANGED <<syncVars, futexVars, waiter, aborted>>
  BY DEF Return, LeaveBlockingCall
<1>3. host'[t] = "app" /\ status'[t] = "RUNNING" /\ reason[t] = "syscall"
  BY <1>1, <1>2 DEF ThreadTypeOK, HostKnown
<1>4. ~Queues(t) /\ ~Queues(t)' /\ HostKnown(t)' /\ JoinedLives(t)'
  BY <1>3 DEF Queues, HostKnown, JoinedLives
<1>5. "RUNNING" \in Statuses /\ "app" \in HostPlaces
  BY DEF Statuses, HostPlaces
<1> QED
  BY <1>2, <1>4, <1>5, OneThread

LEMMA StepEnterBlockingCall ==
  ASSUME EInv, NEW t \in Threads, EnterBlockingCall(t), UNCHANGED <<syncVars, futexVars, aborted>>
  PROVE  EInv'
<1>1. ThreadTypeOK /\ HostKnown(t) /\ JoinedLives(t)
  BY EInvFacts DEF Sound
<1>2. /\ host[t] = "app" /\ host' = [host EXCEPT ![t] = "blocked"]
      /\ status' = [status EXCEPT ![t] = "STALLED"] /\ reason' = [reason EXCEPT ![t] = "syscall"]
      /\ waiter' = waiter
  BY DEF EnterBlockingCall, Calls
<1>3. host'[t] = "blocked" /\ status'[t] = "STALLED" /\ reason'[t] = "syscall" /\ status[t] = "RUNNING"
  BY <1>1, <1>2 DEF ThreadTypeOK, HostKnown
<1>4. ~Queues(t) /\ ~Queues(t)' /\ HostKnown(t)' /\ JoinedLives(t)'
  BY <1>3 DEF Queues, HostKnown, JoinedLives
<1>5. "STALLED" \in Statuses /\ "blocked" \in HostPlaces /\ "syscall" \in Reasons
  BY DEF Statuses, HostPlaces, Reasons
<1> QED
  BY <1>2, <1>4, <1>5, OneThread

LEMMA StepCreateThread ==
  ASSUME EInv, NEW t \in Threads, NEW u \in Threads, createThread(t, u),
         UNCHANGED <<syncVars, futexVars, aborted>>
  PROVE  EInv'
<1>1. ThreadTypeOK /\ HostKnown(u) /\ JoinedLives(u)
  BY EInvFacts DEF Sound
<1>2. /\ status[u] = "NONE" /\ host' = [host EXCEPT ![u] = "new"]
      /\ status' = [status EXCEPT ![u] = "INITIALIZING"]
      /\ reason' = [reason EXCEPT ![u] = reason[u]] /\ waiter' = waiter
  BY <1>1 DEF createThread, ThreadTypeOK
<1>3. host'[u] = "new" /\ status'[u] = "INITIALIZING" /\ waiter'[u] = None
  BY <1>1, <1>2 DEF ThreadTypeOK, JoinedLives
<1>4. ~Queues(u) /\ ~Queues(u)' /\ HostKnown(u)' /\ JoinedLives(u)'
  BY <1>2, <1>3 DEF Queues, HostKnown, JoinedLives
<1>5. "INITIALIZING" \in Statuses /\ "new" \in HostPlaces /\ reason[u] \in Reasons \union {None}
  BY <1>1 DEF Statuses, HostPlaces, ThreadTypeOK
<1> QED
  BY <1>2, <1>4, <1>5, OneThread

\* The application, or the passing of time, does what concerns no thread.
LEMMA NoThread ==
  ASSUME EInv, aborted' \in BOOLEAN,
         UNCHANGED <<threadVars, mutexWaiting, condWaiting, barrierWaiting, futexWaiting, sleeping>>,
         owner' \in [Mutexes -> Threads \union {None}], word' \in [Futexes -> Values]
  PROVE  EInv'
<1>1. /\ ThreadTypeOK /\ SyncTypeOK /\ FutexTypeOK /\ QueuesDistinct
      /\ \A t \in Threads : Sound(t)
  BY EInvFacts
<1>2. UNCHANGED <<status, reason, waiter, host>>
  BY DEF threadVars
<1>3. ThreadTypeOK' /\ SyncTypeOK' /\ FutexTypeOK'
  BY <1>1, <1>2 DEF ThreadTypeOK, SyncTypeOK, FutexTypeOK
<1>4. QueuesDistinct'
  BY <1>1 DEF QueuesDistinct, Distinct, DistinctEach
<1>5. \A t : Keeps(t)
  BY <1>2 DEF Keeps, Sits, ToSet, ThreadsOf
<1>6. ASSUME NEW t \in Threads PROVE Sound(t)'
  <2>1. Seated(t) /\ HostKnown(t) /\ JoinedLives(t)
    BY <1>1 DEF Sound
  <2>2. Queues(t)' <=> Queues(t)
    BY <1>2 DEF Queues
  <2>3. Seated(t)'
    BY <1>2, <1>5, <2>1, <2>2, StaysSeated
  <2> QED
    BY <1>2, <2>1, <2>2, <2>3 DEF Sound, HostKnown, JoinedLives
<1> QED
  BY <1>3, <1>4, <1>6, EInvNext

LEMMA ResumeStep ==
  ASSUME EInv, NEW W, Resume(W),
         \A t \in Threads : t \in W => Queues(t) /\ Nowhere(t)',
         \A t \in Threads \ W : \/ Keeps(t)
                                \/ Queues(t) /\ \E k, x : Fits(reason[t], k) /\ Only(t, k, x)',
         SyncTypeOK', FutexTypeOK', SyncDistinct', FutexDistinct', aborted' \in BOOLEAN
  PROVE  EInv'
<1>1. ThreadTypeOK' /\ \A t \in Threads : Sound(t)'
  BY EInvFacts, ResumeSeats
<1>2. QueuesDistinct'
  BY DEF QueuesDistinct, SyncDistinct, FutexDistinct
<1> QED
  BY <1>1, <1>2, EInvNext

LEMMA StallStep ==
  ASSUME EInv, NEW t \in Threads, host[t] = "app",
         NEW why \in Reasons \ {"syscall"}, NEW y, NEW W, Stall(t, why, W),
         Only(t, why, y)',
         \A u \in Threads : u \in W => Queues(u) /\ Nowhere(u)',
         \A u \in Threads : u # t /\ u \notin W => Keeps(u),
         waiter' = waiter,
         SyncTypeOK', FutexTypeOK', SyncDistinct', FutexDistinct', aborted' \in BOOLEAN
  PROVE  EInv'
<1>1. ThreadTypeOK /\ \A u \in Threads : Sound(u)
  BY EInvFacts
<1>2. t \notin W
  BY <1>1, CallerIsFree
<1>3. waiter' \in [Threads -> Threads \union {None}]
      /\ \A u \in Threads : waiter'[u] = waiter[u] \/ status[u] \in {"RUNNING", "STALLED"}
  BY <1>1 DEF ThreadTypeOK
<1>4. ThreadTypeOK' /\ \A u \in Threads : Sound(u)'
  BY <1>1, <1>2, <1>3, StallSeats
<1>5. QueuesDistinct'
  BY DEF QueuesDistinct, SyncDistinct, FutexDistinct
<1> QED
  BY <1>4, <1>5, EInvNext

LEMMA StepJoinThread ==
  ASSUME EInv, NEW t \in Threads, NEW u \in Threads, joinThread(t, u), status[u] # "INITIALIZING",
         UNCHANGED <<syncVars, futexVars, aborted>>
  PROVE  EInv'
<1>1. /\ ThreadTypeOK /\ SyncTypeOK /\ FutexTypeOK /\ aborted \in BOOLEAN /\ QueuesDistinct
      /\ \A w \in Threads : Sound(w)
  BY EInvFacts
<1>2. /\ host[t] = "app" /\ u # t /\ waiter[u] = None /\ Stall(t, "join", {})
      /\ status[u] \in {"RUNNING", "STALLED"} /\ waiter' = [waiter EXCEPT ![u] = t]
  BY <1>1 DEF joinThread, Calls, ThreadTypeOK, Statuses
<1>3. waiter' \in [Threads -> Threads \union {None}] /\ waiter'[u] = t
      /\ \A w \in Threads : w # u => waiter'[w] = waiter[w]
  BY <1>1, <1>2 DEF ThreadTypeOK
<1>4. SyncTypeOK' /\ FutexTypeOK' /\ QueuesDistinct' /\ aborted' \in BOOLEAN
  <2>1. SyncDistinct /\ FutexDistinct
    BY <1>1 DEF QueuesDistinct, SyncDistinct, FutexDistinct
  <2>2. SyncTypeOK' /\ FutexTypeOK' /\ SyncDistinct' /\ FutexDistinct'
    BY <1>1, <2>1, SyncStays, FutexStays
  <2> QED
    BY <1>1, <2>2 DEF QueuesDistinct, SyncDistinct, FutexDistinct
<1>5. \A w, k, x : Sits(w, k, x)' <=> IF k = "join" /\ x = u THEN w = t ELSE Sits(w, k, x)
  BY <1>2, <1>3 DEF Sits, ToSet, ThreadsOf, syncVars, futexVars
<1>6. Nowhere(t)
  BY <1>1, <1>2, CallerIsFree
<1>7. Only(t, "join", u)'
  BY <1>5, <1>6, TakesSeat
<1>8. ASSUME NEW w \in Threads, w # t PROVE Keeps(w)
  <2>1. ~Sits(w, "join", u)
    BY <1>2, MainAssumption DEF Sits
  <2> QED
    BY <1>5, <1>8, <2>1 DEF Keeps
<1>9. ThreadTypeOK' /\ \A w \in Threads : Sound(w)'
  <2>1. "join" \in Reasons \ {"syscall"}
    BY DEF Reasons
  <2>2. \A w \in Threads : waiter'[w] = waiter[w] \/ status[w] \in {"RUNNING", "STALLED"}
    BY <1>2, <1>3
  <2> QED
    BY <1>1, <1>2, <1>3, <1>7, <1>8, <2>1, <2>2, StallSeats
<1> QED
  BY <1>4, <1>9, EInvNext

\* t exits: who joins it goes on, and so do the threads of W, which a futex names.
LEMMA StepExit ==
  ASSUME EInv, NEW t \in Threads, Exit(t), UNCHANGED <<syncVars, aborted>>
  PROVE  EInv'
<1> DEFINE q == futexWaiting[TidFutex]
           W == TidWoken(t)
           R == W \union {waiter[t]}
<1>1. /\ ThreadTypeOK /\ SyncTypeOK /\ FutexTypeOK /\ aborted \in BOOLEAN /\ QueuesDistinct
      /\ \A u \in Threads : Sound(u)
  BY EInvFacts
<1>2. /\ host[t] = "app" /\ ClearTid(t)
      /\ status' = [u \in Threads |-> IF u = t THEN "IDLE" ELSE IF u \in R THEN "RUNNING" ELSE status[u]]
      /\ host' = [u \in Threads |-> IF u = t THEN "gone" ELSE IF u \in R THEN Signalled(u) ELSE host[u]]
      /\ reason' = [u \in Threads |-> IF u \in R THEN None ELSE reason[u]]
      /\ waiter' = [waiter EXCEPT ![t] = None]
  BY DEF Exit, onThreadExit, Calls, ClearedReason
<1>3. q \in Seq(Waiter) /\ DistinctEach(q) /\ 1 \in Nat /\ TidFutex \in Futexes
  BY <1>1, FutexAssumption DEF FutexTypeOK, QueuesDistinct
<1>4. /\ futexWaiting' \in [Futexes -> Seq(Waiter)] /\ word' \in [Futexes -> Values]
      /\ sleeping' = sleeping
      /\ \A a \in Futexes : /\ DistinctEach(futexWaiting'[a])
                            /\ ThreadsOf(futexWaiting'[a]) =
                                 ThreadsOf(futexWaiting[a]) \ (IF a = TidFutex THEN W ELSE {})
      /\ W \subseteq ThreadsOf(q)
  <2>1. CASE t \in ClearsTid
    <3>1. /\ W = ThreadsOf(Woken(q, 1)) /\ word' = [word EXCEPT ![TidFutex] = 0]
          /\ futexWaiting' = [futexWaiting EXCEPT ![TidFutex] = Staying(q, 1)] /\ sleeping' = sleeping
      BY <1>2, <2>1 DEF TidWoken, ClearTid
    <3>2. /\ Staying(q, 1) \in Seq(Waiter) /\ DistinctEach(Staying(q, 1)) /\ W \subseteq ThreadsOf(q)
          /\ ThreadsOf(Staying(q, 1)) = ThreadsOf(q) \ W
      BY <1>3, <3>1, WokenStaying
    <3> HIDE DEF W
    <3>3. word' \in [Futexes -> Values]
      BY <1>1, <3>1, FutexAssumption DEF FutexTypeOK
    <3>4. futexWaiting' \in [Futexes -> Seq(Waiter)]
      BY <1>1, <3>1, <3>2 DEF FutexTypeOK
    <3>5. ASSUME NEW a \in Futexes
          PROVE  /\ DistinctEach(futexWaiting'[a])
                 /\ ThreadsOf(futexWaiting'[a]) =
                                 ThreadsOf(futexWaiting[a]) \ (IF a = TidFutex THEN W ELSE {})
      <4>1. CASE a = TidFutex
        <5>1. futexWaiting'[a] = Staying(q, 1)
          BY <1>1, <3>1, <4>1 DEF FutexTypeOK
        <5> QED
          BY <3>2, <4>1, <5>1
      <4>2. CASE a # TidFutex
        <5>1. futexWaiting'[a] = futexWaiting[a] /\ DistinctEach(futexWaiting[a])
          BY <1>1, <3>1, <4>2 DEF FutexTypeOK, QueuesDistinct
        <5> QED
          BY <4>2, <5>1
      <4> QED
        BY <4>1, <4>2
    <3> QED
      BY <3>1, <3>2, <3>3, <3>4, <3>5
  <2>2. CASE t \notin ClearsTid
    <3>1. W = {} /\ UNCHANGED <<word, futexWaiting, sleeping>>
      BY <1>2, <2>2 DEF TidWoken, ClearTid
    <3> HIDE DEF W, q
    <3> QED
      BY <1>1, <3>1 DEF FutexTypeOK, QueuesDistinct
  <2> QED
    BY <2>1, <2>2
<1> HIDE DEF W, q
<1>5. SyncTypeOK' /\ FutexTypeOK' /\ QueuesDistinct' /\ aborted' \in BOOLEAN
  <2>1. SyncDistinct
    BY <1>1 DEF QueuesDistinct, SyncDistinct
  <2>2. SyncTypeOK' /\ SyncDistinct'
    BY <1>1, <2>1, SyncStays
  <2>3. FutexTypeOK'
    BY <1>1, <1>4 DEF FutexTypeOK
  <2>4. DistinctEach(sleeping)'
    BY <1>1, <1>4 DEF QueuesDistinct, DistinctEach
  <2>5. \A a \in Futexes : DistinctEach(futexWaiting[a])'
    BY <1>4 DEF DistinctEach
  <2> QED
    BY <1>1, <2>2, <2>3, <2>4, <2>5 DEF QueuesDistinct, SyncDistinct
<1>6. waiter' \in [Threads -> Threads \union {None}] /\ waiter'[t] = None
      /\ \A u \in Threads : u # t => waiter'[u] = waiter[u]
  BY <1>1, <1>2 DEF ThreadTypeOK
<1>7. \A u \in Threads : \A k, x : Sits(u, k, x)' <=>
        Sits(u, k, x) /\ ~(k = "join" /\ x = t) /\ ~(k = "futex" /\ x = TidFutex /\ u \in W)
  <2> SUFFICES ASSUME NEW u \in Threads, NEW k, NEW x
               PROVE  Sits(u, k, x)' <=> /\ Sits(u, k, x) /\ ~(k = "join" /\ x = t)
                                         /\ ~(k = "futex" /\ x = TidFutex /\ u \in W)
    OBVIOUS
  <2>1. x \in Futexes => (u \in ThreadsOf(futexWaiting'[x]) <=>
                            u \in ThreadsOf(futexWaiting[x]) /\ ~(x = TidFutex /\ u \in W))
    BY <1>4
  <2>2. x \in Threads => (waiter'[x] = u <=> waiter[x] = u /\ x # t)
    BY <1>6, MainAssumption
  <2>3. UNCHANGED <<mutexWaiting, condWaiting, barrierWaiting, sleeping>>
    BY <1>4 DEF syncVars
  <2> QED
    BY <2>1, <2>2, <2>3 DEF Sits
<1>8. Nowhere(t) /\ t \notin R
  <2>1. Nowhere(t)
    BY <1>1, <1>2, CallerIsFree
  <2>2. t \notin W
    BY <1>3, <1>4, <2>1 DEF Nowhere, Sits, q
  <2>3. t # waiter[t]
    BY <2>1 DEF Nowhere, Sits
  <2> QED
    BY <2>1, <2>2, <2>3
<1>9. ASSUME NEW u \in Threads, u \in R PROVE Queues(u) /\ Nowhere(u)'
  <2>1. CASE u = waiter[t]
    <3>1. Sits(u, "join", t)
      BY <2>1 DEF Sits
    <3> QED
      BY <1>1, <1>7, <3>1, LeavesSeat
  <2>2. CASE u \in W
    <3>1. Sits(u, "futex", TidFutex)
      BY <1>3, <1>4, <2>2 DEF Sits, q
    <3> QED
      BY <1>1, <1>7, <2>2, <3>1, LeavesSeat
  <2> QED
    BY <1>9, <2>1, <2>2
<1>10. ASSUME NEW u \in Threads, u \notin R PROVE Keeps(u)
  <2>1. ~Sits(u, "join", t) /\ u \notin W
    BY <1>10 DEF Sits
  <2> QED
    BY <1>7, <2>1 DEF Keeps
<1>11. \A u \in Threads : Signalled(u) \in HostPlaces
  BY <1>1 DEF Signalled, HostPlaces, ThreadTypeOK
<1> HIDE DEF R
<1>12. ThreadTypeOK'
  <2>1. status' \in [Threads -> Statuses]
    BY <1>1, <1>2 DEF ThreadTypeOK, Statuses
  <2>2. reason' \in [Threads -> Reasons \union {None}]
    BY <1>1, <1>2 DEF ThreadTypeOK
  <2>3. host' \in [Threads -> HostPlaces]
    BY <1>1, <1>2, <1>11 DEF ThreadTypeOK, HostPlaces
  <2> QED
    BY <1>6, <2>1, <2>2, <2>3 DEF ThreadTypeOK
<1>13. ASSUME NEW u \in Threads PROVE Sound(u)'
  <2>1. Seated(u) /\ HostKnown(u) /\ JoinedLives(u)
    BY <1>1 DEF Sound
  <2>2. CASE u = t
    <3>1. status'[u] = "IDLE" /\ host'[u] = "gone" /\ waiter'[u] = None
      BY <1>2, <1>6, <2>2
    <3>2. Nowhere(u)'
      BY <1>7, <1>8, <2>2 DEF Nowhere
    <3> QED
      BY <3>1, <3>2 DEF Sound, Seated, Queues, HostKnown, JoinedLives
  <2>3. CASE u # t /\ u \in R
    <3>1. status'[u] = "RUNNING" /\ host'[u] = Signalled(u) /\ Queues(u) /\ Nowhere(u)'
      BY <1>2, <1>9, <2>3
    <3>2. host[u] \in {"stalling", "waiting"}
      BY <1>1, <2>1, <3>1 DEF HostKnown, Queues, HostPlaces, ThreadTypeOK
    <3>3. host'[u] \in {"stalling", "app"}
      BY <3>1, <3>2 DEF Signalled
    <3> QED
      BY <3>1, <3>3 DEF Sound, Seated, Queues, HostKnown, JoinedLives
  <2>4. CASE u # t /\ u \notin R
    <3>1. status'[u] = status[u] /\ reason'[u] = reason[u] /\ host'[u] = host[u] /\ waiter'[u] = waiter[u]
      BY <1>2, <1>6, <2>4
    <3>2. Queues(u)' <=> Queues(u)
      BY <3>1 DEF Queues
    <3>3. Seated(u)'
      BY <1>10, <2>1, <2>4, <3>1, <3>2, StaysSeated
    <3>4. HostKnown(u)' /\ JoinedLives(u)'
      BY <2>1, <3>1, <3>2 DEF HostKnown, JoinedLives
    <3> QED
      BY <3>3, <3>4 DEF Sound
  <2> QED
    BY <2>2, <2>3, <2>4
<1> QED
  BY <1>5, <1>12, <1>13, EInvNext

-----------------------------------------------------------------------------
(***************************************************************************)
(* The steps of the synchronisation server.                                *)
(***************************************************************************)
LEMMA SyncFacts ==
  ASSUME EInv
  PROVE  /\ SyncTypeOK /\ SyncDistinct
         /\ \A w \in CondWaiter : w.thread \in Threads
         /\ UNCHANGED futexVars => FutexTypeOK' /\ FutexDistinct'
  BY EInvFacts, FutexStays DEF QueuesDistinct, SyncDistinct, FutexDistinct, CondWaiter

LEMMA UnlockedFacts ==
  ASSUME SyncTypeOK, SyncDistinct, NEW m \in Mutexes, Unlocked(m)
  PROVE  /\ owner' \in [Mutexes -> Threads \union {None}]
         /\ mutexWaiting' \in [Mutexes -> Seq(Threads)]
         /\ \A n \in Mutexes : Distinct(mutexWaiting'[n])
         /\ \A n \in Mutexes : ToSet(mutexWaiting'[n]) =
                                 ToSet(mutexWaiting[n]) \ (IF n = m THEN {HandedTo(m)} ELSE {})
         /\ HandedTo(m) \in Threads => HandedTo(m) \in ToSet(mutexWaiting[m])
<1> DEFINE q == mutexWaiting[m]
           r == IF q = <<>> THEN q ELSE Tail(q)
           h == HandedTo(m)
<1>1. /\ owner \in [Mutexes -> Threads \union {None}] /\ mutexWaiting \in [Mutexes -> Seq(Threads)]
      /\ \A n \in Mutexes : Distinct(mutexWaiting[n])
      /\ q \in Seq(Threads) /\ Distinct(q)
  BY DEF SyncTypeOK, SyncDistinct
<1>2. owner' = [owner EXCEPT ![m] = h] /\ mutexWaiting' = [mutexWaiting EXCEPT ![m] = r]
  BY DEF Unlocked
<1>3. /\ r \in Seq(Threads) /\ Distinct(r) /\ ToSet(r) = ToSet(q) \ {h}
      /\ h \in Threads => h \in ToSet(q)
      /\ h \in Threads \union {None}
  <2>1. CASE q = <<>>
    <3>1. h = None /\ r = q /\ ToSet(q) = {}
      BY <1>1, <2>1, ThreadQueue DEF HandedTo
    <3> QED
      BY <1>1, <3>1, MainAssumption
  <2>2. CASE q # <<>>
    <3>1. h = Head(q) /\ r = Tail(q)
      BY <2>2 DEF HandedTo
    <3>2. /\ Tail(q) \in Seq(Threads) /\ Head(q) \in ToSet(q) /\ Distinct(Tail(q))
          /\ ToSet(Tail(q)) = ToSet(q) \ {Head(q)} /\ ToSet(q) \subseteq Threads
      BY <1>1, <2>2, ThreadQueue
    <3> QED
      BY <3>1, <3>2
  <2> QED
    BY <2>1, <2>2
<1> HIDE DEF r, h, q
<1>4. /\ owner' \in [Mutexes -> Threads \union {None}]
      /\ mutexWaiting' \in [Mutexes -> Seq(Threads)]
      /\ mutexWaiting'[m] = r /\ \A n \in Mutexes : n # m => mutexWaiting'[n] = mutexWaiting[n]
  BY <1>1, <1>2, <1>3
<1>5. \A n \in Mutexes : Distinct(mutexWaiting'[n])
  BY <1>1, <1>3, <1>4
<1>6. \A n \in Mutexes : ToSet(mutexWaiting'[n]) =
                           ToSet(mutexWaiting[n]) \ (IF n = m THEN {h} ELSE {})
  BY <1>3, <1>4 DEF q
<1> QED
  BY <1>3, <1>4, <1>5, <1>6 DEF h, q

LEMMA StepLock ==
  ASSUME EInv, NEW t \in Threads, NEW m \in Mutexes, lock(t, m), UNCHANGED <<futexVars, aborted>>
  PROVE  EInv'
<1> DEFINE q == mutexWaiting[m]
<1>1. /\ SyncTypeOK /\ SyncDistinct /\ FutexTypeOK' /\ FutexDistinct' /\ aborted' \in BOOLEAN
      /\ FutexTypeOK /\ ThreadTypeOK /\ \A u \in Threads : Sound(u)
  BY EInvFacts, SyncFacts
<1>2. host[t] = "app" /\ UNCHANGED <<condWaiting, barrierWaiting, word, futexWaiting, sleeping>>
  BY DEF lock, Calls, futexVars
<1>3. CASE owner' = [owner EXCEPT ![m] = t] /\ UNCHANGED <<threadVars, mutexWaiting>>
  <2>1. owner' \in [Mutexes -> Threads \union {None}] /\ word' \in [Futexes -> Values]
    BY <1>1, <1>2, <1>3 DEF SyncTypeOK, FutexTypeOK
  <2> QED
    BY <1>1, <1>2, <1>3, <2>1, NoThread
<1>4. CASE /\ mutexWaiting' = [mutexWaiting EXCEPT ![m] = Append(q, t)]
           /\ Stall(t, "mutex", {}) /\ UNCHANGED <<waiter, owner>>
  <2>1. Nowhere(t)
    BY <1>1, <1>2, CallerIsFree
  <2>2. q \in Seq(Threads) /\ Distinct(q) /\ t \notin ToSet(q)
    BY <1>1, <2>1 DEF SyncTypeOK, SyncDistinct, Nowhere, Sits
  <2>3. /\ Append(q, t) \in Seq(Threads) /\ Distinct(Append(q, t))
        /\ ToSet(Append(q, t)) = ToSet(q) \union {t}
    BY <2>2, ThreadQueue
  <2> DEFINE r == Append(q, t)
  <2> HIDE DEF r, q
  <2>4. /\ mutexWaiting' \in [Mutexes -> Seq(Threads)] /\ mutexWaiting'[m] = r
        /\ \A n \in Mutexes : n # m => mutexWaiting'[n] = mutexWaiting[n]
    BY <1>1, <1>4, <2>3 DEF SyncTypeOK, r
  <2>5. SyncTypeOK' /\ SyncDistinct'
    <3>1. \A n \in Mutexes : Distinct(mutexWaiting'[n])
      BY <1>1, <2>3, <2>4 DEF SyncDistinct, r
    <3>2. SyncTypeOK'
      BY <1>1, <1>2, <1>4, <2>4 DEF SyncTypeOK
    <3> QED
      BY <1>1, <1>2, <3>1, <3>2 DEF SyncDistinct, Distinct, DistinctEach
  <2>6. \A u, k, x : Sits(u, k, x)' <=> Sits(u, k, x) \/ (k = "mutex" /\ x = m /\ u = t)
    <3>1. \A u : \A x \in Mutexes : u \in ToSet(mutexWaiting'[x])
                                      <=> u \in ToSet(mutexWaiting[x]) \/ (x = m /\ u = t)
      BY <2>3, <2>4 DEF r, q
    <3> QED
      BY <1>2, <1>4, <3>1 DEF Sits
  <2>7. Only(t, "mutex", m)' /\ \A u \in Threads : u # t => Keeps(u)
    BY <2>1, <2>6, TakesSeat DEF Keeps
  <2>8. "mutex" \in Reasons \ {"syscall"}
    BY DEF Reasons
  <2> QED
    BY <1>1, <1>2, <1>4, <2>5, <2>7, <2>8, StallStep
<1> QED
  BY <1>3, <1>4 DEF lock

LEMMA StepTrylock ==
  ASSUME EInv, NEW t \in Threads, NEW m \in Mutexes, mutexTrylock(t, m), UNCHANGED <<futexVars, aborted>>
  PROVE  EInv'
<1>1. CASE lock(t, m)
  BY <1>1, StepLock
<1>2. CASE UNCHANGED <<threadVars, syncVars>>
  <2>1. UNCHANGED <<owner, word, mutexWaiting, condWaiting, barrierWaiting, futexWaiting, sleeping>>
    BY <1>2 DEF syncVars, futexVars
  <2>2. owner' \in [Mutexes -> Threads \union {None}] /\ word' \in [Futexes -> Values]
        /\ aborted' \in BOOLEAN
    BY <2>1, EInvFacts DEF SyncTypeOK, FutexTypeOK
  <2> QED
    BY <1>2, <2>1, <2>2, NoThread
<1> QED
  BY <1>1, <1>2 DEF mutexTrylock

LEMMA StepUnlock ==
  ASSUME EInv, NEW t \in Threads, NEW m \in Mutexes, mutexUnlock(t, m), UNCHANGED <<futexVars, aborted>>
  PROVE  EInv'
<1>0. PICK h : h = HandedTo(m)
  OBVIOUS
<1>1. /\ SyncTypeOK /\ SyncDistinct /\ FutexTypeOK' /\ FutexDistinct' /\ aborted' \in BOOLEAN
      /\ \A u \in Threads : Sound(u)
  BY EInvFacts, SyncFacts
<1>2. /\ Unlocked(m) /\ Resume({h})
      /\ UNCHANGED <<condWaiting, barrierWaiting, futexWaiting, sleeping>>
  BY <1>0 DEF mutexUnlock, futexVars
<1>3. /\ owner' \in [Mutexes -> Threads \union {None}]
      /\ mutexWaiting' \in [Mutexes -> Seq(Threads)]
      /\ \A n \in Mutexes : Distinct(mutexWaiting'[n])
      /\ \A n \in Mutexes : ToSet(mutexWaiting'[n]) =
                              ToSet(mutexWaiting[n]) \ (IF n = m THEN {h} ELSE {})
      /\ h \in Threads => h \in ToSet(mutexWaiting[m])
  BY <1>0, <1>1, <1>2, UnlockedFacts
<1>4. SyncTypeOK' /\ SyncDistinct'
  BY <1>1, <1>2, <1>3 DEF SyncTypeOK, SyncDistinct, Distinct, DistinctEach
<1>5. \A u, k, x : Sits(u, k, x)' <=> Sits(u, k, x) /\ ~(k = "mutex" /\ x = m /\ u = h)
  <2>1. \A u : \A x \in Mutexes : u \in ToSet(mutexWaiting'[x])
                                    <=> u \in ToSet(mutexWaiting[x]) /\ ~(x = m /\ u = h)
    BY <1>3
  <2>2. waiter' = waiter
    BY <1>2 DEF Resume
  <2> QED
    BY <1>2, <2>1, <2>2 DEF Sits
<1>6. \A u \in Threads : u \in {h} => Queues(u) /\ Nowhere(u)'
  <2> SUFFICES ASSUME NEW u \in Threads, u = h PROVE Queues(u) /\ Nowhere(u)'
    OBVIOUS
  <2>1. Sits(u, "mutex", m)
    BY <1>3 DEF Sits
  <2> QED
    BY <1>1, <1>5, <2>1, LeavesSeat
<1>7. \A u \in Threads \ {h} : Keeps(u)
  BY <1>5 DEF Keeps
<1> QED
  BY <1>1, <1>2, <1>4, <1>6, <1>7, ResumeStep

LEMMA StepCondWait ==
  ASSUME EInv, NEW t \in Threads, NEW c \in Conds, NEW m \in Mutexes, condWait(t, c, m),
         UNCHANGED <<futexVars, aborted>>
  PROVE  EInv'
<1>0. PICK h : h = HandedTo(m)
  OBVIOUS
<1> DEFINE w == [thread |-> t, mutex |-> m]
           q == condWaiting[c]
           r == Append(q, w)
<1>1. /\ SyncTypeOK /\ SyncDistinct /\ FutexTypeOK' /\ FutexDistinct' /\ aborted' \in BOOLEAN
      /\ \A u \in Threads : Sound(u)
      /\ \A v \in CondWaiter : v.thread \in Threads
  BY EInvFacts, SyncFacts
<1>2. /\ host[t] = "app" /\ Unlocked(m) /\ Stall(t, "cond", {h})
      /\ condWaiting' = [condWaiting EXCEPT ![c] = r]
      /\ UNCHANGED <<waiter, barrierWaiting, futexWaiting, sleeping>>
  BY <1>0 DEF condWait, futexVars, Calls
<1>3. /\ owner' \in [Mutexes -> Threads \union {None}]
      /\ mutexWaiting' \in [Mutexes -> Seq(Threads)]
      /\ \A n \in Mutexes : Distinct(mutexWaiting'[n])
      /\ \A n \in Mutexes : ToSet(mutexWaiting'[n]) =
                              ToSet(mutexWaiting[n]) \ (IF n = m THEN {h} ELSE {})
      /\ h \in Threads => h \in ToSet(mutexWaiting[m])
  BY <1>0, <1>1, <1>2, UnlockedFacts
<1>4. Nowhere(t)
  BY <1>1, <1>2, CallerIsFree
<1>5. w \in CondWaiter /\ w.thread = t /\ q \in Seq(CondWaiter) /\ DistinctEach(q) /\ t \notin ThreadsOf(q)
  BY <1>1, <1>4 DEF CondWaiter, SyncTypeOK, SyncDistinct, Nowhere, Sits
<1> HIDE DEF w, q
<1>6. r \in Seq(CondWaiter) /\ DistinctEach(r) /\ ThreadsOf(r) = ThreadsOf(q) \union {t}
  BY <1>1, <1>5, WaiterQueue
<1> HIDE DEF r
<1>7. /\ condWaiting' \in [Conds -> Seq(CondWaiter)] /\ condWaiting'[c] = r
      /\ \A d \in Conds : d # c => condWaiting'[d] = condWaiting[d]
  BY <1>1, <1>2, <1>6 DEF SyncTypeOK
<1>8. SyncTypeOK' /\ SyncDistinct'
  <2>1. \A d \in Conds : DistinctEach(condWaiting'[d])
    BY <1>1, <1>6, <1>7 DEF SyncDistinct
  <2> QED
    BY <1>1, <1>2, <1>3, <1>7, <2>1 DEF SyncTypeOK, SyncDistinct, Distinct, DistinctEach
<1>9. \A u, k, x : Sits(u, k, x)' <=> \/ Sits(u, k, x) /\ ~(k = "mutex" /\ x = m /\ u = h)
                                      \/ k = "cond" /\ x = c /\ u = t
  <2>1. \A u : \A x \in Mutexes : u \in ToSet(mutexWaiting'[x])
                                    <=> u \in ToSet(mutexWaiting[x]) /\ ~(x = m /\ u = h)
    BY <1>3
  <2>2. \A u : \A x \in Conds : u \in ThreadsOf(condWaiting'[x])
                                  <=> u \in ThreadsOf(condWaiting[x]) \/ (x = c /\ u = t)
    BY <1>6, <1>7 DEF q
  <2> QED
    BY <1>2, <2>1, <2>2 DEF Sits
<1>10. t # h
  BY <1>3, <1>4 DEF Nowhere, Sits
<1>11. Only(t, "cond", c)'
  BY <1>4, <1>9, <1>10, TakesSeat DEF Nowhere
<1>12. \A u \in Threads : u \in {h} => Queues(u) /\ Nowhere(u)'
  <2> SUFFICES ASSUME NEW u \in Threads, u = h PROVE Queues(u) /\ Nowhere(u)'
    OBVIOUS
  <2>1. Sits(u, "mutex", m)
    BY <1>3 DEF Sits
  <2> QED
    BY <1>1, <1>9, <1>10, <2>1, LeavesSeat
<1>13. \A u \in Threads : u # t /\ u \notin {h} => Keeps(u)
  BY <1>9 DEF Keeps
<1>14. "cond" \in Reasons \ {"syscall"}
  BY DEF Reasons
<1> QED
  BY <1>1, <1>2, <1>8, <1>11, <1>12, <1>13, <1>14, StallStep

\* lock_async(): of the waiters that are woken, those of Go get the mutex they
\* want, and the others wait for it.
LEMMA LockAsyncFacts ==
  ASSUME SyncTypeOK, SyncDistinct, NEW woken \in Seq(CondWaiter), DistinctEach(woken),
         \A u \in ThreadsOf(woken) : \A m \in Mutexes : u \notin ToSet(mutexWaiting[m]),
         LockAsync(woken)
  PROVE  \E Go : /\ Resume(Go) /\ Go \subseteq ThreadsOf(woken)
                 /\ owner' \in [Mutexes -> Threads \union {None}]
                 /\ mutexWaiting' \in [Mutexes -> Seq(Threads)]
                 /\ \A m \in Mutexes : Distinct(mutexWaiting'[m])
                 /\ \A u : \A m \in Mutexes : u \in ToSet(mutexWaiting'[m]) <=>
                      \/ u \in ToSet(mutexWaiting[m])
                      \/ /\ \E i \in 1 .. Len(woken) : woken[i].mutex = m /\ woken[i].thread = u
                         /\ u \notin Go
<1> DEFINE On(m) == OnMutex(woken, m)
           granted == {m \in Mutexes : owner[m] = None /\ On(m) # <<>>}
           more(m) == IF m \in granted THEN Tail(On(m)) ELSE On(m)
           Wants(u, m) == \E i \in 1 .. Len(woken) : woken[i].mutex = m /\ woken[i].thread = u
<1>0. PICK Go : Go = {Head(On(m)) : m \in granted}
  OBVIOUS
<1>1. /\ Len(woken) \in Nat /\ DOMAIN woken = 1 .. Len(woken)
      /\ \A i \in 1 .. Len(woken) : woken[i] \in CondWaiter
  OBVIOUS
<1>2. \A m : /\ On(m) \in Seq(Threads) /\ Distinct(On(m))
             /\ \A u : u \in ToSet(On(m)) <=> Wants(u, m)
  <2> TAKE m
  <2>1. /\ On(m) \in Seq(Threads)
        /\ DistinctEach(woken) => Distinct(On(m))
        /\ \A u : u \in ToSet(On(m)) <=> Wants(u, m)
    BY OnMutexFacts
  <2> QED
    BY <2>1
<1>3. \A u : u \in ThreadsOf(woken) <=> \E i \in 1 .. Len(woken) : woken[i].thread = u
  BY <1>1, QueueMembers
<1>4. \A i, j \in 1 .. Len(woken) : woken[i].thread = woken[j].thread => i = j
  BY <1>1, QueueMembers
<1>5. \A u, m, n : Wants(u, m) /\ Wants(u, n) => m = n
  BY <1>4
<1>6. \A u, m : Wants(u, m) => u \in ThreadsOf(woken)
  BY <1>3
<1>7. /\ owner' = [m \in Mutexes |-> IF m \in granted THEN Head(On(m)) ELSE owner[m]]
      /\ mutexWaiting' = [m \in Mutexes |-> mutexWaiting[m] \o more(m)]
      /\ Resume(Go)
  BY <1>0 DEF LockAsync
<1> HIDE DEF On, Wants
<1>8. \A m \in granted : /\ Head(On(m)) \in ToSet(On(m)) /\ Tail(On(m)) \in Seq(Threads)
                         /\ Distinct(Tail(On(m)))
                         /\ ToSet(Tail(On(m))) = ToSet(On(m)) \ {Head(On(m))}
  BY <1>2, ThreadQueue
<1>9. \A u : u \in Go <=> \E m \in granted : u = Head(On(m))
  BY <1>0
<1>10. Go \subseteq ThreadsOf(woken)
  BY <1>2, <1>6, <1>8, <1>9
<1>11. \A m : ToSet(On(m)) \subseteq Threads
  BY <1>2, ThreadQueue
<1>12. owner' \in [Mutexes -> Threads \union {None}]
  <2>1. \A m \in Mutexes : (IF m \in granted THEN Head(On(m)) ELSE owner[m]) \in Threads \union {None}
    BY <1>8, <1>11 DEF SyncTypeOK
  <2> HIDE DEF granted
  <2> QED
    BY <1>7, <2>1
<1>13. ASSUME NEW m \in Mutexes
       PROVE  /\ more(m) \in Seq(Threads) /\ Distinct(more(m))
              /\ \A u : u \in ToSet(more(m)) <=> Wants(u, m) /\ u \notin Go
  <2>1. CASE m \in granted
    <3>1. more(m) = Tail(On(m))
      BY <2>1
    <3>2. ASSUME NEW u PROVE u \in ToSet(Tail(On(m))) <=> Wants(u, m) /\ u \notin Go
      <4>1. u \in ToSet(Tail(On(m))) <=> Wants(u, m) /\ u # Head(On(m))
        BY <1>2, <1>8, <2>1
      <4>2. ASSUME Wants(u, m), u \in Go PROVE u = Head(On(m))
        <5>1. PICK n \in granted : u = Head(On(n))
          BY <1>9, <4>2
        <5>2. Wants(u, n)
          BY <1>2, <1>8, <5>1
        <5>3. n = m
          BY <1>5, <4>2, <5>2
        <5> QED
          BY <5>1, <5>3
      <4>3. u = Head(On(m)) => u \in Go
        BY <1>9, <2>1
      <4> QED
        BY <4>1, <4>2, <4>3
    <3> QED
      BY <1>8, <2>1, <3>1, <3>2
  <2>2. CASE m \notin granted
    <3>1. more(m) = On(m)
      BY <2>2
    <3>2. ASSUME NEW u, Wants(u, m), u \in Go PROVE FALSE
      <4>1. PICK n \in granted : u = Head(On(n))
        BY <1>9, <3>2
      <4>2. Wants(u, n)
        BY <1>2, <1>8, <4>1
      <4>3. n = m
        BY <1>5, <3>2, <4>2
      <4> QED
        BY <2>2, <4>1, <4>3
    <3> QED
      BY <1>2, <3>1, <3>2
  <2> QED
    BY <2>1, <2>2
<1> HIDE DEF more, granted
<1>14. ASSUME NEW m \in Mutexes
       PROVE  /\ mutexWaiting'[m] \in Seq(Threads) /\ Distinct(mutexWaiting'[m])
              /\ \A u : u \in ToSet(mutexWaiting'[m]) <=>
                          u \in ToSet(mutexWaiting[m]) \/ (Wants(u, m) /\ u \notin Go)
  <2>1. mutexWaiting'[m] = mutexWaiting[m] \o more(m)
    BY <1>7
  <2>2. mutexWaiting[m] \in Seq(Threads) /\ Distinct(mutexWaiting[m])
    BY DEF SyncTypeOK, SyncDistinct
  <2>3. ToSet(mutexWaiting[m]) \cap ToSet(more(m)) = {}
    BY <1>6, <1>13
  <2>4. /\ mutexWaiting[m] \o more(m) \in Seq(Threads) /\ Distinct(mutexWaiting[m] \o more(m))
        /\ ToSet(mutexWaiting[m] \o more(m)) = ToSet(mutexWaiting[m]) \union ToSet(more(m))
    BY <1>13, <2>2, <2>3, ThreadConcat
  <2> QED
    BY <1>13, <2>1, <2>4
<1>15. mutexWaiting' \in [Mutexes -> Seq(Threads)]
  <2>1. mutexWaiting' = [m \in Mutexes |-> mutexWaiting'[m]]
    BY <1>7
  <2> QED
    BY <1>14, <2>1
<1>16. \A u : \A m \in Mutexes : u \in ToSet(mutexWaiting'[m]) <=>
            \/ u \in ToSet(mutexWaiting[m])
            \/ /\ \E i \in 1 .. Len(woken) : woken[i].mutex = m /\ woken[i].thread = u
               /\ u \notin Go
  BY <1>14 DEF Wants
<1> QED
  BY <1>7, <1>10, <1>12, <1>14, <1>15, <1>16

LEMMA WakeCond ==
  ASSUME EInv, NEW c \in Conds,
         NEW woken \in Seq(CondWaiter), DistinctEach(woken),
         NEW rest \in Seq(CondWaiter), DistinctEach(rest),
         ThreadsOf(woken) \subseteq ThreadsOf(condWaiting[c]),
         ThreadsOf(rest) = ThreadsOf(condWaiting[c]) \ ThreadsOf(woken),
         condWaiting' = [condWaiting EXCEPT ![c] = rest], LockAsync(woken),
         UNCHANGED <<barrierWaiting, futexVars, aborted>>
  PROVE  EInv'
<1> DEFINE T == ThreadsOf(woken)
           Wants(u, m) == \E i \in 1 .. Len(woken) : woken[i].mutex = m /\ woken[i].thread = u
<1>1. /\ SyncTypeOK /\ SyncDistinct /\ FutexTypeOK' /\ FutexDistinct' /\ aborted' \in BOOLEAN
      /\ \A u \in Threads : Sound(u)
      /\ \A v \in CondWaiter : v.thread \in Threads
  BY EInvFacts, SyncFacts
<1>2. /\ Len(woken) \in Nat /\ DOMAIN woken = 1 .. Len(woken)
      /\ \A i \in 1 .. Len(woken) : woken[i] \in CondWaiter
  OBVIOUS
<1>3. \A u : u \in T <=> \E m \in Mutexes : Wants(u, m)
  <2>1. \A u : u \in T <=> \E i \in 1 .. Len(woken) : woken[i].thread = u
    BY <1>2, QueueMembers
  <2>2. \A i \in 1 .. Len(woken) : woken[i].mutex \in Mutexes
    BY <1>2 DEF CondWaiter
  <2> HIDE DEF T
  <2> QED
    BY <2>1, <2>2
<1>4. \A u, m, n : Wants(u, m) /\ Wants(u, n) => m = n
  <2>1. \A i, j \in 1 .. Len(woken) : woken[i].thread = woken[j].thread => i = j
    BY <1>2, QueueMembers
  <2> QED
    BY <2>1
<1>5. T \subseteq Threads
  BY <1>1, WaiterQueue
<1>6. \A u \in T : Sits(u, "cond", c)
  BY DEF Sits
<1>7. \A u \in T : Queues(u) /\ Only(u, "cond", c) /\ reason[u] = "cond"
  <2> SUFFICES ASSUME NEW u \in T PROVE Queues(u) /\ Only(u, "cond", c) /\ reason[u] = "cond"
    OBVIOUS
  <2>1. Queues(u) /\ Only(u, "cond", c) /\ Fits(reason[u], "cond")
    BY <1>1, <1>5, <1>6, CallerIsFree
  <2> QED
    BY <2>1 DEF Fits
<1>8. \A u \in T : \A m \in Mutexes : u \notin ToSet(mutexWaiting[m])
  BY <1>7 DEF Only, Sits
<1>9. PICK Go : /\ Resume(Go) /\ Go \subseteq T
                /\ owner' \in [Mutexes -> Threads \union {None}]
                /\ mutexWaiting' \in [Mutexes -> Seq(Threads)]
                /\ \A m \in Mutexes : Distinct(mutexWaiting'[m])
                /\ \A u : \A m \in Mutexes : u \in ToSet(mutexWaiting'[m]) <=>
                     u \in ToSet(mutexWaiting[m]) \/ (Wants(u, m) /\ u \notin Go)
  BY <1>1, <1>8, LockAsyncFacts
<1> HIDE DEF T, Wants
<1>10. /\ condWaiting' \in [Conds -> Seq(CondWaiter)] /\ condWaiting'[c] = rest
       /\ \A d \in Conds : d # c => condWaiting'[d] = condWaiting[d]
  BY <1>1 DEF SyncTypeOK
<1>11. SyncTypeOK' /\ SyncDistinct'
  <2>1. \A d \in Conds : DistinctEach(condWaiting'[d])
    BY <1>1, <1>10 DEF SyncDistinct
  <2> QED
    BY <1>1, <1>9, <1>10, <2>1 DEF SyncTypeOK, SyncDistinct, Distinct, DistinctEach
<1>12. \A u, k, x : Sits(u, k, x)' <=>
         \/ Sits(u, k, x) /\ ~(k = "cond" /\ x = c /\ u \in T)
         \/ k = "mutex" /\ x \in Mutexes /\ Wants(u, x) /\ u \notin Go
  <2>1. \A u : \A x \in Conds : u \in ThreadsOf(condWaiting'[x])
                                  <=> u \in ThreadsOf(condWaiting[x]) /\ ~(x = c /\ u \in T)
    BY <1>10 DEF T
  <2>2. waiter' = waiter /\ futexWaiting' = futexWaiting /\ sleeping' = sleeping
    BY <1>9 DEF Resume, futexVars
  <2> QED
    BY <1>9, <2>1, <2>2 DEF Sits
<1>13. ASSUME NEW u \in Threads, u \in Go PROVE Queues(u) /\ Nowhere(u)'
  <2>1. u \in T
    BY <1>9, <1>13
  <2> QED
    BY <1>1, <1>6, <1>12, <1>13, <2>1, LeavesSeat
<1>14. ASSUME NEW u \in Threads \ Go
       PROVE  Keeps(u) \/ (Queues(u) /\ \E k, x : Fits(reason[u], k) /\ Only(u, k, x)')
  <2>1. CASE u \in T
    <3>1. PICK m \in Mutexes : Wants(u, m)
      BY <1>3, <2>1
    <3>2. \A k, x : Sits(u, k, x)' <=> k = "mutex" /\ x = m
      BY <1>3, <1>4, <1>7, <1>12, <1>14, <2>1, <3>1 DEF Only
    <3>3. Only(u, "mutex", m)'
      BY <3>2 DEF Only
    <3>4. Fits(reason[u], "mutex")
      BY <1>7, <2>1 DEF Fits
    <3> QED
      BY <1>7, <2>1, <3>3, <3>4
  <2>2. CASE u \notin T
    BY <1>3, <1>12, <2>2 DEF Keeps
  <2> QED
    BY <2>1, <2>2
<1> QED
  BY <1>1, <1>9, <1>11, <1>13, <1>14, ResumeStep

LEMMA StepCondSignal ==
  ASSUME EInv, NEW t \in Threads, NEW c \in Conds, condSignal(t, c), UNCHANGED <<futexVars, aborted>>
  PROVE  EInv'
<1> DEFINE q == condWaiting[c]
           woken == IF q = <<>> THEN <<>> ELSE <<Head(q)>>
           rest == IF q = <<>> THEN q ELSE Tail(q)
<1>1. /\ q \in Seq(CondWaiter) /\ DistinctEach(q)
      /\ \A v \in CondWaiter : v.thread \in Threads
  BY SyncFacts DEF SyncTypeOK, SyncDistinct
<1>2. /\ condWaiting' = [condWaiting EXCEPT ![c] = rest] /\ LockAsync(woken)
      /\ barrierWaiting' = barrierWaiting
  BY DEF condSignal
<1>3. /\ woken \in Seq(CondWaiter) /\ DistinctEach(woken) /\ rest \in Seq(CondWaiter)
      /\ DistinctEach(rest) /\ ThreadsOf(woken) \subseteq ThreadsOf(q)
      /\ ThreadsOf(rest) = ThreadsOf(q) \ ThreadsOf(woken)
  <2>1. CASE q = <<>>
    <3>1. woken = <<>> /\ rest = q
      BY <2>1
    <3>2. ThreadsOf(<<>>) = {} /\ DistinctEach(<<>>) /\ <<>> \in Seq(CondWaiter)
      BY <1>1, WaiterQueue
    <3> QED
      BY <1>1, <3>1, <3>2
  <2>2. CASE q # <<>>
    <3>1. woken = <<Head(q)>> /\ rest = Tail(q)
      BY <2>2
    <3>2. /\ Tail(q) \in Seq(CondWaiter) /\ Head(q) \in CondWaiter /\ Head(q).thread \in ThreadsOf(q)
          /\ DistinctEach(Tail(q)) /\ ThreadsOf(Tail(q)) = ThreadsOf(q) \ {Head(q).thread}
      BY <1>1, <2>2, WaiterQueue
    <3>3. \A h \in CondWaiter : /\ <<h>> \in Seq(CondWaiter) /\ DistinctEach(<<h>>)
                                /\ ThreadsOf(<<h>>) = {h.thread}
      BY DEF DistinctEach, ThreadsOf
    <3> QED
      BY <3>1, <3>2, <3>3
  <2> QED
    BY <2>1, <2>2
<1>4. PICK w, r : w = woken /\ r = rest
  OBVIOUS
<1> HIDE DEF woken, rest
<1>5. /\ w \in Seq(CondWaiter) /\ DistinctEach(w) /\ r \in Seq(CondWaiter) /\ DistinctEach(r)
      /\ ThreadsOf(w) \subseteq ThreadsOf(condWaiting[c])
      /\ ThreadsOf(r) = ThreadsOf(condWaiting[c]) \ ThreadsOf(w)
      /\ condWaiting' = [condWaiting EXCEPT ![c] = r] /\ LockAsync(w)
  BY <1>2, <1>3, <1>4
<1> QED
  BY <1>2, <1>5, WakeCond

LEMMA StepCondBroadcast ==
  ASSUME EInv, NEW t \in Threads, NEW c \in Conds, condBroadcast(t, c), UNCHANGED <<futexVars, aborted>>
  PROVE  EInv'
<1>1. PICK w : w = condWaiting[c]
  OBVIOUS
<1>2. /\ w \in Seq(CondWaiter) /\ DistinctEach(w)
      /\ \A v \in CondWaiter : v.thread \in Threads
  BY <1>1, SyncFacts DEF SyncTypeOK, SyncDistinct
<1>3. /\ condWaiting' = [condWaiting EXCEPT ![c] = <<>>] /\ LockAsync(w)
      /\ barrierWaiting' = barrierWaiting
  BY <1>1 DEF condBroadcast
<1>4. ThreadsOf(<<>>) = {} /\ DistinctEach(<<>>) /\ <<>> \in Seq(CondWaiter)
  BY <1>2, WaiterQueue
<1>5. /\ ThreadsOf(w) \subseteq ThreadsOf(condWaiting[c])
      /\ ThreadsOf(<<>>) = ThreadsOf(condWaiting[c]) \ ThreadsOf(w)
  BY <1>1, <1>4
<1> QED
  BY <1>2, <1>3, <1>4, <1>5, WakeCond

LEMMA StepBarrierWait ==
  ASSUME EInv, NEW t \in Threads, barrierWait(t), UNCHANGED <<futexVars, aborted>>
  PROVE  EInv'
<1>0. PICK q : q = barrierWaiting
  OBVIOUS
<1>1. /\ SyncTypeOK /\ SyncDistinct /\ FutexTypeOK' /\ FutexDistinct' /\ aborted' \in BOOLEAN
      /\ \A u \in Threads : Sound(u)
      /\ q \in Seq(Threads) /\ Distinct(q)
  BY <1>0, EInvFacts, SyncFacts DEF SyncTypeOK, SyncDistinct
<1>2. host[t] = "app" /\ UNCHANGED <<owner, mutexWaiting, condWaiting, futexWaiting, sleeping>>
  BY DEF barrierWait, futexVars, Calls
<1>3. CASE Resume(ToSet(barrierWaiting)) /\ barrierWaiting' = <<>>
  <2>1. ToSet(<<>>) = {} /\ Distinct(<<>>) /\ <<>> \in Seq(Threads)
    BY <1>1, ThreadQueue
  <2>2. SyncTypeOK' /\ SyncDistinct'
    BY <1>1, <1>2, <1>3, <2>1 DEF SyncTypeOK, SyncDistinct, Distinct, DistinctEach
  <2>3. \A u, k, x : Sits(u, k, x)' <=> Sits(u, k, x) /\ k # "barrier"
    <3>1. waiter' = waiter
      BY <1>3 DEF Resume
    <3> QED
      BY <1>2, <1>3, <2>1, <3>1 DEF Sits
  <2>4. ASSUME NEW u \in Threads, u \in ToSet(q) PROVE Queues(u) /\ Nowhere(u)'
    <3>1. Sits(u, "barrier", None)
      BY <1>0, <2>4 DEF Sits
    <3> QED
      BY <1>1, <2>3, <3>1, LeavesSeat
  <2>5. \A u \in Threads \ ToSet(q) : Keeps(u)
    BY <1>0, <2>3 DEF Keeps, Sits
  <2> QED
    BY <1>0, <1>1, <1>3, <2>2, <2>4, <2>5, ResumeStep
<1>4. CASE barrierWaiting' = Append(barrierWaiting, t) /\ Stall(t, "barrier", {}) /\ waiter' = waiter
  <2>1. Nowhere(t)
    BY <1>1, <1>2, CallerIsFree
  <2>2. t \notin ToSet(q)
    BY <1>0, <2>1 DEF Nowhere, Sits
  <2>3. /\ Append(q, t) \in Seq(Threads) /\ Distinct(Append(q, t))
        /\ ToSet(Append(q, t)) = ToSet(q) \union {t}
    BY <1>1, <2>2, ThreadQueue
  <2>4. SyncTypeOK' /\ SyncDistinct'
    BY <1>0, <1>1, <1>2, <1>4, <2>3 DEF SyncTypeOK, SyncDistinct, Distinct, DistinctEach
  <2>5. \A u, k, x : Sits(u, k, x)' <=> Sits(u, k, x) \/ (k = "barrier" /\ x = None /\ u = t)
    <3>1. \A u : u \in ToSet(barrierWaiting') <=> u \in ToSet(barrierWaiting) \/ u = t
      BY <1>0, <1>4, <2>3
    <3> QED
      BY <1>2, <1>4, <3>1 DEF Sits
  <2>6. Only(t, "barrier", None)' /\ \A u \in Threads : u # t => Keeps(u)
    BY <2>1, <2>5, TakesSeat DEF Keeps
  <2>7. "barrier" \in Reasons \ {"syscall"}
    BY DEF Reasons
  <2> QED
    BY <1>1, <1>2, <1>4, <2>4, <2>6, <2>7, StallStep
<1> QED
  BY <1>3, <1>4 DEF barrierWait

-----------------------------------------------------------------------------
(***************************************************************************)
(* The steps of the system call server.                                    *)
(***************************************************************************)
LEMMA FutexFacts ==
  ASSUME EInv
  PROVE  /\ FutexTypeOK /\ FutexDistinct
         /\ \A w \in Waiter : w.thread \in Threads
         /\ UNCHANGED syncVars => SyncTypeOK' /\ SyncDistinct'
         /\ \A a \in Futexes : ThreadsOf(futexWaiting[a]) \subseteq Threads
         /\ ThreadsOf(sleeping) \subseteq Threads
<1>1. FutexTypeOK /\ FutexDistinct /\ \A w \in Waiter : w.thread \in Threads
  BY EInvFacts DEF QueuesDistinct, FutexDistinct, Waiter
<1>2. UNCHANGED syncVars => SyncTypeOK' /\ SyncDistinct'
  BY EInvFacts, SyncStays DEF QueuesDistinct, SyncDistinct
<1>3. /\ \A a \in Futexes : futexWaiting[a] \in Seq(Waiter) /\ DistinctEach(futexWaiting[a])
      /\ sleeping \in Seq(Waiter) /\ DistinctEach(sleeping)
  BY <1>1 DEF FutexTypeOK, FutexDistinct
<1>4. \A a \in Futexes : ThreadsOf(futexWaiting[a]) \subseteq Threads
  BY <1>1, <1>3, WaiterQueue
<1>5. ThreadsOf(sleeping) \subseteq Threads
  BY <1>1, <1>3, WaiterQueue
<1> QED
  BY <1>1, <1>2, <1>4, <1>5

\* Nobody waits on two futexes, or on one and asleep.
LEMMA FutexDisjoint ==
  ASSUME EInv
  PROVE  /\ \A a, b \in Futexes : \A u : u \in ThreadsOf(futexWaiting[a]) /\ u \in ThreadsOf(futexWaiting[b])
                                           => a = b
         /\ \A a \in Futexes : \A u : ~(u \in ThreadsOf(futexWaiting[a]) /\ u \in ThreadsOf(sleeping))
<1> SUFFICES ASSUME NEW a \in Futexes, NEW u, u \in ThreadsOf(futexWaiting[a])
             PROVE  /\ \A b \in Futexes : u \in ThreadsOf(futexWaiting[b]) => a = b
                    /\ u \notin ThreadsOf(sleeping)
  OBVIOUS
<1>1. u \in Threads /\ Sound(u)
  BY EInvFacts, FutexFacts
<1>2. Sits(u, "futex", a)
  BY DEF Sits
<1>3. Only(u, "futex", a)
  BY <1>1, <1>2, CallerIsFree
<1> QED
  BY <1>3 DEF Only, Sits

\* Some waiters are resumed, and leave their queues.
LEMMA WakeStep ==
  ASSUME EInv, NEW W, Resume(W), UNCHANGED <<syncVars>>, aborted' \in BOOLEAN, FutexTypeOK', FutexDistinct',
         \A a \in Futexes : \A u : u \in ThreadsOf(futexWaiting'[a])
                                     <=> u \in ThreadsOf(futexWaiting[a]) /\ u \notin W,
         \A u : u \in ThreadsOf(sleeping') <=> u \in ThreadsOf(sleeping) /\ u \notin W,
         \A u \in W : \/ \E a \in Futexes : u \in ThreadsOf(futexWaiting[a])
                      \/ u \in ThreadsOf(sleeping)
  PROVE  EInv'
<1>1. SyncTypeOK' /\ SyncDistinct' /\ \A u \in Threads : Sound(u)
  BY EInvFacts, FutexFacts
<1>2. \A u, k, x : Sits(u, k, x)' <=> Sits(u, k, x) /\ ~(k \in {"futex", "sleep"} /\ u \in W)
  <2>1. UNCHANGED <<waiter, mutexWaiting, condWaiting, barrierWaiting>>
    BY DEF Resume, syncVars
  <2> QED
    BY <2>1 DEF Sits
<1>3. \A u \in W : \E k \in {"futex", "sleep"} : \E x : Sits(u, k, x)
  <2> SUFFICES ASSUME NEW u \in W PROVE \E k \in {"futex", "sleep"} : \E x : Sits(u, k, x)
    OBVIOUS
  <2>1. CASE u \in ThreadsOf(sleeping)
    <3>1. Sits(u, "sleep", None)
      BY <2>1 DEF Sits
    <3> QED
      BY <3>1
  <2>2. ASSUME NEW a \in Futexes, u \in ThreadsOf(futexWaiting[a])
        PROVE  \E k \in {"futex", "sleep"} : \E x : Sits(u, k, x)
    <3>1. Sits(u, "futex", a)
      BY <2>2 DEF Sits
    <3> QED
      BY <3>1
  <2> QED
    BY <2>1, <2>2
<1>4. ASSUME NEW u \in Threads, u \in W PROVE Queues(u) /\ Nowhere(u)'
  <2>0. PICK k \in {"futex", "sleep"} : \E x : Sits(u, k, x)
    BY <1>3, <1>4
  <2>1. PICK x : Sits(u, k, x)
    BY <2>0
  <2>2. \A l, y : Sits(u, l, y)' => Sits(u, l, y) /\ ~(l = k /\ y = x)
    BY <1>2, <1>4
  <2> QED
    BY <1>1, <2>1, <2>2, LeavesSeat
<1>5. \A u \in Threads \ W : Keeps(u)
  BY <1>2 DEF Keeps
<1> QED
  BY <1>1, <1>4, <1>5, ResumeStep

LEMMA StepSleep ==
  ASSUME EInv, NEW t \in Threads, handleSleepCall(t), UNCHANGED <<syncVars, aborted>>
  PROVE  EInv'
<1>0. PICK q : q = sleeping
  OBVIOUS
<1>1. /\ FutexTypeOK /\ FutexDistinct /\ SyncTypeOK' /\ SyncDistinct' /\ aborted' \in BOOLEAN
      /\ \A u \in Threads : Sound(u)
      /\ q \in Seq(Waiter) /\ DistinctEach(q) /\ \A w \in Waiter : w.thread \in Threads
  BY <1>0, EInvFacts, FutexFacts DEF FutexTypeOK, FutexDistinct
<1>2. PICK d \in 0 .. MaxDelay : sleeping' = Append(q, [thread |-> t, left |-> d])
  BY <1>0 DEF handleSleepCall
<1>3. /\ host[t] = "app" /\ Stall(t, "sleep", {})
      /\ UNCHANGED <<waiter, word, futexWaiting, mutexWaiting, condWaiting, barrierWaiting>>
  BY DEF handleSleepCall, Calls, syncVars
<1> DEFINE w == [thread |-> t, left |-> d]
<1>4. Nowhere(t)
  BY <1>1, <1>3, CallerIsFree
<1>5. w \in Waiter /\ w.thread = t /\ t \notin ThreadsOf(q)
  <2>1. d \in 0 .. Never
    BY FutexAssumption DEF Never
  <2> QED
    BY <1>0, <1>4, <2>1 DEF Waiter, Nowhere, Sits
<1> HIDE DEF w
<1>6. /\ Append(q, w) \in Seq(Waiter) /\ DistinctEach(Append(q, w))
      /\ ThreadsOf(Append(q, w)) = ThreadsOf(q) \union {t}
  BY <1>1, <1>5, WaiterQueue
<1>7. sleeping' = Append(q, w)
  BY <1>2 DEF w
<1>8. FutexTypeOK' /\ FutexDistinct'
  BY <1>1, <1>3, <1>6, <1>7 DEF FutexTypeOK, FutexDistinct, DistinctEach
<1>9. \A u, k, x : Sits(u, k, x)' <=> Sits(u, k, x) \/ (k = "sleep" /\ x = None /\ u = t)
  <2>1. \A u : u \in ThreadsOf(sleeping') <=> u \in ThreadsOf(sleeping) \/ u = t
    BY <1>0, <1>6, <1>7
  <2> QED
    BY <1>3, <2>1 DEF Sits
<1>10. Only(t, "sleep", None)' /\ \A u \in Threads : u # t => Keeps(u)
  BY <1>4, <1>9, TakesSeat DEF Keeps
<1>11. "sleep" \in Reasons \ {"syscall"}
  BY DEF Reasons
<1> QED
  BY <1>1, <1>3, <1>8, <1>10, <1>11, StallStep

LEMMA StepFutexWait ==
  ASSUME EInv, NEW t \in Threads, NEW a \in Futexes, NEW val \in Values, futexWait(t, a, val),
         UNCHANGED <<syncVars, aborted>>
  PROVE  EInv'
<1>0. PICK q : q = futexWaiting[a]
  OBVIOUS
<1>1. /\ FutexTypeOK /\ FutexDistinct /\ SyncTypeOK' /\ SyncDistinct' /\ aborted' \in BOOLEAN
      /\ SyncTypeOK /\ \A u \in Threads : Sound(u)
      /\ q \in Seq(Waiter) /\ DistinctEach(q) /\ \A w \in Waiter : w.thread \in Threads
  BY <1>0, EInvFacts, FutexFacts DEF FutexTypeOK, FutexDistinct
<1>2. /\ host[t] = "app"
      /\ UNCHANGED <<owner, mutexWaiting, condWaiting, barrierWaiting, word, sleeping>>
  BY DEF futexWait, Calls, syncVars
<1>3. CASE UNCHANGED <<threadVars, futexWaiting>>
  <2>1. owner' \in [Mutexes -> Threads \union {None}] /\ word' \in [Futexes -> Values]
    BY <1>1, <1>2 DEF SyncTypeOK, FutexTypeOK
  <2> QED
    BY <1>1, <1>2, <1>3, <2>1, NoThread
<1>4. ASSUME NEW d \in 0 .. Never, Stall(t, "futex", {}), waiter' = waiter,
             futexWaiting' = [futexWaiting EXCEPT ![a] = Append(q, [thread |-> t, left |-> d])]
      PROVE  EInv'
  <2> DEFINE w == [thread |-> t, left |-> d]
             r == Append(q, w)
  <2>1. Nowhere(t)
    BY <1>1, <1>2, CallerIsFree
  <2>2. w \in Waiter /\ w.thread = t /\ t \notin ThreadsOf(q)
    BY <1>0, <2>1 DEF Waiter, Nowhere, Sits
  <2> HIDE DEF w
  <2>3. r \in Seq(Waiter) /\ DistinctEach(r) /\ ThreadsOf(r) = ThreadsOf(q) \union {t}
    BY <1>1, <2>2, WaiterQueue
  <2>4. futexWaiting' = [futexWaiting EXCEPT ![a] = r]
    BY <1>4 DEF w
  <2> HIDE DEF r
  <2>5. /\ futexWaiting' \in [Futexes -> Seq(Waiter)] /\ futexWaiting'[a] = r
        /\ \A b \in Futexes : b # a => futexWaiting'[b] = futexWaiting[b]
    BY <1>1, <2>3, <2>4 DEF FutexTypeOK
  <2>6. FutexTypeOK' /\ FutexDistinct'
    <3>1. \A b \in Futexes : DistinctEach(futexWaiting'[b])
      BY <1>1, <2>3, <2>5 DEF FutexDistinct
    <3> QED
      BY <1>1, <1>2, <2>5, <3>1 DEF FutexTypeOK, FutexDistinct, DistinctEach
  <2>7. \A u, k, x : Sits(u, k, x)' <=> Sits(u, k, x) \/ (k = "futex" /\ x = a /\ u = t)
    <3>1. \A u : \A x \in Futexes : u \in ThreadsOf(futexWaiting'[x])
                                      <=> u \in ThreadsOf(futexWaiting[x]) \/ (x = a /\ u = t)
      BY <1>0, <2>3, <2>5
    <3> QED
      BY <1>2, <1>4, <3>1 DEF Sits
  <2>8. Only(t, "futex", a)' /\ \A u \in Threads : u # t => Keeps(u)
    BY <2>1, <2>7, TakesSeat DEF Keeps
  <2>9. "futex" \in Reasons \ {"syscall"}
    BY DEF Reasons
  <2> QED
    BY <1>1, <1>2, <1>4, <2>6, <2>8, <2>9, StallStep
<1> QED
  BY <1>0, <1>3, <1>4 DEF futexWait

LEMMA StepStore ==
  ASSUME EInv, NEW t \in Threads, NEW a \in Futexes, NEW v \in Values, Store(t, a, v),
         UNCHANGED <<syncVars, aborted>>
  PROVE  EInv'
<1>1. FutexTypeOK /\ SyncTypeOK /\ aborted \in BOOLEAN
  BY EInvFacts
<1>2. UNCHANGED <<owner, mutexWaiting, condWaiting, barrierWaiting, futexWaiting, sleeping>>
  BY DEF Store, syncVars
<1>3. owner' \in [Mutexes -> Threads \union {None}] /\ word' \in [Futexes -> Values]
      /\ aborted' \in BOOLEAN
  BY <1>1, <1>2 DEF Store, FutexTypeOK, SyncTypeOK
<1> QED
  BY <1>2, <1>3, NoThread DEF Store

\* The queues of the futexes, each of its own threads.
FutexQueues(f) ==
  /\ f \in [Futexes -> Seq(Waiter)]
  /\ \A a \in Futexes : DistinctEach(f[a])
  /\ \A a, b \in Futexes : \A u : u \in ThreadsOf(f[a]) /\ u \in ThreadsOf(f[b]) => a = b

\* Up to n waiters leave one of them.
Taken(f, a, n) == [f EXCEPT ![a] = Staying(f[a], n)]
Leaving(f, a, n) == ThreadsOf(Woken(f[a], n))

LEMMA FutexTake ==
  \A f : FutexQueues(f) => \A a \in Futexes : \A n \in Nat :
    /\ FutexQueues(Taken(f, a, n)) /\ Leaving(f, a, n) \subseteq ThreadsOf(f[a])
    /\ \A b \in Futexes : \A u : u \in ThreadsOf(Taken(f, a, n)[b])
                                   <=> u \in ThreadsOf(f[b]) /\ u \notin Leaving(f, a, n)
<1> TAKE f
<1> HAVE FutexQueues(f)
<1> TAKE a \in Futexes
<1> TAKE n \in Nat
<1>0. PICK g, V : g = Taken(f, a, n) /\ V = Leaving(f, a, n)
  OBVIOUS
<1> DEFINE r == Staying(f[a], n)
<1>1. f[a] \in Seq(Waiter) /\ DistinctEach(f[a])
  BY DEF FutexQueues
<1>2. /\ r \in Seq(Waiter) /\ DistinctEach(r) /\ V \subseteq ThreadsOf(f[a])
      /\ ThreadsOf(r) = ThreadsOf(f[a]) \ V
  BY <1>0, <1>1, WokenStaying DEF Leaving
<1> HIDE DEF r
<1>3. g \in [Futexes -> Seq(Waiter)] /\ g[a] = r /\ \A b \in Futexes : b # a => g[b] = f[b]
  BY <1>0, <1>2 DEF FutexQueues, r, Taken
<1>4. \A b \in Futexes : \A u : u \in ThreadsOf(g[b]) <=> u \in ThreadsOf(f[b]) /\ u \notin V
  <2> SUFFICES ASSUME NEW b \in Futexes, NEW u
               PROVE  u \in ThreadsOf(g[b]) <=> u \in ThreadsOf(f[b]) /\ u \notin V
    OBVIOUS
  <2>1. CASE b = a
    BY <1>2, <1>3, <2>1
  <2>2. CASE b # a
    <3>1. u \in ThreadsOf(f[b]) => u \notin V
      BY <1>2, <2>2 DEF FutexQueues
    <3> QED
      BY <1>3, <2>2, <3>1
  <2> QED
    BY <2>1, <2>2
<1>5. \A b \in Futexes : DistinctEach(g[b])
  BY <1>2, <1>3 DEF FutexQueues
<1>6. \A b, c \in Futexes : \A u : u \in ThreadsOf(g[b]) /\ u \in ThreadsOf(g[c]) => b = c
  BY <1>4 DEF FutexQueues
<1>7. FutexQueues(g)
  BY <1>3, <1>5, <1>6 DEF FutexQueues
<1> QED
  BY <1>0, <1>2, <1>4, <1>7

LEMMA StepFutexWake ==
  ASSUME EInv, NEW t \in Threads, NEW a \in Futexes, NEW n \in Nat, futexWake(t, a, n),
         UNCHANGED <<syncVars, aborted>>
  PROVE  EInv'
<1>0. PICK f, V : f = futexWaiting /\ V = ThreadsOf(Woken(futexWaiting[a], n))
  OBVIOUS
<1>1. FutexTypeOK /\ FutexDistinct /\ aborted' \in BOOLEAN /\ FutexQueues(f)
  BY <1>0, EInvFacts, FutexFacts, FutexDisjoint DEF FutexTypeOK, FutexDistinct, FutexQueues
<1>2. PICK g : g = [f EXCEPT ![a] = Staying(f[a], n)]
  OBVIOUS
<1>3. futexWaiting' = g /\ Resume(V) /\ UNCHANGED <<word, sleeping>>
  BY <1>0, <1>2 DEF futexWake
<1>4. /\ FutexQueues(g) /\ V \subseteq ThreadsOf(f[a])
      /\ \A b \in Futexes : \A u : u \in ThreadsOf(g[b]) <=> u \in ThreadsOf(f[b]) /\ u \notin V
  <2>1. g = Taken(f, a, n) /\ V = Leaving(f, a, n)
    BY <1>0, <1>2 DEF Taken, Leaving
  <2> QED
    BY <1>1, <2>1, FutexTake
<1>5. FutexTypeOK' /\ FutexDistinct'
  BY <1>1, <1>3, <1>4 DEF FutexTypeOK, FutexDistinct, FutexQueues, DistinctEach
<1>6. \A u : u \in ThreadsOf(sleeping') <=> u \in ThreadsOf(sleeping) /\ u \notin V
  BY <1>0, <1>3, <1>4, FutexDisjoint
<1>7. \A b \in Futexes : \A u : u \in ThreadsOf(futexWaiting'[b])
                                  <=> u \in ThreadsOf(futexWaiting[b]) /\ u \notin V
  BY <1>0, <1>3, <1>4
<1>8. \A u \in V : (\E b \in Futexes : u \in ThreadsOf(futexWaiting[b])) \/ u \in ThreadsOf(sleeping)
  BY <1>0, <1>4
<1> QED
  BY <1>1, <1>3, <1>5, <1>6, <1>7, <1>8, WakeStep

LEMMA StepFutexWakeOp ==
  ASSUME EInv, NEW t \in Threads, NEW a \in Futexes, NEW b \in Futexes, NEW n \in Nat, NEW n2 \in Nat,
         futexWakeOp(t, a, b, n, n2), UNCHANGED <<syncVars, aborted>>
  PROVE  EInv'
<1>0. PICK f, V : f = futexWaiting /\ V = ThreadsOf(Woken(futexWaiting[a], n))
  OBVIOUS
<1>1. FutexTypeOK /\ FutexDistinct /\ aborted' \in BOOLEAN /\ FutexQueues(f)
  BY <1>0, EInvFacts, FutexFacts, FutexDisjoint DEF FutexTypeOK, FutexDistinct, FutexQueues
<1>2. PICK g : g = [f EXCEPT ![a] = Staying(f[a], n)]
  OBVIOUS
<1>3. PICK met \in BOOLEAN :
        LET first == [futexWaiting EXCEPT ![a] = Staying(@, n)]
            k     == IF met THEN n2 ELSE 0
        IN /\ futexWaiting' = [first EXCEPT ![b] = Staying(@, k)]
           /\ Resume(ThreadsOf(Woken(futexWaiting[a], n)) \union ThreadsOf(Woken(first[b], k)))
  BY DEF futexWakeOp
<1>4. PICK k \in Nat : k = IF met THEN n2 ELSE 0
  OBVIOUS
<1>5. PICK V2 : V2 = ThreadsOf(Woken(g[b], k))
  OBVIOUS
<1>6. PICK h : h = [g EXCEPT ![b] = Staying(g[b], k)]
  OBVIOUS
<1>7. PICK W : W = V \union V2
  OBVIOUS
<1>8. futexWaiting' = h /\ Resume(W) /\ sleeping' = sleeping
  <2>1. [futexWaiting EXCEPT ![a] = Staying(@, n)] = g
    BY <1>0, <1>2
  <2>2. /\ futexWaiting' = [g EXCEPT ![b] = Staying(@, k)]
        /\ Resume(V \union ThreadsOf(Woken(g[b], k)))
    BY <1>0, <1>3, <1>4, <2>1
  <2> QED
    BY <1>5, <1>6, <1>7, <2>2 DEF futexWakeOp
<1>9. word' \in [Futexes -> Values]
  BY <1>1 DEF futexWakeOp, FutexTypeOK
<1>10. /\ FutexQueues(g) /\ V \subseteq ThreadsOf(f[a])
       /\ \A c \in Futexes : \A u : u \in ThreadsOf(g[c]) <=> u \in ThreadsOf(f[c]) /\ u \notin V
  <2>1. g = Taken(f, a, n) /\ V = Leaving(f, a, n)
    BY <1>0, <1>2 DEF Taken, Leaving
  <2> QED
    BY <1>1, <2>1, FutexTake
<1>11. /\ FutexQueues(h) /\ V2 \subseteq ThreadsOf(g[b])
       /\ \A c \in Futexes : \A u : u \in ThreadsOf(h[c]) <=> u \in ThreadsOf(g[c]) /\ u \notin V2
  <2>1. FutexQueues(g)
    BY <1>10
  <2>2. h = Taken(g, b, k) /\ V2 = Leaving(g, b, k)
    BY <1>5, <1>6 DEF Taken, Leaving
  <2> QED
    BY <1>4, <2>1, <2>2, FutexTake
<1>12. \A u \in W : \E c \in Futexes : u \in ThreadsOf(f[c])
  BY <1>7, <1>10, <1>11
<1>13. FutexTypeOK' /\ FutexDistinct'
  BY <1>1, <1>8, <1>9, <1>11 DEF FutexTypeOK, FutexDistinct, FutexQueues, DistinctEach
<1>14. \A u : u \in ThreadsOf(sleeping') <=> u \in ThreadsOf(sleeping) /\ u \notin W
  BY <1>0, <1>8, <1>12, FutexDisjoint
<1>15. \A c \in Futexes : \A u : u \in ThreadsOf(futexWaiting'[c])
                                   <=> u \in ThreadsOf(futexWaiting[c]) /\ u \notin W
  BY <1>0, <1>7, <1>8, <1>10, <1>11
<1>16. \A u \in W : (\E c \in Futexes : u \in ThreadsOf(futexWaiting[c])) \/ u \in ThreadsOf(sleeping)
  BY <1>0, <1>12
<1> QED
  BY <1>1, <1>8, <1>13, <1>14, <1>15, <1>16, WakeStep

LEMMA StepFutexCmpRequeue ==
  ASSUME EInv, NEW t \in Threads, NEW a \in Futexes, NEW b \in Futexes, NEW n \in Nat, NEW val \in Values,
         futexCmpRequeue(t, a, b, n, val), UNCHANGED <<syncVars, aborted>>
  PROVE  EInv'
<1>0. PICK f, V, r : /\ f = futexWaiting /\ V = ThreadsOf(Woken(futexWaiting[a], n))
                     /\ r = Staying(futexWaiting[a], n)
  OBVIOUS
<1>1. /\ FutexTypeOK /\ FutexDistinct /\ aborted' \in BOOLEAN /\ FutexQueues(f) /\ SyncTypeOK
      /\ SyncTypeOK' /\ SyncDistinct' /\ \A u \in Threads : Sound(u)
      /\ \A w \in Waiter : w.thread \in Threads
  BY <1>0, EInvFacts, FutexFacts, FutexDisjoint DEF FutexTypeOK, FutexDistinct, FutexQueues
<1>2. a # b /\ UNCHANGED <<word, sleeping, owner, mutexWaiting, condWaiting, barrierWaiting>>
  BY DEF futexCmpRequeue, syncVars
<1>3. CASE UNCHANGED <<threadVars, futexWaiting>>
  <2>1. owner' \in [Mutexes -> Threads \union {None}] /\ word' \in [Futexes -> Values]
    BY <1>1, <1>2 DEF SyncTypeOK, FutexTypeOK
  <2> QED
    BY <1>1, <1>2, <1>3, <2>1, NoThread
<1>4. CASE futexWaiting' = Requeued(a, b, n) /\ Resume(V)
  <2>1. f[a] \in Seq(Waiter) /\ f[b] \in Seq(Waiter) /\ DistinctEach(f[a]) /\ DistinctEach(f[b])
    BY <1>1 DEF FutexQueues
  <2>2. /\ r \in Seq(Waiter) /\ DistinctEach(r) /\ V \subseteq ThreadsOf(f[a])
        /\ ThreadsOf(r) = ThreadsOf(f[a]) \ V
    BY <1>0, <2>1, WokenStaying
  <2>3. ThreadsOf(f[b]) \cap ThreadsOf(r) = {}
    BY <1>1, <1>2, <2>2 DEF FutexQueues
  <2>4. PICK s : s = f[b] \o r
    OBVIOUS
  <2>5. s \in Seq(Waiter) /\ DistinctEach(s) /\ ThreadsOf(s) = ThreadsOf(f[b]) \union ThreadsOf(r)
    BY <1>1, <2>1, <2>2, <2>3, <2>4, WaiterConcat
  <2>6. ThreadsOf(<<>>) = {} /\ DistinctEach(<<>>) /\ <<>> \in Seq(Waiter)
    BY <1>1, <2>1, WaiterQueue
  <2>7. /\ futexWaiting' \in [Futexes -> Seq(Waiter)]
        /\ futexWaiting'[a] = <<>> /\ futexWaiting'[b] = s
        /\ \A c \in Futexes : c # a /\ c # b => futexWaiting'[c] = futexWaiting[c]
    <3>1. futexWaiting' = [c \in Futexes |-> IF c = a THEN <<>> ELSE IF c = b THEN s ELSE f[c]]
      BY <1>0, <1>1, <1>2, <1>4, <2>4 DEF Requeued, FutexTypeOK
    <3> QED
      BY <1>0, <1>1, <1>2, <2>5, <2>6, <3>1 DEF FutexTypeOK
  <2>8. FutexTypeOK' /\ FutexDistinct'
    <3>1. \A c \in Futexes : DistinctEach(futexWaiting'[c])
      BY <1>1, <2>5, <2>6, <2>7 DEF FutexDistinct
    <3> QED
      BY <1>1, <1>2, <2>7, <3>1 DEF FutexTypeOK, FutexDistinct, DistinctEach
  <2>9. \A u, k, x : Sits(u, k, x)' <=>
          \/ Sits(u, k, x) /\ ~(k = "futex" /\ x = a)
          \/ k = "futex" /\ x = b /\ u \in ThreadsOf(f[a]) /\ u \notin V
    <3>1. \A u : \A x \in Futexes : u \in ThreadsOf(futexWaiting'[x]) <=>
            \/ u \in ThreadsOf(futexWaiting[x]) /\ x # a
            \/ x = b /\ u \in ThreadsOf(f[a]) /\ u \notin V
      BY <1>0, <1>2, <2>2, <2>5, <2>6, <2>7
    <3>2. waiter' = waiter
      BY <1>4 DEF Resume
    <3> QED
      BY <1>2, <3>1, <3>2 DEF Sits
  <2>10. \A u \in ThreadsOf(f[a]) : u \in Threads /\ Sits(u, "futex", a)
    BY <1>0, FutexFacts DEF Sits
  <2>11. ASSUME NEW u \in Threads, u \in V PROVE Queues(u) /\ Nowhere(u)'
    <3>1. Sits(u, "futex", a)
      BY <2>2, <2>10, <2>11
    <3> QED
      BY <1>1, <2>9, <2>11, <3>1, LeavesSeat
  <2>12. ASSUME NEW u \in Threads \ V
         PROVE  Keeps(u) \/ (Queues(u) /\ \E k, x : Fits(reason[u], k) /\ Only(u, k, x)')
    <3>1. CASE u \in ThreadsOf(f[a])
      <4>1. Queues(u) /\ Only(u, "futex", a) /\ Fits(reason[u], "futex")
        BY <1>1, <2>10, <3>1, CallerIsFree
      <4>2. Only(u, "futex", b)'
        BY <2>9, <2>12, <3>1, <4>1 DEF Only
      <4> QED
        BY <4>1, <4>2
    <3>2. CASE u \notin ThreadsOf(f[a])
      <4>1. ~Sits(u, "futex", a)
        BY <1>0, <3>2 DEF Sits
      <4> QED
        BY <2>9, <3>2, <4>1 DEF Keeps
    <3> QED
      BY <3>1, <3>2
  <2> QED
    BY <1>1, <1>4, <2>8, <2>11, <2>12, ResumeStep
<1> QED
  BY <1>0, <1>3, <1>4 DEF futexCmpRequeue

LEMMA StepPeriodic ==
  ASSUME EInv, futexPeriodic, UNCHANGED syncVars, aborted' \in BOOLEAN
  PROVE  EInv'
<1>0. PICK W : W = TimedOut(sleeping) \union UNION {TimedOut(futexWaiting[a]) : a \in Futexes}
  OBVIOUS
<1>1. FutexTypeOK /\ FutexDistinct
  BY FutexFacts
<1>2. /\ sleeping' = Later(sleeping) /\ futexWaiting' = [a \in Futexes |-> Later(futexWaiting[a])]
      /\ Resume(W) /\ word' = word
  BY <1>0 DEF futexPeriodic
<1>3. \A u : u \in W <=> u \in TimedOut(sleeping) \/ \E a \in Futexes : u \in TimedOut(futexWaiting[a])
  BY <1>0
<1>4. /\ sleeping' \in Seq(Waiter) /\ DistinctEach(sleeping')
      /\ TimedOut(sleeping) \subseteq ThreadsOf(sleeping)
      /\ ThreadsOf(sleeping') = ThreadsOf(sleeping) \ TimedOut(sleeping)
  BY <1>1, <1>2, LaterFacts DEF FutexTypeOK, FutexDistinct
<1>5. ASSUME NEW a \in Futexes
      PROVE  /\ futexWaiting'[a] \in Seq(Waiter) /\ DistinctEach(futexWaiting'[a])
             /\ TimedOut(futexWaiting[a]) \subseteq ThreadsOf(futexWaiting[a])
             /\ ThreadsOf(futexWaiting'[a]) = ThreadsOf(futexWaiting[a]) \ TimedOut(futexWaiting[a])
  <2>1. futexWaiting'[a] = Later(futexWaiting[a])
    BY <1>2
  <2> QED
    BY <1>1, <2>1, LaterFacts DEF FutexTypeOK, FutexDistinct
<1>6. FutexTypeOK' /\ FutexDistinct'
  <2>1. futexWaiting' \in [Futexes -> Seq(Waiter)]
    <3>1. futexWaiting' = [a \in Futexes |-> futexWaiting'[a]]
      BY <1>2
    <3> QED
      BY <1>5, <3>1
  <2> QED
    BY <1>1, <1>2, <1>4, <1>5, <2>1 DEF FutexTypeOK, FutexDistinct, DistinctEach
<1>7. \A a \in Futexes : \A u : u \in ThreadsOf(futexWaiting'[a])
                                  <=> u \in ThreadsOf(futexWaiting[a]) /\ u \notin W
  <2> SUFFICES ASSUME NEW a \in Futexes, NEW u, u \in ThreadsOf(futexWaiting[a])
               PROVE  u \in TimedOut(futexWaiting[a]) <=> u \in W
    BY <1>5
  <2>1. ASSUME u \in W PROVE u \in TimedOut(futexWaiting[a])
    <3>1. u \notin TimedOut(sleeping)
      BY <1>4, FutexDisjoint
    <3>2. PICK b \in Futexes : u \in TimedOut(futexWaiting[b])
      BY <1>3, <2>1, <3>1
    <3>3. u \in ThreadsOf(futexWaiting[b])
      BY <1>5, <3>2
    <3>4. a = b
      BY <3>3, FutexDisjoint
    <3> QED
      BY <3>2, <3>4
  <2> QED
    BY <1>3, <2>1
<1>8. \A u : u \in ThreadsOf(sleeping') <=> u \in ThreadsOf(sleeping) /\ u \notin W
  <2> SUFFICES ASSUME NEW u, u \in ThreadsOf(sleeping) PROVE u \in TimedOut(sleeping) <=> u \in W
    BY <1>4
  <2>1. ASSUME u \in W PROVE u \in TimedOut(sleeping)
    BY <1>3, <1>5, <2>1, FutexDisjoint
  <2> QED
    BY <1>3, <2>1
<1>9. \A u \in W : \/ \E a \in Futexes : u \in ThreadsOf(futexWaiting[a])
                   \/ u \in ThreadsOf(sleeping)
  BY <1>3, <1>4, <1>5
<1> QED
  BY <1>2, <1>6, <1>7, <1>8, <1>9, WakeStep
-----------------------------------------------------------------------------
(***************************************************************************)
(* The invariant, and what follows from it.                                *)
(***************************************************************************)
LEMMA EInvInit == Init => EInv
<1> SUFFICES ASSUME Init PROVE EInv
  OBVIOUS
<1>1. ThreadTypeOK
  BY MainAssumption DEF Init, ThreadInit, ThreadTypeOK, Statuses, HostPlaces
<1>2. SyncTypeOK /\ FutexTypeOK /\ aborted \in BOOLEAN
  <2>1. SyncTypeOK
    BY DEF Init, SyncInit, SyncTypeOK
  <2>2. FutexTypeOK
    BY FutexAssumption DEF Init, FutexInit, FutexTypeOK
  <2> QED
    BY <2>1, <2>2 DEF Init
<1>3. ToSet(<<>>) = {} /\ Distinct(<<>>) /\ ThreadsOf(<<>>) = {} /\ DistinctEach(<<>>)
  BY DEF ToSet, Distinct, ThreadsOf, DistinctEach
<1>4. QueuesDistinct
  BY <1>3 DEF Init, SyncInit, FutexInit, QueuesDistinct
<1>5. ASSUME NEW t \in Threads PROVE Sound(t)
  <2>1. Nowhere(t)
    BY <1>3, MainAssumption DEF Init, ThreadInit, SyncInit, FutexInit, Nowhere, Sits
  <2>2. ~Queues(t) /\ HostKnown(t) /\ JoinedLives(t)
    BY DEF Init, ThreadInit, Queues, HostKnown, JoinedLives
  <2> QED
    BY <2>1, <2>2 DEF Sound, Seated
<1> QED
  BY <1>1, <1>2, <1>4, <1>5 DEF EInv, TypeOK

\* Every step keeps the invariant, as long as no thread is joined before it starts.
LEMMA EInvStep ==
  ASSUME JoinsUnstarted = FALSE, EInv, [Next]_vars
  PROVE  EInv'
<1>1. ASSUME NEW t \in Threads, ThreadCall(t), UNCHANGED <<syncVars, futexVars, aborted>> PROVE EInv'
  <2>1. ASSUME NEW u \in Threads, createThread(t, u) PROVE EInv'
    BY <1>1, <2>1, StepCreateThread
  <2>2. ASSUME NEW u \in Threads, status[u] # "INITIALIZING" \/ JoinsUnstarted, joinThread(t, u) PROVE EInv'
    BY <1>1, <2>2, StepJoinThread
  <2>3. CASE EnterBlockingCall(t)
    BY <1>1, <2>3, StepEnterBlockingCall
  <2> QED
    BY <1>1, <2>1, <2>2, <2>3 DEF ThreadCall
<1>2. ASSUME NEW t \in Threads, SyncCall(t), UNCHANGED <<futexVars, aborted>> PROVE EInv'
  <2>1. ASSUME NEW m \in Mutexes, lock(t, m) \/ mutexTrylock(t, m) \/ mutexUnlock(t, m) PROVE EInv'
    BY <1>2, <2>1, StepLock, StepTrylock, StepUnlock
  <2>2. ASSUME NEW c \in Conds, condSignal(t, c) \/ condBroadcast(t, c) PROVE EInv'
    BY <1>2, <2>2, StepCondSignal, StepCondBroadcast
  <2>3. ASSUME NEW c \in Conds, NEW m \in Mutexes, condWait(t, c, m) PROVE EInv'
    BY <1>2, <2>3, StepCondWait
  <2>4. CASE barrierWait(t)
    BY <1>2, <2>4, StepBarrierWait
  <2> QED
    BY <1>2, <2>1, <2>2, <2>3, <2>4 DEF SyncCall
<1>3. ASSUME NEW t \in Threads, FutexCall(t), UNCHANGED <<syncVars, aborted>> PROVE EInv'
  <2>1. CASE handleSleepCall(t)
    BY <1>3, <2>1, StepSleep
  <2>2. ASSUME NEW a \in Futexes, NEW v \in Values, futexWait(t, a, v) \/ Store(t, a, v) PROVE EInv'
    BY <1>3, <2>2, StepFutexWait, StepStore
  <2>3. ASSUME NEW a \in Futexes, NEW n \in 1 .. 2, futexWake(t, a, n) PROVE EInv'
    <3>1. n \in Nat
      OBVIOUS
    <3> QED
      BY <1>3, <2>3, <3>1, StepFutexWake
  <2>4. ASSUME NEW a \in Futexes, NEW b \in Futexes, futexWakeOp(t, a, b, 1, 1) PROVE EInv'
    <3>1. 1 \in Nat
      OBVIOUS
    <3> QED
      BY <1>3, <2>4, <3>1, StepFutexWakeOp
  <2>5. ASSUME NEW a \in Futexes, NEW b \in Futexes, NEW v \in Values, futexCmpRequeue(t, a, b, 1, v)
        PROVE  EInv'
    <3>1. 1 \in Nat
      OBVIOUS
    <3> QED
      BY <1>3, <2>5, <3>1, StepFutexCmpRequeue
  <2> QED
    BY <1>3, <2>1, <2>2, <2>3, <2>4, <2>5 DEF FutexCall
<1>4. ASSUME NEW t \in Threads, Begin(t) \/ Finish(t) \/ Return(t) PROVE EInv'
  BY <1>4, StepBegin, StepFinish, StepReturn
<1>5. ASSUME NEW t \in Threads, Exit(t), UNCHANGED <<syncVars, aborted>> PROVE EInv'
  BY <1>5, StepExit
<1>6. CASE Tick
  <2>1. aborted' \in BOOLEAN
    BY <1>6, EInvFacts DEF Tick
  <2> QED
    BY <1>6, <2>1, StepPeriodic DEF Tick, Periodic
<1>7. CASE Advance
  <2>1. aborted' \in BOOLEAN
    BY <1>7 DEF Advance, advance
  <2> QED
    BY <1>7, <2>1, StepPeriodic DEF Advance, advance
<1>8. CASE UNCHANGED vars
  <2>1. UNCHANGED <<threadVars, aborted, owner, word, mutexWaiting, condWaiting, barrierWaiting,
                    futexWaiting, sleeping>>
    BY <1>8 DEF vars, syncVars, futexVars
  <2>2. owner' \in [Mutexes -> Threads \union {None}] /\ word' \in [Futexes -> Values]
        /\ aborted' \in BOOLEAN
    BY <2>1, EInvFacts DEF SyncTypeOK, FutexTypeOK
  <2> QED
    BY <2>1, <2>2, NoThread
<1> QED
  BY <1>1, <1>2, <1>3, <1>4, <1>5, <1>6, <1>7, <1>8 DEF Next

-----------------------------------------------------------------------------
(***************************************************************************)
(* From seats to counts.                                                   *)
(***************************************************************************)
Kinds == {"join", "mutex", "cond", "barrier", "futex", "sleep"}

\* The places of thread t in the queues of kind k, the way QueuedOnce counts them.
InKind(t, k) == CASE k = "join"    -> InJoin(t)
                  [] k = "mutex"   -> InMutex(t)
                  [] k = "cond"    -> InCond(t)
                  [] k = "barrier" -> InBarrier(t)
                  [] k = "futex"   -> InFutex(t)
                  [] k = "sleep"   -> InSleep(t)

LEMMA InKindIs ==
  ASSUME NEW t
  PROVE  /\ InKind(t, "join") = InJoin(t) /\ InKind(t, "mutex") = InMutex(t)
         /\ InKind(t, "cond") = InCond(t) /\ InKind(t, "barrier") = InBarrier(t)
         /\ InKind(t, "futex") = InFutex(t) /\ InKind(t, "sleep") = InSleep(t)
  BY DEF InKind

\* A place is a queue, and an index where the queue holds t.
LEMMA PlacesAre ==
  ASSUME NEW t
  PROVE  /\ \A e : e \in InMutex(t) <=> \E m \in Mutexes : \E i \in DOMAIN mutexWaiting[m] :
                                          e = <<m, i>> /\ mutexWaiting[m][i] = t
         /\ \A e : e \in InCond(t) <=> \E c \in Conds : \E i \in DOMAIN condWaiting[c] :
                                          e = <<c, i>> /\ condWaiting[c][i].thread = t
         /\ \A e : e \in InFutex(t) <=> \E a \in Futexes : \E i \in DOMAIN futexWaiting[a] :
                                          e = <<a, i>> /\ futexWaiting[a][i].thread = t
<1>1. \A e : e \in InMutex(t) <=> \E m \in Mutexes : \E i \in DOMAIN mutexWaiting[m] :
                                    e = <<m, i>> /\ mutexWaiting[m][i] = t
  BY DEF InMutex
<1>2. \A e : e \in InCond(t) <=> \E c \in Conds : \E i \in DOMAIN condWaiting[c] :
                                    e = <<c, i>> /\ condWaiting[c][i].thread = t
  BY DEF InCond
<1>3. \A e : e \in InFutex(t) <=> \E a \in Futexes : \E i \in DOMAIN futexWaiting[a] :
                                    e = <<a, i>> /\ futexWaiting[a][i].thread = t
  BY DEF InFutex
<1> QED
  BY <1>1, <1>2, <1>3

LEMMA SeatHasPlace ==
  ASSUME NEW t, NEW k, NEW x, Sits(t, k, x)
  PROVE  k \in Kinds /\ InKind(t, k) # {}
<1>1. CASE k = "join" /\ x \in Threads /\ waiter[x] = t
  <2>1. x \in InJoin(t)
    BY <1>1 DEF InJoin
  <2> QED
    BY <1>1, <2>1, InKindIs DEF Kinds
<1>2. CASE k = "mutex" /\ x \in Mutexes /\ t \in ToSet(mutexWaiting[x])
  <2>1. PICK i \in DOMAIN mutexWaiting[x] : mutexWaiting[x][i] = t
    BY <1>2 DEF ToSet
  <2>2. <<x, i>> \in InMutex(t)
    BY <1>2, <2>1, PlacesAre
  <2> QED
    BY <1>2, <2>2, InKindIs DEF Kinds
<1>3. CASE k = "cond" /\ x \in Conds /\ t \in ThreadsOf(condWaiting[x])
  <2>1. PICK i \in DOMAIN condWaiting[x] : condWaiting[x][i].thread = t
    BY <1>3 DEF ThreadsOf
  <2>2. <<x, i>> \in InCond(t)
    BY <1>3, <2>1, PlacesAre
  <2> QED
    BY <1>3, <2>2, InKindIs DEF Kinds
<1>4. CASE k = "barrier" /\ x = None /\ t \in ToSet(barrierWaiting)
  <2>1. PICK i \in DOMAIN barrierWaiting : barrierWaiting[i] = t
    BY <1>4 DEF ToSet
  <2>2. i \in InBarrier(t)
    BY <2>1 DEF InBarrier
  <2> QED
    BY <1>4, <2>2, InKindIs DEF Kinds
<1>5. CASE k = "futex" /\ x \in Futexes /\ t \in ThreadsOf(futexWaiting[x])
  <2>1. PICK i \in DOMAIN futexWaiting[x] : futexWaiting[x][i].thread = t
    BY <1>5 DEF ThreadsOf
  <2>2. <<x, i>> \in InFutex(t)
    BY <1>5, <2>1, PlacesAre
  <2> QED
    BY <1>5, <2>2, InKindIs DEF Kinds
<1>6. CASE k = "sleep" /\ x = None /\ t \in ThreadsOf(sleeping)
  <2>1. PICK i \in DOMAIN sleeping : sleeping[i].thread = t
    BY <1>6 DEF ThreadsOf
  <2>2. i \in InSleep(t)
    BY <2>1 DEF InSleep
  <2> QED
    BY <1>6, <2>2, InKindIs DEF Kinds
<1> QED
  BY <1>1, <1>2, <1>3, <1>4, <1>5, <1>6 DEF Sits

\* Two places of one kind are two seats, or one queue that holds t twice.
LEMMA PlaceHasSeat ==
  ASSUME QueuesDistinct, NEW t, NEW k \in Kinds, NEW a \in InKind(t, k)
  PROVE  \E x : /\ Sits(t, k, x)
                /\ \A b \in InKind(t, k) : (\A y : Sits(t, k, y) => y = x) => a = b
<1>1. CASE k = "join"
  <2>1. \A b : b \in InKind(t, k) => Sits(t, k, b)
    BY <1>1, InKindIs DEF InJoin, Sits
  <2> QED
    BY <2>1
<1>2. CASE k = "mutex"
  <2>0. \A e : e \in InKind(t, k) <=> \E m \in Mutexes : \E i \in DOMAIN mutexWaiting[m] :
                                        e = <<m, i>> /\ mutexWaiting[m][i] = t
    BY <1>2, InKindIs, PlacesAre
  <2>a. PICK m \in Mutexes : \E i \in DOMAIN mutexWaiting[m] : a = <<m, i>> /\ mutexWaiting[m][i] = t
    BY <2>0
  <2>1. PICK i \in DOMAIN mutexWaiting[m] : a = <<m, i>> /\ mutexWaiting[m][i] = t
    BY <2>a
  <2>2. Sits(t, k, m)
    BY <1>2, <2>1 DEF Sits, ToSet
  <2>3. ASSUME NEW b \in InKind(t, k), \A y : Sits(t, k, y) => y = m PROVE a = b
    <3>a. PICK n \in Mutexes : \E j \in DOMAIN mutexWaiting[n] : b = <<n, j>> /\ mutexWaiting[n][j] = t
      BY <2>0
    <3>1. PICK j \in DOMAIN mutexWaiting[n] : b = <<n, j>> /\ mutexWaiting[n][j] = t
      BY <3>a
    <3>2. Sits(t, k, n)
      BY <1>2, <3>1 DEF Sits, ToSet
    <3>3. n = m
      BY <2>3, <3>2
    <3>4. i = j
      BY <2>1, <3>1, <3>3 DEF QueuesDistinct, Distinct
    <3> QED
      BY <2>1, <3>1, <3>3, <3>4
  <2> QED
    BY <2>2, <2>3
<1>3. CASE k = "cond"
  <2>0. \A e : e \in InKind(t, k) <=> \E m \in Conds : \E i \in DOMAIN condWaiting[m] :
                                        e = <<m, i>> /\ condWaiting[m][i].thread = t
    BY <1>3, InKindIs, PlacesAre
  <2>a. PICK m \in Conds : \E i \in DOMAIN condWaiting[m] : a = <<m, i>> /\ condWaiting[m][i].thread = t
    BY <2>0
  <2>1. PICK i \in DOMAIN condWaiting[m] : a = <<m, i>> /\ condWaiting[m][i].thread = t
    BY <2>a
  <2>2. Sits(t, k, m)
    BY <1>3, <2>1 DEF Sits, ThreadsOf
  <2>3. ASSUME NEW b \in InKind(t, k), \A y : Sits(t, k, y) => y = m PROVE a = b
    <3>a. PICK n \in Conds : \E j \in DOMAIN condWaiting[n] : b = <<n, j>> /\ condWaiting[n][j].thread = t
      BY <2>0
    <3>1. PICK j \in DOMAIN condWaiting[n] : b = <<n, j>> /\ condWaiting[n][j].thread = t
      BY <3>a
    <3>2. Sits(t, k, n)
      BY <1>3, <3>1 DEF Sits, ThreadsOf
    <3>3. n = m
      BY <2>3, <3>2
    <3>4. i = j
      BY <2>1, <3>1, <3>3 DEF QueuesDistinct, DistinctEach
    <3> QED
      BY <2>1, <3>1, <3>3, <3>4
  <2> QED
    BY <2>2, <2>3
<1>4. CASE k = "barrier"
  <2>1. \A e : e \in InKind(t, k) <=> e \in DOMAIN barrierWaiting /\ barrierWaiting[e] = t
    BY <1>4, InKindIs DEF InBarrier
  <2>2. Sits(t, k, None)
    BY <1>4, <2>1 DEF Sits, ToSet
  <2> QED
    BY <2>1, <2>2 DEF QueuesDistinct, Distinct
<1>5. CASE k = "futex"
  <2>0. \A e : e \in InKind(t, k) <=> \E m \in Futexes : \E i \in DOMAIN futexWaiting[m] :
                                        e = <<m, i>> /\ futexWaiting[m][i].thread = t
    BY <1>5, InKindIs, PlacesAre
  <2>a. PICK m \in Futexes : \E i \in DOMAIN futexWaiting[m] : a = <<m, i>> /\ futexWaiting[m][i].thread = t
    BY <2>0
  <2>1. PICK i \in DOMAIN futexWaiting[m] : a = <<m, i>> /\ futexWaiting[m][i].thread = t
    BY <2>a
  <2>2. Sits(t, k, m)
    BY <1>5, <2>1 DEF Sits, ThreadsOf
  <2>3. ASSUME NEW b \in InKind(t, k), \A y : Sits(t, k, y) => y = m PROVE a = b
    <3>a. PICK n \in Futexes : \E j \in DOMAIN futexWaiting[n] : b = <<n, j>> /\ futexWaiting[n][j].thread = t
      BY <2>0
    <3>1. PICK j \in DOMAIN futexWaiting[n] : b = <<n, j>> /\ futexWaiting[n][j].thread = t
      BY <3>a
    <3>2. Sits(t, k, n)
      BY <1>5, <3>1 DEF Sits, ThreadsOf
    <3>3. n = m
      BY <2>3, <3>2
    <3>4. i = j
      BY <2>1, <3>1, <3>3 DEF QueuesDistinct, DistinctEach
    <3> QED
      BY <2>1, <3>1, <3>3, <3>4
  <2> QED
    BY <2>2, <2>3
<1>6. CASE k = "sleep"
  <2>1. \A e : e \in InKind(t, k) <=> e \in DOMAIN sleeping /\ sleeping[e].thread = t
    BY <1>6, InKindIs DEF InSleep
  <2>2. Sits(t, k, None)
    BY <1>6, <2>1 DEF Sits, ThreadsOf
  <2> QED
    BY <2>1, <2>2 DEF QueuesDistinct, DistinctEach
<1> QED
  BY <1>1, <1>2, <1>3, <1>4, <1>5, <1>6 DEF Kinds

LEMMA SeatCounts ==
  ASSUME QueuesDistinct, NEW t, NEW k \in Kinds
  PROVE  /\ (\A x : ~Sits(t, k, x)) => Cardinality(InKind(t, k)) = 0
         /\ \A x : Only(t, k, x) => Cardinality(InKind(t, k)) = 1
<1> PICK S : S = InKind(t, k)
  OBVIOUS
<1>1. ASSUME \A x : ~Sits(t, k, x) PROVE Cardinality(S) = 0
  <2>1. S = {}
    BY <1>1, PlaceHasSeat
  <2> QED
    BY <2>1, FS_EmptySet
<1>2. ASSUME NEW x, Only(t, k, x) PROVE Cardinality(S) = 1
  <2>1. S # {}
    BY <1>2, SeatHasPlace DEF Only
  <2>2. PICK a : a \in S
    BY <2>1
  <2>3. \A y : Sits(t, k, y) => y = x
    BY <1>2 DEF Only
  <2>4. \A b \in S : a = b
    BY <2>2, <2>3, PlaceHasSeat
  <2>5. S = {a}
    BY <2>2, <2>4
  <2> QED
    BY <2>5, FS_Singleton
<1> QED
  BY <1>1, <1>2

LEMMA QueuedOnceHolds ==
  ASSUME EInv
  PROVE  QueuedOnce
<1> SUFFICES ASSUME NEW t \in Threads
             PROVE  IF Queues(t) THEN Places(t, reason[t]) = 1 /\ AllPlaces(t) = 1
                                 ELSE AllPlaces(t) = 0
  BY DEF QueuedOnce, Queues
<1>1. QueuesDistinct /\ Seated(t)
  BY EInvFacts DEF Sound
<1> DEFINE Count(k) == Cardinality(InKind(t, k))
<1>2. /\ AllPlaces(t) = Count("join") + Count("mutex") + Count("cond") + Count("barrier")
                        + Count("futex") + Count("sleep")
      /\ Places(t, "join") = Count("join") /\ Places(t, "mutex") = Count("mutex")
      /\ Places(t, "cond") = Count("cond") + Count("mutex")
      /\ Places(t, "barrier") = Count("barrier") /\ Places(t, "futex") = Count("futex")
      /\ Places(t, "sleep") = Count("sleep")
  BY InKindIs DEF AllPlaces, Places
<1> HIDE DEF Count
<1>3. CASE ~Queues(t)
  <2>1. \A k, x : ~Sits(t, k, x)
    BY <1>1, <1>3 DEF Seated, Nowhere
  <2>2. \A k \in Kinds : Count(k) = 0
    BY <1>1, <2>1, SeatCounts DEF Count
  <2>3. /\ Count("join") = 0 /\ Count("mutex") = 0 /\ Count("cond") = 0
        /\ Count("barrier") = 0 /\ Count("futex") = 0 /\ Count("sleep") = 0
    BY <2>2 DEF Kinds
  <2> QED
    BY <1>2, <1>3, <2>3
<1>4. CASE Queues(t)
  <2>1. PICK k, x : Fits(reason[t], k) /\ Only(t, k, x)
    BY <1>1, <1>4 DEF Seated
  <2>2. k \in Kinds
    BY <2>1, SeatHasPlace DEF Only
  <2>3. Count(k) = 1
    BY <1>1, <2>1, <2>2, SeatCounts DEF Count
  <2>4. ASSUME NEW l \in Kinds, l # k PROVE Count(l) = 0
    <3>1. \A y : ~Sits(t, l, y)
      BY <2>1, <2>4 DEF Only
    <3> QED
      BY <1>1, <3>1, SeatCounts DEF Count
  <2>5. /\ "join" \in Kinds /\ "mutex" \in Kinds /\ "cond" \in Kinds
        /\ "barrier" \in Kinds /\ "futex" \in Kinds /\ "sleep" \in Kinds
    BY DEF Kinds
  <2>6. AllPlaces(t) = 1
    BY <1>2, <2>2, <2>3, <2>4, <2>5 DEF Kinds
  <2>7. Places(t, reason[t]) = 1
    <3>1. CASE reason[t] = k
      BY <1>2, <2>2, <2>3, <2>4, <2>5, <3>1 DEF Kinds
    <3>2. CASE reason[t] = "cond" /\ k = "mutex"
      BY <1>2, <2>3, <2>4, <2>5, <3>2
    <3> QED
      BY <2>1, <3>1, <3>2 DEF Fits
  <2> QED
    BY <1>4, <2>6, <2>7
<1> QED
  BY <1>3, <1>4

LEMMA HostsAgreeHolds ==
  ASSUME EInv
  PROVE  HostsAgree
  BY EInvFacts DEF HostsAgree, Sound, HostKnown, Queues

LEMMA EInvTypeOK ==
  ASSUME EInv
  PROVE  TypeOK
  BY DEF EInv

-----------------------------------------------------------------------------
(***************************************************************************)
(* What the synchronisation server keeps needs no word about the threads.  *)
(***************************************************************************)
Served == SyncTypeOK /\ PrimitivesServed

LEMMA ServedUnlocked ==
  ASSUME SyncTypeOK, MutexesHandedOver, NEW m \in Mutexes, Unlocked(m)
  PROVE  /\ owner' \in [Mutexes -> Threads \union {None}]
         /\ mutexWaiting' \in [Mutexes -> Seq(Threads)]
         /\ MutexesHandedOver'
<1> DEFINE q == mutexWaiting[m]
<1>1. /\ owner \in [Mutexes -> Threads \union {None}] /\ mutexWaiting \in [Mutexes -> Seq(Threads)]
      /\ q \in Seq(Threads)
  BY DEF SyncTypeOK
<1>2. PICK h, r : h = HandedTo(m) /\ r = IF q = <<>> THEN q ELSE Tail(q)
  OBVIOUS
<1>3. owner' = [owner EXCEPT ![m] = h] /\ mutexWaiting' = [mutexWaiting EXCEPT ![m] = r]
  BY <1>2 DEF Unlocked
<1>4. h \in Threads \union {None} /\ r \in Seq(Threads) /\ (r # <<>> => h # None)
  <2>1. CASE q = <<>>
    BY <1>1, <1>2, <2>1 DEF HandedTo
  <2>2. CASE q # <<>>
    <3>1. h = Head(q) /\ r = Tail(q)
      BY <1>2, <2>2 DEF HandedTo
    <3>2. Head(q) \in Threads /\ Tail(q) \in Seq(Threads)
      BY <1>1, <2>2
    <3> QED
      BY <3>1, <3>2, MainAssumption
  <2> QED
    BY <2>1, <2>2
<1> HIDE DEF q
<1>5. /\ owner' \in [Mutexes -> Threads \union {None}] /\ mutexWaiting' \in [Mutexes -> Seq(Threads)]
      /\ owner'[m] = h /\ mutexWaiting'[m] = r
      /\ \A n \in Mutexes : n # m => owner'[n] = owner[n] /\ mutexWaiting'[n] = mutexWaiting[n]
  BY <1>1, <1>3, <1>4
<1> QED
  BY <1>4, <1>5 DEF MutexesHandedOver

LEMMA ServedLockAsync ==
  ASSUME SyncTypeOK, MutexesHandedOver, NEW woken \in Seq(CondWaiter), LockAsync(woken)
  PROVE  /\ owner' \in [Mutexes -> Threads \union {None}]
         /\ mutexWaiting' \in [Mutexes -> Seq(Threads)]
         /\ MutexesHandedOver'
<1> DEFINE On(m) == OnMutex(woken, m)
           granted == {m \in Mutexes : owner[m] = None /\ On(m) # <<>>}
<1>1. owner \in [Mutexes -> Threads \union {None}] /\ mutexWaiting \in [Mutexes -> Seq(Threads)]
  BY DEF SyncTypeOK
<1>2. /\ owner' = [m \in Mutexes |-> IF m \in granted THEN Head(On(m)) ELSE owner[m]]
      /\ mutexWaiting' = [m \in Mutexes |-> mutexWaiting[m] \o
                            IF m \in granted THEN Tail(On(m)) ELSE On(m)]
  BY DEF LockAsync
<1>3. \A m : On(m) \in Seq(Threads)
  BY OnMutexFacts
<1>4. \A m : m \in granted <=> m \in Mutexes /\ owner[m] = None /\ On(m) # <<>>
  OBVIOUS
<1> HIDE DEF On, granted
<1>5. ASSUME NEW m \in Mutexes
      PROVE  /\ owner'[m] \in Threads \union {None} /\ mutexWaiting'[m] \in Seq(Threads)
             /\ mutexWaiting'[m] # <<>> => owner'[m] # None
  <2>1. On(m) \in Seq(Threads) /\ mutexWaiting[m] \in Seq(Threads)
    BY <1>1, <1>3
  <2>2. CASE m \in granted
    <3>1. owner'[m] = Head(On(m)) /\ mutexWaiting'[m] = mutexWaiting[m] \o Tail(On(m))
      BY <1>2, <2>2
    <3>2. On(m) # <<>>
      BY <1>4, <2>2
    <3>3. Head(On(m)) \in Threads /\ Tail(On(m)) \in Seq(Threads)
      BY <2>1, <3>2
    <3>4. mutexWaiting[m] \o Tail(On(m)) \in Seq(Threads)
      BY <2>1, <3>3
    <3> QED
      BY <3>1, <3>3, <3>4, MainAssumption
  <2>3. CASE m \notin granted
    <3>1. owner'[m] = owner[m] /\ mutexWaiting'[m] = mutexWaiting[m] \o On(m)
      BY <1>2, <2>3
    <3>2. mutexWaiting[m] \o On(m) \in Seq(Threads)
      BY <2>1
    <3>3. On(m) = <<>> => mutexWaiting[m] \o On(m) = mutexWaiting[m]
      BY <2>1
    <3>4. owner[m] # None \/ On(m) = <<>>
      BY <1>4, <2>3
    <3> QED
      BY <1>1, <3>1, <3>2, <3>3, <3>4 DEF MutexesHandedOver
  <2> QED
    BY <2>2, <2>3
<1>6. owner' \in [Mutexes -> Threads \union {None}]
  <2>1. owner' = [m \in Mutexes |-> owner'[m]]
    BY <1>2
  <2> QED
    BY <1>5, <2>1
<1>7. mutexWaiting' \in [Mutexes -> Seq(Threads)]
  <2>1. mutexWaiting' = [m \in Mutexes |-> mutexWaiting'[m]]
    BY <1>2
  <2> QED
    BY <1>5, <2>1
<1> QED
  BY <1>5, <1>6, <1>7 DEF MutexesHandedOver

LEMMA ServedLock ==
  ASSUME SyncTypeOK, MutexesHandedOver, NEW t \in Threads, NEW m \in Mutexes, lock(t, m)
  PROVE  SyncTypeOK' /\ MutexesHandedOver' /\ barrierWaiting' = barrierWaiting
<1>1. /\ owner \in [Mutexes -> Threads \union {None}] /\ mutexWaiting \in [Mutexes -> Seq(Threads)]
      /\ UNCHANGED <<condWaiting, barrierWaiting>>
  BY DEF SyncTypeOK, lock
<1>2. CASE owner' = [owner EXCEPT ![m] = t] /\ UNCHANGED mutexWaiting
  BY <1>1, <1>2, MainAssumption DEF SyncTypeOK, MutexesHandedOver
<1>3. CASE owner[m] # None /\ mutexWaiting' = [mutexWaiting EXCEPT ![m] = Append(@, t)] /\ UNCHANGED owner
  <2>1. Append(mutexWaiting[m], t) \in Seq(Threads)
    BY <1>1
  <2> QED
    BY <1>1, <1>3, <2>1 DEF SyncTypeOK, MutexesHandedOver
<1> QED
  BY <1>2, <1>3 DEF lock

LEMMA ServedCond ==
  ASSUME SyncTypeOK, MutexesHandedOver, NEW t \in Threads, NEW c \in Conds,
         condSignal(t, c) \/ condBroadcast(t, c)
  PROVE  SyncTypeOK' /\ MutexesHandedOver' /\ barrierWaiting' = barrierWaiting
<1> PICK q : q = condWaiting[c]
  OBVIOUS
<1>1. condWaiting \in [Conds -> Seq(CondWaiter)] /\ q \in Seq(CondWaiter) /\ barrierWaiting \in Seq(Threads)
  BY DEF SyncTypeOK
<1>2. barrierWaiting' = barrierWaiting
  BY DEF condSignal, condBroadcast
<1>3. \E woken \in Seq(CondWaiter) : LockAsync(woken)
  <2>1. CASE condSignal(t, c)
    <3>1. LockAsync(IF q = <<>> THEN <<>> ELSE <<Head(q)>>)
      BY <2>1 DEF condSignal
    <3>2. (IF q = <<>> THEN <<>> ELSE <<Head(q)>>) \in Seq(CondWaiter)
      BY <1>1
    <3> QED
      BY <3>1, <3>2
  <2>2. CASE condBroadcast(t, c)
    BY <1>1, <2>2 DEF condBroadcast
  <2> QED
    BY <2>1, <2>2
<1>4. /\ owner' \in [Mutexes -> Threads \union {None}]
      /\ mutexWaiting' \in [Mutexes -> Seq(Threads)] /\ MutexesHandedOver'
  BY <1>3, ServedLockAsync
<1>5. \E r \in Seq(CondWaiter) : condWaiting' = [condWaiting EXCEPT ![c] = r]
  <2>1. CASE condSignal(t, c)
    <3>1. condWaiting' = [condWaiting EXCEPT ![c] = IF q = <<>> THEN q ELSE Tail(q)]
      BY <2>1 DEF condSignal
    <3>2. (IF q = <<>> THEN q ELSE Tail(q)) \in Seq(CondWaiter)
      BY <1>1
    <3> QED
      BY <3>1, <3>2
  <2>2. CASE condBroadcast(t, c)
    <3>1. condWaiting' = [condWaiting EXCEPT ![c] = <<>>]
      BY <2>2 DEF condBroadcast
    <3>2. <<>> \in Seq(CondWaiter)
      OBVIOUS
    <3> QED
      BY <3>1, <3>2
  <2> QED
    BY <2>1, <2>2
<1>6. condWaiting' \in [Conds -> Seq(CondWaiter)]
  BY <1>1, <1>5
<1> QED
  BY <1>1, <1>2, <1>4, <1>6 DEF SyncTypeOK

LEMMA ServedCondWait ==
  ASSUME SyncTypeOK, MutexesHandedOver, NEW t \in Threads, NEW c \in Conds, NEW m \in Mutexes,
         condWait(t, c, m)
  PROVE  SyncTypeOK' /\ MutexesHandedOver' /\ barrierWaiting' = barrierWaiting
<1>1. /\ Unlocked(m) /\ barrierWaiting' = barrierWaiting
      /\ condWaiting' = [condWaiting EXCEPT ![c] = Append(@, [thread |-> t, mutex |-> m])]
  BY DEF condWait
<1>2. condWaiting \in [Conds -> Seq(CondWaiter)] /\ barrierWaiting \in Seq(Threads)
  BY DEF SyncTypeOK
<1>3. /\ owner' \in [Mutexes -> Threads \union {None}]
      /\ mutexWaiting' \in [Mutexes -> Seq(Threads)] /\ MutexesHandedOver'
  BY <1>1, ServedUnlocked
<1>4. [thread |-> t, mutex |-> m] \in CondWaiter
  BY DEF CondWaiter
<1>5. Append(condWaiting[c], [thread |-> t, mutex |-> m]) \in Seq(CondWaiter)
  BY <1>2, <1>4
<1>6. condWaiting' \in [Conds -> Seq(CondWaiter)]
  BY <1>1, <1>2, <1>5
<1> QED
  BY <1>1, <1>2, <1>3, <1>6 DEF SyncTypeOK

LEMMA ServedBarrier ==
  ASSUME SyncTypeOK, BarrierOpens, NEW t \in Threads, barrierWait(t)
  PROVE  SyncTypeOK' /\ BarrierOpens' /\ UNCHANGED <<owner, mutexWaiting>>
<1>1. UNCHANGED <<owner, mutexWaiting, condWaiting>> /\ barrierWaiting \in Seq(Threads)
  BY DEF barrierWait, SyncTypeOK
<1>2. CASE barrierWaiting' = <<>>
  BY <1>1, <1>2, BarrierAssumption DEF SyncTypeOK, BarrierOpens
<1>3. CASE ~LastToArrive /\ barrierWaiting' = Append(barrierWaiting, t)
  <2>1. barrierWaiting' \in Seq(Threads) /\ Len(barrierWaiting') = Len(barrierWaiting) + 1
    BY <1>1, <1>3
  <2>2. Len(barrierWaiting) \in Nat
    BY <1>1
  <2>3. Len(barrierWaiting') < BarrierCount
    BY <1>1, <1>3, <2>1, <2>2, BarrierAssumption DEF BarrierOpens, LastToArrive
  <2>4. SyncTypeOK'
    BY <1>1, <2>1 DEF SyncTypeOK
  <2> QED
    BY <1>1, <2>3, <2>4 DEF BarrierOpens
<1> QED
  BY <1>2, <1>3 DEF barrierWait

LEMMA ServedInit == Init => Served
  BY BarrierAssumption DEF Init, SyncInit, Served, SyncTypeOK, PrimitivesServed, MutexesHandedOver, BarrierOpens

LEMMA ServedStep ==
  ASSUME Served, [Next]_vars
  PROVE  Served'
<1>1. SyncTypeOK /\ MutexesHandedOver /\ BarrierOpens
  BY DEF Served, PrimitivesServed
<1>2. CASE UNCHANGED syncVars
  BY <1>2 DEF Served, SyncTypeOK, PrimitivesServed, MutexesHandedOver, BarrierOpens, syncVars
<1>3. ASSUME SyncTypeOK', MutexesHandedOver', barrierWaiting' = barrierWaiting PROVE Served'
  BY <1>1, <1>3 DEF Served, PrimitivesServed, BarrierOpens
<1>4. ASSUME NEW t \in Threads, SyncCall(t) PROVE Served'
  <2>1. ASSUME NEW m \in Mutexes, lock(t, m) PROVE Served'
    BY <1>1, <1>3, <2>1, ServedLock
  <2>2. ASSUME NEW m \in Mutexes, mutexTrylock(t, m) PROVE Served'
    <3>1. lock(t, m) \/ UNCHANGED syncVars
      BY <2>2 DEF mutexTrylock
    <3> QED
      BY <1>2, <2>1, <3>1
  <2>3. ASSUME NEW m \in Mutexes, mutexUnlock(t, m) PROVE Served'
    <3>1. Unlocked(m) /\ UNCHANGED <<condWaiting, barrierWaiting>>
      BY <2>3 DEF mutexUnlock
    <3>2. /\ owner' \in [Mutexes -> Threads \union {None}]
          /\ mutexWaiting' \in [Mutexes -> Seq(Threads)] /\ MutexesHandedOver'
      BY <1>1, <3>1, ServedUnlocked
    <3>3. SyncTypeOK'
      BY <1>1, <3>1, <3>2 DEF SyncTypeOK
    <3> QED
      BY <1>3, <3>1, <3>2, <3>3
  <2>4. ASSUME NEW c \in Conds, condSignal(t, c) \/ condBroadcast(t, c) PROVE Served'
    BY <1>1, <1>3, <2>4, ServedCond
  <2>5. ASSUME NEW c \in Conds, NEW m \in Mutexes, condWait(t, c, m) PROVE Served'
    BY <1>1, <1>3, <2>5, ServedCondWait
  <2>6. CASE barrierWait(t)
    <3>1. SyncTypeOK' /\ BarrierOpens' /\ UNCHANGED <<owner, mutexWaiting>>
      BY <1>1, <2>6, ServedBarrier
    <3> QED
      BY <1>1, <3>1 DEF Served, PrimitivesServed, MutexesHandedOver
  <2> QED
    BY <1>4, <2>1, <2>2, <2>3, <2>4, <2>5, <2>6 DEF SyncCall
<1>5. (\E t \in Threads : SyncCall(t)) \/ UNCHANGED syncVars
  BY DEF Next, Begin, Finish, Return, Tick, Advance, vars
<1> QED
  BY <1>2, <1>4, <1>5
-----------------------------------------------------------------------------
(***************************************************************************)
(* The theorems.  A thread that is joined before it has started loses its  *)
(* signal, or gets one too many (see onThreadStart()): the first three are *)
(* about applications that do not do that.                                 *)
(***************************************************************************)
\* The types of all variables, of whatever length the queues.
THEOREM EmulationTypes == ASSUME JoinsUnstarted = FALSE PROVE Spec => []TypeOK
<1>1. EInv /\ [Next]_vars => EInv'
  BY EInvStep
<1>2. EInv => TypeOK
  BY EInvTypeOK
<1> QED
  BY EInvInit, <1>1, <1>2, PTL DEF Spec

\* Every thread that stallThread() stopped is in one queue, once, of the kind it
\* stopped for, and nobody else is in a queue: exactly one resumeThread() is to
\* come for it, and none comes for a thread that goes on.
THEOREM EmulationQueuedOnce == ASSUME JoinsUnstarted = FALSE PROVE Spec => []QueuedOnce
<1>1. EInv /\ [Next]_vars => EInv'
  BY EInvStep
<1>2. EInv => QueuedOnce
  BY QueuedOnceHolds
<1> QED
  BY EInvInit, <1>1, <1>2, PTL DEF Spec

\* A host thread executes the application only while the thread manager has its
\* thread running, and sleeps, or is in the host, only while it has it stalled:
\* no signal of resumeThread() is lost and none comes too many.
THEOREM EmulationHostsAgree == ASSUME JoinsUnstarted = FALSE PROVE Spec => []HostsAgree
<1>1. EInv /\ [Next]_vars => EInv'
  BY EInvStep
<1>2. EInv => HostsAgree
  BY HostsAgreeHolds
<1> QED
  BY EInvInit, <1>1, <1>2, PTL DEF Spec

\* SimMutex and SimBarrier: nobody queues for a mutex without an owner, whatever
\* unlock(), signal() and broadcast() hand over, and the barrier never holds the
\* count that opens it.
THEOREM EmulationPrimitivesServed == Spec => []PrimitivesServed
<1>1. Served /\ [Next]_vars => Served'
  BY ServedStep
<1>2. Served => PrimitivesServed
  BY DEF Served
<1> QED
  BY ServedInit, <1>1, <1>2, PTL DEF Spec
=============================================================================
