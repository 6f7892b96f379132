---------------------------- MODULE TraceProofs ----------------------------
(***************************************************************************)
(* The trace front end.  The counts of the trace manager are right and the *)
(* simulation ends, for any number of applications and threads             *)
(* (TraceManager): the inductive invariant TrInv, that TrNext keeps it,    *)
(* and ApplicationsEnd from it.  And a trace is accounted for, whatever it *)
(* contains (TraceThread): BlocksInv, and TraceAccounted from it.          *)
(*                                                                         *)
(* The first part follows the operations of the manager on its state,      *)
(* TrSet, as functions of it: what newThread(), stop(), signalDone() and   *)
(* createApplication() change, and that they keep the counts (Counted).    *)
(* The second part adds who may be signalled, by whom (Ending), and the    *)
(* third goes through the steps.  Then come the table of a trace thread,   *)
(* which the shuffle makes a permutation, the addresses made up with it,   *)
(* the accesses of an instruction, and the reconstruction of basic blocks. *)
(***************************************************************************)
EXTENDS TraceManager, TraceThread, FiniteSetTheorems, WellFoundedInduction, TLAPS

\* An element of m_threads and of m_app_info, and what the operations change.
ThreadInfo == [app : Nat, stop : BOOLEAN, stopped : BOOLEAN, at : Nat, len : Nat, pc : TrPcs]
AppInfo == [num : Int, count : Int, runs : Nat]
AppList == Seq(AppInfo)
ThreadList == Seq(ThreadInfo)
TrState == [apps : AppList, nonfinish : Int, threads : ThreadList,
            running : Int, done : Nat, crashed : BOOLEAN]

LiveIn(s) == {i \in DOMAIN s.threads : ~s.threads[i].stopped}
LiveOf(s, a) == {i \in LiveIn(s) : s.threads[i].app = a}
Unfinished(s) == {a \in DOMAIN s.apps : s.apps[a].runs = 0}

\* The counts are right, but for k in m_num_threads_running: signalDone()
\* decrements it last.
Counted(s, k) ==
  /\ s \in TrState
  /\ \A i \in DOMAIN s.threads : s.threads[i].app \in DOMAIN s.apps
  /\ s.running = Cardinality(LiveIn(s)) + k
  /\ \A a \in DOMAIN s.apps : s.apps[a].num = Cardinality(LiveOf(s, a))
  /\ s.nonfinish = Cardinality(Unfinished(s))
-----------------------------------------------------------------------------
\* What is counted is a set of positions of a sequence.
Countable(S) ==
  /\ Cardinality(S) \in Nat
  /\ \A x \in S : Cardinality(S \ {x}) = Cardinality(S) - 1
  /\ \A x : x \notin S => Cardinality(S \union {x}) = Cardinality(S) + 1
  /\ Cardinality(S) = 0 <=> S = {}

LEMMA Counting == ASSUME NEW N \in Nat, NEW S \in SUBSET (1 .. N) PROVE Countable(S)
<1>1. IsFiniteSet(1 .. N) BY FS_Interval
<1>2. IsFiniteSet(S) BY <1>1, FS_Subset
<1>3. \A x \in S : Cardinality(S \ {x}) = Cardinality(S) - 1 BY <1>2, FS_RemoveElement
<1>4. \A x : x \notin S => Cardinality(S \union {x}) = Cardinality(S) + 1 BY <1>2, FS_AddElement
<1> QED BY <1>2, <1>3, <1>4, FS_CardinalityType, FS_EmptySet DEF Countable

\* A sequence whose element is replaced by another of the set.
LEMMA SeqPut ==
  ASSUME NEW S, NEW q \in Seq(S), NEW i \in DOMAIN q, NEW x \in S
  PROVE  /\ [q EXCEPT ![i] = x] \in Seq(S)
         /\ DOMAIN [q EXCEPT ![i] = x] = DOMAIN q
         /\ q[i] \in S
<1>1. PICK n \in Nat : q \in [1 .. n -> S] BY DEF Seq
<1> QED BY <1>1 DEF Seq

\* What is counted in a state is finite.
LEMMA CountedSets ==
  ASSUME NEW s \in TrState
  PROVE  /\ Len(s.threads) \in Nat /\ DOMAIN s.threads = 1 .. Len(s.threads)
         /\ Len(s.apps) \in Nat /\ DOMAIN s.apps = 1 .. Len(s.apps)
         /\ \A i \in DOMAIN s.threads : s.threads[i] \in ThreadInfo
         /\ \A a \in DOMAIN s.apps : s.apps[a] \in AppInfo
         /\ Countable(LiveIn(s)) /\ Countable(Unfinished(s))
         /\ \A a : Countable(LiveOf(s, a))
<1>1. s.threads \in Seq(ThreadInfo) /\ s.apps \in Seq(AppInfo) BY DEF TrState, AppList, ThreadList
<1>2. Len(s.threads) \in Nat /\ DOMAIN s.threads = 1 .. Len(s.threads) BY <1>1
<1>3. Len(s.apps) \in Nat /\ DOMAIN s.apps = 1 .. Len(s.apps) BY <1>1
<1>4. LiveIn(s) \in SUBSET (1 .. Len(s.threads)) BY <1>2 DEF LiveIn
<1>5. ASSUME NEW a PROVE LiveOf(s, a) \in SUBSET (1 .. Len(s.threads)) BY <1>4 DEF LiveOf
<1>6. Unfinished(s) \in SUBSET (1 .. Len(s.apps)) BY <1>3 DEF Unfinished
<1>7. \A i \in DOMAIN s.threads : s.threads[i] \in ThreadInfo BY <1>1, SeqPut
<1>8. \A a \in DOMAIN s.apps : s.apps[a] \in AppInfo BY <1>1, SeqPut
<1>9. Countable(LiveIn(s)) /\ Countable(Unfinished(s)) BY <1>2, <1>3, <1>4, <1>6, Counting
<1>10. ASSUME NEW a PROVE Countable(LiveOf(s, a)) BY <1>2, <1>5, Counting
<1> QED BY <1>2, <1>3, <1>7, <1>8, <1>9, <1>10

\* A step that leaves alone what is counted keeps the counts.
SameCounts(s, r) ==
  /\ DOMAIN r.threads = DOMAIN s.threads /\ DOMAIN r.apps = DOMAIN s.apps
  /\ \A i \in DOMAIN s.threads : r.threads[i].app = s.threads[i].app
                                 /\ r.threads[i].stopped = s.threads[i].stopped
  /\ \A a \in DOMAIN s.apps : r.apps[a].num = s.apps[a].num /\ r.apps[a].runs = s.apps[a].runs
  /\ r.nonfinish = s.nonfinish

LEMMA CountsSame ==
  ASSUME NEW s, NEW k \in Int, Counted(s, k), NEW r \in TrState, SameCounts(s, r), NEW n \in Int,
         r.running = s.running + n
  PROVE  Counted(r, k + n)
<1>1. LiveIn(r) = LiveIn(s) BY DEF LiveIn, SameCounts
<1>2. \A a : LiveOf(r, a) = LiveOf(s, a) BY <1>1 DEF LiveOf, LiveIn, SameCounts
<1>3. Unfinished(r) = Unfinished(s) BY DEF Unfinished, SameCounts
<1>4. Cardinality(LiveIn(s)) \in Nat BY CountedSets DEF Counted, Countable
<1>5. r.running = Cardinality(LiveIn(r)) + (k + n) BY <1>1, <1>4 DEF Counted
<1> QED BY <1>1, <1>2, <1>3, <1>5 DEF Counted, SameCounts

\* A state by its fields.
TrOf(apps, nonfinish, threads, running, done, crashed) ==
  [apps |-> apps, nonfinish |-> nonfinish, threads |-> threads, running |-> running,
   done |-> done, crashed |-> crashed]

LEMMA StateFields ==
  ASSUME NEW s \in TrState
  PROVE  /\ s = TrOf(s.apps, s.nonfinish, s.threads, s.running, s.done, s.crashed)
         /\ s.apps \in AppList /\ s.threads \in ThreadList /\ s.nonfinish \in Int
         /\ s.running \in Int /\ s.done \in Nat /\ s.crashed \in BOOLEAN
BY DEF TrState, TrOf

LEMMA StateOf ==
  ASSUME NEW A, NEW n, NEW T, NEW m, NEW d, NEW c
  PROVE  /\ TrOf(A, n, T, m, d, c).apps = A /\ TrOf(A, n, T, m, d, c).nonfinish = n
         /\ TrOf(A, n, T, m, d, c).threads = T /\ TrOf(A, n, T, m, d, c).running = m
         /\ TrOf(A, n, T, m, d, c).done = d /\ TrOf(A, n, T, m, d, c).crashed = c
         /\ A \in AppList /\ n \in Int /\ T \in ThreadList /\ m \in Int /\ d \in Nat /\ c \in BOOLEAN
              => TrOf(A, n, T, m, d, c) \in TrState
BY DEF TrState, TrOf

\* The changes of stop() and of newThread().
StopPut(s, y, z) == [s EXCEPT !.threads = y, !.done = z]
NewThreadPut(s, x, y, z, w) == [s EXCEPT !.apps = x, !.running = z, !.threads = y, !.crashed = w]

LEMMA StopPutIs ==
  ASSUME NEW s \in TrState, NEW y, NEW z
  PROVE  StopPut(s, y, z) = TrOf(s.apps, s.nonfinish, y, s.running, z, s.crashed)
<1>1. PICK A, n, T, m, d, c :
        /\ s = TrOf(A, n, T, m, d, c)
        /\ s.apps = A /\ s.nonfinish = n /\ s.running = m /\ s.done = d /\ s.crashed = c
  BY StateFields
<1>2. [TrOf(A, n, T, m, d, c) EXCEPT !.threads = y] = TrOf(A, n, y, m, d, c) BY DEF TrOf
<1>3. [TrOf(A, n, y, m, d, c) EXCEPT !.done = z] = TrOf(A, n, y, m, z, c) BY DEF TrOf
<1>4. [s EXCEPT !.threads = y, !.done = z] = TrOf(A, n, y, m, z, c) BY <1>1, <1>2, <1>3
<1> QED BY <1>1, <1>4 DEF StopPut

LEMMA NewThreadPutIs ==
  ASSUME NEW s \in TrState, NEW x, NEW y, NEW z, NEW w
  PROVE  NewThreadPut(s, x, y, z, w) = TrOf(x, s.nonfinish, y, z, s.done, w)
<1>1. PICK A, n, T, m, d, c :
        /\ s = TrOf(A, n, T, m, d, c)
        /\ s.apps = A /\ s.nonfinish = n /\ s.running = m /\ s.done = d /\ s.crashed = c
  BY StateFields
<1>2. [TrOf(A, n, T, m, d, c) EXCEPT !.apps = x] = TrOf(x, n, T, m, d, c) BY DEF TrOf
<1>3. [TrOf(x, n, T, m, d, c) EXCEPT !.running = z] = TrOf(x, n, T, z, d, c) BY DEF TrOf
<1>4. [TrOf(x, n, T, z, d, c) EXCEPT !.threads = y] = TrOf(x, n, y, z, d, c) BY DEF TrOf
<1>5. [TrOf(x, n, y, z, d, c) EXCEPT !.crashed = w] = TrOf(x, n, y, z, d, w) BY DEF TrOf
<1>6. [s EXCEPT !.apps = x, !.running = z, !.threads = y, !.crashed = w] = TrOf(x, n, y, z, d, w)
  BY <1>1, <1>2, <1>3, <1>4, <1>5
<1> QED BY <1>1, <1>6 DEF NewThreadPut

\* signalDone(), first half: thread i is no longer one of its application.
Finish(s, i) == [s EXCEPT !.threads[i].stopped = TRUE, !.apps[s.threads[i].app].num = @ - 1]

Finished(s, i, r) ==
  /\ r \in TrState
  /\ DOMAIN r.threads = DOMAIN s.threads /\ DOMAIN r.apps = DOMAIN s.apps
  /\ \A j \in DOMAIN s.threads :
       /\ r.threads[j].app = s.threads[j].app /\ r.threads[j].stop = s.threads[j].stop
       /\ r.threads[j].at = s.threads[j].at /\ r.threads[j].pc = s.threads[j].pc
       /\ r.threads[j].stopped <=> i = j \/ s.threads[j].stopped
  /\ \A b \in DOMAIN s.apps :
       /\ r.apps[b].num = IF b = s.threads[i].app THEN s.apps[b].num - 1 ELSE s.apps[b].num
       /\ r.apps[b].runs = s.apps[b].runs
  /\ r.running = s.running /\ r.nonfinish = s.nonfinish /\ r.done = s.done /\ r.crashed = s.crashed

LEMMA FinishIs ==
  ASSUME NEW s, NEW k \in Int, Counted(s, k), NEW i \in DOMAIN s.threads
  PROVE  Finished(s, i, Finish(s, i))
<1> DEFINE a == s.threads[i].app
           t == [s.threads[i] EXCEPT !.stopped = TRUE]
           b == [s.apps[a] EXCEPT !.num = @ - 1]
<1>1. /\ s \in TrState
      /\ s.threads \in Seq(ThreadInfo) /\ s.apps \in Seq(AppInfo)
      /\ a \in DOMAIN s.apps
  BY DEF Counted, TrState, AppList, ThreadList
<1>2. s.threads[i] \in ThreadInfo /\ s.apps[a] \in AppInfo BY <1>1, SeqPut
<1>3. t \in ThreadInfo BY <1>2 DEF ThreadInfo
<1>4. b \in AppInfo BY <1>2 DEF AppInfo
<1>5. Finish(s, i) = [s EXCEPT !.threads = [s.threads EXCEPT ![i] = t], !.apps = [s.apps EXCEPT ![a] = b]]
  BY <1>1 DEF Finish
<1> HIDE DEF t, b
<1>6. [s.threads EXCEPT ![i] = t] \in ThreadList /\ DOMAIN [s.threads EXCEPT ![i] = t] = DOMAIN s.threads
  BY <1>1, <1>3, SeqPut DEF AppList, ThreadList
<1>7. [s.apps EXCEPT ![a] = b] \in AppList /\ DOMAIN [s.apps EXCEPT ![a] = b] = DOMAIN s.apps
  BY <1>1, <1>4, SeqPut DEF AppList, ThreadList
<1>8. /\ Finish(s, i) \in TrState
      /\ Finish(s, i).threads = [s.threads EXCEPT ![i] = t]
      /\ Finish(s, i).apps = [s.apps EXCEPT ![a] = b]
      /\ Finish(s, i).running = s.running /\ Finish(s, i).nonfinish = s.nonfinish
      /\ Finish(s, i).done = s.done /\ Finish(s, i).crashed = s.crashed
  BY <1>1, <1>5, <1>6, <1>7 DEF TrState
<1>9. ASSUME NEW j \in DOMAIN s.threads, NEW x, x = [s.threads EXCEPT ![i] = t][j]
      PROVE  /\ x.app = s.threads[j].app /\ x.stop = s.threads[j].stop
             /\ x.at = s.threads[j].at /\ x.pc = s.threads[j].pc
             /\ x.stopped <=> i = j \/ s.threads[j].stopped
  <2>1. s.threads[j] \in ThreadInfo BY <1>1, SeqPut
  <2> QED BY <2>1, <1>9 DEF t, ThreadInfo
<1>10. ASSUME NEW c \in DOMAIN s.apps, NEW x, x = [s.apps EXCEPT ![a] = b][c]
       PROVE  /\ x.num = IF c = a THEN s.apps[c].num - 1 ELSE s.apps[c].num
              /\ x.runs = s.apps[c].runs
  <2>1. s.apps[c] \in AppInfo BY <1>1, SeqPut
  <2> QED BY <2>1, <1>10 DEF b, AppInfo
<1> QED BY <1>6, <1>7, <1>8, <1>9, <1>10 DEF Finished

LEMMA FinishCounts ==
  ASSUME NEW s, NEW k \in Int, Counted(s, k), NEW i \in DOMAIN s.threads, ~s.threads[i].stopped
  PROVE  Counted(Finish(s, i), k + 1)
<1> DEFINE r == Finish(s, i)
           a == s.threads[i].app
<1>0. Finished(s, i, r) BY FinishIs
<1> HIDE DEF r
<1>1. /\ r \in TrState
      /\ DOMAIN r.threads = DOMAIN s.threads /\ DOMAIN r.apps = DOMAIN s.apps
      /\ r.running = s.running /\ r.nonfinish = s.nonfinish
  BY <1>0 DEF Finished
<1>2. \A j \in DOMAIN s.threads : r.threads[j].app = s.threads[j].app
                                  /\ (r.threads[j].stopped <=> i = j \/ s.threads[j].stopped)
  BY <1>0 DEF Finished
<1>3. \A b \in DOMAIN s.apps : /\ r.apps[b].num = (IF b = a THEN s.apps[b].num - 1 ELSE s.apps[b].num)
                               /\ r.apps[b].runs = s.apps[b].runs
  BY <1>0 DEF Finished
<1>4. s \in TrState /\ a \in DOMAIN s.apps BY DEF Counted
<1>5. LiveIn(r) = LiveIn(s) \ {i} BY <1>1, <1>2 DEF LiveIn
<1>6. i \in LiveIn(s) /\ i \in LiveOf(s, a) BY DEF LiveIn, LiveOf
<1>7. Cardinality(LiveIn(r)) = Cardinality(LiveIn(s)) - 1 BY <1>4, <1>5, <1>6, CountedSets DEF Countable
<1>8. \A b \in DOMAIN s.apps : r.apps[b].num = Cardinality(LiveOf(r, b))
  <2> TAKE b \in DOMAIN s.apps
  <2>1. CASE b = a
    <3>1. LiveOf(r, b) = LiveOf(s, b) \ {i} BY <2>1, <1>1, <1>2 DEF LiveOf, LiveIn
    <3>2. Cardinality(LiveOf(r, b)) = Cardinality(LiveOf(s, b)) - 1
      BY <1>4, <1>6, <2>1, <3>1, CountedSets DEF Countable
    <3> QED BY <2>1, <3>2, <1>3 DEF Counted
  <2>2. CASE b # a
    <3>1. LiveOf(r, b) = LiveOf(s, b) BY <2>2, <1>1, <1>2 DEF LiveOf, LiveIn
    <3> QED BY <2>2, <3>1, <1>3 DEF Counted
  <2> QED BY <2>1, <2>2
<1>9. Unfinished(r) = Unfinished(s) BY <1>1, <1>3 DEF Unfinished
<1>10. Cardinality(LiveIn(s)) \in Nat BY <1>4, CountedSets DEF Countable
<1>11. r.running = Cardinality(LiveIn(r)) + (k + 1) BY <1>1, <1>7, <1>10 DEF Counted
<1>12. \A j \in DOMAIN r.threads : r.threads[j].app \in DOMAIN r.apps BY <1>1, <1>2 DEF Counted
<1>13. r.nonfinish = Cardinality(Unfinished(r)) BY <1>1, <1>9 DEF Counted
<1>14. \A b \in DOMAIN r.apps : r.apps[b].num = Cardinality(LiveOf(r, b)) BY <1>1, <1>8
<1> QED BY <1>1, <1>11, <1>12, <1>13, <1>14 DEF Counted, r

\* AppExit(): the application has finished a run.
Ran(s, a) == [s EXCEPT !.apps[a].runs = @ + 1,
                       !.nonfinish = IF s.apps[a].runs = 0 THEN @ - 1 ELSE @]
RanOnce(s, a, r) ==
  /\ r \in TrState
  /\ r.threads = s.threads /\ DOMAIN r.apps = DOMAIN s.apps
  /\ \A b \in DOMAIN s.apps :
       /\ r.apps[b].num = s.apps[b].num
       /\ r.apps[b].runs = IF b = a THEN s.apps[b].runs + 1 ELSE s.apps[b].runs
  /\ r.nonfinish = IF s.apps[a].runs = 0 THEN s.nonfinish - 1 ELSE s.nonfinish
  /\ r.running = s.running /\ r.done = s.done /\ r.crashed = s.crashed

LEMMA RanIs == ASSUME NEW s \in TrState, NEW a \in DOMAIN s.apps PROVE RanOnce(s, a, Ran(s, a))
<1> DEFINE b == [s.apps[a] EXCEPT !.runs = @ + 1]
           n == IF s.apps[a].runs = 0 THEN s.nonfinish - 1 ELSE s.nonfinish
<1>1. s.apps \in Seq(AppInfo) BY DEF TrState, AppList
<1>2. s.apps[a] \in AppInfo BY CountedSets
<1>3. b \in AppInfo BY <1>2 DEF AppInfo
<1>4. n \in Int BY DEF TrState
<1>5. Ran(s, a) = [s EXCEPT !.apps = [s.apps EXCEPT ![a] = b], !.nonfinish = n]
  BY DEF Ran, TrState
<1> HIDE DEF b
<1>6. [s.apps EXCEPT ![a] = b] \in AppList /\ DOMAIN [s.apps EXCEPT ![a] = b] = DOMAIN s.apps
  BY <1>1, <1>3, SeqPut DEF AppList, ThreadList
<1>7. ASSUME NEW c \in DOMAIN s.apps, NEW x, x = [s.apps EXCEPT ![a] = b][c]
      PROVE  /\ x.num = s.apps[c].num
             /\ x.runs = IF c = a THEN s.apps[c].runs + 1 ELSE s.apps[c].runs
  <2>1. s.apps[c] \in AppInfo BY CountedSets
  <2> QED BY <2>1, <1>7 DEF b, AppInfo
<1> HIDE DEF n
<1>8. /\ Ran(s, a) \in TrState
      /\ Ran(s, a).apps = [s.apps EXCEPT ![a] = b]
      /\ Ran(s, a).nonfinish = n /\ Ran(s, a).threads = s.threads
      /\ Ran(s, a).running = s.running /\ Ran(s, a).done = s.done /\ Ran(s, a).crashed = s.crashed
  BY <1>4, <1>5, <1>6 DEF TrState
<1> QED BY <1>6, <1>7, <1>8 DEF RanOnce, n

LEMMA RanCounts ==
  ASSUME NEW s, NEW k \in Int, Counted(s, k), NEW a \in DOMAIN s.apps
  PROVE  Counted(Ran(s, a), k)
<1> DEFINE r == Ran(s, a)
<1>1. s \in TrState BY DEF Counted
<1>2. RanOnce(s, a, r) BY <1>1, RanIs
<1> HIDE DEF r
<1>3. r.threads = s.threads /\ DOMAIN r.apps = DOMAIN s.apps /\ r \in TrState /\ r.running = s.running
      /\ \A b \in DOMAIN s.apps : r.apps[b].num = s.apps[b].num
  BY <1>2 DEF RanOnce
<1>4. LiveIn(r) = LiveIn(s) BY <1>3 DEF LiveIn
<1>5. \A b : LiveOf(r, b) = LiveOf(s, b) BY <1>3, <1>4 DEF LiveOf
<1>6. s.apps[a].runs \in Nat /\ Countable(Unfinished(s)) BY <1>1, CountedSets DEF AppInfo
<1>7. Unfinished(r) = Unfinished(s) \ {a} BY <1>2, <1>6, CountedSets DEF Unfinished, RanOnce
<1>8. r.nonfinish = Cardinality(Unfinished(r))
  <2>1. CASE s.apps[a].runs = 0
    <3>1. a \in Unfinished(s) BY <2>1 DEF Unfinished
    <3> QED BY <2>1, <3>1, <1>2, <1>6, <1>7 DEF RanOnce, Counted, Countable
  <2>2. CASE s.apps[a].runs # 0
    <3>1. Unfinished(r) = Unfinished(s) BY <2>2, <1>7 DEF Unfinished
    <3> QED BY <2>2, <3>1, <1>2 DEF RanOnce, Counted
  <2> QED BY <2>1, <2>2
<1> QED BY <1>3, <1>4, <1>5, <1>8 DEF Counted, r

\* stop(): only the threads' m_stop and the signals of m_done change.
Stopped(s, r) ==
  /\ r \in TrState
  /\ r.apps = s.apps /\ r.nonfinish = s.nonfinish /\ r.running = s.running /\ r.crashed = s.crashed
  /\ r.done = s.done + 1
  /\ DOMAIN r.threads = DOMAIN s.threads
  /\ \A i \in DOMAIN s.threads :
       /\ r.threads[i].app = s.threads[i].app /\ r.threads[i].stopped = s.threads[i].stopped
       /\ r.threads[i].at = s.threads[i].at /\ r.threads[i].pc = s.threads[i].pc

LEMMA StopIs == ASSUME NEW s \in TrState PROVE Stopped(s, stop(s))
<1> DEFINE T == [i \in DOMAIN s.threads |-> [s.threads[i] EXCEPT !.stop = TRUE]]
<1>1. s.threads \in Seq(ThreadInfo) /\ DOMAIN s.threads = 1 .. Len(s.threads) /\ Len(s.threads) \in Nat
  BY CountedSets DEF TrState, ThreadList
<1>2. ASSUME NEW i \in DOMAIN s.threads
      PROVE  /\ T[i] \in ThreadInfo
             /\ T[i].app = s.threads[i].app /\ T[i].stopped = s.threads[i].stopped
             /\ T[i].at = s.threads[i].at /\ T[i].pc = s.threads[i].pc
  <2>1. s.threads[i] \in ThreadInfo BY CountedSets
  <2> QED BY <2>1 DEF ThreadInfo
<1>3. stop(s) = TrOf(s.apps, s.nonfinish, T, s.running, s.done + 1, s.crashed)
  <2>1. stop(s) = StopPut(s, T, s.done + 1) BY DEF stop, StopPut
  <2> HIDE DEF T
  <2> QED BY <2>1, StopPutIs
<1>4. DOMAIN T = DOMAIN s.threads OBVIOUS
<1> HIDE DEF T
<1>5. T \in ThreadList
  <2>1. T \in [1 .. Len(s.threads) -> ThreadInfo] BY <1>1, <1>2, <1>4 DEF T
  <2> QED BY <2>1, <1>1 DEF Seq, ThreadList
<1>6. s.done + 1 \in Nat BY StateFields
<1>7. /\ stop(s) \in TrState /\ stop(s).threads = T /\ stop(s).done = s.done + 1
      /\ stop(s).apps = s.apps /\ stop(s).nonfinish = s.nonfinish
      /\ stop(s).running = s.running /\ stop(s).crashed = s.crashed
  BY <1>3, <1>5, <1>6, StateFields, StateOf
<1> QED BY <1>2, <1>4, <1>7 DEF Stopped

LEMMA StopCounts ==
  ASSUME NEW s, NEW k \in Int, Counted(s, k) PROVE Counted(stop(s), k)
<1> DEFINE r == stop(s)
<1>1. Stopped(s, r) BY StopIs DEF Counted
<1> HIDE DEF r
<1>2. r \in TrState /\ SameCounts(s, r) BY <1>1 DEF Stopped, SameCounts
<1>3. s.running \in Int /\ r.running = s.running + 0 BY <1>1 DEF Stopped, Counted, TrState
<1>4. Counted(r, k + 0) BY <1>2, <1>3, CountsSame
<1>5. k + 0 = k OBVIOUS
<1> QED BY <1>4, <1>5 DEF r

\* newThread(): one thread more, and one more in its application; the first of
\* a run counts from one again.
Created(s, a, num, r) ==
  /\ r \in TrState
  /\ DOMAIN r.apps = DOMAIN s.apps
  /\ \A b \in DOMAIN s.apps : /\ r.apps[b].num = IF b = a THEN num ELSE s.apps[b].num
                              /\ r.apps[b].runs = s.apps[b].runs
  /\ Len(r.threads) = Len(s.threads) + 1
  /\ \A i \in DOMAIN s.threads : r.threads[i] = s.threads[i]
  /\ r.threads[Len(s.threads) + 1] = TrThread(a, TRUE)
  /\ r.running = s.running + 1 /\ r.nonfinish = s.nonfinish /\ r.done = s.done

LEMMA NewThreadIs ==
  ASSUME NEW s \in TrState, NEW a \in DOMAIN s.apps, NEW first \in BOOLEAN, NEW f \in BOOLEAN
  PROVE  Created(s, a, IF first THEN 1 ELSE s.apps[a].num + 1, newThread(s, a, first, f))
<1> DEFINE num == IF first THEN 1 ELSE s.apps[a].num + 1
           count == IF first THEN 1 ELSE s.apps[a].count + 1
           b == [s.apps[a] EXCEPT !.num = num, !.count = count]
           c == s.crashed \/ (~f /\ a > trNum)
           T == Append(s.threads, TrThread(a, TRUE))
           r == newThread(s, a, first, f)
<1>1. s.apps \in Seq(AppInfo) /\ s.threads \in Seq(ThreadInfo) BY DEF TrState, AppList, ThreadList
<1>2. s.apps[a] \in AppInfo BY CountedSets
<1>3. b \in AppInfo
  <2>1. num \in Int /\ count \in Int BY <1>2 DEF AppInfo
  <2> HIDE DEF num, count
  <2> QED BY <2>1, <1>2 DEF AppInfo
<1>4. r = TrOf([s.apps EXCEPT ![a] = b], s.nonfinish, T, s.running + 1, s.done, c)
  <2>1. r = NewThreadPut(s, [s.apps EXCEPT ![a] = b], T, s.running + 1, c) BY DEF newThread, NewThreadPut
  <2> HIDE DEF b, T, c, r
  <2> QED BY <2>1, NewThreadPutIs
<1>5. TrThread(a, TRUE) \in ThreadInfo
  <2>1. a \in Nat BY CountedSets
  <2> QED BY <2>1 DEF TrThread, ThreadInfo, TrPcs
<1>6. /\ T \in ThreadList /\ Len(T) = Len(s.threads) + 1
      /\ \A i \in DOMAIN s.threads : T[i] = s.threads[i]
      /\ T[Len(s.threads) + 1] = TrThread(a, TRUE)
  <2> DEFINE e == TrThread(a, TRUE)
  <2>1. e \in ThreadInfo BY <1>5
  <2> HIDE DEF e
  <2>2. /\ Append(s.threads, e) \in Seq(ThreadInfo) /\ Len(Append(s.threads, e)) = Len(s.threads) + 1
        /\ \A i \in DOMAIN s.threads : Append(s.threads, e)[i] = s.threads[i]
        /\ Append(s.threads, e)[Len(s.threads) + 1] = e
    BY <1>1, <2>1
  <2> QED BY <2>2 DEF e, ThreadList
<1>7. c \in BOOLEAN OBVIOUS
<1> HIDE DEF b, T, c
<1>8. [s.apps EXCEPT ![a] = b] \in AppList /\ DOMAIN [s.apps EXCEPT ![a] = b] = DOMAIN s.apps
  BY <1>1, <1>3, SeqPut DEF AppList, ThreadList
<1>9. ASSUME NEW d \in DOMAIN s.apps, NEW x, x = [s.apps EXCEPT ![a] = b][d]
      PROVE  x.num = (IF d = a THEN num ELSE s.apps[d].num) /\ x.runs = s.apps[d].runs
  <2>1. s.apps[d] \in AppInfo BY CountedSets
  <2> QED BY <2>1, <1>9 DEF b, AppInfo
<1> HIDE DEF num, r
<1>10. /\ r \in TrState /\ r.apps = [s.apps EXCEPT ![a] = b] /\ r.threads = T
       /\ r.running = s.running + 1 /\ r.nonfinish = s.nonfinish /\ r.done = s.done
  BY <1>4, <1>6, <1>7, <1>8, StateFields, StateOf
<1>11. Created(s, a, num, r) BY <1>6, <1>8, <1>9, <1>10 DEF Created
<1> QED BY <1>11 DEF num, r

\* A new run starts with no thread of the application left.
LEMMA CreatedCounts ==
  ASSUME NEW s, NEW k \in Int, Counted(s, k), NEW a \in DOMAIN s.apps, NEW num, NEW r, Created(s, a, num, r),
         num = s.apps[a].num + 1
  PROVE  Counted(r, k)
<1> DEFINE i == Len(s.threads) + 1
<1>1. s \in TrState /\ r \in TrState BY DEF Counted, Created
<1>2. /\ Len(s.threads) \in Nat /\ DOMAIN s.threads = 1 .. Len(s.threads)
      /\ Len(r.threads) = i /\ DOMAIN r.threads = 1 .. Len(r.threads)
  BY <1>1, CountedSets DEF Created
<1>3. DOMAIN r.threads = DOMAIN s.threads \union {i} /\ i \notin DOMAIN s.threads BY <1>2
<1>4. r.threads[i].app = a /\ ~r.threads[i].stopped BY DEF Created, TrThread
<1>5. \A j \in DOMAIN s.threads : r.threads[j] = s.threads[j] BY DEF Created
<1> HIDE DEF i
<1>6. LiveIn(r) = LiveIn(s) \union {i} BY <1>3, <1>4, <1>5 DEF LiveIn
<1>7. LiveOf(r, a) = LiveOf(s, a) \union {i}
  <2>1. ASSUME NEW j PROVE j \in LiveOf(r, a) <=> j \in LiveOf(s, a) \union {i}
    BY <1>3, <1>4, <1>5 DEF LiveIn, LiveOf
  <2> QED BY <2>1
<1>8. \A b : b # a => LiveOf(r, b) = LiveOf(s, b)
  <2>1. ASSUME NEW b, b # a, NEW j PROVE j \in LiveOf(r, b) <=> j \in LiveOf(s, b)
    BY <2>1, <1>3, <1>4, <1>5 DEF LiveIn, LiveOf
  <2> QED BY <2>1
<1>9. Unfinished(r) = Unfinished(s) BY DEF Unfinished, Created
<1>10. i \notin LiveIn(s) /\ i \notin LiveOf(s, a) BY <1>3 DEF LiveIn, LiveOf
<1>11. /\ Countable(LiveIn(s)) /\ Countable(LiveOf(s, a))
  BY <1>1, CountedSets
<1>12. r.running = Cardinality(LiveIn(r)) + k BY <1>6, <1>10, <1>11 DEF Counted, Created, Countable
<1>13. ASSUME NEW b \in DOMAIN r.apps PROVE r.apps[b].num = Cardinality(LiveOf(r, b))
  BY <1>7, <1>8, <1>10, <1>11, <1>13 DEF Counted, Created, Countable
<1>14. \A j \in DOMAIN r.threads : r.threads[j].app \in DOMAIN r.apps BY <1>3, <1>4, <1>5 DEF Counted, Created
<1> QED BY <1>1, <1>9, <1>12, <1>13, <1>14 DEF Counted, Created

\* signalDone(), last: the thread is no longer running.
Left(s) == [s EXCEPT !.running = @ - 1]

LEMMA LeftIs ==
  ASSUME NEW s \in TrState
  PROVE  /\ Left(s) \in TrState
         /\ Left(s).running = s.running - 1
         /\ Left(s).apps = s.apps /\ Left(s).threads = s.threads
         /\ Left(s).nonfinish = s.nonfinish /\ Left(s).done = s.done
BY DEF Left, TrState

\* What an operation does with the threads: none disappears, none moves or
\* changes application, stop() is called for all of them at once with a signal
\* of m_done, and one that is created starts.
Moved(s, r, fin) ==
  /\ DOMAIN s.threads \subseteq DOMAIN r.threads /\ DOMAIN s.apps = DOMAIN r.apps
  /\ s.done <= r.done
  /\ \A j \in DOMAIN s.threads :
       /\ r.threads[j].app = s.threads[j].app
       /\ r.threads[j].at = s.threads[j].at /\ r.threads[j].pc = s.threads[j].pc
       /\ r.threads[j].stopped <=> j \in fin \/ s.threads[j].stopped
       /\ r.threads[j].stop => s.threads[j].stop \/ r.done > 0
  /\ \A j \in DOMAIN r.threads : j \notin DOMAIN s.threads =>
       r.threads[j].pc = "start" /\ ~r.threads[j].stopped /\ ~r.threads[j].stop

\* The application has run once more; when no run is missing m_done is signalled.
AppExited(s, a, r) ==
  /\ Moved(s, r, {})
  /\ \A b \in DOMAIN s.apps : /\ r.apps[b].runs = 0 => s.apps[b].runs = 0 /\ b # a
                              /\ b # a => r.apps[b].num = s.apps[b].num
  /\ r.nonfinish = 0 => r.done > 0

LEMMA AppExitIs ==
  ASSUME NEW s, NEW k \in Int, Counted(s, k), NEW a \in DOMAIN s.apps, s.apps[a].num = 0
  PROVE  Counted(AppExit(s, a), k) /\ AppExited(s, a, AppExit(s, a))
<1> DEFINE t == Ran(s, a)
           r == AppExit(s, a)
           u == newThread(t, a, TRUE, FALSE)
<1>1. Counted(t, k) BY RanCounts
<1>2. RanOnce(s, a, t) BY RanIs DEF Counted
<1>3. \/ r = stop(t)
      \/ t.nonfinish # 0 /\ r = u
      \/ t.nonfinish # 0 /\ r = t
  BY DEF AppExit, Ran
<1> HIDE DEF t, r
<1>4. t \in TrState /\ s \in TrState BY <1>1 DEF Counted
<1>5. /\ t.threads = s.threads /\ t.done = s.done /\ s.done \in Nat
      /\ DOMAIN t.apps = DOMAIN s.apps /\ a \in DOMAIN t.apps
      /\ t.apps[a].num = 0
      /\ \A b \in DOMAIN s.apps : /\ t.apps[b].runs = 0 => s.apps[b].runs = 0 /\ b # a
                                  /\ t.apps[b].num = s.apps[b].num
  <2>1. \A b \in DOMAIN s.apps : s.apps[b].runs \in Nat BY <1>4, CountedSets DEF AppInfo
  <2> QED BY <2>1, <1>2, <1>4, StateFields DEF RanOnce
<1>6. CASE r = t /\ t.nonfinish # 0
  <2>1. Moved(s, r, {}) BY <1>5, <1>6 DEF Moved
  <2> QED BY <2>1, <1>1, <1>5, <1>6 DEF AppExited, r
<1>7. CASE r = stop(t)
  <2>1. Stopped(t, r) /\ Counted(r, k) BY <1>1, <1>4, <1>7, StopIs, StopCounts
  <2>2. r.done > 0 /\ r.done >= s.done BY <2>1, <1>5 DEF Stopped
  <2>3. Moved(s, r, {}) BY <2>1, <2>2, <1>5 DEF Moved, Stopped
  <2>4. r.apps = t.apps BY <2>1 DEF Stopped
  <2> QED BY <2>1, <2>2, <2>3, <2>4, <1>5 DEF AppExited, r
<1>8. CASE r = u /\ t.nonfinish # 0
  <2>1. Created(t, a, 1, r)
    <3>1. Created(t, a, IF TRUE THEN 1 ELSE t.apps[a].num + 1, newThread(t, a, TRUE, FALSE))
      BY <1>4, <1>5, NewThreadIs
    <3> QED BY <3>1, <1>8
  <2>2. Counted(r, k)
    <3>1. 1 = t.apps[a].num + 1 BY <1>5
    <3> QED BY <3>1, <2>1, <1>1, <1>5, CreatedCounts
  <2>3. /\ DOMAIN r.threads = DOMAIN s.threads \union {Len(s.threads) + 1}
        /\ Len(s.threads) + 1 \notin DOMAIN s.threads
    <3>1. r \in TrState /\ Len(r.threads) = Len(s.threads) + 1 BY <2>1, <1>5 DEF Created
    <3>2. DOMAIN r.threads = 1 .. Len(r.threads) /\ DOMAIN s.threads = 1 .. Len(s.threads) /\ Len(s.threads) \in Nat
      BY <3>1, <1>4, CountedSets
    <3> QED BY <3>1, <3>2
  <2>4. LET j == Len(s.threads) + 1
        IN  r.threads[j].pc = "start" /\ ~r.threads[j].stopped /\ ~r.threads[j].stop
    BY <2>1, <1>5 DEF Created, TrThread
  <2>5. r.done = s.done /\ s.done <= r.done BY <2>1, <1>5 DEF Created
  <2>6. Moved(s, r, {}) BY <2>1, <2>3, <2>4, <2>5, <1>5 DEF Moved, Created
  <2>7. r.nonfinish # 0 BY <2>1, <1>8 DEF Created
  <2>8. \A b \in DOMAIN s.apps : /\ r.apps[b].runs = 0 => s.apps[b].runs = 0 /\ b # a
                                 /\ b # a => r.apps[b].num = s.apps[b].num
    BY <2>1, <1>5 DEF Created
  <2> QED BY <2>2, <2>6, <2>7, <2>8 DEF AppExited, r
<1> QED BY <1>3, <1>6, <1>7, <1>8

\* Thread i has been signalled; unless it was aborted, the last one of its
\* application ends a run of it.
Signalled(s, i, aborted, r) ==
  /\ Moved(s, r, {i})
  /\ \A b \in DOMAIN s.apps : r.apps[b].runs = 0 =>
       /\ s.apps[b].runs = 0
       /\ IF b = s.threads[i].app /\ ~s.threads[i].stopped THEN aborted \/ r.apps[b].num # 0
                                                           ELSE r.apps[b].num = s.apps[b].num
  /\ r.nonfinish = 0 => r.done > 0 \/ s.nonfinish = 0

LEMMA SignalDoneIs ==
  ASSUME NEW s, Counted(s, 0), NEW i \in DOMAIN s.threads, NEW aborted \in BOOLEAN
  PROVE  Counted(signalDone(s, i, aborted), 0) /\ Signalled(s, i, aborted, signalDone(s, i, aborted))
<1> DEFINE a == s.threads[i].app
           r == signalDone(s, i, aborted)
           t == Finish(s, i)
           u == IF ~aborted /\ t.apps[a].num = 0 THEN AppExit(t, a) ELSE t
<1>1. r = IF s.threads[i].stopped THEN s ELSE Left(u)
  BY DEF signalDone, Finish, Left
<1>2. s \in TrState /\ a \in DOMAIN s.apps /\ s.done \in Nat BY StateFields DEF Counted
<1> HIDE DEF r, t, u
<1>3. CASE s.threads[i].stopped
  <2>1. r = s BY <1>1, <1>3
  <2>2. Moved(s, s, {i}) BY <1>2, <1>3 DEF Moved
  <2> QED BY <2>1, <2>2, <1>3 DEF Signalled, r
<1>4. CASE ~s.threads[i].stopped
  <2>1. Finished(s, i, t) /\ Counted(t, 1)
    <3>1. Finished(s, i, t) BY FinishIs DEF t
    <3>2. Counted(t, 0 + 1) BY <1>4, FinishCounts DEF t
    <3>3. 0 + 1 = 1 OBVIOUS
    <3> QED BY <3>1, <3>2, <3>3
  <2>2. a \in DOMAIN t.apps BY <2>1, <1>2 DEF Finished
  <2>3. Moved(s, t, {i}) BY <2>1, <1>2 DEF Finished, Moved
  <2>4. ASSUME Counted(u, 1), Signalled(s, i, aborted, u)
        PROVE  Counted(r, 0) /\ Signalled(s, i, aborted, r)
    <3>1. u \in TrState BY <2>4 DEF Counted
    <3>2. r = Left(u) BY <1>1, <1>4
    <3>3. /\ r \in TrState /\ r.running = u.running - 1
          /\ r.apps = u.apps /\ r.threads = u.threads /\ r.nonfinish = u.nonfinish /\ r.done = u.done
      BY <3>1, <3>2, LeftIs
    <3>4. SameCounts(u, r) BY <3>3 DEF SameCounts
    <3>5. u.running \in Int /\ r.running = u.running + (-1) BY <3>1, <3>3, StateFields
    <3>6. Counted(r, 1 + (-1)) BY <2>4, <3>3, <3>4, <3>5, CountsSame
    <3>7. 1 + (-1) = 0 OBVIOUS
    <3>8. Moved(s, u, {i}) => Moved(s, r, {i}) BY <3>3 DEF Moved
    <3> QED BY <2>4, <3>3, <3>6, <3>7, <3>8 DEF Signalled
  <2>5. CASE ~aborted /\ t.apps[a].num = 0
    <3>1. u = AppExit(t, a) BY <2>5 DEF u
    <3>2. Counted(u, 1) /\ AppExited(t, a, u) BY <2>1, <2>2, <2>5, <3>1, AppExitIs
    <3>3. Moved(s, u, {i})
      <4>1. u.done \in Nat /\ t.done \in Nat BY <2>1, <3>2, StateFields DEF Counted
      <4>2. Moved(t, u, {}) BY <3>2 DEF AppExited
      <4>3. \A j \in DOMAIN s.threads :
              /\ u.threads[j].app = s.threads[j].app
              /\ u.threads[j].at = s.threads[j].at /\ u.threads[j].pc = s.threads[j].pc
              /\ u.threads[j].stopped <=> j \in {i} \/ s.threads[j].stopped
              /\ u.threads[j].stop => s.threads[j].stop \/ u.done > 0
        <5> TAKE j \in DOMAIN s.threads
        <5>1. j \in DOMAIN t.threads BY <2>1 DEF Finished
        <5>2. /\ u.threads[j].app = t.threads[j].app
              /\ u.threads[j].at = t.threads[j].at /\ u.threads[j].pc = t.threads[j].pc
              /\ u.threads[j].stopped <=> t.threads[j].stopped
              /\ u.threads[j].stop => t.threads[j].stop \/ u.done > 0
          BY <4>2, <5>1 DEF Moved
        <5> QED BY <5>2, <2>1 DEF Finished
      <4>4. DOMAIN t.threads = DOMAIN s.threads /\ DOMAIN t.apps = DOMAIN s.apps /\ t.done = s.done
        BY <2>1 DEF Finished
      <4> QED BY <4>1, <4>2, <4>3, <4>4 DEF Moved
    <3>4. ASSUME NEW b \in DOMAIN s.apps, u.apps[b].runs = 0
          PROVE  s.apps[b].runs = 0 /\ b # a /\ u.apps[b].num = s.apps[b].num
      BY <2>1, <3>2, <3>4 DEF AppExited, Finished
    <3>5. Signalled(s, i, aborted, u) BY <3>2, <3>3, <3>4 DEF Signalled, AppExited
    <3> QED BY <3>2, <3>5, <2>4 DEF r
  <2>6. CASE ~(~aborted /\ t.apps[a].num = 0)
    <3>1. u = t BY <2>6 DEF u
    <3>2. ASSUME NEW b \in DOMAIN s.apps, t.apps[b].runs = 0
          PROVE  /\ s.apps[b].runs = 0
                 /\ b = a => aborted \/ t.apps[b].num # 0
                 /\ b # a => t.apps[b].num = s.apps[b].num
      BY <2>1, <2>6, <3>2 DEF Finished
    <3>3. Signalled(s, i, aborted, t)
      <4>1. t.nonfinish = s.nonfinish BY <2>1 DEF Finished
      <4> QED BY <1>4, <2>3, <3>2, <4>1 DEF Signalled
    <3> QED BY <2>1, <2>4, <3>1, <3>3 DEF r
  <2> QED BY <2>5, <2>6
<1> QED BY <1>3, <1>4

-----------------------------------------------------------------------------
\* Where the main thread is, m in what follows: in start(), at a position of
\* m_threads, in wait(), or over.
Main == [pc |-> trMain, at |-> trSpawned]

\* The simulation ends: it has been signalled, or is over.
Ended(s, m) == s.done > 0 \/ m.pc = "over"

\* One thread at a time ends an application.
OneEnder(s, E) == \A d, e \in E : s.threads[d].app = s.threads[e].app => d = e

\* A thread leaves only signalled; it is asked to stop only when it has been, or
\* when all are; somebody else signals it only to end its application; and one
\* that is not spawned is ahead of start().
ThreadSound(s, m, E, i) ==
  /\ s.threads[i].pc = "over" => s.threads[i].stopped
  /\ s.threads[i].stop => s.threads[i].stopped \/ Ended(s, m)
  /\ s.threads[i].stopped => \/ s.threads[i].pc = "over" \/ Ended(s, m)
                             \/ \E d \in E : d # i /\ s.threads[d].app = s.threads[i].app
  /\ s.threads[i].pc = "ending" => i \in E /\ s.threads[i].at > 0
  /\ s.threads[i].pc = "created" => \/ m.pc = "start" /\ m.at <= i
                                    \/ m.pc = "over"

\* An application that has not finished a run has a thread that will.
RunsLeft(s) == \A a \in DOMAIN s.apps : s.apps[a].runs = 0 => s.apps[a].num # 0

Ending(s, m, E) ==
  /\ m.at \in Nat \ {0} /\ E \subseteq DOMAIN s.threads
  /\ s.nonfinish = 0 => Ended(s, m)
  /\ \A i \in DOMAIN s.threads : ThreadSound(s, m, E, i)
  /\ OneEnder(s, E) => Ended(s, m) \/ RunsLeft(s)

\* The inductive invariant.
TrInv == Counted(TrSet, 0) /\ Ending(TrSet, Main, trEnders)

-----------------------------------------------------------------------------
\* A change of one thread alone.
PutThread(s, i, t) == [s EXCEPT !.threads[i] = t]

LEMMA PutThreadIs ==
  ASSUME NEW s \in TrState, NEW i \in DOMAIN s.threads, NEW t \in ThreadInfo
  PROVE  /\ PutThread(s, i, t) \in TrState
         /\ DOMAIN PutThread(s, i, t).threads = DOMAIN s.threads
         /\ \A j \in DOMAIN s.threads : PutThread(s, i, t).threads[j] = IF j = i THEN t ELSE s.threads[j]
         /\ PutThread(s, i, t).apps = s.apps /\ PutThread(s, i, t).nonfinish = s.nonfinish
         /\ PutThread(s, i, t).running = s.running /\ PutThread(s, i, t).done = s.done
<1> DEFINE x == [s.threads EXCEPT ![i] = t]
<1>1. PutThread(s, i, t) = [s EXCEPT !.threads = x] BY DEF PutThread
<1>2. s.threads \in Seq(ThreadInfo) BY StateFields DEF ThreadList
<1>3. x \in Seq(ThreadInfo) /\ DOMAIN x = DOMAIN s.threads BY <1>2, SeqPut
<1>4. \A j \in DOMAIN s.threads : x[j] = IF j = i THEN t ELSE s.threads[j] OBVIOUS
<1>5. x \in ThreadList BY <1>3 DEF ThreadList
<1> HIDE DEF x
<1>6. /\ PutThread(s, i, t) \in TrState /\ PutThread(s, i, t).threads = x
      /\ PutThread(s, i, t).apps = s.apps /\ PutThread(s, i, t).nonfinish = s.nonfinish
      /\ PutThread(s, i, t).running = s.running /\ PutThread(s, i, t).done = s.done
  BY <1>1, <1>5 DEF TrState
<1> QED BY <1>3, <1>4, <1>6

\* The counts do not see it if the thread keeps its application and is neither
\* signalled nor revived.
LEMMA PutThreadCounts ==
  ASSUME NEW s, Counted(s, 0), NEW i \in DOMAIN s.threads, NEW t \in ThreadInfo,
         t.app = s.threads[i].app, t.stopped = s.threads[i].stopped
  PROVE  Counted(PutThread(s, i, t), 0)
<1> DEFINE r == PutThread(s, i, t)
<1>1. /\ r \in TrState /\ r.running = s.running
      /\ SameCounts(s, r)
  <2>1. s \in TrState BY DEF Counted
  <2> QED BY <2>1, PutThreadIs DEF SameCounts
<1> HIDE DEF r
<1>2. s.running \in Int /\ r.running = s.running + 0 BY <1>1, StateFields DEF Counted
<1>3. Counted(r, 0 + 0) BY <1>1, <1>2, CountsSame
<1>4. 0 + 0 = 0 OBVIOUS
<1> QED BY <1>3, <1>4 DEF r

\* A thread that goes on, or begins to end its application.
LEMMA GoesOn ==
  ASSUME NEW s, NEW m, NEW E, Counted(s, 0), Ending(s, m, E),
         NEW i \in DOMAIN s.threads, s.threads[i].pc # "over",
         NEW t \in ThreadInfo, t.app = s.threads[i].app, t.stopped = s.threads[i].stopped,
         t.stop = s.threads[i].stop, t.pc \notin {"over", "created"},
         NEW F, E \subseteq F, F \subseteq E \union {i}, t.pc = "ending" => i \in F /\ t.at > 0
  PROVE  Counted(PutThread(s, i, t), 0) /\ Ending(PutThread(s, i, t), m, F)
<1> DEFINE r == PutThread(s, i, t)
<1>1. Counted(r, 0) BY PutThreadCounts
<1>2. /\ DOMAIN r.threads = DOMAIN s.threads
      /\ \A j \in DOMAIN s.threads : r.threads[j] = IF j = i THEN t ELSE s.threads[j]
      /\ r.apps = s.apps /\ r.nonfinish = s.nonfinish /\ r.done = s.done
  BY PutThreadIs DEF Counted
<1> HIDE DEF r
<1>3. \A j \in DOMAIN s.threads : r.threads[j].app = s.threads[j].app BY <1>2
<1>4. F \subseteq DOMAIN r.threads BY <1>2 DEF Ending
<1>5. ASSUME NEW j \in DOMAIN r.threads PROVE ThreadSound(r, m, F, j)
  <2>1. ThreadSound(s, m, E, j) BY <1>2 DEF Ending
  <2>2. \A d \in E : d \in DOMAIN s.threads BY DEF Ending
  <2>3. (\E d \in E : d # j /\ s.threads[d].app = s.threads[j].app)
          => \E d \in F : d # j /\ r.threads[d].app = r.threads[j].app
    BY <1>2, <1>3, <2>2
  <2>4. CASE j = i BY <2>1, <2>3, <2>4, <1>2 DEF ThreadSound, Ended
  <2>5. CASE j # i BY <2>1, <2>3, <2>5, <1>2 DEF ThreadSound, Ended
  <2> QED BY <2>4, <2>5
<1>6. OneEnder(r, F) => OneEnder(s, E)
  <2>1. \A d \in E : d \in DOMAIN s.threads /\ d \in F BY DEF Ending
  <2> QED BY <2>1, <1>3 DEF OneEnder
<1>7. Ending(r, m, F) BY <1>2, <1>4, <1>5, <1>6 DEF Ending, Ended, RunsLeft
<1> QED BY <1>1, <1>7 DEF r

\* What signalDone() leaves of the soundness of the threads: r is s after the
\* threads of `fin' have been signalled, and only they were asked to stop.
After(s, r, fin) ==
  /\ DOMAIN s.threads \subseteq DOMAIN r.threads /\ DOMAIN s.apps = DOMAIN r.apps
  /\ s.done <= r.done
  /\ \A j \in DOMAIN s.threads :
       /\ r.threads[j].app = s.threads[j].app /\ r.threads[j].at = s.threads[j].at
       /\ r.threads[j].pc = s.threads[j].pc \/ (j \in fin /\ r.threads[j].pc = "over")
       /\ r.threads[j].stopped <=> j \in fin \/ s.threads[j].stopped
       /\ r.threads[j].stop => s.threads[j].stop \/ r.done > 0 \/ j \in fin
  /\ \A j \in DOMAIN r.threads : j \notin DOMAIN s.threads =>
       r.threads[j].pc = "start" /\ ~r.threads[j].stopped /\ ~r.threads[j].stop
  /\ r.nonfinish = 0 => r.done > 0 \/ s.nonfinish = 0

\* Who is signalled leaves, or belongs to an application that somebody else ends.
Covered(s, r, E, fin) ==
  \A j \in fin : /\ j \in DOMAIN s.threads
                 /\ \/ r.threads[j].pc = "over"
                    \/ \E d \in E : d # j /\ s.threads[d].app = s.threads[j].app
RunsKept(s, r, m, E) == OneEnder(s, E) /\ RunsLeft(s) /\ ~Ended(s, m) => Ended(r, m) \/ RunsLeft(r)

LEMMA AfterEnding ==
  ASSUME NEW s \in TrState, NEW r \in TrState, NEW m, NEW E, NEW fin, Ending(s, m, E),
         After(s, r, fin), Covered(s, r, E, fin), RunsKept(s, r, m, E)
  PROVE  Ending(r, m, E)
<1>1. Ended(s, m) => Ended(r, m)
  <2>1. s.done \in Nat /\ r.done \in Nat /\ s.done <= r.done BY StateFields DEF After
  <2> QED BY <2>1 DEF Ended
<1>2. r.done > 0 => Ended(r, m) BY DEF Ended
<1>3. \A d \in E : d \in DOMAIN s.threads BY DEF Ending
<1>4. ASSUME NEW j \in DOMAIN r.threads PROVE ThreadSound(r, m, E, j)
  <2>1. CASE j \notin DOMAIN s.threads BY <2>1 DEF ThreadSound, After
  <2>2. CASE j \in DOMAIN s.threads
    <3>1. ThreadSound(s, m, E, j) BY <2>2 DEF Ending
    <3>2. /\ r.threads[j].app = s.threads[j].app /\ r.threads[j].at = s.threads[j].at
          /\ r.threads[j].pc = s.threads[j].pc \/ (j \in fin /\ r.threads[j].pc = "over")
          /\ r.threads[j].stopped <=> j \in fin \/ s.threads[j].stopped
          /\ r.threads[j].stop => s.threads[j].stop \/ r.done > 0 \/ j \in fin
      BY <2>2 DEF After
    <3>3. \A d \in E : r.threads[d].app = s.threads[d].app BY <1>3 DEF After
    <3>4. (\E d \in E : d # j /\ s.threads[d].app = s.threads[j].app)
            => \E d \in E : d # j /\ r.threads[d].app = r.threads[j].app
      BY <3>2, <3>3
    <3>5. r.threads[j].pc = "over" => r.threads[j].stopped BY <3>1, <3>2 DEF ThreadSound
    <3>6. r.threads[j].stop => r.threads[j].stopped \/ Ended(r, m) BY <3>1, <3>2, <1>1, <1>2 DEF ThreadSound
    <3>7. r.threads[j].stopped => \/ r.threads[j].pc = "over" \/ Ended(r, m)
                                  \/ \E d \in E : d # j /\ r.threads[d].app = r.threads[j].app
      BY <3>1, <3>2, <3>4, <1>1 DEF ThreadSound, Covered
    <3>8. r.threads[j].pc = "ending" => j \in E /\ r.threads[j].at > 0 BY <3>1, <3>2 DEF ThreadSound
    <3>9. r.threads[j].pc = "created" => \/ m.pc = "start" /\ m.at <= j
                                         \/ m.pc = "over"
      BY <3>1, <3>2 DEF ThreadSound
    <3> QED BY <3>5, <3>6, <3>7, <3>8, <3>9 DEF ThreadSound
  <2> QED BY <2>1, <2>2
<1>5. OneEnder(r, E) => OneEnder(s, E) BY <1>3 DEF OneEnder, After
<1>6. E \subseteq DOMAIN r.threads BY <1>3 DEF After
<1>7. r.nonfinish = 0 => Ended(r, m) BY <1>1, <1>2 DEF After, Ending
<1>8. OneEnder(r, E) => Ended(r, m) \/ RunsLeft(r) BY <1>1, <1>5 DEF Ending, RunsKept
<1>9. m.at \in Nat \ {0} BY DEF Ending
<1> QED BY <1>4, <1>6, <1>7, <1>8, <1>9 DEF Ending

\* A live thread is counted.
LEMMA LiveCounts ==
  ASSUME NEW r, Counted(r, 0), NEW i \in DOMAIN r.threads, ~r.threads[i].stopped
  PROVE  r.apps[r.threads[i].app].num # 0
<1>1. i \in LiveOf(r, r.threads[i].app) BY DEF LiveOf, LiveIn
<1>2. Countable(LiveOf(r, r.threads[i].app)) BY CountedSets DEF Counted
<1>3. Cardinality(LiveOf(r, r.threads[i].app)) # 0 BY <1>1, <1>2 DEF Countable
<1>4. r.threads[i].app \in DOMAIN r.apps BY DEF Counted
<1> QED BY <1>3, <1>4 DEF Counted

\* run(): a thread that has not been asked to stop is the one that signals itself.
Exited(s, i) ==
  LET u == signalDone(s, i, s.threads[i].stop)
  IN  PutThread(u, i, [u.threads[i] EXCEPT !.pc = "over"])

LEMMA Exits ==
  ASSUME NEW s, NEW m, NEW E, Counted(s, 0), Ending(s, m, E),
         NEW i \in DOMAIN s.threads
  PROVE  Counted(Exited(s, i), 0) /\ Ending(Exited(s, i), m, E)
<1> DEFINE u == signalDone(s, i, s.threads[i].stop)
           t == [u.threads[i] EXCEPT !.pc = "over"]
           r == PutThread(u, i, t)
<1>1. s \in TrState /\ s.threads[i].stop \in BOOLEAN
  <2>1. s \in TrState BY DEF Counted
  <2>2. s.threads[i] \in ThreadInfo BY <2>1, CountedSets
  <2> QED BY <2>1, <2>2 DEF ThreadInfo
<1>2. Counted(u, 0) /\ Signalled(s, i, s.threads[i].stop, u) BY <1>1, SignalDoneIs
<1> HIDE DEF u
<1>3. u \in TrState /\ i \in DOMAIN u.threads /\ u.threads[i] \in ThreadInfo
  <2>1. u \in TrState BY <1>2 DEF Counted
  <2>2. i \in DOMAIN u.threads BY <1>2 DEF Signalled, Moved
  <2> QED BY <2>1, <2>2, CountedSets
<1>4. /\ t \in ThreadInfo /\ t.app = u.threads[i].app /\ t.stopped = u.threads[i].stopped
      /\ t.stop = u.threads[i].stop /\ t.at = u.threads[i].at /\ t.pc = "over"
  BY <1>3 DEF ThreadInfo, TrPcs
<1> HIDE DEF t
<1>5. Counted(r, 0) BY <1>2, <1>3, <1>4, PutThreadCounts
<1>6. /\ r \in TrState
      /\ DOMAIN r.threads = DOMAIN u.threads
      /\ \A j \in DOMAIN u.threads : r.threads[j] = IF j = i THEN t ELSE u.threads[j]
      /\ r.apps = u.apps /\ r.nonfinish = u.nonfinish /\ r.done = u.done
  BY <1>3, <1>4, PutThreadIs
<1> HIDE DEF r
<1>7. Moved(s, u, {i}) /\ (u.nonfinish = 0 => u.done > 0 \/ s.nonfinish = 0) BY <1>2 DEF Signalled
<1>8. After(s, r, {i})
  <2>1. ASSUME NEW j \in DOMAIN s.threads
        PROVE  /\ r.threads[j].app = s.threads[j].app /\ r.threads[j].at = s.threads[j].at
               /\ r.threads[j].pc = s.threads[j].pc \/ (j \in {i} /\ r.threads[j].pc = "over")
               /\ r.threads[j].stopped <=> j \in {i} \/ s.threads[j].stopped
               /\ r.threads[j].stop => s.threads[j].stop \/ r.done > 0 \/ j \in {i}
    <3>1. j \in DOMAIN u.threads BY <1>7 DEF Moved
    <3>2. CASE j = i BY <3>1, <3>2, <1>4, <1>6, <1>7 DEF Moved
    <3>3. CASE j # i BY <3>1, <3>3, <1>6, <1>7 DEF Moved
    <3> QED BY <3>2, <3>3
  <2>2. \A j \in DOMAIN r.threads : j \notin DOMAIN s.threads =>
          r.threads[j].pc = "start" /\ ~r.threads[j].stopped /\ ~r.threads[j].stop
    BY <1>6, <1>7 DEF Moved
  <2>3. /\ DOMAIN s.threads \subseteq DOMAIN r.threads /\ DOMAIN s.apps = DOMAIN r.apps
        /\ s.done <= r.done
        /\ r.nonfinish = 0 => r.done > 0 \/ s.nonfinish = 0
    BY <1>6, <1>7 DEF Moved
  <2> QED BY <2>1, <2>2, <2>3 DEF After
<1>9. Covered(s, r, E, {i}) BY <1>3, <1>4, <1>6 DEF Covered
<1>10. ASSUME RunsLeft(s), ~Ended(s, m) PROVE RunsLeft(r)
  <2>1. ThreadSound(s, m, E, i) BY DEF Ending
  <2>2. s.threads[i].stop => s.threads[i].stopped BY <2>1, <1>10 DEF ThreadSound
  <2>3. ASSUME NEW b \in DOMAIN r.apps, r.apps[b].runs = 0 PROVE r.apps[b].num # 0
    <3>1. b \in DOMAIN s.apps /\ u.apps[b].runs = 0 BY <2>3, <1>6, <1>7 DEF Moved
    <3>2. s.apps[b].num # 0 BY <3>1, <1>2, <1>10 DEF Signalled, RunsLeft
    <3>3. CASE b = s.threads[i].app /\ ~s.threads[i].stopped BY <2>2, <3>1, <3>3, <1>2, <1>6 DEF Signalled
    <3>4. CASE ~(b = s.threads[i].app /\ ~s.threads[i].stopped) BY <3>1, <3>2, <3>4, <1>2, <1>6 DEF Signalled
    <3> QED BY <3>3, <3>4
  <2> QED BY <2>3 DEF RunsLeft
<1>11. RunsKept(s, r, m, E) BY <1>10 DEF RunsKept
<1>12. Ending(r, m, E) BY <1>1, <1>6, <1>8, <1>9, <1>11, AfterEnding
<1> QED BY <1>5, <1>12 DEF r, t, u, Exited

\* endApplication(): thread k of the application of i, which ends it.
Asked(s, k) == PutThread(s, k, [s.threads[k] EXCEPT !.stop = TRUE])

LEMMA Aborts ==
  ASSUME NEW s, NEW m, NEW E, Counted(s, 0), Ending(s, m, E),
         NEW i \in DOMAIN s.threads, s.threads[i].pc = "ending",
         NEW k \in DOMAIN s.threads, k # i, s.threads[k].app = s.threads[i].app
  PROVE  LET r == signalDone(Asked(s, k), k, TRUE)
         IN  Counted(r, 0) /\ Ending(r, m, E)
<1> DEFINE t == [s.threads[k] EXCEPT !.stop = TRUE]
           p == PutThread(s, k, t)
           r == signalDone(p, k, TRUE)
<1>1. s \in TrState /\ s.threads[k] \in ThreadInfo
  <2>1. s \in TrState BY DEF Counted
  <2> QED BY <2>1, CountedSets
<1>2. /\ t \in ThreadInfo /\ t.app = s.threads[k].app /\ t.stopped = s.threads[k].stopped
      /\ t.at = s.threads[k].at /\ t.pc = s.threads[k].pc
  BY <1>1 DEF ThreadInfo
<1> HIDE DEF t
<1>3. Counted(p, 0) BY <1>1, <1>2, PutThreadCounts
<1>4. /\ p \in TrState
      /\ DOMAIN p.threads = DOMAIN s.threads
      /\ \A j \in DOMAIN s.threads : p.threads[j] = IF j = k THEN t ELSE s.threads[j]
      /\ p.apps = s.apps /\ p.nonfinish = s.nonfinish /\ p.done = s.done
  BY <1>1, <1>2, PutThreadIs
<1> HIDE DEF p
<1>5. Counted(r, 0) /\ Signalled(p, k, TRUE, r) BY <1>3, <1>4, SignalDoneIs
<1> HIDE DEF r
<1>6. Moved(p, r, {k}) /\ (r.nonfinish = 0 => r.done > 0 \/ p.nonfinish = 0) BY <1>5 DEF Signalled
<1>7. After(s, r, {k})
  <2>1. ASSUME NEW j \in DOMAIN s.threads
        PROVE  /\ r.threads[j].app = s.threads[j].app /\ r.threads[j].at = s.threads[j].at
               /\ r.threads[j].pc = s.threads[j].pc
               /\ r.threads[j].stopped <=> j \in {k} \/ s.threads[j].stopped
               /\ r.threads[j].stop => s.threads[j].stop \/ r.done > 0 \/ j \in {k}
    <3>1. CASE j = k BY <3>1, <1>2, <1>4, <1>6 DEF Moved
    <3>2. CASE j # k BY <3>2, <1>4, <1>6 DEF Moved
    <3> QED BY <3>1, <3>2
  <2>2. /\ DOMAIN s.threads \subseteq DOMAIN r.threads /\ DOMAIN s.apps = DOMAIN r.apps
        /\ s.done <= r.done
        /\ r.nonfinish = 0 => r.done > 0 \/ s.nonfinish = 0
        /\ \A j \in DOMAIN r.threads : j \notin DOMAIN s.threads =>
             r.threads[j].pc = "start" /\ ~r.threads[j].stopped /\ ~r.threads[j].stop
    BY <1>4, <1>6 DEF Moved
  <2> QED BY <2>1, <2>2 DEF After
<1>8. i \in E BY DEF Ending, ThreadSound
<1>9. Covered(s, r, E, {k}) BY <1>8 DEF Covered
<1>10. ASSUME OneEnder(s, E), RunsLeft(s), ~Ended(s, m) PROVE RunsLeft(r)
  <2>1. ~s.threads[i].stopped
    <3>1. ThreadSound(s, m, E, i) BY DEF Ending
    <3> QED BY <3>1, <1>8, <1>10 DEF ThreadSound, OneEnder
  <2>2. i \in DOMAIN r.threads /\ ~r.threads[i].stopped /\ r.threads[i].app = s.threads[i].app
    BY <2>1, <1>7 DEF After
  <2>3. r.apps[s.threads[i].app].num # 0 BY <2>2, <1>5, LiveCounts
  <2>4. ASSUME NEW b \in DOMAIN r.apps, r.apps[b].runs = 0 PROVE r.apps[b].num # 0
    <3>1. b \in DOMAIN p.apps /\ s.apps[b].runs = 0 BY <2>4, <1>4, <1>5, <1>6 DEF Moved, Signalled
    <3>2. p.apps[b].num # 0 BY <3>1, <1>4, <1>10 DEF RunsLeft
    <3>3. p.threads[k].app = s.threads[i].app BY <1>2, <1>4
    <3>4. CASE b = s.threads[i].app BY <2>3, <3>4
    <3>5. CASE b # s.threads[i].app
      <4>1. r.apps[b].num = p.apps[b].num BY <2>4, <3>1, <3>3, <3>5, <1>5 DEF Signalled
      <4> QED BY <3>2, <4>1
    <3> QED BY <3>4, <3>5
  <2> QED BY <2>4 DEF RunsLeft
<1>11. RunsKept(s, r, m, E) BY <1>10 DEF RunsKept
<1>12. r \in TrState BY <1>5 DEF Counted
<1>13. Ending(r, m, E) BY <1>1, <1>7, <1>9, <1>11, <1>12, AfterEnding
<1> QED BY <1>5, <1>13 DEF r, p, t, Asked

\* A thread of a running application creates another.
LEMMA Creates ==
  ASSUME NEW s, NEW m, NEW E, Counted(s, 0), Ending(s, m, E),
         NEW a \in DOMAIN s.apps
  PROVE  LET r == newThread(s, a, FALSE, TRUE)
         IN  Counted(r, 0) /\ Ending(r, m, E)
<1> DEFINE r == newThread(s, a, FALSE, TRUE)
           num == s.apps[a].num + 1
<1>1. s \in TrState BY DEF Counted
<1>2. Created(s, a, num, r)
  <2>1. Created(s, a, IF FALSE THEN 1 ELSE s.apps[a].num + 1, newThread(s, a, FALSE, TRUE)) BY <1>1, NewThreadIs
  <2> QED BY <2>1
<1> HIDE DEF r
<1>3. Counted(r, 0) BY <1>2, CreatedCounts
<1>4. r \in TrState BY <1>3 DEF Counted
<1>5. /\ DOMAIN r.threads = DOMAIN s.threads \union {Len(s.threads) + 1}
      /\ \A j \in DOMAIN s.threads : r.threads[j] = s.threads[j]
  <2>1. Len(r.threads) = Len(s.threads) + 1 BY <1>2 DEF Created
  <2>2. DOMAIN r.threads = 1 .. Len(r.threads) /\ DOMAIN s.threads = 1 .. Len(s.threads) /\ Len(s.threads) \in Nat
    BY <1>1, <1>4, CountedSets
  <2> QED BY <2>1, <2>2, <1>2 DEF Created
<1>6. LET j == Len(s.threads) + 1
      IN  r.threads[j].pc = "start" /\ ~r.threads[j].stopped /\ ~r.threads[j].stop /\ r.threads[j].app = a
  BY <1>2 DEF Created, TrThread
<1>7. r.done = s.done /\ s.done \in Nat /\ r.nonfinish = s.nonfinish /\ DOMAIN r.apps = DOMAIN s.apps
  BY <1>1, <1>2, StateFields DEF Created
<1>8. After(s, r, {}) BY <1>5, <1>6, <1>7 DEF After
<1>9. RunsLeft(s) => RunsLeft(r)
  <2>1. r.apps[a].num # 0
    <3>1. r.threads[Len(s.threads) + 1].app = a /\ Len(s.threads) + 1 \in DOMAIN r.threads BY <1>5, <1>6
    <3> QED BY <3>1, <1>3, <1>6, LiveCounts
  <2>2. \A b \in DOMAIN s.apps : /\ b # a => r.apps[b].num = s.apps[b].num
                                 /\ r.apps[b].runs = s.apps[b].runs
    BY <1>2 DEF Created
  <2> QED BY <2>1, <2>2, <1>7 DEF RunsLeft
<1>10. RunsKept(s, r, m, E) /\ Covered(s, r, E, {}) BY <1>9 DEF RunsKept, Covered
<1>11. Ending(r, m, E) BY <1>1, <1>4, <1>8, <1>10, AfterEnding
<1> QED BY <1>3, <1>11 DEF r

\* createApplication(): an application more, which has not run.
ForkPut(s, x, n) == [s EXCEPT !.nonfinish = n, !.apps = x]
Forked(s, num) == ForkPut(s, Append(s.apps, [num |-> num, count |-> 1, runs |-> 0]), s.nonfinish + 1)

LEMMA ForkPutIs ==
  ASSUME NEW s \in TrState, NEW x, NEW n
  PROVE  ForkPut(s, x, n) = TrOf(x, n, s.threads, s.running, s.done, s.crashed)
<1>1. PICK A, k, T, m, d, c :
        /\ s = TrOf(A, k, T, m, d, c)
        /\ s.threads = T /\ s.running = m /\ s.done = d /\ s.crashed = c
  BY StateFields
<1>2. [TrOf(A, k, T, m, d, c) EXCEPT !.nonfinish = n] = TrOf(A, n, T, m, d, c) BY DEF TrOf
<1>3. [TrOf(A, n, T, m, d, c) EXCEPT !.apps = x] = TrOf(x, n, T, m, d, c) BY DEF TrOf
<1>4. [s EXCEPT !.nonfinish = n, !.apps = x] = TrOf(x, n, T, m, d, c) BY <1>1, <1>2, <1>3
<1> QED BY <1>1, <1>4 DEF ForkPut

OneMoreApp(s, num, a, t) ==
  /\ t \in TrState
  /\ DOMAIN t.apps = DOMAIN s.apps \union {a} /\ a \notin DOMAIN s.apps
  /\ \A b \in DOMAIN s.apps : t.apps[b] = s.apps[b]
  /\ t.apps[a].num = num /\ t.apps[a].runs = 0
  /\ t.nonfinish = s.nonfinish + 1 /\ t.threads = s.threads
  /\ t.running = s.running /\ t.done = s.done

LEMMA ForkedIs ==
  ASSUME NEW s \in TrState, NEW num \in Int
  PROVE  OneMoreApp(s, num, Len(s.apps) + 1, Forked(s, num))
<1> DEFINE e == [num |-> num, count |-> 1, runs |-> 0]
           x == Append(s.apps, e)
           a == Len(s.apps) + 1
           t == Forked(s, num)
<1>1. s.apps \in Seq(AppInfo) BY StateFields DEF AppList
<1>2. e \in AppInfo /\ e.num = num /\ e.runs = 0 BY DEF AppInfo
<1> HIDE DEF e
<1>3. /\ x \in Seq(AppInfo) /\ Len(x) = a /\ x[a] = e /\ Len(s.apps) \in Nat
      /\ \A b \in DOMAIN s.apps : x[b] = s.apps[b]
  BY <1>1, <1>2
<1>4. DOMAIN x = DOMAIN s.apps \union {a} /\ a \notin DOMAIN s.apps
  <2>1. DOMAIN x = 1 .. Len(x) /\ DOMAIN s.apps = 1 .. Len(s.apps) BY <1>1, <1>3
  <2> HIDE DEF x
  <2> QED BY <2>1, <1>3
<1>5. x \in AppList /\ s.nonfinish + 1 \in Int BY <1>3, StateFields DEF AppList
<1>6. t = TrOf(x, s.nonfinish + 1, s.threads, s.running, s.done, s.crashed)
  <2>1. t = ForkPut(s, x, s.nonfinish + 1) BY DEF Forked, e
  <2> HIDE DEF x, t
  <2> QED BY <2>1, ForkPutIs
<1> HIDE DEF x, t
<1>7. /\ t \in TrState /\ t.apps = x /\ t.nonfinish = s.nonfinish + 1 /\ t.threads = s.threads
      /\ t.running = s.running /\ t.done = s.done
  BY <1>5, <1>6, StateFields, StateOf
<1> QED BY <1>2, <1>3, <1>4, <1>7 DEF t, OneMoreApp

\* Before its first thread is counted.
LEMMA ForkedCounts == ASSUME NEW s, Counted(s, 0) PROVE Counted(Forked(s, 0), 0)
<1> DEFINE t == Forked(s, 0)
           a == Len(s.apps) + 1
<1>1. s \in TrState BY DEF Counted
<1>2. /\ t \in TrState
      /\ DOMAIN t.apps = DOMAIN s.apps \union {a} /\ a \notin DOMAIN s.apps
      /\ \A b \in DOMAIN s.apps : t.apps[b] = s.apps[b]
      /\ t.apps[a].num = 0 /\ t.apps[a].runs = 0
      /\ t.nonfinish = s.nonfinish + 1 /\ t.threads = s.threads
      /\ t.running = s.running
  <2>1. OneMoreApp(s, 0, a, t) BY <1>1, ForkedIs
  <2> HIDE DEF a, t
  <2> QED BY <2>1 DEF OneMoreApp
<1> HIDE DEF t, a
<1>3. LiveIn(t) = LiveIn(s) BY <1>2 DEF LiveIn
<1>4. \A b : LiveOf(t, b) = LiveOf(s, b) BY <1>2, <1>3 DEF LiveOf
<1>5. LiveOf(t, a) = {} BY <1>2, <1>4 DEF LiveOf, LiveIn, Counted
<1>6. Countable(LiveOf(t, a)) /\ Countable(Unfinished(s)) BY <1>1, <1>2, CountedSets
<1>7. Unfinished(t) = Unfinished(s) \union {a} /\ a \notin Unfinished(s) BY <1>2 DEF Unfinished
<1>8. t.nonfinish = Cardinality(Unfinished(t)) BY <1>2, <1>6, <1>7 DEF Countable, Counted
<1>9. ASSUME NEW b \in DOMAIN t.apps PROVE t.apps[b].num = Cardinality(LiveOf(t, b))
  <2>1. CASE b = a BY <2>1, <1>2, <1>5, <1>6 DEF Countable
  <2>2. CASE b # a BY <2>2, <1>2, <1>4 DEF Counted
  <2> QED BY <2>1, <2>2
<1>10. t.running = Cardinality(LiveIn(t)) + 0 BY <1>2, <1>3 DEF Counted
<1> QED BY <1>2, <1>8, <1>9, <1>10 DEF Counted, t

LEMMA Forks ==
  ASSUME NEW s, NEW m, NEW E, Counted(s, 0), Ending(s, m, E)
  PROVE  Counted(createApplication(s), 0) /\ Ending(createApplication(s), m, E)
<1> DEFINE a == Len(s.apps) + 1
           t == Forked(s, 1)
           z == Forked(s, 0)
           r == createApplication(s)
<1>1. s \in TrState BY DEF Counted
<1>2. /\ t \in TrState /\ a \in DOMAIN t.apps
      /\ DOMAIN t.apps = DOMAIN z.apps
      /\ \A b \in DOMAIN t.apps : (b # a => t.apps[b].num = z.apps[b].num) /\ t.apps[b].runs = z.apps[b].runs
      /\ t.nonfinish = z.nonfinish /\ t.threads = z.threads /\ t.running = z.running /\ t.done = z.done
  <2>1. OneMoreApp(s, 1, a, t) /\ OneMoreApp(s, 0, a, z) BY <1>1, ForkedIs
  <2> HIDE DEF a, t, z
  <2> QED BY <2>1 DEF OneMoreApp
<1>3. /\ DOMAIN z.apps = DOMAIN s.apps \union {a} /\ a \notin DOMAIN s.apps
      /\ \A b \in DOMAIN s.apps : z.apps[b] = s.apps[b]
      /\ z.apps[a].num = 0 /\ z.threads = s.threads /\ z.done = s.done /\ z.nonfinish = s.nonfinish + 1
  <2>1. OneMoreApp(s, 0, a, z) BY <1>1, ForkedIs
  <2> HIDE DEF a, z
  <2> QED BY <2>1 DEF OneMoreApp
<1>4. Counted(z, 0) BY ForkedCounts
<1>5. r = newThread(t, a, TRUE, TRUE) BY DEF createApplication, Forked, ForkPut
<1> HIDE DEF t, z, a, r
<1>6. Created(t, a, 1, r)
  <2>1. Created(t, a, IF TRUE THEN 1 ELSE t.apps[a].num + 1, newThread(t, a, TRUE, TRUE)) BY <1>2, NewThreadIs
  <2> QED BY <2>1, <1>5
<1>7. Created(z, a, 1, r) BY <1>2, <1>6 DEF Created
<1>8. Counted(r, 0)
  <2>1. 1 = z.apps[a].num + 1 /\ a \in DOMAIN z.apps BY <1>3
  <2> QED BY <2>1, <1>4, <1>7, CreatedCounts
<1>9. r \in TrState BY <1>8 DEF Counted
<1>10. /\ DOMAIN r.threads = DOMAIN s.threads \union {Len(s.threads) + 1}
       /\ \A j \in DOMAIN s.threads : r.threads[j] = s.threads[j]
  <2>1. Len(r.threads) = Len(s.threads) + 1 BY <1>3, <1>7 DEF Created
  <2>2. DOMAIN r.threads = 1 .. Len(r.threads) /\ DOMAIN s.threads = 1 .. Len(s.threads) /\ Len(s.threads) \in Nat
    BY <1>1, <1>9, CountedSets
  <2> QED BY <2>1, <2>2, <1>3, <1>7 DEF Created
<1>11. LET j == Len(s.threads) + 1
       IN  r.threads[j].pc = "start" /\ ~r.threads[j].stopped /\ ~r.threads[j].stop
  BY <1>3, <1>7 DEF Created, TrThread
<1>12. r.done = s.done /\ r.nonfinish # 0 /\ DOMAIN r.apps = DOMAIN s.apps \union {a}
  <2>1. s.nonfinish \in Nat
    <3>1. Countable(Unfinished(s)) BY <1>1, CountedSets
    <3> QED BY <3>1 DEF Countable, Counted
  <2> QED BY <2>1, <1>3, <1>7 DEF Created
<1>13. RunsLeft(s) => RunsLeft(r)
  <2>1. \A b \in DOMAIN r.apps : /\ b = a => r.apps[b].num = 1
                                 /\ b # a => r.apps[b].num = s.apps[b].num /\ r.apps[b].runs = s.apps[b].runs
    BY <1>3, <1>7, <1>12 DEF Created
  <2> QED BY <2>1, <1>12 DEF RunsLeft
<1>14. Ending(r, m, E)
  <2>1. ASSUME NEW j \in DOMAIN r.threads PROVE ThreadSound(r, m, E, j)
    <3>1. CASE j \notin DOMAIN s.threads BY <3>1, <1>10, <1>11 DEF ThreadSound
    <3>2. CASE j \in DOMAIN s.threads
      <4>1. ThreadSound(s, m, E, j) BY <3>2 DEF Ending
      <4>2. \A d \in E : r.threads[d] = s.threads[d] BY <1>10 DEF Ending
      <4> QED BY <4>1, <4>2, <3>2, <1>10, <1>12 DEF ThreadSound, Ended
    <3> QED BY <3>1, <3>2
  <2>2. OneEnder(r, E) => OneEnder(s, E) BY <1>10 DEF OneEnder, Ending
  <2> QED BY <2>1, <2>2, <1>10, <1>12, <1>13 DEF Ending, Ended
<1> QED BY <1>8, <1>14 DEF r

-----------------------------------------------------------------------------
\* The steps of TrNext.
LEMMA TrSetIs ==
  ASSUME NEW r \in TrState, TrCommit(r)
  PROVE  TrSet' = r
<1>1. r = TrOf(r.apps, r.nonfinish, r.threads, r.running, r.done, r.crashed) BY StateFields
<1> QED BY <1>1 DEF TrCommit, TrSet, TrOf

LEMMA TrSetFields ==
  /\ TrSet.apps = trApps /\ TrSet.threads = trThreads /\ TrSet.done = trDone
  /\ TrSet.nonfinish = trNonfinish /\ TrSet.running = trRunning
BY DEF TrSet

\* A step of a thread that takes the manager to r.
LEMMA TrStepInv ==
  ASSUME NEW r, NEW F, Counted(r, 0), Ending(r, Main, F), TrCommit(r), Main' = Main, trEnders' = F
  PROVE  TrInv'
<1>1. r \in TrState BY DEF Counted
<1>2. TrSet' = r BY <1>1, TrSetIs
<1> QED BY <1>2 DEF TrInv

LEMMA InitInv == TrInit => TrInv
<1> SUFFICES ASSUME TrInit PROVE TrInv OBVIOUS
<1> DEFINE s == TrSet
           e == [num |-> 1, count |-> 1, runs |-> 0]
<1>1. /\ s.apps = [a \in 1 .. trNum |-> e] /\ s.threads = [a \in 1 .. trNum |-> TrThread(a, FALSE)]
      /\ s.nonfinish = trNum /\ s.running = trNum /\ s.done = 0 /\ s.crashed = FALSE
  BY DEF TrInit, TrSet
<1>2. trNum \in Nat /\ trNum > 0 BY TrAssumption DEF TrInit
<1>3. \A a \in 1 .. trNum : TrThread(a, FALSE) \in ThreadInfo BY DEF TrThread, ThreadInfo, TrPcs
<1>4. e \in AppInfo BY DEF AppInfo
<1>5. s.apps \in AppList /\ s.threads \in ThreadList
  <2>1. s.apps \in [1 .. trNum -> AppInfo] BY <1>1, <1>4
  <2>2. s.threads \in [1 .. trNum -> ThreadInfo] BY <1>1, <1>3
  <2> HIDE DEF s
  <2> QED BY <1>2, <2>1, <2>2 DEF AppList, ThreadList, Seq
<1>6. s \in TrState
  <2>1. s = TrOf(s.apps, s.nonfinish, s.threads, s.running, s.done, s.crashed) BY DEF TrSet, TrOf
  <2> HIDE DEF s
  <2>2. s.nonfinish \in Int /\ s.running \in Int /\ s.done \in Nat BY <1>1, <1>2
  <2>3. s.crashed \in BOOLEAN BY <1>1, Zenon
  <2>4. TrOf(s.apps, s.nonfinish, s.threads, s.running, s.done, s.crashed) \in TrState
    BY <1>5, <2>2, <2>3, StateOf
  <2> QED BY <2>1, <2>4
<1>7. DOMAIN s.apps = 1 .. trNum /\ DOMAIN s.threads = 1 .. trNum BY <1>1
<1>8. \A a \in 1 .. trNum : /\ s.threads[a].app = a /\ ~s.threads[a].stopped /\ ~s.threads[a].stop
                             /\ s.threads[a].pc = "created"
                             /\ s.apps[a].num = 1 /\ s.apps[a].runs = 0
  <2> TAKE a \in 1 .. trNum
  <2> DEFINE t == TrThread(a, FALSE)
  <2>1. s.threads[a] = t /\ s.apps[a] = e BY <1>1
  <2>2. t.app = a BY DEF TrThread
  <2>3. ~t.stopped BY DEF TrThread
  <2>4. ~t.stop BY DEF TrThread
  <2>5. t.pc = "created" BY DEF TrThread
  <2>6. e.num = 1 /\ e.runs = 0 OBVIOUS
  <2> HIDE DEF s, t, e
  <2> QED BY <2>1, <2>2, <2>3, <2>4, <2>5, <2>6
<1> HIDE DEF s
<1>9. LiveIn(s) = 1 .. trNum /\ Unfinished(s) = 1 .. trNum BY <1>7, <1>8 DEF LiveIn, Unfinished
<1>10. Cardinality(1 .. trNum) = trNum BY <1>2, FS_Interval
<1>11. ASSUME NEW a \in 1 .. trNum PROVE Cardinality(LiveOf(s, a)) = 1
  <2>1. \A i \in 1 .. trNum : s.threads[i].app = i BY <1>8
  <2>2. LiveOf(s, a) = {i \in 1 .. trNum : s.threads[i].app = a} BY <1>9 DEF LiveOf
  <2>3. LiveOf(s, a) = {a} BY <2>1, <2>2
  <2> QED BY <2>3, FS_Singleton
<1>12. Counted(s, 0)
  <2>1. \A i \in DOMAIN s.threads : s.threads[i].app \in DOMAIN s.apps BY <1>7, <1>8
  <2>2. s.running = trNum /\ s.nonfinish = trNum BY <1>1
  <2>3. s.running = Cardinality(LiveIn(s)) + 0 BY <2>2, <1>2, <1>9, <1>10
  <2>4. \A a \in DOMAIN s.apps : s.apps[a].num = Cardinality(LiveOf(s, a)) BY <1>7, <1>8, <1>11
  <2> QED BY <2>1, <2>2, <2>3, <2>4, <1>6, <1>9, <1>10 DEF Counted
<1>13. Main.pc = "start" /\ Main.at = 1 /\ trEnders = {} BY DEF TrInit, Main
<1>14. \A i \in DOMAIN s.threads : ThreadSound(s, Main, trEnders, i) BY <1>2, <1>7, <1>8, <1>13 DEF ThreadSound
<1>15. RunsLeft(s) BY <1>7, <1>8 DEF RunsLeft
<1>16. Ending(s, Main, trEnders) BY <1>1, <1>2, <1>13, <1>14, <1>15 DEF Ending
<1> QED BY <1>12, <1>16 DEF TrInv, s

\* start(): a thread that was created begins to run, or the end of the loop, or
\* an iterator that points nowhere.
LEMMA StartInv == ASSUME TrInv, start PROVE TrInv'
<1> DEFINE s == TrSet
           r == TrSet'
           k == trSpawned
           t == [trThreads[k] EXCEPT !.pc = "start"]
           p == PutThread(s, k, t)
<1>1. Counted(s, 0) /\ Ending(s, Main, trEnders) /\ Main.pc = "start" /\ Main.at = k
  BY DEF TrInv, start, Main
<1>2. /\ s.threads = trThreads /\ r.apps = s.apps /\ r.nonfinish = s.nonfinish
      /\ r.running = s.running /\ r.done = s.done /\ r.crashed \in BOOLEAN /\ trEnders' = trEnders
  BY DEF start, TrSet
<1>3. /\ s \in TrState /\ DOMAIN s.threads = 1 .. Len(s.threads) /\ Len(s.threads) \in Nat
      /\ k \in Nat \ {0}
  <2>1. s \in TrState BY <1>1 DEF Counted
  <2> QED BY <1>1, <2>1, CountedSets DEF Ending
<1>4. r = TrOf(r.apps, r.nonfinish, r.threads, r.running, r.done, r.crashed) BY DEF TrSet, TrOf
<1>5. \/ /\ k <= Len(trThreads) /\ trThreads[k].pc = "created"
         /\ trThreads' = [trThreads EXCEPT ![k].pc = "start"] /\ trSpawned' = k + 1 /\ trMain' = "start"
      \/ trThreads' = trThreads /\ trSpawned' = k /\ trMain' = "start"
      \/ trThreads' = trThreads /\ trSpawned' = k /\ trMain' = "wait" /\ ~(k <= Len(trThreads))
  BY DEF start
<1>6. r.threads = trThreads' /\ Main' = [pc |-> trMain', at |-> trSpawned']
  BY DEF TrSet, Main
<1>7. \/ /\ k \in DOMAIN s.threads /\ trThreads[k].pc = "created"
         /\ r.threads = [trThreads EXCEPT ![k].pc = "start"] /\ Main' = [pc |-> "start", at |-> k + 1]
      \/ r.threads = s.threads /\ Main' = [pc |-> "start", at |-> k]
      \/ r.threads = s.threads /\ Main' = [pc |-> "wait", at |-> k] /\ k > Len(s.threads)
  <2> HIDE DEF r, s
  <2>1. k <= Len(trThreads) => k \in DOMAIN s.threads BY <1>2, <1>3
  <2>2. ~(k <= Len(trThreads)) => k > Len(s.threads) BY <1>2, <1>3
  <2> QED BY <1>2, <1>5, <1>6, <2>1, <2>2
<1> HIDE DEF r
<1>8. ASSUME r.threads \in ThreadList, DOMAIN r.threads = DOMAIN s.threads,
             \A i \in DOMAIN s.threads : /\ r.threads[i].app = s.threads[i].app
                                         /\ r.threads[i].stopped = s.threads[i].stopped,
             \A i \in DOMAIN s.threads : ThreadSound(r, Main', trEnders, i),
             Main'.at \in Nat \ {0}
      PROVE  TrInv'
  <2> HIDE DEF s
  <2>1. r \in TrState
    <3>1. r.apps \in AppList /\ r.nonfinish \in Int /\ r.running \in Int /\ r.done \in Nat
      BY <1>2, <1>3, StateFields
    <3> QED BY <3>1, <1>2, <1>4, <1>8, StateOf
  <2>2. Counted(r, 0)
    <3>1. SameCounts(s, r) BY <1>2, <1>8 DEF SameCounts
    <3>2. r.running = s.running + 0 BY <1>2, <1>3, StateFields
    <3>3. Counted(r, 0 + 0) BY <1>1, <2>1, <3>1, <3>2, CountsSame
    <3>4. 0 + 0 = 0 OBVIOUS
    <3> QED BY <3>3, <3>4
  <2>3. OneEnder(r, trEnders) => OneEnder(s, trEnders) BY <1>1, <1>8 DEF OneEnder, Ending
  <2>4. Ended(s, Main) => Ended(r, Main') BY <1>1, <1>2 DEF Ended
  <2>5. RunsLeft(s) => RunsLeft(r) BY <1>2 DEF RunsLeft
  <2>6. Ending(r, Main', trEnders) BY <1>1, <1>2, <1>8, <2>3, <2>4, <2>5 DEF Ending
  <2> QED BY <1>2, <2>2, <2>6 DEF TrInv, r
<1>9. \A i \in DOMAIN s.threads : ThreadSound(s, Main, trEnders, i) BY <1>1 DEF Ending
<1>10. CASE /\ k \in DOMAIN s.threads /\ trThreads[k].pc = "created"
            /\ r.threads = [trThreads EXCEPT ![k].pc = "start"] /\ Main' = [pc |-> "start", at |-> k + 1]
  <2>1. trThreads[k] \in ThreadInfo BY <1>2, <1>3, <1>10, CountedSets
  <2>2. /\ t \in ThreadInfo /\ t.app = trThreads[k].app /\ t.stopped = trThreads[k].stopped
        /\ t.stop = trThreads[k].stop /\ t.pc = "start"
    BY <2>1 DEF ThreadInfo, TrPcs
  <2>3. r.threads = [s.threads EXCEPT ![k] = t] BY <1>2, <1>10
  <2> HIDE DEF t, s, k
  <2>4. r.threads \in ThreadList /\ DOMAIN r.threads = DOMAIN s.threads
    <3>1. s.threads \in Seq(ThreadInfo) BY <1>3, StateFields DEF ThreadList
    <3>2. k \in DOMAIN s.threads /\ t \in ThreadInfo BY <1>10, <2>2
    <3>3. /\ [s.threads EXCEPT ![k] = t] \in Seq(ThreadInfo)
          /\ DOMAIN [s.threads EXCEPT ![k] = t] = DOMAIN s.threads
      BY <3>1, <3>2, SeqPut
    <3> QED BY <2>3, <3>3 DEF ThreadList
  <2>5. \A i \in DOMAIN s.threads : r.threads[i] = IF i = k THEN t ELSE s.threads[i] BY <2>3
  <2>6. Main'.pc = "start" /\ Main'.at = k + 1 BY <1>10
  <2>7. \A d \in trEnders : d \in DOMAIN s.threads BY <1>1 DEF Ending
  <2>8. \A i \in DOMAIN s.threads : /\ r.threads[i].app = s.threads[i].app
                                    /\ r.threads[i].stopped = s.threads[i].stopped
    BY <1>2, <2>2, <2>5
  <2>9. ASSUME NEW i \in DOMAIN s.threads PROVE ThreadSound(r, Main', trEnders, i)
    <3>1. ThreadSound(s, Main, trEnders, i) BY <1>9
    <3>2. Ended(s, Main) => Ended(r, Main') BY <1>1, <1>2 DEF Ended
    <3>3. (\E d \in trEnders : d # i /\ s.threads[d].app = s.threads[i].app)
            => \E d \in trEnders : d # i /\ r.threads[d].app = r.threads[i].app
      BY <2>7, <2>8
    <3>4. CASE i = k
      <4>1. r.threads[i] = t /\ s.threads[i].pc = "created" BY <1>2, <1>10, <2>5, <3>4
      <4>2. /\ r.threads[i].pc = "start" /\ (r.threads[i].stopped <=> s.threads[i].stopped)
            /\ (r.threads[i].stop <=> s.threads[i].stop)
        BY <1>2, <2>2, <3>4, <4>1
      <4> QED BY <3>1, <3>2, <3>3, <4>1, <4>2 DEF ThreadSound
    <3>5. CASE i # k
      <4>1. r.threads[i] = s.threads[i] BY <2>5, <3>5
      <4>2. r.threads[i].pc = "created" => Main'.pc = "start" /\ Main'.at <= i
        BY <3>1, <3>5, <4>1, <1>1, <1>3, <2>6 DEF ThreadSound
      <4> QED BY <3>1, <3>2, <3>3, <4>1, <4>2 DEF ThreadSound
    <3> QED BY <3>4, <3>5
  <2> QED BY <1>3, <1>8, <2>4, <2>6, <2>8, <2>9
<1>11. CASE /\ r.threads = s.threads
            /\ \/ Main' = [pc |-> "start", at |-> k]
               \/ Main' = [pc |-> "wait", at |-> k] /\ k > Len(s.threads)
  <2> HIDE DEF s
  <2>1. r.threads \in ThreadList BY <1>3, <1>11, StateFields
  <2>2. Main'.at = k /\ (Main'.pc = "start" \/ k > Len(s.threads)) BY <1>11
  <2>3. ASSUME NEW i \in DOMAIN s.threads PROVE ThreadSound(r, Main', trEnders, i)
    <3>1. ThreadSound(s, Main, trEnders, i) BY <1>9
    <3>2. Ended(s, Main) => Ended(r, Main') BY <1>1, <1>2 DEF Ended
    <3>3. r.threads[i].pc = "created" => Main'.pc = "start" /\ Main'.at <= i
      BY <3>1, <1>1, <1>3, <1>11, <2>2 DEF ThreadSound
    <3> QED BY <3>1, <3>2, <3>3, <1>11 DEF ThreadSound
  <2> QED BY <1>3, <1>8, <1>11, <2>1, <2>2, <2>3
<1> QED BY <1>7, <1>10, <1>11

LEMMA WaitInv == ASSUME TrInv, wait PROVE TrInv'
<1> DEFINE s == TrSet
           r == TrSet'
<1>1. Counted(s, 0) /\ Ending(s, Main, trEnders) /\ s.done > 0 BY DEF TrInv, wait, TrSet
<1>2. /\ r.apps = s.apps /\ r.nonfinish = s.nonfinish /\ r.threads = s.threads /\ r.running = s.running
      /\ r.done = s.done - 1 /\ r.crashed = s.crashed
  BY DEF wait, TrSet
<1>3. r = TrOf(r.apps, r.nonfinish, r.threads, r.running, r.done, r.crashed) BY DEF TrSet, TrOf
<1>4. Main'.pc = "over" /\ Main'.at = Main.at /\ trEnders' = trEnders BY DEF wait, Main
<1> HIDE DEF s, r
<1>5. s \in TrState BY <1>1 DEF Counted
<1>6. r \in TrState
  <2>1. /\ s.apps \in AppList /\ s.threads \in ThreadList /\ s.nonfinish \in Int /\ s.running \in Int
        /\ s.done \in Nat /\ s.crashed \in BOOLEAN
    BY <1>5, StateFields
  <2>2. r.done \in Nat BY <2>1, <1>1, <1>2
  <2> QED BY <2>1, <2>2, <1>2, <1>3, StateOf
<1>7. Counted(r, 0)
  <2>1. SameCounts(s, r) BY <1>2 DEF SameCounts
  <2>2. r.running = s.running + 0 BY <1>2, <1>5, StateFields
  <2>3. Counted(r, 0 + 0) BY <1>1, <1>6, <2>1, <2>2, CountsSame
  <2>4. 0 + 0 = 0 OBVIOUS
  <2> QED BY <2>3, <2>4
<1>8. Ending(r, Main', trEnders)
  <2>1. ASSUME NEW i \in DOMAIN r.threads PROVE ThreadSound(r, Main', trEnders, i)
    <3>1. ThreadSound(s, Main, trEnders, i) BY <1>1, <1>2 DEF Ending
    <3> QED BY <3>1, <1>2, <1>4 DEF ThreadSound, Ended
  <2> QED BY <2>1, <1>1, <1>2, <1>4 DEF Ending, Ended
<1> QED BY <1>4, <1>7, <1>8 DEF TrInv, r

LEMMA MonitorInv == ASSUME TrInv, monitorAborts PROVE TrInv'
<1>1. TrSet' = TrSet BY DEF monitorAborts, TrSet
<1>2. Counted(TrSet, 0) /\ Ending(TrSet, Main, trEnders) BY DEF TrInv
<1>3. Main'.pc = "over" /\ Main'.at = Main.at /\ trEnders' = trEnders BY DEF monitorAborts, Main
<1>4. Ending(TrSet, Main', trEnders)
  <2>1. ASSUME NEW i \in DOMAIN TrSet.threads PROVE ThreadSound(TrSet, Main', trEnders, i)
    <3>1. ThreadSound(TrSet, Main, trEnders, i) BY <1>2 DEF Ending
    <3> QED BY <3>1, <1>3 DEF ThreadSound, Ended
  <2> QED BY <2>1, <1>2, <1>3 DEF Ending, Ended
<1> QED BY <1>1, <1>2, <1>3, <1>4 DEF TrInv

\* What a step of a thread begins with.
LEMMA AtStep ==
  ASSUME TrInv, NEW i \in DOMAIN trThreads
  PROVE  /\ Counted(TrSet, 0) /\ Ending(TrSet, Main, trEnders)
         /\ TrSet.threads = trThreads /\ i \in DOMAIN TrSet.threads
         /\ trThreads[i] \in ThreadInfo
<1>1. Counted(TrSet, 0) /\ Ending(TrSet, Main, trEnders) BY DEF TrInv
<1>2. TrSet.threads = trThreads BY TrSetFields
<1>3. trThreads[i] \in ThreadInfo BY <1>1, <1>2, CountedSets DEF Counted
<1> QED BY <1>1, <1>2, <1>3

\* A step that only moves a thread on.
LEMMA MovesOn ==
  ASSUME TrInv, NEW i \in DOMAIN trThreads, NEW from, NEW pc \in TrPcs, from # "over",
         pc \notin {"over", "ending", "created"}, TrStep(i, from, TrAt(TrSet, i, pc)), UNCHANGED trEnders
  PROVE  TrInv'
<1> DEFINE t == [trThreads[i] EXCEPT !.pc = pc]
           r == PutThread(TrSet, i, t)
<1>1. trThreads[i].pc = from BY DEF TrStep
<1>2. /\ Counted(TrSet, 0) /\ Ending(TrSet, Main, trEnders)
      /\ TrSet.threads = trThreads /\ i \in DOMAIN TrSet.threads /\ trThreads[i] \in ThreadInfo
  BY AtStep
<1>3. TrAt(TrSet, i, pc) = r BY <1>2 DEF TrAt, PutThread
<1>4. /\ t \in ThreadInfo /\ t.app = trThreads[i].app /\ t.stopped = trThreads[i].stopped
      /\ t.stop = trThreads[i].stop /\ t.pc = pc
  BY <1>2 DEF ThreadInfo
<1> HIDE DEF t
<1>5. Counted(r, 0) /\ Ending(r, Main, trEnders) BY <1>1, <1>2, <1>4, GoesOn
<1>6. TrCommit(r) /\ Main' = Main BY <1>3 DEF TrStep, Main
<1> HIDE DEF r
<1> QED BY <1>5, <1>6, TrStepInv

LEMMA RunExitInv == ASSUME TrInv, NEW i \in DOMAIN trThreads, runExit(i) PROVE TrInv'
<1> DEFINE u == signalDone(TrSet, i, trThreads[i].stop)
           r == Exited(TrSet, i)
<1>1. trThreads[i].pc = "exit" BY DEF runExit, TrStep
<1>2. /\ Counted(TrSet, 0) /\ Ending(TrSet, Main, trEnders)
      /\ TrSet.threads = trThreads /\ i \in DOMAIN TrSet.threads
  BY AtStep
<1>3. Counted(r, 0) /\ Ending(r, Main, trEnders) BY <1>2, Exits
<1>4. TrAt(u, i, "over") = r
  <2>1. r = PutThread(u, i, [u.threads[i] EXCEPT !.pc = "over"]) BY <1>2 DEF Exited
  <2> HIDE DEF u, r
  <2> QED BY <2>1 DEF TrAt, PutThread
<1>5. TrCommit(r) /\ Main' = Main /\ trEnders' = trEnders BY <1>4 DEF runExit, TrStep, Main
<1> HIDE DEF r
<1> QED BY <1>3, <1>5, TrStepInv

LEMMA NewThreadInv == ASSUME TrInv, NEW i \in DOMAIN trThreads, handleNewThreadFunc(i) PROVE TrInv'
<1> DEFINE r == newThread(TrSet, trThreads[i].app, FALSE, TRUE)
<1>1. trThreads[i].pc = "loop" BY DEF handleNewThreadFunc, TrStep
<1>2. /\ Counted(TrSet, 0) /\ Ending(TrSet, Main, trEnders)
      /\ TrSet.threads = trThreads /\ i \in DOMAIN TrSet.threads
  BY AtStep
<1>3. trThreads[i].app \in DOMAIN TrSet.apps BY <1>2 DEF Counted
<1>4. Counted(r, 0) /\ Ending(r, Main, trEnders) BY <1>2, <1>3, Creates
<1>5. TrCommit(r) /\ Main' = Main /\ trEnders' = trEnders BY DEF handleNewThreadFunc, TrStep, Main
<1> HIDE DEF r
<1> QED BY <1>4, <1>5, TrStepInv

LEMMA ForkInv == ASSUME TrInv, NEW i \in DOMAIN trThreads, handleForkFunc(i) PROVE TrInv'
<1> DEFINE r == createApplication(TrSet)
<1>1. trThreads[i].pc = "loop" BY DEF handleForkFunc, TrStep
<1>2. Counted(TrSet, 0) /\ Ending(TrSet, Main, trEnders) BY AtStep
<1>3. Counted(r, 0) /\ Ending(r, Main, trEnders) BY <1>2, Forks
<1>4. TrCommit(r) /\ Main' = Main /\ trEnders' = trEnders BY DEF handleForkFunc, TrStep, Main
<1> HIDE DEF r
<1> QED BY <1>3, <1>4, TrStepInv

\* SYS_exit_group: the thread ends its application from now on.
LEMMA ExitGroupInv == ASSUME TrInv, NEW i \in DOMAIN trThreads, handleExitGroup(i) PROVE TrInv'
<1> DEFINE e == [trThreads[i] EXCEPT !.pc = "ending"]
           t == [trThreads[i] EXCEPT !.pc = "ending", !.at = 1, !.len = Len(trThreads)]
           r == PutThread(TrSet, i, t)
           F == trEnders \union {i}
<1>1. trThreads[i].pc = "loop" BY DEF handleExitGroup, TrStep
<1>2. /\ Counted(TrSet, 0) /\ Ending(TrSet, Main, trEnders)
      /\ TrSet.threads = trThreads /\ i \in DOMAIN TrSet.threads /\ trThreads[i] \in ThreadInfo
  BY AtStep
<1>3. [TrSet EXCEPT !.threads[i] = [@ EXCEPT !.pc = "ending", !.at = 1, !.len = Len(trThreads)]] = r
  BY <1>2 DEF PutThread
<1>4. /\ t \in ThreadInfo /\ t.app = trThreads[i].app /\ t.stopped = trThreads[i].stopped
      /\ t.stop = trThreads[i].stop /\ t.pc = "ending" /\ t.at > 0
  <2>1. /\ e \in ThreadInfo /\ e.app = trThreads[i].app /\ e.stopped = trThreads[i].stopped
        /\ e.stop = trThreads[i].stop /\ e.pc = "ending"
    BY <1>2 DEF ThreadInfo, TrPcs
  <2> DEFINE f == [e EXCEPT !.at = 1]
  <2>2. t = [f EXCEPT !.len = Len(trThreads)] OBVIOUS
  <2>3. Len(trThreads) \in Nat BY <1>2, CountedSets DEF Counted
  <2> HIDE DEF e, t
  <2>4. /\ f \in ThreadInfo /\ f.app = trThreads[i].app /\ f.stopped = trThreads[i].stopped
        /\ f.stop = trThreads[i].stop /\ f.pc = "ending" /\ f.at = 1
    BY <2>1 DEF ThreadInfo
  <2> HIDE DEF f
  <2> QED BY <2>2, <2>3, <2>4 DEF ThreadInfo
<1> HIDE DEF t
<1>5. trEnders \subseteq F /\ F \subseteq trEnders \union {i} /\ i \in F OBVIOUS
<1>6. TrCommit(r) /\ Main' = Main /\ trEnders' = F BY <1>3 DEF handleExitGroup, TrStep, Main
<1> HIDE DEF F
<1>7. Counted(r, 0) /\ Ending(r, Main, F) BY <1>1, <1>2, <1>4, <1>5, GoesOn
<1> HIDE DEF r
<1> QED BY <1>6, <1>7, TrStepInv

\* endApplication(): an iterator that points nowhere, the end of the walk, a
\* thread of another application or itself, and a thread that is signalled for
\* its application.
LEMMA EndApplicationInv == ASSUME TrInv, NEW i \in DOMAIN trThreads, endApplication(i) PROVE TrInv'
<1> DEFINE k == trThreads[i].at
           s == [TrSet EXCEPT !.threads[i].at = @ + 1]
           mine == k # i /\ trThreads[k].app = trThreads[i].app
           a == signalDone([s EXCEPT !.threads[k].stop = TRUE], k, TRUE)
           t == [trThreads[i] EXCEPT !.at = k + 1]
           p == PutThread(TrSet, i, t)
           c == [TrSet EXCEPT !.crashed = TRUE]
           e == [trThreads[i] EXCEPT !.pc = "loop", !.at = 0, !.len = 0]
           b == PutThread(TrSet, i, e)
           back == [TrSet EXCEPT !.threads[i] = [@ EXCEPT !.pc = "loop", !.at = 0, !.len = 0]]
<1>1. /\ trThreads[i].pc = "ending" /\ Main' = Main /\ trEnders' = trEnders
      /\ \/ TrCommit(c)
         \/ k > Len(trThreads) /\ TrCommit(back)
         \/ ~(k > Len(trThreads)) /\ ~mine /\ TrCommit(s)
         \/ ~(k > Len(trThreads)) /\ mine /\ TrCommit(a)
  BY DEF endApplication, TrStep, Main
<1>2. /\ Counted(TrSet, 0) /\ Ending(TrSet, Main, trEnders)
      /\ TrSet.threads = trThreads /\ i \in DOMAIN TrSet.threads /\ trThreads[i] \in ThreadInfo
  BY AtStep
<1>3. ThreadSound(TrSet, Main, trEnders, i) BY <1>2 DEF Ending
<1>4. i \in trEnders /\ k > 0 BY <1>1, <1>2, <1>3 DEF ThreadSound
<1>5. k \in Nat /\ s = p BY <1>2 DEF PutThread, ThreadInfo
<1>6. /\ t \in ThreadInfo /\ t.app = trThreads[i].app /\ t.stopped = trThreads[i].stopped
      /\ t.stop = trThreads[i].stop /\ t.pc = "ending" /\ t.at > 0
  BY <1>1, <1>2, <1>5 DEF ThreadInfo
<1>7. TrSet \in TrState BY <1>2 DEF Counted
<1> HIDE DEF t, k, s
<1>8. Counted(p, 0) /\ Ending(p, Main, trEnders) BY <1>1, <1>2, <1>4, <1>6, GoesOn
<1>9. CASE TrCommit(back)
  <2>1. back = b BY <1>2 DEF PutThread
  <2>2. /\ e \in ThreadInfo /\ e.app = trThreads[i].app /\ e.stopped = trThreads[i].stopped
        /\ e.stop = trThreads[i].stop /\ e.pc = "loop"
    BY <1>2 DEF ThreadInfo, TrPcs
  <2> HIDE DEF e
  <2>3. Counted(b, 0) /\ Ending(b, Main, trEnders) BY <1>1, <1>2, <2>2, GoesOn
  <2> HIDE DEF b
  <2> QED BY <1>1, <1>9, <2>1, <2>3, TrStepInv
<1>10. CASE TrCommit(s)
  <2>1. TrCommit(p) BY <1>5, <1>10
  <2> HIDE DEF p
  <2> QED BY <2>1, <1>1, <1>8, TrStepInv
<1>11. CASE ~(k > Len(trThreads)) /\ mine /\ TrCommit(a)
  <2>1. k \in DOMAIN trThreads
    <3>1. DOMAIN trThreads = 1 .. Len(trThreads) /\ Len(trThreads) \in Nat BY <1>2, <1>7, CountedSets
    <3> QED BY <3>1, <1>4, <1>5, <1>11
  <2>2. /\ DOMAIN p.threads = DOMAIN trThreads
        /\ \A j \in DOMAIN trThreads : p.threads[j] = IF j = i THEN t ELSE trThreads[j]
    BY <1>2, <1>6, <1>7, PutThreadIs
  <2> HIDE DEF p
  <2>3. p.threads[i].pc = "ending" /\ p.threads[k].app = p.threads[i].app /\ k # i
    BY <2>1, <2>2, <1>2, <1>6, <1>11
  <2>4. a = signalDone(Asked(p, k), k, TRUE) BY <1>5 DEF Asked, PutThread
  <2>5. k \in DOMAIN p.threads /\ i \in DOMAIN p.threads BY <2>1, <2>2
  <2>6. Counted(a, 0) /\ Ending(a, Main, trEnders) BY <2>3, <2>4, <2>5, <1>2, <1>8, Aborts
  <2>7. TrCommit(a) BY <1>11
  <2> HIDE DEF a
  <2> QED BY <2>6, <2>7, <1>1, TrStepInv
<1>12. CASE TrCommit(c)
  <2>1. /\ c \in TrState /\ c.apps = TrSet.apps /\ c.threads = TrSet.threads /\ c.nonfinish = TrSet.nonfinish
        /\ c.running = TrSet.running /\ c.done = TrSet.done
    BY <1>7 DEF TrState
  <2> HIDE DEF c
  <2>2. Counted(c, 0)
    <3>1. SameCounts(TrSet, c) BY <2>1 DEF SameCounts
    <3>2. c.running = TrSet.running + 0 BY <1>7, <2>1, StateFields
    <3>3. Counted(c, 0 + 0) BY <1>2, <2>1, <3>1, <3>2, CountsSame
    <3>4. 0 + 0 = 0 OBVIOUS
    <3> QED BY <3>3, <3>4
  <2>3. Ending(c, Main, trEnders)
    <3>1. ASSUME NEW j \in DOMAIN c.threads PROVE ThreadSound(c, Main, trEnders, j)
      <4>1. ThreadSound(TrSet, Main, trEnders, j) BY <1>2, <2>1 DEF Ending
      <4> QED BY <4>1, <2>1 DEF ThreadSound, Ended
    <3> QED BY <1>2, <2>1, <3>1 DEF Ending, Ended, OneEnder, RunsLeft
  <2> QED BY <2>2, <2>3, <1>1, <1>12, TrStepInv
<1> QED BY <1>1, <1>9, <1>10, <1>11, <1>12

LEMMA NextInv == TrInv /\ [TrNext]_trVars => TrInv'
<1> SUFFICES ASSUME TrInv, [TrNext]_trVars PROVE TrInv' OBVIOUS
<1>1. CASE UNCHANGED trVars
  <2>1. TrSet' = TrSet /\ Main' = Main /\ trEnders' = trEnders BY <1>1 DEF trVars, TrSet, Main
  <2> QED BY <2>1 DEF TrInv
<1>2. CASE start BY <1>2, StartInv
<1>3. CASE wait BY <1>3, WaitInv
<1>4. CASE monitorAborts BY <1>4, MonitorInv
<1>5. ASSUME NEW i \in DOMAIN trThreads, runStart(i) PROVE TrInv'
  <2>1. TrStep(i, "start", TrAt(TrSet, i, "loop")) /\ UNCHANGED trEnders BY <1>5 DEF runStart
  <2> QED BY <2>1, MovesOn DEF TrPcs
<1>6. ASSUME NEW i \in DOMAIN trThreads, runInstruction(i) \/ runEnd(i) PROVE TrInv'
  <2>1. TrStep(i, "loop", TrAt(TrSet, i, "exit")) /\ UNCHANGED trEnders BY <1>6 DEF runInstruction, runEnd
  <2> QED BY <2>1, MovesOn DEF TrPcs
<1>7. ASSUME NEW i \in DOMAIN trThreads, handleSyscallFunc(i) PROVE TrInv'
  <2>1. TrStep(i, "loop", TrAt(TrSet, i, "blocked")) /\ UNCHANGED trEnders BY <1>7 DEF handleSyscallFunc
  <2> QED BY <2>1, MovesOn DEF TrPcs
<1>8. ASSUME NEW i \in DOMAIN trThreads, unblock(i) PROVE TrInv'
  <2>1. TrStep(i, "blocked", TrAt(TrSet, i, "loop")) /\ UNCHANGED trEnders BY <1>8 DEF unblock
  <2> QED BY <2>1, MovesOn DEF TrPcs
<1>9. ASSUME NEW i \in DOMAIN trThreads,
             runExit(i) \/ handleNewThreadFunc(i) \/ handleForkFunc(i) \/ handleExitGroup(i) \/ endApplication(i)
      PROVE  TrInv'
  BY <1>9, RunExitInv, NewThreadInv, ForkInv, ExitGroupInv, EndApplicationInv
<1> QED BY <1>1, <1>2, <1>3, <1>4, <1>5, <1>6, <1>7, <1>8, <1>9 DEF TrNext

-----------------------------------------------------------------------------
\* What the invariant says.
LEMMA CountedIs == TrInv => ThreadsCounted
<1> SUFFICES ASSUME TrInv PROVE ThreadsCounted OBVIOUS
<1> DEFINE Live(S) == {i \in S : ~trThreads[i].stopped}
<1>1. Counted(TrSet, 0) BY DEF TrInv
<1>2. LiveIn(TrSet) = Live(DOMAIN trThreads) BY TrSetFields DEF LiveIn
<1>3. \A a : LiveOf(TrSet, a) = Live({i \in DOMAIN trThreads : trThreads[i].app = a})
  BY TrSetFields DEF LiveOf, LiveIn
<1>4. Unfinished(TrSet) = {a \in DOMAIN trApps : trApps[a].runs = 0} BY TrSetFields DEF Unfinished
<1>5. Cardinality(LiveIn(TrSet)) \in Nat BY <1>1, CountedSets DEF Counted, Countable
<1>6. trRunning = Cardinality(LiveIn(TrSet)) BY <1>1, <1>5, TrSetFields DEF Counted
<1>7. \A a \in DOMAIN trApps : trApps[a].num = Cardinality(LiveOf(TrSet, a)) BY <1>1, TrSetFields DEF Counted
<1>8. trNonfinish = Cardinality(Unfinished(TrSet)) BY <1>1, TrSetFields DEF Counted
<1> QED BY <1>2, <1>3, <1>4, <1>6, <1>7, <1>8 DEF ThreadsCounted

LEMMA EndsIs == TrInv => DoneWhenAllOver
<1> SUFFICES ASSUME TrInv, OneEnder(TrSet, trEnders), TrQuiet PROVE trDone > 0 \/ trMain = "over"
  BY TrSetFields DEF DoneWhenAllOver, AlwaysDone, OneEnder
<1> DEFINE s == TrSet
<1>1. Counted(s, 0) /\ Ending(s, Main, trEnders) BY DEF TrInv
<1>2. s.threads = trThreads /\ s.done = trDone BY TrSetFields
<1>3. SUFFICES Ended(s, Main) BY <1>2 DEF Ended, Main
<1> HIDE DEF s
<1>4. LiveIn(s) = {}
  <2>1. ASSUME NEW i \in DOMAIN s.threads PROVE s.threads[i].stopped
    <3>1. ThreadSound(s, Main, trEnders, i) BY <1>1 DEF Ending
    <3> QED BY <3>1, <1>2 DEF TrQuiet, ThreadSound
  <2> QED BY <2>1 DEF LiveIn
<1>5. s \in TrState BY <1>1 DEF Counted
<1>6. \A a \in DOMAIN s.apps : s.apps[a].num = 0
  <2>1. \A a : LiveOf(s, a) = {} BY <1>4 DEF LiveOf
  <2> QED BY <2>1, <1>1, <1>5, CountedSets DEF Counted, Countable
<1>7. CASE RunsLeft(s)
  <2>1. Unfinished(s) = {} BY <1>6, <1>7 DEF Unfinished, RunsLeft
  <2>2. s.nonfinish = 0 BY <2>1, <1>1, <1>5, CountedSets DEF Counted, Countable
  <2> QED BY <2>2, <1>1 DEF Ending
<1>8. CASE ~RunsLeft(s)
  <2>1. OneEnder(s, trEnders) BY DEF s
  <2> QED BY <2>1, <1>1, <1>8 DEF Ending
<1> QED BY <1>7, <1>8

LEMMA SpawnedIs == TrInv => AllSpawned
<1> SUFFICES ASSUME TrInv, trMain = "wait", NEW i \in DOMAIN trThreads
             PROVE  trThreads[i].pc # "created"
  BY DEF AllSpawned
<1>1. ThreadSound(TrSet, Main, trEnders, i) BY TrSetFields DEF TrInv, Ending
<1>2. Main.pc = "wait" BY DEF Main
<1> QED BY <1>1, <1>2, TrSetFields DEF ThreadSound

\* TrInv is an invariant: newThread(), signalDone(), createApplication() and
\* stop() keep m_num_threads_running, num_threads and m_num_apps_nonfinish in
\* step with the threads, every application that has not finished a run has a
\* thread that will end one, and the threads that are not spawned are those that
\* start() has still to reach, while the others run and append to m_threads.
THEOREM TrInvariant == TrSpec => []TrInv
BY InitInv, NextInv, PTL DEF TrSpec

\* However the applications start, fork, end and are restarted under the loops of
\* start() and endApplication(), with any number of applications and threads, and
\* as long as no iterator of m_threads points nowhere and no thread is spawned
\* twice: the counts of the manager are those of the threads, start() forgets no
\* thread, and as long as one thread at a time ends an application run() is
\* signalled when every thread is over.
THEOREM ApplicationsEndHolds == TrSpec => []ApplicationsEnd
<1>1. TrInv => ApplicationsEnd BY CountedIs, EndsIs, SpawnedIs DEF ApplicationsEnd
<1> QED BY <1>1, TrInvariant, PTL
-----------------------------------------------------------------------------
\* The round of the shuffle that places i: it puts i where the draw says and
\* what was there at the end.
PutStep(d, t, i) ==
  [k \in 0 .. i |-> IF k = d[i] THEN i ELSE IF k = i THEN t[d[i]] ELSE t[k]]
\* f holds the tables of the rounds 0 .. n.
Puts(d, f, n) ==
  f = [i \in 0 .. n |-> IF i = 0 THEN [k \in {0} |-> 0] ELSE PutStep(d, f[i - 1], i)]

\* A set of numbers that is not empty has a least element.
LEMMA LeastNumber ==
  ASSUME NEW T, T \subseteq Nat, T # {}
  PROVE  \E n \in T : \A m \in T : n <= m
<1>1. IsWellFoundedOn(OpToRel(<, Nat), Nat)
  BY NatLessThanWellFounded
<1>2. PICK n \in T : \A m \in T : ~(<<m, n>> \in OpToRel(<, Nat))
  BY <1>1, WFMin
<1>3. ASSUME NEW m \in T PROVE n <= m
  <2>1. m \in Nat /\ n \in Nat
    OBVIOUS
  <2>2. ~(m < n)
    BY <1>2, <2>1 DEF OpToRel
  <2> QED BY <2>1, <2>2
<1> QED BY <1>3

\* The rounds of the constructor's loop exist: its recursion is well defined.
LEMMA PutsExist ==
  ASSUME NEW d, NEW N \in Nat
  PROVE  \E f : Puts(d, f, N)
<1> DEFINE T == {n \in Nat : ~ \E f : Puts(d, f, n)}
<1>1. SUFFICES ASSUME T # {} PROVE FALSE
  OBVIOUS
<1>2. PICK n \in T : \A m \in T : n <= m
  <2> HIDE DEF T
  <2>1. T \subseteq Nat BY DEF T
  <2> QED BY <1>1, <2>1, LeastNumber
<1>3. CASE n = 0
  <2> DEFINE f == [i \in 0 .. 0 |-> [k \in {0} |-> 0]]
  <2>1. f = [i \in 0 .. 0 |-> IF i = 0 THEN [k \in {0} |-> 0] ELSE PutStep(d, f[i - 1], i)]
    OBVIOUS
  <2> QED BY <1>3, <2>1 DEF Puts
<1>4. CASE n # 0
  <2>1. n - 1 \in Nat /\ n - 1 \notin T
    BY <1>2, <1>4
  <2>2. PICK g : Puts(d, g, n - 1)
    BY <2>1
  <2> DEFINE f == [i \in 0 .. n |-> IF i = n THEN PutStep(d, g[n - 1], n) ELSE g[i]]
  <2>3. ASSUME NEW i \in 0 .. n
        PROVE  f[i] = IF i = 0 THEN [k \in {0} |-> 0] ELSE PutStep(d, f[i - 1], i)
    <3>1. CASE i = n
      <4>1. f[i] = PutStep(d, g[n - 1], n) /\ f[i - 1] = g[n - 1]
        BY <1>4, <3>1
      <4> QED BY <1>4, <3>1, <4>1
    <3>2. CASE i # n
      <4>1. i \in 0 .. n - 1 /\ f[i] = g[i]
        BY <3>2
      <4>2. g[i] = IF i = 0 THEN [k \in {0} |-> 0] ELSE PutStep(d, g[i - 1], i)
        BY <2>2, <4>1 DEF Puts
      <4>3. CASE i = 0
        BY <4>1, <4>2, <4>3
      <4>4. CASE i # 0
        <5>1. f[i - 1] = g[i - 1]
          BY <3>2, <4>4
        <5> QED BY <4>1, <4>2, <4>4, <5>1
      <4> QED BY <4>3, <4>4
    <3> QED BY <3>1, <3>2
  <2>4. f = [i \in 0 .. n |-> IF i = 0 THEN [k \in {0} |-> 0] ELSE PutStep(d, f[i - 1], i)]
    <3>1. f = [i \in 0 .. n |-> f[i]] OBVIOUS
    <3> HIDE DEF f
    <3> QED BY <2>3, <3>1
  <2>5. \E h : Puts(d, h, n)
    <3> HIDE DEF f
    <3> QED BY <2>4 DEF Puts
  <2> QED BY <2>5
<1> QED BY <1>3, <1>4

\* A permutation of 0 .. n, as what the rounds keep: different positions hold
\* different numbers.
Shuffled(t, n) ==
  /\ t \in [0 .. n -> 0 .. n]
  /\ \A k, l \in 0 .. n : t[k] = t[l] => k = l

\* A round keeps a table a permutation: n is new, and what it displaces moves to
\* the new position.
LEMMA PutStepKeeps ==
  ASSUME NEW n \in Nat, NEW t, Shuffled(t, n), NEW d, d[n + 1] \in 0 .. n + 1
  PROVE  Shuffled(PutStep(d, t, n + 1), n + 1)
<1> DEFINE e == d[n + 1]
           u == PutStep(d, t, n + 1)
<1>1. t \in [0 .. n -> 0 .. n] /\ \A k, l \in 0 .. n : t[k] = t[l] => k = l
  BY DEF Shuffled
<1>2. e \in 0 .. n + 1
  OBVIOUS
<1>3. u = [k \in 0 .. n + 1 |-> IF k = e THEN n + 1 ELSE IF k = n + 1 THEN t[e] ELSE t[k]]
  BY DEF PutStep
<1>4. \A k \in 0 .. n + 1 :
        \/ k = e /\ u[k] = n + 1
        \/ k = n + 1 /\ e \in 0 .. n /\ u[k] = t[e] /\ u[k] \in 0 .. n
        \/ k \in 0 .. n /\ k # e /\ u[k] = t[k] /\ u[k] \in 0 .. n
  <2> HIDE DEF e, u
  <2> QED BY <1>1, <1>2, <1>3
<1> HIDE DEF e, u
<1>5. u \in [0 .. n + 1 -> 0 .. n + 1]
  <2>1. \A k \in 0 .. n + 1 : u[k] \in 0 .. n + 1
    BY <1>4
  <2>2. u = [k \in 0 .. n + 1 |-> u[k]]
    BY <1>3
  <2> QED BY <2>1, <2>2
<1>6. ASSUME NEW k \in 0 .. n + 1, NEW l \in 0 .. n + 1, u[k] = u[l]
      PROVE  k = l
  <2>1. \A p \in 0 .. n : p # n + 1
    OBVIOUS
  <2>2. (k = e) <=> (l = e)
    BY <1>4, <1>6, <2>1
  <2>3. CASE k # e /\ l # e
    <3>1. /\ k \in 0 .. n \/ (k = n + 1 /\ e \in 0 .. n)
          /\ u[k] = IF k \in 0 .. n THEN t[k] ELSE t[e]
      BY <1>4, <2>3, <2>1
    <3>2. /\ l \in 0 .. n \/ (l = n + 1 /\ e \in 0 .. n)
          /\ u[l] = IF l \in 0 .. n THEN t[l] ELSE t[e]
      BY <1>4, <2>3, <2>1
    <3> QED BY <1>1, <1>6, <2>3, <3>1, <3>2, Zenon
  <2> QED BY <2>2, <2>3
<1> QED
  BY <1>5, <1>6 DEF Shuffled, u

\* So every round's table is a permutation.
LEMMA PutsShuffled ==
  ASSUME NEW N \in Nat, NEW d, \A i \in 1 .. N : d[i] \in 0 .. i, NEW f, Puts(d, f, N)
  PROVE  Shuffled(f[N], N)
<1> DEFINE T == {n \in 0 .. N : ~Shuffled(f[n], n)}
<1>1. SUFFICES ASSUME T # {} PROVE FALSE
  OBVIOUS
<1>2. PICK n \in T : \A m \in T : n <= m
  <2>1. T \subseteq Nat OBVIOUS
  <2> HIDE DEF T
  <2> QED BY <1>1, <2>1, LeastNumber
<1>3. CASE n = 0
  <2>1. f[0] = [k \in {0} |-> 0]
    BY DEF Puts
  <2>2. 0 .. 0 = {0}
    OBVIOUS
  <2>3. Shuffled(f[0], 0)
    BY <2>1, <2>2 DEF Shuffled
  <2> QED BY <1>3, <2>3
<1>4. CASE n # 0
  <2>1. PICK m \in 0 .. N : n = m + 1
    <3>1. n - 1 \in 0 .. N /\ n = (n - 1) + 1
      BY <1>4
    <3> QED BY <3>1
  <2>2. m \notin T /\ m + 1 \in 1 .. N
    BY <1>2, <2>1
  <2>3. f[m + 1] = PutStep(d, f[m], m + 1)
    <3>1. m + 1 # 0 /\ (m + 1) - 1 = m /\ m + 1 \in 0 .. N
      BY <2>2
    <3>2. f[m + 1] = IF m + 1 = 0 THEN [k \in {0} |-> 0] ELSE PutStep(d, f[(m + 1) - 1], m + 1)
      BY <3>1 DEF Puts
    <3> QED BY <3>1, <3>2
  <2>4. Shuffled(f[m], m) /\ d[m + 1] \in 0 .. m + 1
    BY <2>2
  <2>5. Shuffled(f[m + 1], m + 1)
    BY <2>3, <2>4, PutStepKeeps
  <2> QED BY <2>1, <2>5
<1> QED BY <1>3, <1>4

\* The constructor's table is a permutation, whatever the random numbers are.
LEMMA ShuffleShuffled ==
  ASSUME NEW d \in Draws
  PROVE  Shuffled(shuffle(d), TtDigit - 1)
<1> DEFINE N == TtDigit - 1
           Put == CHOOSE f : Puts(d, f, N)
<1>1. N \in Nat /\ \A i \in 1 .. N : d[i] \in 0 .. i
  BY TtAssumption DEF Draws
<1>2. Puts(d, Put, N)
  <2> HIDE DEF N
  <2> QED BY <1>1, PutsExist
<1>3. shuffle(d) = Put[N]
  BY DEF shuffle, Puts, PutStep
<1> HIDE DEF Put
<1> QED BY <1>1, <1>2, <1>3, PutsShuffled
-----------------------------------------------------------------------------
\* remapAddress() takes different page numbers to different page numbers.
LEMMA RemapInjective ==
  ASSUME NEW t, Shuffled(t, TtDigit - 1),
         NEW p \in [1 .. 2 -> 0 .. TtDigit - 1], NEW q \in [1 .. 2 -> 0 .. TtDigit - 1],
         remapAddress(t, p) = remapAddress(t, q)
  PROVE  p = q
<1>1. ASSUME NEW k \in 1 .. 2 PROVE p[k] = q[k]
  <2>1. remapAddress(t, p)[k] = t[p[k]] /\ remapAddress(t, q)[k] = t[q[k]]
    BY DEF remapAddress
  <2>2. t[p[k]] = t[q[k]]
    BY <2>1
  <2> QED BY <2>2 DEF Shuffled
<1> QED BY <1>1

\* What va2pa() makes of a user address, of an id and a table.
MadeOf(random, id, table, va) ==
  [top |-> id, high |-> va.high, offset |-> va.offset,
   digits |-> IF random THEN remapAddress(table, va.digits) ELSE va.digits]

LEMMA MadeUpIs ==
  ASSUME NEW random \in BOOLEAN, NEW id, NEW table, NEW v \in UserAddresses
  PROVE  MadeUp(random, id, table, v) = MadeOf(random, id, table, v)
<1>1. v = [top |-> {}, high |-> v.high, digits |-> v.digits, offset |-> v.offset]
  BY DEF UserAddresses
<1>2. id \union {} = id
  OBVIOUS
<1>3. PICK h, d, o : /\ v = [top |-> {}, high |-> h, digits |-> d, offset |-> o]
                     /\ v.high = h /\ v.digits = d /\ v.offset = o
  BY <1>1
<1>4. CASE random
  <2> DEFINE e == remapAddress(table, d)
  <2>1. MadeUp(random, id, table, v) = [v EXCEPT !.top = id \union v.top, !.digits = remapAddress(table, v.digits)]
    BY <1>4 DEF MadeUp
  <2>2. v.top = {} /\ remapAddress(table, v.digits) = e
    BY <1>3
  <2>3. MadeOf(random, id, table, v) = [top |-> id, high |-> h, offset |-> o, digits |-> e]
    BY <1>3, <1>4 DEF MadeOf
  <2> HIDE DEF e
  <2>4. MadeUp(random, id, table, v) = [v EXCEPT !.top = id, !.digits = e]
    BY <1>2, <2>1, <2>2
  <2> QED BY <1>3, <2>3, <2>4
<1>5. CASE ~random
  <2>1. MadeUp(random, id, table, v) = [v EXCEPT !.top = id]
    BY <1>5 DEF MadeUp
  <2>2. MadeOf(random, id, table, v) = [top |-> id, high |-> h, offset |-> o, digits |-> d]
    BY <1>3, <1>5 DEF MadeOf
  <2> QED BY <1>3, <2>1, <2>2
<1> QED BY <1>4, <1>5

\* The id can be read off the address made up, and with the table the address too.
LEMMA MadeUpInjective ==
  ASSUME NEW random \in BOOLEAN, NEW x, NEW y, NEW t, NEW u,
         NEW v \in UserAddresses, NEW w \in UserAddresses,
         MadeUp(random, x, t, v) = MadeUp(random, y, u, w)
  PROVE  /\ x = y
         /\ ~random => v = w
         /\ t = u /\ Shuffled(t, TtDigit - 1) => v = w
<1>1. MadeOf(random, x, t, v) = MadeOf(random, y, u, w)
  BY MadeUpIs
<1>2. /\ x = y /\ v.high = w.high /\ v.offset = w.offset
      /\ (IF random THEN remapAddress(t, v.digits) ELSE v.digits)
           = IF random THEN remapAddress(u, w.digits) ELSE w.digits
  BY <1>1 DEF MadeOf
<1>3. /\ v = [top |-> {}, high |-> v.high, digits |-> v.digits, offset |-> v.offset]
      /\ w = [top |-> {}, high |-> w.high, digits |-> w.digits, offset |-> w.offset]
      /\ v.digits \in [1 .. 2 -> 0 .. TtDigit - 1] /\ w.digits \in [1 .. 2 -> 0 .. TtDigit - 1]
  BY DEF UserAddresses
<1>4. v.digits = w.digits => v = w
  BY <1>2, <1>3
<1>5. t = u /\ Shuffled(t, TtDigit - 1) => v.digits = w.digits
  BY <1>2, <1>3, RemapInjective
<1> QED BY <1>2, <1>4, <1>5

\* No table the constructor can draw makes va2pa() confuse two addresses.
LEMMA AddressesDistinctHolds == AddressesDistinct
<1> SUFFICES ASSUME NEW fromCore \in BOOLEAN, NEW random \in BOOLEAN, NEW draws \in [TtIds -> Draws],
                    NEW a \in TtIds, NEW b \in TtIds, NEW c \in TtIds, NEW d \in TtIds,
                    NEW v \in UserAddresses, NEW w \in UserAddresses
             PROVE  LET Id(app, core) == IF fromCore THEN core ELSE app
                        A == va2pa(NoPa, fromCore, random, a, c, shuffle(draws[a]), v)
                        B(pa) == va2pa(pa, fromCore, random, b, d, shuffle(draws[b]), w)
                    IN  /\ A = B(NoPa) => Id(a, c) = Id(b, d) /\ (a = b \/ ~random => v = w)
                        /\ A = B(w) => Id(a, c) = {}
  BY DEF AddressesDistinct
<1> DEFINE x == IF fromCore THEN c ELSE a
           y == IF fromCore THEN d ELSE b
           t == shuffle(draws[a])
           u == shuffle(draws[b])
<1>1. Shuffled(t, TtDigit - 1) /\ (a = b => t = u)
  <2>1. draws[a] \in Draws
    OBVIOUS
  <2> QED BY <2>1, ShuffleShuffled
<1> HIDE DEF t, u
<1>2. w # NoPa
  <2>1. w.high \in {0, 1} /\ NoPa.high = -1
    BY DEF UserAddresses, NoPa
  <2> QED BY <2>1
<1>3. /\ va2pa(NoPa, fromCore, random, a, c, t, v) = MadeUp(random, x, t, v)
      /\ va2pa(NoPa, fromCore, random, b, d, u, w) = MadeUp(random, y, u, w)
      /\ va2pa(w, fromCore, random, b, d, u, w) = w
  BY <1>2 DEF va2pa
<1> HIDE DEF x, y
<1>4. MadeUp(random, x, t, v) = MadeUp(random, y, u, w) => x = y /\ (a = b \/ ~random => v = w)
  BY <1>1, MadeUpInjective
<1>5. MadeUp(random, x, t, v) = w => x = {}
  <2>1. MadeOf(random, x, t, v).top = x /\ w.top = {}
    BY DEF MadeOf, UserAddresses
  <2> QED BY <2>1, MadeUpIs
<1> QED BY <1>3, <1>4, <1>5 DEF t, u, x, y
-----------------------------------------------------------------------------
\* What an instruction reads and writes, by its kind, and the accesses it makes.
LEMMA AccessesAgreeHolds == AccessesAgree
<1> DEFINE Exclusive(D) == {<<"WRITE", k>> : k \in {k \in 0 .. 1 : <<"READ_EX", k>> \in D}}
<1> SUFFICES ASSUME NEW i \in TtCode, i.kind # "pair"
             PROVE  WarmupAccesses(i) = DetailedAccesses(i) \ Exclusive(DetailedAccesses(i))
  BY DEF AccessesAgree
<1>1. CASE Skipped(i)
  BY <1>1 DEF WarmupAccesses, DetailedAccesses
<1>2. CASE ~Skipped(i) /\ i.kind = "atomic"
  <2>1. Reads(i) = {0} /\ Writes(i) = {0} /\ NumAddresses(i) = 1 /\ ReadOp(i) = "READ_EX"
    BY <1>2 DEF Reads, Writes, NumAddresses, ReadOp
  <2>2. WarmupAccesses(i) = {<<"READ_EX", 0>>}
    BY <1>2, <2>1 DEF WarmupAccesses
  <2>3. DetailedAccesses(i) = {<<"READ_EX", 0>>, <<"WRITE", 0>>}
    BY <1>2, <2>1 DEF DetailedAccesses
  <2>4. Exclusive(DetailedAccesses(i)) = {<<"WRITE", 0>>}
    BY <2>3
  <2> HIDE DEF Exclusive
  <2> QED BY <2>2, <2>3, <2>4
<1>3. CASE ~Skipped(i) /\ i.kind # "atomic"
  <2> DEFINE r == {<<"READ", k>> : k \in Reads(i)}
             w == {<<"WRITE", k>> : k \in Writes(i)}
  <2>1. /\ Reads(i) \subseteq {0} /\ Writes(i) \subseteq {0} /\ ReadOp(i) = "READ"
        /\ \A k \in Reads(i) \union Writes(i) : k = 0 /\ NumAddresses(i) = 1
    BY <1>3 DEF Reads, Writes, NumAddresses, ReadOp
  <2>2. \A k \in Reads(i) \union Writes(i) : k < NumAddresses(i)
    BY <2>1
  <2>3. WarmupAccesses(i) = r \union w
    BY <1>3, <2>1, <2>2 DEF WarmupAccesses
  <2>4. DetailedAccesses(i) = r \union w
    BY <1>3, <2>1, <2>2 DEF DetailedAccesses
  <2>5. \A k : <<"READ_EX", k>> \notin r \union w
    OBVIOUS
  <2> HIDE DEF r, w
  <2>6. Exclusive(DetailedAccesses(i)) = {}
    BY <2>4, <2>5
  <2> HIDE DEF Exclusive
  <2> QED BY <2>3, <2>4, <2>6
<1> QED BY <1>1, <1>2, <1>3
-----------------------------------------------------------------------------
\* The inductive invariant of the reconstruction of basic blocks: what the
\* counters hold, that only base 0 stands for no block, and that nothing is
\* remembered as executed in a mode that warms nothing up.
BlocksInv ==
  /\ ttInst \in TtCode \union {NoInst}
  /\ ttBbv.base \in Nat /\ ttBbv.count \in Nat /\ ttBbv.last \in Nat
  /\ ttCounted \in Nat /\ ttDone \in Nat /\ ttDark \in Nat
  /\ ttBbv.base = 0 => ttBbv.last = 0
  /\ ttBbv.base <= ttBbv.last
  /\ ttMode # "CACHE_ONLY" => ttRan = {}
  /\ BlocksAccounted

LEMMA TtInitInv == TtInit => BlocksInv
BY DEF TtInit, BlocksInv, BlocksAccounted

\* The next block covers the instruction and, when it is no new block, the block
\* so far: the instruction starts where the block ends.
LEMMA NextBlock ==
  ASSUME BlocksInv, NEW i \in TtCode
  PROVE  /\ NextBbv(i).base \in Nat /\ NextBbv(i).count \in Nat /\ NextBbv(i).last \in Nat
         /\ NextBbv(i).base # 0 /\ NextBbv(i).base <= NextBbv(i).last
         /\ NextBbv(i).count = IF NewBlock(i) THEN 1 ELSE ttBbv.count + 1
         /\ Block(i) \subseteq NextBbv(i).base .. NextBbv(i).last - 1
         /\ ~NewBlock(i) => ttBbv.base .. ttBbv.last - 1 \subseteq NextBbv(i).base .. NextBbv(i).last - 1
<1>1. i.addr \in Nat \ {0} /\ i.size \in Nat
  BY TtAssumption
<1>2. /\ ttBbv.base \in Nat /\ ttBbv.count \in Nat /\ ttBbv.last \in Nat
      /\ ttBbv.base = 0 => ttBbv.last = 0
      /\ ttBbv.base <= ttBbv.last
  BY DEF BlocksInv
<1>3. CASE NewBlock(i)
  BY <1>1, <1>2, <1>3 DEF NextBbv, Block
<1>4. CASE ~NewBlock(i)
  <2>1. ttBbv.last = i.addr
    BY <1>4 DEF NewBlock
  <2> QED BY <1>1, <1>2, <1>4, <2>1 DEF NextBbv, Block
<1> QED BY <1>3, <1>4

\* An iteration of run(): it closes a block, whose instructions it reports and
\* warms up, or extends the open one.
LEMMA IterationInv ==
  ASSUME BlocksInv, NEW next \in TtCode, runIteration(next)
  PROVE  BlocksInv'
<1>1. CASE ttInst = NoInst
  BY <1>1 DEF BlocksInv, BlocksAccounted, runIteration
<1>2. CASE ttInst # NoInst
  <2>1. PICK i \in TtCode : i = ttInst
    BY <1>2 DEF BlocksInv
  <2> DEFINE old == ttBbv.base .. ttBbv.last - 1
             new == NextBbv(i).base .. NextBbv(i).last - 1
  <2>2. /\ ttInst' = next /\ ttBbv' = NextBbv(i) /\ ttMode' = ttMode
        /\ ttCounted' = ttCounted + IF NewBlock(i) THEN ttBbv.count ELSE 0
        /\ ttWarmed' = IF NewBlock(i) /\ ttBbv.base # 0 /\ ttMode = "CACHE_ONLY"
                       THEN ttWarmed \union old ELSE ttWarmed
        /\ ttRan' = IF ttMode = "CACHE_ONLY" THEN ttRan \union Block(i) ELSE ttRan
        /\ ttDone' = ttDone + 1 /\ ttDark' = ttDark
    BY <1>2, <2>1 DEF runIteration
  <2>3. /\ ttBbv.base \in Nat /\ ttBbv.count \in Nat /\ ttBbv.last \in Nat
        /\ ttCounted \in Nat /\ ttDone \in Nat /\ ttDark \in Nat
        /\ ttBbv.base = 0 => ttBbv.last = 0
        /\ ttMode # "CACHE_ONLY" => ttRan = {}
        /\ ttDone - ttDark <= ttCounted + ttBbv.count /\ ttCounted + ttBbv.count <= ttDone
        /\ ttRan \subseteq ttWarmed \union old
    BY DEF BlocksInv, BlocksAccounted
  <2>4. /\ NextBbv(i).base \in Nat /\ NextBbv(i).count \in Nat /\ NextBbv(i).last \in Nat
        /\ NextBbv(i).base # 0 /\ NextBbv(i).base <= NextBbv(i).last
        /\ NextBbv(i).count = IF NewBlock(i) THEN 1 ELSE ttBbv.count + 1
        /\ Block(i) \subseteq new
        /\ ~NewBlock(i) => old \subseteq new
    BY NextBlock
  <2>5. /\ ttCounted' \in Nat /\ ttDone' \in Nat /\ ttDark' \in Nat
        /\ ttDone' - ttDark' <= ttCounted' + ttBbv'.count /\ ttCounted' + ttBbv'.count <= ttDone'
    <3>1. ttBbv.count' = IF NewBlock(i) THEN 1 ELSE ttBbv.count + 1
      BY <2>2, <2>4
    <3>2. ttCounted' = IF NewBlock(i) THEN ttCounted + ttBbv.count ELSE ttCounted
      BY <2>2, <2>3
    <3> QED BY <2>2, <2>3, <3>1, <3>2
  <2>6. ttRan' \subseteq ttWarmed' \union new
    <3>1. CASE ttMode # "CACHE_ONLY"
      BY <2>2, <2>3, <3>1
    <3>2. CASE ttMode = "CACHE_ONLY" /\ NewBlock(i)
      <4>1. ttBbv.base = 0 => old = {}
        BY <2>3
      <4>2. ttRan \subseteq ttWarmed'
        <5> HIDE DEF old
        <5> QED BY <2>2, <2>3, <3>2, <4>1
      <4> HIDE DEF old, new
      <4> QED BY <2>2, <2>4, <3>2, <4>2
    <3>3. CASE ttMode = "CACHE_ONLY" /\ ~NewBlock(i)
      <4> HIDE DEF old, new
      <4> QED BY <2>2, <2>3, <2>4, <3>3
    <3> QED BY <3>1, <3>2, <3>3
  <2>7. (ttRan \subseteq ttWarmed \union (ttBbv.base .. ttBbv.last - 1))'
    BY <2>2, <2>6
  <2>8. ttMode' # "CACHE_ONLY" => ttRan' = {}
    BY <2>2, <2>3
  <2> HIDE DEF old, new
  <2> QED BY <2>2, <2>4, <2>5, <2>7, <2>8 DEF BlocksInv, BlocksAccounted
<1> QED BY <1>1, <1>2

\* A packet that brings n instructions: they are counted or lost in the dark.
LEMMA PacketInv ==
  ASSUME BlocksInv, NEW n \in Nat, NEW k \in {0, n}, NEW d \in {0, n}, n <= k + d,
         UNCHANGED <<ttMode, ttInst, ttBbv, ttWarmed, ttRan>>,
         ttCounted' = ttCounted + k, ttDone' = ttDone + n, ttDark' = ttDark + d
  PROVE  BlocksInv'
<1>1. /\ ttCounted' \in Nat /\ ttDone' \in Nat /\ ttDark' \in Nat
      /\ ttDone' - ttDark' <= ttCounted' + ttBbv'.count /\ ttCounted' + ttBbv'.count <= ttDone'
  <2>1. /\ ttCounted \in Nat /\ ttDone \in Nat /\ ttDark \in Nat /\ ttBbv.count \in Nat
        /\ ttDone - ttDark <= ttCounted + ttBbv.count /\ ttCounted + ttBbv.count <= ttDone
    BY DEF BlocksInv, BlocksAccounted
  <2>2. ttBbv'.count = ttBbv.count
    OBVIOUS
  <2> QED BY <2>1, <2>2
<1> QED BY <1>1 DEF BlocksInv, BlocksAccounted

LEMMA TtNextInv ==
  ASSUME BlocksInv, [TtNext]_ttVars
  PROVE  BlocksInv'
<1>1. ASSUME NEW i \in TtCode, runIteration(i) PROVE BlocksInv'
  BY <1>1, IterationInv
<1>2. ASSUME NEW n \in 0 .. 2, handleInstructionCountFunc(n) PROVE BlocksInv'
  <2>1. /\ UNCHANGED <<ttMode, ttInst, ttBbv, ttWarmed, ttRan>>
        /\ ttCounted' = ttCounted + n /\ ttDone' = ttDone + n /\ ttDark' = ttDark + 0
    BY <1>2 DEF handleInstructionCountFunc, BlocksInv
  <2> QED BY <2>1, PacketInv
<1>3. ASSUME NEW n \in 0 .. 2, handleCacheOnlyFunc(n) PROVE BlocksInv'
  <2> DEFINE k == IF ttCore THEN n ELSE 0
             d == IF ttBlocked \/ ~ttCore THEN n ELSE 0
  <2>1. /\ UNCHANGED <<ttMode, ttInst, ttBbv, ttWarmed, ttRan>>
        /\ ttCounted' = ttCounted + k /\ ttDone' = ttDone + n /\ ttDark' = ttDark + d
    BY <1>3 DEF handleCacheOnlyFunc
  <2>2. k \in {0, n} /\ d \in {0, n} /\ n <= k + d
    OBVIOUS
  <2> HIDE DEF k, d
  <2> QED BY <2>1, <2>2, PacketInv
<1>4. ASSUME NEW sleeps \in BOOLEAN, handleSyscall(sleeps) \/ handleEmuFunc \/ assertOnCore \/ threadSetCore
      PROVE  BlocksInv'
  BY <1>4 DEF handleSyscall, handleEmuFunc, assertOnCore, threadSetCore, BlocksInv, BlocksAccounted
<1>5. ASSUME NEW m \in TtModes, setInstrumentationMode(m) PROVE BlocksInv'
  BY <1>5 DEF setInstrumentationMode, BlocksInv, BlocksAccounted
<1>6. ASSUME UNCHANGED ttVars PROVE BlocksInv'
  BY <1>6 DEF ttVars, BlocksInv, BlocksAccounted
<1> QED
  BY <1>1, <1>2, <1>3, <1>4, <1>5, <1>6 DEF TtNext

\* run(), handleInstructionWarmup(), handleInstructionCountFunc() and
\* handleCacheOnlyFunc(): no instruction of a trace is counted twice, none is lost
\* but in cache-only packets of a thread that sleeps or has no core, and the open
\* block alone is not warmed up yet, whatever the instructions, their order, the
\* packets, the scheduler and the changes of the mode are; for every outcome of
\* the random numbers of the constructor, va2pa() confuses no addresses of
\* threads with other ids or of one application; and warm-up makes the accesses
\* of the detailed mode, pairs and the writes of atomic updates apart.
THEOREM TraceAccountedHolds == TtSpec => []TraceAccounted
<1>1. BlocksInv /\ [TtNext]_ttVars => BlocksInv'
  BY TtNextInv
<1>2. BlocksInv => TraceAccounted
  BY AddressesDistinctHolds, AccessesAgreeHolds DEF BlocksInv, TraceAccounted
<1> QED
  BY TtInitInv, <1>1, <1>2, PTL DEF TtSpec
=============================================================================
