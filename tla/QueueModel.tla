------------------------------ MODULE QueueModel ------------------------------
(***************************************************************************)
(* The queueing models of src/performance_model/queue_model_*.cc, which    *)
(* say how long a request waits for a link, a bus or a bank.               *)
(*                                                                         *)
(* A queue q is a record of the state its model keeps, c the record of its *)
(* parameters: model, min (m_min_processing_time), window (the size of the *)
(* window, or of the list), analytical, average.                           *)
(* A SubsecondTime is an unsigned integer: differences wrap at QmModulus.  *)
(***************************************************************************)
EXTENDS ContentionModel, Integers, SequencesExt

CONSTANT QmModulus  \* 2^64

Minus(a, b) == (a - b + QmModulus) % QmModulus
-----------------------------------------------------------------------------
(* Moving averages over the last n numbers, the newest last. *)
AverageUpdate(w, n, x) == IF Len(w) = n THEN Append(Tail(w), x) ELSE Append(w, x)

Total(s) == FoldLeft(LAMBDA a, x : a + x, 0, s)
Product(s) == FoldLeft(LAMBDA a, x : a * x, 1, s)

(* The root of the geometric mean, rounded down. *)
Root(x, n) == CHOOSE r \in 0..x : r^n <= x /\ (r + 1)^n > x

(* The "median" is the middle one in the order of arrival. *)
AverageCompute(w, kind) ==
  CASE kind = "arithmetic" -> Total(w) \div Len(w)
    [] kind = "geometric"  -> Root(Product(w), Len(w))
    [] kind = "median"     -> w[(Len(w) \div 2) + 1]
-----------------------------------------------------------------------------
(* QueueModel::create. *)
NewQueue(c) ==
  CASE c.model = "basic" -> [type |-> "basic", time |-> 0, avg |-> <<>>]
    [] c.model = "history_list" ->
         [type |-> "history_list", avg |-> <<>>, list |-> << <<0, QmModulus \div 2>> >>]
    [] c.model = "contention" -> [type |-> "contention", slots |-> NewContention(1)]
    [] c.model = "windowed_mg1" -> [type |-> "windowed_mg1", items |-> <<>>]

BasicFrom(q, ref, p, avg) ==
  [delay |-> IF q.time > ref THEN q.time - ref ELSE 0,
   q |-> [q EXCEPT !.time = Later(q.time, ref) + p, !.avg = avg]]
BasicAverage(c, q, p, avg) == BasicFrom(q, AverageCompute(avg, c.average), p, avg)
Basic(c, q, t, p) ==
  IF c.average = "none" THEN BasicFrom(q, t, p, q.avg)
  ELSE BasicAverage(c, q, p, AverageUpdate(q.avg, c.window, t))

(* The free interval a request takes: the first that it fits in, or that   *)
(* starts after it, whether it fits or not.                                *)
Taken(list, t, p) ==
  Min({i \in DOMAIN list : \/ t >= list[i][1] /\ t + p <= list[i][2]
                           \/ t < list[i][1]})

Keep(c, from, to) == IF Minus(to, from) >= c.min THEN << <<from, to>> >> ELSE <<>>

(* What is left of interval i when a request takes it from `start' on. *)
MutLeftOver(c, free, t, start, p) ==
  (IF t >= free[1] THEN Keep(c, free[1], t) ELSE <<>>) \o Keep(c, start, free[2])
LeftOver(c, free, t, start, p) ==
  (IF t >= free[1] THEN Keep(c, free[1], t) ELSE <<>>) \o Keep(c, start + p, free[2])

Shortened(list, n) == IF Len(list) > n THEN Tail(list) ELSE list
TakeInterval(c, q, t, p, i, start) ==
  [delay |-> start - t,
   q |-> [q EXCEPT !.list = Shortened(SubSeq(@, 1, i - 1) \o LeftOver(c, @[i], t, start, p)
                                        \o SubSeq(@, i + 1, Len(@)), c.window),
                   !.avg = AverageUpdate(@, c.window, start - t)]]
TakeFrom(c, q, t, p, i) == TakeInterval(c, q, t, p, i, Later(t, q.list[i][1]))
computeUsingHistoryList(c, q, t, p) == TakeFrom(c, q, t, p, Taken(q.list, t, p))

(* A request older than the oldest free interval is not booked. *)
MutIsOld(c, q, t, p) == c.analytical /\ t <= q.list[1][1]
IsOld(c, q, t, p) == c.analytical /\ t + p <= q.list[1][1]

HistoryList(c, q, t, p) ==
  IF IsOld(c, q, t, p)
  THEN [delay |-> AverageCompute(q.avg, "arithmetic"), q |-> q]
  ELSE computeUsingHistoryList(c, q, t, p)

Completed(q, t, p, r) == [delay |-> r.end - t - p, q |-> [q EXCEPT !.slots = r.q]]
Contention(q, t, p) == Completed(q, t, p, getCompletionTime(q.slots, t, p, 0))

(* The Pollaczek-Khinchine formula over the requests of the window, whose  *)
(* start is computed with differences that wrap.                           *)
removeItems(q, earliest) ==
  [q EXCEPT !.items = SelectSeq(@, LAMBDA x : x[1] >= earliest)]

UtilizationDelay(w, sum, rate) ==
  Earlier(w, IF 100 * sum > 99 * w THEN (50 * rate) \div w ELSE rate \div (2 * (w - sum)))
MG1Delay(w, n, served) ==
  IF n <= 1 THEN 0
  ELSE UtilizationDelay(w, Total(served), n * (Total([i \in 1..n |-> served[i]^2]) \div n))
MG1(c, kept, t, p) ==
  [delay |-> MG1Delay(c.window, Len(kept.items), [i \in DOMAIN kept.items |-> kept.items[i][2]]),
   q |-> [kept EXCEPT !.items = Append(@, <<t, p>>)]]
WindowedMG1(c, q, t, p, global) ==
  MG1(c, removeItems(q, Later(Minus(global, c.window), Minus(t, 10 * c.window))), t, p)

computeQueueDelay(c, q, t, p, global) ==
  CASE c.model = "basic"        -> Basic(c, q, t, p)
    [] c.model = "history_list" -> HistoryList(c, q, t, p)
    [] c.model = "contention"   -> Contention(q, t, p)
    [] c.model = "windowed_mg1" -> WindowedMG1(c, q, t, p, global)

(* Whether the model sets time aside for the request. *)
Books(c, q, t, p) ==
  CASE c.model = "basic"        -> c.average = "none"
    [] c.model = "history_list" -> ~IsOld(c, q, t, p)
    [] OTHER -> FALSE
=============================================================================
