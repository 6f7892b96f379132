------------------------------ MODULE Prefetchers ------------------------------
(***************************************************************************)
(* The prefetchers of Prefetcher::createPrefetcher(): the global history   *)
(* buffer (ghb_prefetcher.cc), the stride detector of the Cortex-A53       *)
(* (a53prefetcher.cc) and the flows of simple_prefetcher.cc.  Each is      *)
(* trained by CacheCntlr::trainPrefetcher() with one address at a time and *)
(* answers with a list of addresses.                                       *)
(***************************************************************************)
EXTENDS Integers, Sequences, FiniteSets, SequencesExt, FiniteSetsExt

CONSTANT
  PfConfigs   \* kind, cores, the parameters of the prefetcher, and two bounds: the
              \* steps from address to address and max, the calls of getNextAddress()

VARIABLES
  pfCfg,    \* the configuration
  pf,       \* the state of the prefetcher
  pfHist    \* history: the calls, [addr, core, list]

pfVars == <<pfCfg, pf, pfHist>>

InvalidDelta == 2 ^ 30   \* stands for INT64_MAX
InvalidIndex == 2 ^ 30   \* stands for UINT32_MAX
InvalidAddress == -1     \* stands for INVALID_ADDRESS
PfFirst == 100           \* where the addresses start: beyond the first page

\* The constructors.
PfNew(c) ==
  CASE c.kind = "ghb" ->
         [last |-> InvalidAddress, head |-> 0, gen |-> 0, tableHead |-> 0,
          ghb |-> [i \in 0 .. c.size - 1 |-> [next |-> InvalidIndex, delta |-> InvalidDelta, gen |-> 0]],
          table |-> [i \in 0 .. c.table - 1 |-> [index |-> InvalidIndex, delta |-> InvalidDelta, gen |-> 0]]]
    [] c.kind = "a53" -> [first |-> TRUE, prev |-> 0, stride |-> 0, pattern |-> 0, consecutive |-> 0]
    [] c.kind = "simple" ->
         [next |-> 0, prev |-> [k \in 1 .. (IF c.percore THEN c.cores ELSE 1) |->
                                  [i \in 0 .. c.flows - 1 |-> 0]]]
-----------------------------------------------------------------------------
(* The global history buffer                                               *)

\* The first slot of the table that has the delta or is empty; table size if none.
TableSlot(c, p, d) ==
  Min({c.table} \cup {i \in DOMAIN p.table : p.table[i].delta \in {d, InvalidDelta}})
TableHas(c, p, d) ==
  TableSlot(c, p, d) # c.table /\ p.table[TableSlot(c, p, d)].delta = d

MutLive(p, e) == TRUE
\* The entry of the table still points to the generation of the buffer.
Live(p, e) == e.gen = p.ghb[e.index].gen

\* The inner loop: the addresses that follow when history from index repeats.
AlongHistory(c, p, index, a, list) ==
  LET step(w, depth) ==
        LET e == p.ghb[(index + depth) % c.size]
            b == w.addr + e.delta IN
        IF w.stop \/ e.delta = InvalidDelta THEN [w EXCEPT !.stop = TRUE]
        ELSE [w EXCEPT !.addr = b, !.list = IF Contains(@, b) THEN @ ELSE Append(@, b)]
  IN FoldLeft(step, [addr |-> a, list |-> list, stop |-> FALSE], [i \in 1 .. c.depth |-> i - 1]).list

\* The next older entry of the same list, unless it has been overwritten.
Older(p, index) ==
  LET next == p.ghb[index].next IN
  IF (next > index \/ index > p.head) /\ next < p.head THEN InvalidIndex ELSE next

\* The outer loop.
Proposals(c, p, d, a) ==
  LET e == p.table[TableSlot(c, p, d)]
      step(w, i) == IF w.index = InvalidIndex THEN w
                    ELSE [index |-> Older(p, w.index), list |-> AlongHistory(c, p, w.index, a, w.list)]
  IN IF ~TableHas(c, p, d) THEN <<>>
     ELSE IF ~Live(p, e) THEN <<>>
     ELSE FoldLeft(step, [index |-> e.index, list |-> <<>>], [i \in 1 .. c.width |-> i]).list

\* The new delta enters the buffer, and the table learns that it followed the
\* previous delta.
Remember(c, p, d) ==
  LET h == p.head
      p1 == [p EXCEPT !.ghb[h] = [next |-> InvalidIndex, delta |-> d, gen |-> p.gen]]
      prev == p1.ghb[IF h > 0 THEN h - 1 ELSE c.size - 1].delta
      i == TableSlot(c, p1, prev)
      row == [index |-> h, delta |-> prev, gen |-> p.gen]
      p2 == IF prev = InvalidDelta THEN p1
            ELSE IF TableHas(c, p1, prev)
            THEN [p1 EXCEPT !.ghb[h].next = IF Live(p1, p1.table[i]) THEN p1.table[i].index
                                            ELSE InvalidIndex,
                            !.table[i] = row]
            ELSE [p1 EXCEPT !.table[p1.tableHead] = row, !.tableHead = (@ + 1) % c.table]
  IN IF h + 1 = c.size THEN [p2 EXCEPT !.head = 0, !.gen = (@ + 1) % 4] ELSE [p2 EXCEPT !.head = h + 1]

getNextAddressGhb(c, p, a) ==
  LET d == a - p.last
      q == [p EXCEPT !.last = a] IN
  IF p.last = InvalidAddress THEN [pf |-> q, list |-> <<>>]
  ELSE [pf |-> Remember(c, q, d), list |-> Proposals(c, q, d, a)]
-----------------------------------------------------------------------------
(* The stride detector                                                     *)
PfAbs(x) == IF x < 0 THEN -x ELSE x

MutRunLength(p, d, n) == n + 1
\* How often the distance d has come in a row, n times before.
RunLength(p, d, n) == IF d = p.stride THEN n + 1 ELSE 1

\* A distance of one line has a counter and a threshold of its own, and its
\* prefetches go upwards whatever its sign.  The code's thresholds are the
\* configured lengths less one.
getNextAddressA53(c, p, a) ==
  LET d == a - p.prev
      near == PfAbs(d) = c.line
      n == RunLength(p, d, IF near THEN p.consecutive ELSE p.pattern)
      ahead(s) == [i \in 1 .. c.num |-> a + s * i]
      seen == [p EXCEPT !.prev = a, !.first = FALSE]
  IN IF p.first \/ d = 0 THEN [pf |-> seen, list |-> <<>>]
     ELSE IF near
     THEN [pf |-> [seen EXCEPT !.stride = d, !.consecutive = n],
           list |-> IF n >= c.consecutive - 1 THEN ahead(c.line) ELSE <<>>]
     ELSE [pf |-> [seen EXCEPT !.stride = d, !.pattern = n],
           list |-> IF n >= c.pattern - 1 THEN ahead(d) ELSE <<>>]
-----------------------------------------------------------------------------
(* Flows                                                                   *)
MutBestFlow(c, p, prev, a) == p.next
\* The flow whose last address is nearest, if it is nearer than a page, or the
\* one whose turn it is.
BestFlow(c, p, prev, a) ==
  LET dist(i) == PfAbs(a - prev[i])
      near == {i \in DOMAIN prev : dist(i) < c.page} IN
  IF near = {} THEN p.next
  ELSE Min({i \in near : \A j \in near : dist(i) <= dist(j)})

getNextAddressSimple(c, p, a, core) ==
  LET k == IF c.percore THEN core ELSE 1
      f == BestFlow(c, p, p.prev[k], a)
      stride == a - p.prev[k][f]
      all == [i \in 1 .. c.num |-> a + (i - 1) * stride]
      kept == IF c.stop THEN SelectSeq(all, LAMBDA b : b \div c.page = a \div c.page) ELSE all
  IN [pf |-> [p EXCEPT !.next = (@ + 1) % c.flows, !.prev[k][f] = a],
      list |-> IF stride = 0 THEN <<>> ELSE kept]
-----------------------------------------------------------------------------
PfInit ==
  /\ pfCfg \in PfConfigs
  /\ pf = PfNew(pfCfg)
  /\ pfHist = <<>>

\* The calls of one core.
PfOf(h, core) == SelectSeq(h, LAMBDA x : x.core = core)
\* The streams of two cores start in different pages.
PfLast(core) == LET h == PfOf(pfHist, core) IN IF h = <<>> THEN PfFirst * core ELSE Last(h).addr

\* getNextAddress() of the configured prefetcher, for an address that is one of
\* the steps away from the previous one of the core.
getNextAddress(core, step) ==
  LET a == PfLast(core) + step
      r == CASE pfCfg.kind = "ghb" -> getNextAddressGhb(pfCfg, pf, a)
             [] pfCfg.kind = "a53" -> getNextAddressA53(pfCfg, pf, a)
             [] pfCfg.kind = "simple" -> getNextAddressSimple(pfCfg, pf, a, core)
  IN /\ Len(pfHist) < pfCfg.max
     /\ pf' = r.pf
     /\ pfHist' = Append(pfHist, [addr |-> a, core |-> core, list |-> r.list])
     /\ UNCHANGED pfCfg

PfNext == \E core \in 1 .. pfCfg.cores, step \in pfCfg.steps : getNextAddress(core, step)

PfSpec == PfInit /\ [][PfNext]_pfVars
-----------------------------------------------------------------------------
\* The distances between the addresses of a sequence of calls.
PfDeltas(h) == [i \in 1 .. Len(h) - 1 |-> h[i + 1].addr - h[i].addr]

\* The history buffer predicts what followed the last time: when the delta was
\* last seen k deltas into the history, the first proposal adds delta k + 1, as
\* long as that is in the buffer; nothing is proposed from an entry that was
\* overwritten, up to the four generations after which m_generation repeats.
\* While the table has room for all deltas, every delta that is remembered is
\* found.
GhbPredicts ==
  LET ds == PfDeltas(pfHist)
      n == Len(ds)
      ks == {k \in 1 .. n - 2 : ds[k] = ds[n]}
      k == Max(ks)
      now == Last(pfHist)
  IN pfCfg.kind = "ghb" /\ n > 0 =>
       /\ now.list # <<>> =>
            /\ ks # {}
            /\ \/ k + 1 >= n - pfCfg.size /\ now.list[1] = now.addr + ds[k + 1]
               \/ n - 1 - k > 4 * pfCfg.size
       /\ (ks # {} /\ Cardinality(pfCfg.steps) <= pfCfg.table /\ k + 1 >= n - pfCfg.size)
            => now.list # <<>>

\* The stride detector proposes exactly when the last distances that are not
\* zero are equal, as many of them as the pattern of that distance needs,
\* whatever patterns the two counters have counted before.
A53Steady ==
  LET ds == PfDeltas(pfHist)
      moves == SelectSeq(ds, LAMBDA d : d # 0)
      n == Len(moves)
      d == Last(moves)
      need == (IF PfAbs(d) = pfCfg.line THEN pfCfg.consecutive ELSE pfCfg.pattern) - 1
  IN pfCfg.kind = "a53" /\ ds # <<>> =>
       ((Last(pfHist).list # <<>>) <=>
          /\ Last(ds) # 0
          /\ n >= need
          /\ \A i \in n - need + 1 .. n : moves[i] = d)

\* A core whose addresses stay within a page of each other trains one flow: from
\* its second access on the stride is its own last distance, however the other
\* cores' accesses move the shared round-robin pointer.
OwnStream ==
  LET now == Last(pfHist)
      own == PfOf(pfHist, now.core)
      near == \A i, j \in DOMAIN own : PfAbs(own[i].addr - own[j].addr) < pfCfg.page
      d == Last(PfDeltas(own))
      want == {b \in {now.addr + i * d : i \in 0 .. pfCfg.num - 1} :
                 pfCfg.stop => b \div pfCfg.page = now.addr \div pfCfg.page}
  IN pfCfg.kind = "simple" /\ Len(pfHist) > 0 =>
       (pfCfg.percore /\ near /\ Len(own) > 1 => ToSet(now.list) = IF d = 0 THEN {} ELSE want)

\* The prefetchers of getNextAddress() follow the stream they are trained with.
PrefetchersSound == GhbPredicts /\ A53Steady /\ OwnStream
=============================================================================
