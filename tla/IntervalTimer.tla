----------------------------- MODULE IntervalTimer -----------------------------
(***************************************************************************)
(* The interval core model (interval_performance_model/interval_timer.cc,  *)
(* windows.cc, interval_contention_*.cc).  simulate() puts micro-ops in a  *)
(* window; while the window is full, dispatchWindow() dispatches from its  *)
(* head into the old window, whose critical path sets the dispatch rate,   *)
(* and every miss event costs its latency and clears the old window.       *)
(*                                                                         *)
(* The double ring buffer is a pair of sequences.  Fetch times are never   *)
(* set by the code and drop out of getMaxProducerExecTime().  A micro-op   *)
(* names its producers by their distance: RobTimer has the trackers.       *)
(***************************************************************************)
EXTENDS Integers, Sequences, FiniteSets, SequencesExt, ContentionModel, RobContention

CONSTANTS
  ItConfigs,   \* [width, size, penalty, cutoff, loads, model, late]: late is
               \* issue_memops_at_dispatch; model "none" is no issue_contention
  ItUops,      \* [kind, class, deps, line, lat, ic, mis, bar, last]
  ItMaxUops    \* bound: micro-ops simulated

VARIABLES
  itCfg,       \* the configuration
  it           \* the timer: windows, critical path, counters

itVars == <<itCfg, it>>

ItOne == 16384                       \* FixedPoint: one
ItKinds == {"load", "store", "branch", "membar", "serial", "int"}
ItPorts == {"0", "1", "2", "3", "34", "4", "5", "05", "015", "012", "12", "6", "7"}

\* Windows::WindowEntry::initialize()
ItEntry(c, u, n) ==
  [uop |-> u, seq |-> n, exec |-> 0, contr |-> 0, overlap |-> {}, dep |-> "no",
   issued |-> ~(c.late /\ u.kind \in {"load", "store"})]

\* IntervalTimer::IntervalTimer(), Windows::clear()
NewInterval(c) ==
  [next |-> 1, win |-> <<>>, old |-> <<>>, head |-> 0, tail |-> 0,
   contr |-> [k \in ItKinds |-> 0], ports |-> [p \in ItPorts |-> 0],
   rest |-> 0, maxStore |-> 0, maxLoad |-> 0, ls |-> NewContention(c.loads),
   cpi |-> [base |-> 0, icache |-> 0, bpred |-> 0, serial |-> 0, dcache |-> 0, long |-> 0],
   mlpInsns |-> 0, mlpCycles |-> 0, mlpLast |-> 0,
   latency |-> 0, idle |-> 0]         \* history: time so far, cycles without a dispatch

ItInit == itCfg \in ItConfigs /\ it = NewInterval(itCfg)
-----------------------------------------------------------------------------
\* DynamicMicroOp::getExecLatency(): nothing before the access is made.
ExecLatency(e) == IF e.issued THEN e.uop.lat ELSE 0
LongLatencyLoad(c, e) == e.uop.kind = "load" /\ ExecLatency(e) > c.cutoff

\* Windows::add(): the producers that are still in the old window or window.
add(c, s, u) ==
  LET first == IF s.old # <<>> THEN s.old[1].seq ELSE IF s.win # <<>> THEN s.win[1].seq ELSE s.next
      e == [ItEntry(c, u, s.next) EXCEPT !.uop.deps = {n \in {s.next - d : d \in u.deps} : n >= first}]
  IN [s EXCEPT !.win = Append(@, e), !.next = @ + 1]

wIsFull(c, s) == Len(s.win) = c.size

\* Windows::getInstruction() after oldWindowContains()
Producers(s, e) == {i \in DOMAIN s.old : s.old[i].seq \in e.uop.deps}

\* IntervalTimer::getMaxProducerExecTime()
getMaxProducerExecTime(s, e) == Max({0} \cup {s.old[i].exec : i \in Producers(s, e)})

\* Windows::addFunctionalUnitStats(), removeFunctionalUnitStats()
PortOf(c, e) == IF c.model = "none" THEN "015" ELSE getPort(c.model, e.uop.class)
changeStats(c, s, e, sign) ==
  [s EXCEPT !.contr[e.uop.kind] = @ + sign * e.contr, !.ports[PortOf(c, e)] = @ + sign]

\* Windows::clearFunctionalUnitStats()
clearFunctionalUnitStats(s) ==
  [s EXCEPT !.contr = [k \in ItKinds |-> 0], !.ports = [p \in ItPorts |-> 0]]

\* Windows::clearOldWindow()
MutClearOldWindow(s, cp) == [s EXCEPT !.head = cp, !.tail = cp, !.old = <<>>]
clearOldWindow(s, cp) ==
  [clearFunctionalUnitStats(s) EXCEPT !.head = cp, !.tail = cp, !.old = <<>>]

\* Windows::dispatchInstruction(): the head of the window enters the old window.
leaveWindow(c, s) ==
  LET s1 == IF Len(s.old) < c.size THEN s
            ELSE [changeStats(c, s, s.old[1], -1) EXCEPT
                    !.head = Later(@, s.old[1].exec), !.old = Tail(@)]
  IN [changeStats(c, s1, s.win[1], 1) EXCEPT !.old = Append(@, s.win[1]), !.win = Tail(@)]

\* Windows::getCriticalPathLength()
getCriticalPathLength(s) == IF s.head <= s.tail THEN s.tail - s.head ELSE 0

\* IntervalContentionNehalem::getEffectiveCriticalPathLength(): a port takes one
\* micro-op per cycle, ports that can stand in for each other share the load.
Ceil(n, d) == (n + d - 1) \div d
effectiveNehalem(p, cp) ==
  LET a == Max({cp} \cup {p[i] : i \in {"0", "1", "2", "34", "5"}})
      u05 == p["0"] + p["5"] + p["05"]
      b == IF u05 > 2 * a THEN Ceil(u05, 2) ELSE a
      u015 == p["0"] + p["1"] + p["5"] + p["015"]
  IN IF u015 > 3 * b THEN Ceil(u015, 3) ELSE b
\* IntervalContentionBoomV1::getEffectiveCriticalPathLength()
effectiveBoom(p, cp) ==
  LET a == Max({cp} \cup {p[i] : i \in {"0", "1", "2", "34", "5"}})
      u012 == p["0"] + p["1"] + p["2"] + p["012"]
  IN IF u012 > 3 * a THEN Ceil(u012, 3) ELSE a
\* Windows::getEffectiveCriticalPathLength(); the Cortex models add nothing.
getEffectiveCriticalPathLength(c, s, cp) ==
  CASE c.model = "nehalem" -> effectiveNehalem(s.ports, cp)
    [] c.model = "riscv" -> effectiveBoom(s.ports, cp)
    [] OTHER -> cp

\* IntervalTimer::calculateCurrentDispatchRate(): [rate, rest]
MutCalculateRate(c, s) ==
  LET cp == getCriticalPathLength(s)
      ipc == (Len(s.old) * ItOne) \div getEffectiveCriticalPathLength(c, s, cp)
  IN [rate |-> IF cp = 0 THEN c.width ELSE ipc \div ItOne, rest |-> 0]
calculateCurrentDispatchRate(c, s) ==
  LET cp == getCriticalPathLength(s)
      ipc == (Len(s.old) * ItOne) \div getEffectiveCriticalPathLength(c, s, cp) + s.rest
      rate == ipc \div ItOne
  IN IF cp = 0 THEN [rate |-> c.width, rest |-> 0]
     ELSE [rate |-> rate, rest |-> IF rate < c.width THEN ipc - rate * ItOne ELSE 0]

\* Windows::calculateBranchResolutionLatency(): walks from the youngest to the
\* oldest and clears the entries of m_exec_time_map it has used.
MutCalculateBranchResolution(s, e) ==
  LET none == [j \in DOMAIN s.old |-> 0]
      start == [j \in DOMAIN s.old |-> IF j \in Producers(s, e) THEN ExecLatency(s.old[j]) ELSE 0]
  IN [lat |-> Max({0} \cup {start[j] : j \in DOMAIN start}), map |-> none]
calculateBranchResolution(s, e) ==
  LET start == [j \in DOMAIN s.old |-> IF j \in Producers(s, e) THEN ExecLatency(s.old[j]) ELSE 0]
      visit(a, i) ==
        IF a.map[i] = 0 THEN a
        ELSE [lat |-> Later(a.lat, a.map[i]),
              map |-> [j \in DOMAIN a.map |->
                        IF j = i THEN 0
                        ELSE IF j \in Producers(s, s.old[i])
                        THEN Later(ExecLatency(s.old[j]) + a.map[i], a.map[j])
                        ELSE a.map[j]]]
  IN FoldLeft(visit, [lat |-> 0, map |-> start],
              [k \in 1 .. Len(s.old) |-> Len(s.old) + 1 - k])

\* IntervalTimer::issueMemOp()
issueMemOp(e) == [e EXCEPT !.issued = TRUE]

\* Windows::longLatencyOperationLatency(): an extension beyond the cut-off is
\* reported as `true', one cycle.
longLatencyOperationLatency(c, s, x) == IF x < s.tail \/ x - s.tail < c.cutoff THEN 0 ELSE 1

\* Windows::updateCriticalPathTail()
updateCriticalPathTail(s, x) ==
  IF x > s.tail THEN [s EXCEPT !.win[1].contr = x - s.tail, !.tail = x] ELSE s

\* IntervalTimer::updateCriticalPath().  The head of s.win is the micro-op, with
\* its execution time set.
updateCriticalPath(c, s) ==
  LET x == s.win[1].exec
      long == longLatencyOperationLatency(c, s, x)
  IN IF long = 0 THEN updateCriticalPathTail(s, x)
     ELSE [clearOldWindow(s, x) EXCEPT !.latency = @ + long, !.cpi.long = @ + long]
-----------------------------------------------------------------------------
\* IntervalTimer::blockWindow(): what of the window is hidden under the long
\* load at its head.
Blocks(c, w, e) ==
  \E j \in DOMAIN w : /\ w[j].seq \in e.uop.deps
                      /\ w[j].dep = "data" \/ (w[j].dep = "miss" /\ LongLatencyLoad(c, w[j]))
blockOne(c, s, a, i) ==
  LET e0 == [a.win[i] EXCEPT !.dep = "no", !.overlap = @ \cup {"icache"}]
      barrier == a.barrier \/ e0.uop.bar
      data == Blocks(c, a.win, e0)
              \/ (e0.uop.kind = "load" /\ e0.uop.line = a.win[1].uop.line)
      hidden == e0.uop.kind = "load" /\ ~data /\ ~barrier /\ "dcache" \notin e0.overlap
      e1 == [e0 EXCEPT !.dep = IF data THEN "data" ELSE "no"]
      e2 == IF e1.uop.kind = "branch" /\ ~data
            THEN [e1 EXCEPT !.overlap = @ \cup {"bpred"}] ELSE e1
      e3 == IF hidden THEN [issueMemOp(e2) EXCEPT !.overlap = @ \cup {"dcache"}, !.dep = "miss",
                                                  !.exec = s.head]
            ELSE e2
  IN IF a.stop THEN a
     ELSE IF e0.uop.kind = "serial" THEN [a EXCEPT !.win[i] = e0, !.stop = TRUE]
     ELSE [a EXCEPT !.win[i] = e3, !.barrier = barrier]
blockWindow(c, s) ==
  LET visit(a, i) == blockOne(c, s, a, i)
      start == [win |-> [s.win EXCEPT ![1].dep = "miss"], barrier |-> FALSE, stop |-> FALSE]
  IN [s EXCEPT !.win = FoldLeft(visit, start, [k \in 1 .. Len(s.win) - 1 |-> k + 1]).win]

\* The contention of the load/store unit; a load with a fence waits for all.
LoadDone(s, e, from) ==
  IF e.uop.bar THEN getBarrierCompletionTime(s.ls, from, ExecLatency(e), 0)
  ELSE getCompletionTime(s.ls, from, ExecLatency(e), 0)

\* dispatchInstruction(): a load that blocks the window.
Blocked(c, s, q, cost) ==
  blockWindow(c, clearOldWindow([s EXCEPT !.win[1].exec = s.tail, !.ls = q, !.latency = @ + cost,
                                          !.cpi.dcache = @ + cost], s.tail + cost))
dispatchLongLoad(c, s, r, from) == Blocked(c, s, r.q, r.end - from)

\* Memory-level parallelism: cycles with a long load outstanding, counted once.
accountMlp(c, s, e) ==
  LET done == s.tail + ExecLatency(e)
      seen == Later(s.mlpLast, s.tail)
  IN IF ~LongLatencyLoad(c, e) THEN s
     ELSE [s EXCEPT !.mlpInsns = @ + ExecLatency(e), !.mlpLast = Later(seen, done),
                    !.mlpCycles = @ + Later(0, done - seen)]

Loaded(s) == [s EXCEPT !.maxLoad = Later(@, s.win[1].exec)]
LoadBy(c, s, e, r, from) ==
  CASE "dcache" \in e.overlap -> s
    [] "dcache" \notin e.overlap /\ LongLatencyLoad(c, e) -> dispatchLongLoad(c, s, r, from)
    [] OTHER -> updateCriticalPath(c, [s EXCEPT !.win[1].exec = r.end, !.ls = r.q])
dispatchLoad(c, s, from) ==
  accountMlp(c, Loaded(LoadBy(c, s, s.win[1], LoadDone(s, s.win[1], from), from)), s.win[1])

dispatchStore(c, s, from) ==   \* its data is ready a cycle later
  LET s1 == updateCriticalPath(c, [s EXCEPT !.win[1].exec = from + 1])
  IN [s1 EXCEPT !.maxStore = Later(@, from + ExecLatency(s.win[1]))]

Restarted(s, at, cost) ==
  [clearOldWindow(s, at + cost) EXCEPT !.latency = @ + cost, !.cpi.bpred = @ + cost]
Mispredicted(c, s, e, at) == Restarted(s, at, c.penalty + calculateBranchResolution(s, e).lat)

\* Miss events at the head of the window: the instruction cache, the branch.
\* Both restart from the critical path as it was before either.
dispatchEvents(c, s) ==
  LET e == s.win[1]
      ic == e.uop.ic > 0 /\ "icache" \notin e.overlap
      mis == e.uop.kind = "branch" /\ e.uop.mis /\ "bpred" \notin e.overlap
      fetched == IF ~ic THEN s
                 ELSE [clearOldWindow(s, s.tail + e.uop.ic) EXCEPT
                         !.latency = @ + e.uop.ic, !.cpi.icache = @ + e.uop.ic]
  IN [s |-> IF mis THEN Mispredicted(c, fetched, e, s.tail) ELSE fetched, stop |-> ic \/ mis]

\* Serializing micro-ops drain the old window.
MutDispatchSerial(c, s) ==
  LET cost == Later(getCriticalPathLength(s), Ceil(Len(s.old), c.width)) + ExecLatency(s.win[1])
  IN [clearOldWindow([s EXCEPT !.win[1].exec = s.tail], s.tail) EXCEPT
        !.latency = @ + cost, !.cpi.serial = @ + Later(getCriticalPathLength(s), 1)]
dispatchSerial(c, s) ==
  LET cost == Later(getCriticalPathLength(s), Ceil(Len(s.old), c.width)) + ExecLatency(s.win[1])
  IN [clearOldWindow([s EXCEPT !.win[1].exec = s.tail], s.tail) EXCEPT
        !.latency = @ + cost, !.cpi.serial = @ + cost]

\* The case of dispatchInstruction() for the kind of micro-op e, whose producers
\* are done at ready.
dispatchKind(c, s, e, ready) ==
  LET from == Later(ready, s.head)
      at(x) == [s EXCEPT !.win[1].exec = x]
  IN CASE e.uop.kind = "serial" -> dispatchSerial(c, s)
       [] e.uop.kind = "membar" ->
            updateCriticalPath(c, at(Max({ready, s.maxStore, s.maxLoad}) + ExecLatency(e)))
       [] e.uop.kind = "load" -> dispatchLoad(c, s, from)
       [] e.uop.kind = "store" -> dispatchStore(c, s, from)
       [] OTHER -> updateCriticalPath(c, at(from + ExecLatency(e)))

\* IntervalTimer::dispatchInstruction()
AfterEvents(c, ev, e, ready) ==
  [s |-> leaveWindow(c, dispatchKind(c, ev.s, e, ready)), stop |-> ev.stop, last |-> e.uop.last]
Fetched(c, s) ==
  AfterEvents(c, dispatchEvents(c, s), s.win[1], getMaxProducerExecTime(s, s.win[1]))
dispatchInstruction(c, s) == Fetched(c, [s EXCEPT !.win[1] = issueMemOp(@)])

\* IntervalTimer::dispatchWindow(): at most `rate' micro-ops and c.width
\* instructions, until a miss event; a cycle without any latency costs one.
CountDispatched(a, d) ==
  [s |-> d.s, stop |-> d.stop, uops |-> a.uops + 1, insns |-> a.insns + (IF d.last THEN 1 ELSE 0)]
dispatchUops(c, s, r) ==
  LET step(a, i) ==
        IF a.stop \/ a.s.win = <<>> \/ a.insns >= c.width \/ a.uops >= r.rate THEN a
        ELSE CountDispatched(a, dispatchInstruction(c, a.s))
  IN FoldLeft(step, [s |-> [s EXCEPT !.rest = r.rest], stop |-> FALSE, uops |-> 0, insns |-> 0],
              [i \in 1 .. Len(s.win) |-> i])
CycleEnd(end, before) ==
  LET base == IF end.s.latency > before THEN 0 ELSE 1 IN
  [end.s EXCEPT !.idle = IF end.uops = 0 THEN @ + 1 ELSE 0,
                !.latency = @ + base, !.cpi.base = @ + base]
dispatchWindow(c, s) ==
  CycleEnd(dispatchUops(c, s, calculateCurrentDispatchRate(c, s)), s.latency)
-----------------------------------------------------------------------------
\* IntervalTimer::simulate(): a micro-op is added, then the window is dispatched
\* for as long as it is full.
itSimulate(u) ==
  /\ ~wIsFull(itCfg, it) /\ it.next <= ItMaxUops
  /\ it' = add(itCfg, it, u)
  /\ UNCHANGED itCfg
itDispatch ==
  /\ wIsFull(itCfg, it)
  /\ it' = dispatchWindow(itCfg, it)
  /\ UNCHANGED itCfg

ItNext == (\E u \in ItUops : itSimulate(u)) \/ itDispatch
ItSpec == ItInit /\ [][ItNext]_itVars
-----------------------------------------------------------------------------
ItSum(f) == FoldLeft(LAMBDA a, i : a + f[i], 0, [i \in 1 .. Len(f) |-> i])

\* The old window and what is derived from it step by step agree: the critical
\* path contains every execution time (so getCriticalPathLength() never meets
\* head > tail, which it only warns of), and the contributions and port counts,
\* which change as micro-ops enter, leave and are cleared, are those of the
\* micro-ops in the old window (getCpContrFraction() asserts part of that).
OldWindowSound ==
  /\ it.head <= it.tail
  /\ \A i \in DOMAIN it.old : it.old[i].exec <= it.tail
  /\ \A k \in ItKinds : it.contr[k] =
       ItSum([i \in DOMAIN it.old |-> IF it.old[i].uop.kind = k THEN it.old[i].contr ELSE 0])
  /\ \A p \in ItPorts : it.ports[p] =
       Cardinality({i \in DOMAIN it.old : PortOf(itCfg, it.old[i]) = p})

\* Every cycle that simulate() returns is attributed to exactly one component
\* of the CPI stack, and a cycle with a long load outstanding is counted once.
CyclesAccounted ==
  /\ it.latency = it.cpi.base + it.cpi.icache + it.cpi.bpred + it.cpi.serial
                  + it.cpi.dcache + it.cpi.long
  /\ it.mlpCycles <= it.mlpInsns

\* ch is a chain of producers in the old window that ends in e.
Chain(s, e, ch) ==
  /\ ch = <<>> \/ ch[1] \in Producers(s, e)
  /\ \A i \in 1 .. Len(ch) - 1 : ch[i + 1] \in Producers(s, s.old[ch[i]])
Chains(s, e) ==
  {ch \in UNION {[1 .. n -> DOMAIN s.old] : n \in 0 .. Len(s.old)} : Chain(s, e, ch)}

\* The loop `while (wIsFull())' of simulate() ends: the bandwidth that is left
\* over accumulates, so a critical path of n cycles delays a dispatch by at most
\* n cycles.
DispatchGoesOn ==
  it.idle <= getEffectiveCriticalPathLength(itCfg, it, getCriticalPathLength(it))

\* The latency to resolve a branch (calculateBranchResolutionLatency()) is that
\* of the longest chain of producers in the old window, and m_exec_time_map is
\* left empty for the next branch.
BranchResolved ==
  it.win # <<>> =>
    LET b == calculateBranchResolution(it, it.win[1]) IN
    /\ \A i \in DOMAIN b.map : b.map[i] = 0
    /\ b.lat = Max({ItSum([i \in DOMAIN ch |-> ExecLatency(it.old[ch[i]])]) : ch \in Chains(it, it.win[1])})

\* The windows of the interval model, what it derives from them and the cycles
\* it returns agree (interval_timer.cc, windows.cc).
IntervalSound == OldWindowSound /\ CyclesAccounted /\ DispatchGoesOn /\ BranchResolved
=============================================================================
