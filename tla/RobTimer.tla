-------------------------------- MODULE RobTimer --------------------------------
(***************************************************************************)
(* The reorder-buffer core model (rob_performance_model/rob_timer.cc) with *)
(* its dependency trackers (micro_op/register_dependencies.cc,             *)
(* memory_dependencies.cc, dynamic_micro_op.cc): micro-ops are appended by *)
(* simulate(), and execute() runs dispatch, issue and commit for a cycle   *)
(* and then jumps over the cycles in which, it thinks, nothing can happen. *)
(*                                                                         *)
(* The operators take the state they work on as an argument, a record t of *)
(* the thread (its buffer) and a record s of what the core shares, because *)
(* the multi-threaded model (RobSmtTimer) is made of the same steps.       *)
(* Times are in cycles.                                                    *)
(***************************************************************************)
EXTENDS Integers, Sequences, FiniteSets, SequencesExt, ContentionModel, RobContention

CONSTANTS
    RobConfigs,   \* the configurations: [width, commit, window, rs, penalty, loads,
                  \* stores, cutoff, stlf, disambiguation, inorder, model]; model
                  \* "none" is a configuration without issue_contention
    RobUops,      \* the micro-ops an instruction stream is drawn from
    RobNop,       \* the micro-op that follows them: a register-less "int"
    RobMaxUops,   \* number of micro-ops drawn
    RobMaxNops    \* number of RobNop that follow

VARIABLES
    robCfg,       \* the configuration
    rob           \* [t, s, ran]: thread, shared state, cycle that was executed last

robVars == <<robCfg, rob>>

(***************************************************************************)
(* A micro-op is [kind, class, src, adr, dst, mem, lat, ic, mis]: the      *)
(* registers it reads, those of them that form the address, the registers  *)
(* it writes, the address it accesses, the latency of that access, the     *)
(* latency of the instruction fetch if it misses (else 0), and whether it  *)
(* is a mispredicted branch.                                               *)
(***************************************************************************)
NoSeq == 0

Entry(u, n) ==
    [uop |-> u, seq |-> n, deps |-> {}, adrs |-> {},
     ready |-> MaxTime, readyMax |-> 0, aready |-> MaxTime, areadyMax |-> 0,
     issued |-> MaxTime, done |-> MaxTime,
     from |-> {}, value |-> {}]           \* history: producers of its operands, and
                                          \* of the value a load is forwarded

NewThread ==
    [rob |-> <<>>, num |-> 0, stall |-> 0, icmiss |-> FALSE, cpi |-> "none",
     next |-> 1, producers |-> [r \in 1..4 |-> NoSeq], stores |-> <<>>, membar |-> NoSeq,
     mlpInsns |-> 0, mlpCycles |-> 0, mlpLast |-> 0]

NewShared(c) ==
    [now |-> 0, rs |-> 0, lsd |-> 0, lq |-> NewContention(c.loads),
     sq |-> NewContention(c.stores), ports |-> NewContentionPorts]

latency(c, u) ==
    u.lat + (IF c.model = "none" THEN NehalemLatency[u.class]
             ELSE getInstructionLatency(c.model, u.class))

(***************************************************************************)
(* Dependencies                                                            *)
(***************************************************************************)
Lowest(t) == t.rob[1].seq

(* findEntryBySequenceNumber *)
Pos(t, n) == n - Lowest(t) + 1

(* RegisterDependencies::peekProducer, for a set of registers. *)
peekProducers(t, regs) ==
    {t.producers[r] : r \in {q \in regs : t.producers[q] >= Lowest(t)}} \ {NoSeq}

(* MemoryDependencies::find after clean: the youngest store in the buffer  *)
(* to the same address.                                                    *)
findStore(t, a) ==
    LET hits == {st \in Range(t.stores) : st.mem = a /\ st.seq >= Lowest(t)}
    IN  IF hits = {} THEN {} ELSE {Max({st.seq : st \in hits})}

(* MemoryDependencies::setDependencies: a load depends on the store it     *)
(* reads from, and memory operations on the last barrier, if that is in    *)
(* the buffer and not its head.                                            *)
memoryDependencies(t, u) ==
    (IF u.kind = "load" THEN findStore(t, u.mem) ELSE {})
    \cup (IF u.kind \in {"load", "store", "membar"} /\ t.membar > Lowest(t)
          THEN {t.membar} ELSE {})

IsStore(t, n) == t.rob[Pos(t, n)].uop.kind = "store"
DoneAt(t, n) == t.rob[Pos(t, n)].done

Waits(t, ns) == {n \in ns : DoneAt(t, n) = MaxTime}
LastDone(t, ns) == Max({0} \cup {DoneAt(t, n) : n \in ns \ Waits(t, ns)})

(* The entry waits for the producers all of its operands, and a store for  *)
(* the producers adrs of its address; the values of regs, and of fwd for a *)
(* forwarded load, are what it computes with.                              *)
Awaiting(t, e, all, adrs, regs, fwd) ==
    [e EXCEPT !.deps = Waits(t, all), !.readyMax = LastDone(t, all),
              !.ready = IF Waits(t, all) = {} THEN LastDone(t, all) ELSE MaxTime,
              !.adrs = Waits(t, adrs), !.areadyMax = LastDone(t, adrs),
              !.aready = IF e.uop.kind = "store" /\ Waits(t, adrs) = {} THEN LastDone(t, adrs)
                         ELSE MaxTime,
              !.from = regs,
              !.value = UNION {t.rob[Pos(t, n)].from : n \in fwd}]

(* A load that is forwarded waits for the producers of the stored value    *)
(* instead of the store; the entry itself becomes a producer.              *)
Depending(t, i, regs, mem, fwd, adrs) ==
    LET e == t.rob[i]
    IN  [t EXCEPT !.rob[i] = Awaiting(t, e, ((regs \cup mem) \ fwd)
                                            \cup UNION {t.rob[Pos(t, n)].deps : n \in fwd},
                                      adrs, regs, fwd),
                  !.producers = [r \in DOMAIN @ |-> IF r \in e.uop.dst THEN e.seq ELSE @[r]],
                  !.stores = SelectSeq(IF e.uop.kind = "store"
                                       THEN Append(@, [seq |-> e.seq, mem |-> e.uop.mem])
                                       ELSE @, LAMBDA st : st.seq >= Lowest(t)),
                  !.membar = IF e.uop.kind = "membar" THEN e.seq ELSE @]

(* RobTimer::simulate for one micro-op / RobSmtTimer::setDependencies: the *)
(* entry at position i learns on whom it waits.  Producers that have       *)
(* issued are only remembered by the time they will be done.               *)
setDependencies(c, t, i) ==
    LET u == t.rob[i].uop
        mem == memoryDependencies(t, u)
    IN  Depending(t, i, peekProducers(t, u.src), mem,
                  IF c.stlf /\ u.kind = "load" THEN {n \in mem : IsStore(t, n)} ELSE {},
                  IF u.kind = "store" THEN peekProducers(t, u.adr) ELSE {})

(* CircularQueue::next and RobEntry::init *)
append(t, u) ==
    [t EXCEPT !.rob = Append(@, Entry(u, t.next)), !.next = @ + 1]

(***************************************************************************)
(* Dispatch                                                                *)
(***************************************************************************)
Prepared(c, late, t, i) == IF late THEN setDependencies(c, t, i) ELSE t

(* The entry at position i of the prepared thread t enters the window.     *)
Dispatched(a, t, i) ==
    LET ready == Later(t.rob[i].ready, a.s.now + 1)
        mis == t.rob[i].uop.mis
    IN  [a EXCEPT !.stop = mis,
                  !.t = [t EXCEPT !.rob[i].ready = ready, !.num = i,
                                  !.stall = IF mis THEN MaxTime ELSE @,
                                  !.cpi = IF mis THEN "branch" ELSE @],
                  !.s.rs = @ + 1, !.n = @ + 1,
                  !.next = Earlier(@, ready)]

(* One turn of the loop of doDispatch / tryDispatch.  a is the state of    *)
(* the loop: thread, shared state, the earliest next event, and whether it *)
(* was left.  RobSmtTimer sets the dependencies of an entry late, when it  *)
(* is dispatched; RobTimer has set them when the entry was added.          *)
dispatchOne(c, window, late, a) ==
    LET t == a.t
        i == t.num + 1
        miss == t.rob[i].uop.ic > 0
    IN  CASE a.stop \/ t.num >= window -> [a EXCEPT !.stop = TRUE]
          [] ~a.stop /\ t.num < window /\ miss /\ ~t.icmiss ->
                [a EXCEPT !.stop = TRUE,
                          !.t = [t EXCEPT !.stall = a.s.now + t.rob[i].uop.ic,
                                          !.icmiss = TRUE, !.cpi = "icache"]]
          [] ~a.stop /\ t.num < window /\ (miss => t.icmiss) /\ a.s.rs = c.rs ->
                [a EXCEPT !.stop = TRUE,
                          !.t = [t EXCEPT !.icmiss = @ /\ ~miss, !.cpi = "rsfull"]]
          [] OTHER ->
                Dispatched(a, Prepared(c, late, [t EXCEPT !.icmiss = @ /\ ~miss], i), i)

Times(f(_), x, n) == FoldLeft(LAMBDA a, i : f(a), x, [i \in 1..n |-> i])

dispatchLoop(c, window, late, t, s) ==
    Times(LAMBDA a : dispatchOne(c, window, late, a),
          [t |-> [t EXCEPT !.cpi = "none"], s |-> s, next |-> MaxTime,
           n |-> 0, stop |-> FALSE], c.width)

(* The next event of a front end that is not filled to the brim. *)
FrontEnd(c, a) == [a EXCEPT !.next = IF a.t.num = c.window THEN @ ELSE Earlier(@, a.t.stall)]

doDispatch(c, t, s) ==
    FrontEnd(c, IF t.stall <= s.now THEN dispatchLoop(c, c.window, FALSE, t, s)
                ELSE [t |-> t, s |-> s, next |-> MaxTime, n |-> 0, stop |-> TRUE])

(***************************************************************************)
(* Issue                                                                   *)
(***************************************************************************)
MutResolve(t, d, n, dep) ==
    IF n \notin d.deps THEN d
    ELSE [d EXCEPT !.deps = @ \ {n}, !.readyMax = Later(@, dep),
                   !.ready = IF d.deps = {n} THEN dep ELSE @]

(* A dependant d of an entry with number n whose result is there at time   *)
(* dep; t is the thread in which that entry has been marked as issued.     *)
resolve(t, d, n, dep) ==
    LET left == d.deps \ {n}
        rm == Later(d.readyMax, dep)
        am == IF n \in d.adrs THEN Later(d.areadyMax, dep) ELSE d.areadyMax
        known == \A p \in d.adrs : p >= Lowest(t) => DoneAt(t, p) # MaxTime
        learns == d.uop.kind = "store" /\ d.aready = MaxTime
    IN  IF n \notin d.deps THEN d
        ELSE [d EXCEPT !.deps = left, !.readyMax = rm,
                       !.ready = IF left = {} THEN rm ELSE @,
                       !.areadyMax = IF learns THEN am ELSE @,
                       !.aready = IF learns /\ known THEN am ELSE @]

(* issueInstruction, and the accounting of long-latency loads after it.    *)
issueInstruction(c, t, s, i) ==
    LET e == t.rob[i]
        u == e.uop
        lat == latency(c, u)
        dep == IF u.kind = "store" THEN s.now + 1 ELSE s.now + lat
        done == IF u.kind = "store" THEN s.now + 1 ELSE s.now + lat + 1
        t1 == [t EXCEPT !.rob[i].issued = s.now, !.rob[i].done = done]
        t2 == [t1 EXCEPT !.rob = [j \in DOMAIN @ |-> resolve(t1, @[j], e.seq, dep)],
                         !.stall = IF u.mis THEN s.now + (c.penalty - 2) ELSE @]
        long == u.kind = "load" /\ lat > c.cutoff
        seen == Later(t.mlpLast, s.now)
    IN  [t |-> IF ~long THEN t2
               ELSE [t2 EXCEPT !.mlpInsns = @ + (done - s.now),
                               !.mlpCycles = @ + (IF done > seen THEN done - seen ELSE 0),
                               !.mlpLast = Later(seen, done)],
         s |-> [s EXCEPT
                  !.rs = @ - 1,
                  !.lsd = IF u.kind = "store" THEN Later(@, s.now + lat + 1) ELSE @,
                  !.lq = IF u.kind = "load"
                         THEN getCompletionTime(@, s.now, lat, u.mem).q ELSE @,
                  !.sq = IF u.kind = "store"
                         THEN getCompletionTime(@, s.now, lat, u.mem).q ELSE @,
                  !.ports = IF c.model = "none" THEN @
                            ELSE doIssueContention(c.model, @, u.class, s.now)],
         done |-> done]

(* The chain of conditions of doIssue, before the structural hazards. *)
canIssue(c, a, e) ==
    LET k == e.uop.kind
        room == c.model # "none" \/ a.n < c.width
    IN  /\ e.ready <= a.s.now
        /\ ~(a.fenced /\ k \in {"load", "store"})
        /\ k \in {"serial", "membar"} => a.head /\ a.s.lsd <= a.s.now
        /\ k \notin {"serial", "membar"} => room
        /\ k = "load" => /\ hasFreeSlot(a.s.lq, a.s.now, NoTag)
                         /\ c.disambiguation \/ ~a.unresolved
        /\ k = "store" => a.head /\ hasFreeSlot(a.s.sq, a.s.now, NoTag)

MutNoteReady(next, e, issues) == IF issues THEN next ELSE Earlier(next, e.ready)

(* What the walk reports of an entry that waits: the time it is ready.  It *)
(* is reported before the entry is tried, so a cycle in which something    *)
(* issued is never followed by a jump.                                     *)
noteReady(next, e, issues) == Earlier(next, e.ready)

(* The issue bandwidth of the cycle is used up. *)
Full(c, s, n) == IF c.model = "none" THEN n = c.width ELSE noMore(c.model, s.ports)

(* The entry issues; r is what issueInstruction did. *)
Issued(c, a, r, next) ==
    [a EXCEPT !.t = r.t, !.s = r.s, !.n = @ + 1, !.next = Earlier(next, r.done),
              !.stop = Full(c, r.s, a.n + 1)]

(* The entry is passed over: it is not ready, held back by another one, or *)
(* there is no port for it.                                                *)
PassedOver(c, a, e, s, held, next) ==
    [a EXCEPT !.s = s, !.next = next, !.head = FALSE,
              !.fenced = @ \/ (held /\ e.uop.kind = "membar"),
              !.unresolved = @ \/ (e.uop.kind = "store" /\ e.aready > a.s.now),
              !.stop = c.inorder \/ Full(c, s, a.n)]

(* One turn of the loop of doIssue / tryIssue, for the entry at position i: *)
(* port is the answer of the contention model.                             *)
IssueWith(c, a, i, e, can, port, s) ==
    LET next == noteReady(a.next, e, can /\ port.ok)
        held == e.ready <= a.s.now /\ ~can
    IN  CASE a.stop -> a
          [] ~a.stop /\ e.done # MaxTime -> [a EXCEPT !.next = Earlier(@, e.done)]
          [] ~a.stop /\ e.done = MaxTime /\ held /\ e.uop.kind = "serial" ->
                [a EXCEPT !.next = next, !.stop = TRUE]
          [] ~a.stop /\ e.done = MaxTime /\ can /\ port.ok ->
                Issued(c, a, issueInstruction(c, a.t, s, i), next)
          [] OTHER -> PassedOver(c, a, e, s, held, next)

AskPort(c, a, i, e, can, port) ==
    IssueWith(c, a, i, e, can, port, [a.s EXCEPT !.ports = port.p])

TryEntry(c, a, i, e, can) ==
    AskPort(c, a, i, e, can,
            IF can /\ c.model # "none" THEN tryIssue(c.model, a.s.ports, e.uop.class, a.s.now)
            ELSE [ok |-> TRUE, p |-> a.s.ports])

issueOne(c, a, i) ==
    IF i > a.t.num THEN a ELSE TryEntry(c, a, i, a.t.rob[i], canIssue(c, a, a.t.rob[i]))

issueLoop(c, t, s) ==
    FoldLeft(LAMBDA a, i : issueOne(c, a, i),
             [t |-> t, s |-> s, next |-> MaxTime, n |-> 0, stop |-> FALSE,
              head |-> TRUE, fenced |-> FALSE, unresolved |-> FALSE],
             [i \in 1..t.num |-> i])

doIssue(c, t, s) ==
    issueLoop(c, t, IF c.model = "none" THEN s
                    ELSE [s EXCEPT !.ports = initCycle(@)])

(***************************************************************************)
(* Commit, and a cycle                                                     *)
(***************************************************************************)
doCommit(c, t, now) ==
    LET one(th) == IF th.rob # <<>> /\ th.rob[1].done <= now
                   THEN [th EXCEPT !.rob = Tail(@), !.num = @ - 1] ELSE th
    IN  Times(one, t, c.commit)

FrontDone(t) == IF t.rob = <<>> THEN MaxTime ELSE t.rob[1].done

needsMore(c, t, s) == t.stall <= s.now /\ Len(t.rob) < t.num + 2 * c.width

(* doDispatch, doIssue and doCommit, one after the other. *)
Retired(d, i, th) ==
    [t |-> th, s |-> i.s, next |-> Earlier(d.next, Earlier(i.next, FrontDone(th))),
     idle |-> d.n = 0 /\ i.n = 0 /\ th.num = i.t.num]
ThenCommit(c, d, i, now) == Retired(d, i, doCommit(c, i.t, now))
ThenIssue(c, d, now) == ThenCommit(c, d, doIssue(c, d.t, d.s), now)
stages(c, t, s) == ThenIssue(c, doDispatch(c, t, s), s.now)

(***************************************************************************)
(* The specification                                                       *)
(***************************************************************************)
RobInit ==
    /\ robCfg \in RobConfigs
    /\ rob = [t |-> NewThread, s |-> NewShared(robCfg), ran |-> 0]

RobSupply ==
    IF rob.t.next <= RobMaxUops THEN RobUops
    ELSE IF rob.t.next <= RobMaxUops + RobMaxNops THEN {RobNop} ELSE {}

(* simulate(): called again once execute() has asked for more micro-ops.   *)
simulate(u) ==
    LET t == append(rob.t, u)
    IN  /\ needsMore(robCfg, rob.t, rob.s)
        /\ rob' = [rob EXCEPT !.t = setDependencies(robCfg, t, Len(t.rob))]
        /\ UNCHANGED robCfg

(* execute(): a cycle, and the jump to the next event. *)
execute ==
    /\ ~needsMore(robCfg, rob.t, rob.s)
    /\ \E r \in {stages(robCfg, rob.t, rob.s)} :
          rob' = [t |-> r.t, ran |-> rob.s.now,
                  s |-> [r.s EXCEPT !.now = IF r.next # MaxTime /\ r.next > @ + 1
                                            THEN r.next ELSE @ + 1]]
    /\ UNCHANGED robCfg

RobNext == \/ \E u \in RobSupply : simulate(u)
           \/ execute

(***************************************************************************)
(* Properties                                                              *)
(***************************************************************************)
(* The assertion of the ASSERT_SKIP build, "Cycle would have been skipped  *)
(* but stuff happened": in none of the cycles execute() jumps over would a *)
(* micro-op have been dispatched, issued or committed.                     *)
SkipsNothing ==
    \A n \in rob.ran + 1 .. rob.s.now - 1 :
        stages(robCfg, rob.t, [rob.s EXCEPT !.now = n]).idle

(* Data flow and resources.  A micro-op issues only when the results of    *)
(* all the micro-ops that produce its registers are there, whichever of    *)
(* the two ways it learned of them (dependants list, or completion time of *)
(* a producer that had issued before it was fetched); the reservation      *)
(* stations in use are the micro-ops dispatched and not yet issued; a      *)
(* store's address is not known later than its data; every dependency      *)
(* still is in the buffer; the memory-level parallelism that is accounted  *)
(* is at least one.                                                        *)
Result(c, e) == e.issued + (IF e.uop.kind = "store" THEN 1 ELSE latency(c, e.uop))
InRob(t, n) == t.rob # <<>> /\ n >= Lowest(t)
RobDataflow ==
    LET t == rob.t
        E == DOMAIN t.rob
        waiting == {i \in 1..t.num : t.rob[i].done = MaxTime}
    IN  /\ \A i \in E : t.rob[i].issued # MaxTime =>
              \A n \in t.rob[i].from : InRob(t, n) =>
                 /\ t.rob[Pos(t, n)].issued # MaxTime
                 /\ Result(robCfg, t.rob[Pos(t, n)]) <= t.rob[i].issued
        /\ rob.s.rs = Cardinality(waiting) /\ rob.s.rs <= robCfg.rs
        /\ \A i \in E : /\ t.rob[i].uop.kind = "store" => t.rob[i].aready <= t.rob[i].ready
                        /\ \A n \in t.rob[i].deps : InRob(t, n) /\ n < t.rob[i].seq
        /\ t.mlpInsns >= t.mlpCycles

(* A load that takes its value from a store still in the buffer waits for  *)
(* the producers of that value ("Add dependencies to the producers of the  *)
(* value being stored instead"). In no run: the code does not keep it, see *)
(* the README.                                                             *)
ForwardedValueReady ==
    LET t == rob.t
    IN  \A i \in DOMAIN t.rob : t.rob[i].issued # MaxTime =>
            \A n \in t.rob[i].value : InRob(t, n) =>
                /\ t.rob[Pos(t, n)].issued # MaxTime
                /\ Result(robCfg, t.rob[Pos(t, n)]) <= t.rob[i].issued

(* The reorder-buffer model executes the data flow of the program, cycle   *)
(* by cycle, although it jumps over cycles (rob_timer.cc).                 *)
RobSound == SkipsNothing /\ RobDataflow
=============================================================================
