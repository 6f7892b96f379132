-------------------------- MODULE BranchPredictors --------------------------
(***************************************************************************)
(* The branch predictors BranchPredictor::create can make, driven the way  *)
(* Core::accessBranchPredictor drives them: predict() and then update() of *)
(* the same branch, one branch at a time.  The widths of the tables and of *)
(* the bit fields of an address come from the configuration; the time      *)
(* stamps of the least-recently-used policies only matter by their order   *)
(* and are kept as ranks.                                                  *)
(*                                                                         *)
(* A branch is a record [ip, kind, len, dir]: "steady" branches always go  *)
(* in direction dir, "loop" branches go len times in direction dir and     *)
(* then once the other way, "free" ones go anywhere.                       *)
(***************************************************************************)
EXTENDS Integers, FiniteSets, Bitwise

CONSTANTS
    BpConfigs,  \* records [type, size, bits, sets, ways, tags, entries, branches]
    BpWarm,     \* executions after which a branch counts as learnt
    BpMaxCount  \* bound on the counts of the loop predictor

VARIABLES
    bpCfg,   \* the configuration of the core
    bp,      \* the tables of the predictor
    bpAt,    \* per branch: position of a loop branch in its current pass
    bpSeen   \* per branch: passes or executions since it was (re)allocated

bpVars == <<bpCfg, bp, bpAt, bpSeen>>

-----------------------------------------------------------------------------
(* Saturating counters of n bits, from -2^(n-1) up to 2^(n-1) - 1.         *)

predict(c) == c >= 0

reset(n, taken) == IF taken THEN 2 ^ (n - 1) - 1 ELSE -(2 ^ (n - 1))

UpdateCounter(n, c, taken) ==
    IF taken THEN IF c = 2 ^ (n - 1) - 1 THEN c ELSE c + 1
             ELSE IF c = -(2 ^ (n - 1)) THEN c ELSE c - 1

-----------------------------------------------------------------------------
(* Least recently used ways.  A use writes m_lru_use_count++: the very     *)
(* first use of a table writes the 0 that the unused ways hold too.        *)

Ranked(f) == [w \in DOMAIN f |-> Cardinality({f[x] : x \in {y \in DOMAIN f : f[y] < f[w]}})]

Use(set, w, first) ==
    [set EXCEPT !.lru = Ranked([@ EXCEPT ![w] = IF first THEN 0 ELSE Cardinality(DOMAIN set.lru) + 1])]

LruWay(set) ==
    CHOOSE w \in DOMAIN set.lru :
        \A x \in DOMAIN set.lru : set.lru[w] < set.lru[x] \/ (set.lru[w] = set.lru[x] /\ w <= x)

FirstWay(W) == CHOOSE w \in W : \A x \in W : w <= x

NewSet(c, entry) == [lru |-> [w \in 0 .. c.ways - 1 |-> 0], way |-> [w \in 0 .. c.ways - 1 |-> entry]]

NewWays(c, entry) == [used |-> FALSE, set |-> [i \in 0 .. c.sets - 1 |-> NewSet(c, entry)]]

\* Way w of set i is replaced by entry e and becomes the most recently used.
Put(t, i, w, e) ==
    [used |-> TRUE,
     set |-> [t.set EXCEPT ![i] = Use([@ EXCEPT !.way[w] = e], w, ~t.used)]]

-----------------------------------------------------------------------------
(* Addresses: the low bit stands for the offset ip[3:0].                   *)

Line(ip) == ip \div 2

LoopIndex(c, ip) == Line(ip) % c.sets
LoopTag(c, ip) == (Line(ip) \div c.sets) % c.tags

BtbTag(c, ip) == <<(Line(ip) \div c.sets) % c.tags, ip % 2>>

GlobalIndex(c, ip, pir) == (Line(ip) ^^ (pir \div c.tags)) % c.sets
GlobalTag(c, ip, pir) == ((Line(ip) \div c.sets) ^^ pir) % c.tags

-----------------------------------------------------------------------------
(* Loop branch predictor.                                                  *)

NewLoopEntry == [tag |-> 0, previous |-> FALSE, enabled |-> FALSE, pred |-> 0, count |-> 0, limit |-> 0]

LoopPrediction(e) == IF e.count = e.limit THEN ~predict(e.pred) ELSE predict(e.pred)

LoopHits(c, t, ip) ==
    LET s == t.set[LoopIndex(c, ip)]
    IN {w \in DOMAIN s.way : s.way[w].enabled /\ s.way[w].tag = LoopTag(c, ip)}

LoopAnswer(set, H) ==
    [hit |-> H # {}, prediction |-> H # {} /\ LoopPrediction(set.way[FirstWay(H)])]
LoopLookup(c, t, ip) == LoopAnswer(t.set[LoopIndex(c, ip)], LoopHits(c, t, ip))

\* lookup() also marks the way it hits as used.
UsedAgain(t, i, w) == Put(t, i, w, t.set[i].way[w])
LoopLookedUp(c, t, ip) ==
    IF LoopHits(c, t, ip) = {} THEN t ELSE UsedAgain(t, LoopIndex(c, ip), FirstWay(LoopHits(c, t, ip)))

\* The new count, limit and enabled flag as long as the direction stays.
MutSameDirection(e, actual) ==
    IF LoopPrediction(e) = actual
    THEN [e EXCEPT !.count = e.count + 1]
    ELSE IF e.count < e.limit
         THEN [e EXCEPT !.count = 0, !.limit = e.count]
         ELSE [e EXCEPT !.count = e.count + 1, !.limit = e.count + 1, !.enabled = FALSE]

SameDirection(e, actual) ==
    IF LoopPrediction(e) = actual
    THEN [e EXCEPT !.count = IF e.count = e.limit THEN 0 ELSE e.count + 1]
    ELSE IF e.count < e.limit
         THEN [e EXCEPT !.count = 0, !.limit = e.count]
         ELSE [e EXCEPT !.count = e.count + 1, !.limit = e.count + 1, !.enabled = FALSE]

NextLoopEntry(e, actual) ==
    LET against == actual = ~predict(e.pred)
        turned == against /\ e.previous = actual
        ended == against /\ e.previous # actual
        next == CASE turned -> [e EXCEPT !.count = 1, !.limit = 1, !.enabled = FALSE,
                                         !.pred = UpdateCounter(1, e.pred, actual)]
                  [] ended /\ ~e.enabled -> [e EXCEPT !.enabled = TRUE, !.count = 0]
                  [] OTHER -> SameDirection(e, actual)
    IN [next EXCEPT !.previous = actual]

\* On a miss the least recently used way is taken over; its enabled flag
\* stays what it was.
LoopTakenOver(e, tag, actual) ==
    [e EXCEPT !.tag = tag, !.pred = reset(1, actual), !.previous = actual, !.count = 1, !.limit = 1]

LoopHeld(c, t, ip) ==
    {w \in DOMAIN t.set[LoopIndex(c, ip)].way : t.set[LoopIndex(c, ip)].way[w].tag = LoopTag(c, ip)}

\* The way that is updated: the first of those that hit, else the least
\* recently used one.
WayFor(set, H) == IF H = {} THEN LruWay(set) ELSE FirstWay(H)

LoopWritten(c, t, ip, actual, i, H, w) ==
    Put(t, i, w, IF H = {} THEN LoopTakenOver(t.set[i].way[w], LoopTag(c, ip), actual)
                 ELSE NextLoopEntry(t.set[i].way[w], actual))
LoopUpdateIn(c, t, ip, actual, i, H) == LoopWritten(c, t, ip, actual, i, H, WayFor(t.set[i], H))
LoopUpdate(c, t, ip, actual) == LoopUpdateIn(c, t, ip, actual, LoopIndex(c, ip), LoopHeld(c, t, ip))

-----------------------------------------------------------------------------
(* Global predictor, indexed by the address and the path register.         *)

NewGlobalEntry == [valid |-> FALSE, tag |-> 0, pred |-> 0]

GlobalHits(c, t, ip, pir) ==
    LET s == t.set[GlobalIndex(c, ip, pir)]
    IN {w \in DOMAIN s.way : s.way[w].valid /\ s.way[w].tag = GlobalTag(c, ip, pir)}

GlobalAnswer(set, H) == [hit |-> H # {}, prediction |-> H # {} /\ predict(set.way[FirstWay(H)].pred)]
GlobalLookup(c, t, ip, pir) ==
    GlobalAnswer(t.set[GlobalIndex(c, ip, pir)], GlobalHits(c, t, ip, pir))

GlobalWritten(t, i, w, tag, new, actual) ==
    Put(t, i, w, [valid |-> TRUE, tag |-> tag,
                  pred |-> IF new THEN reset(2, actual)
                           ELSE UpdateCounter(2, t.set[i].way[w].pred, actual)])
GlobalUpdateIn(t, i, H, tag, actual) == GlobalWritten(t, i, WayFor(t.set[i], H), tag, H = {}, actual)
GlobalUpdate(c, t, ip, pir, actual) ==
    GlobalUpdateIn(t, GlobalIndex(c, ip, pir), GlobalHits(c, t, ip, pir), GlobalTag(c, ip, pir), actual)

GlobalEvictFrom(t, i, H) ==
    IF H = {} THEN t ELSE [t EXCEPT !.set[i].way[FirstWay(H)].valid = FALSE]
GlobalEvict(c, t, ip, pir) == GlobalEvictFrom(t, GlobalIndex(c, ip, pir), GlobalHits(c, t, ip, pir))

-----------------------------------------------------------------------------
(* Branch target buffers.                                                  *)

BtbHits(c, t, ip) ==
    LET s == t.set[LoopIndex(c, ip)] IN {w \in DOMAIN s.way : s.way[w] = BtbTag(c, ip)}

BtbUpdate(c, t, ip) ==
    Put(t, LoopIndex(c, ip), WayFor(t.set[LoopIndex(c, ip)], BtbHits(c, t, ip)), BtbTag(c, ip))

\* The indirect buffer is searched from its first entry; an entry of
\* address 0 is free.
IbtbPredict(t, ip, target) ==
    LET M == {i \in DOMAIN t.entry : t.entry[i].ip = ip}
    IN M # {} /\ t.entry[FirstWay(M)].target = target

\* Every matching and every free entry is written.
IbtbUpdate(t, ip, target, actual) ==
    LET M == {i \in DOMAIN t.entry : t.entry[i].ip \in {ip, 0}}
        new == [ip |-> ip, target |-> target]
    IN IF ~actual THEN t
       ELSE IF M # {} THEN [t EXCEPT !.entry = [i \in DOMAIN @ |-> IF i \in M THEN new ELSE @[i]]]
       ELSE [entry |-> [t.entry EXCEPT ![t.lru] = new], lru |-> (t.lru + 1) % Cardinality(DOMAIN t.entry)]

-----------------------------------------------------------------------------
(* Pentium M: global predictor, else loop predictor and target buffer,     *)
(* else the bimodal table; a taken branch must also hit its target.        *)

NewPentiumM(c) ==
    [global |-> NewWays(c, NewGlobalEntry), btb |-> NewWays(c, <<0, 0>>), lpb |-> NewWays(c, NewLoopEntry),
     bimodal |-> [i \in 0 .. c.size - 1 |-> reset(2, FALSE)],
     ibtb |-> [entry |-> [i \in 0 .. c.entries - 1 |-> [ip |-> 0, target |-> 0]], lru |-> 0],
     pir |-> 0]

LookedUp(c, t, ip, g, l) ==
    [gp |-> g, lpb |-> l, lpHit |-> l.hit /\ BtbHits(c, t.btb, ip) # {},
     bm |-> predict(t.bimodal[ip % c.size])]
LookupM(c, t, ip) == LookedUp(c, t, ip, GlobalLookup(c, t.global, ip, t.pir), LoopLookup(c, t.lpb, ip))

ChooseM(k) == IF k.gp.hit THEN k.gp.prediction ELSE IF k.lpHit THEN k.lpb.prediction ELSE k.bm
PredictPentiumM(c, t, ip, target) == ChooseM(LookupM(c, t, ip)) /\ IbtbPredict(t.ibtb, ip, target)

UpdatePir(c, pir, ip, actual) ==
    IF actual THEN ((pir * 4) ^^ Line(ip)) % (c.sets * c.tags) ELSE pir

\* A hit of the global predictor is evicted when it was wrong and another
\* predictor was right; a miss allocates when all were wrong.
UpdateGlobal(c, t, ip, k, wrong, elsewhere, actual) ==
    CASE k.gp.hit /\ wrong /\ elsewhere -> GlobalEvict(c, t.global, ip, t.pir)
      [] IF k.gp.hit THEN ~(wrong /\ elsewhere) ELSE wrong /\ ~elsewhere ->
           GlobalUpdate(c, t.global, ip, t.pir, actual)
      [] OTHER -> t.global
UpdateAfter(c, t, ip, target, predicted, actual, k) ==
    [ibtb |-> IbtbUpdate(t.ibtb, ip, target, actual),
     btb |-> BtbUpdate(c, t.btb, ip),
     lpb |-> LoopUpdate(c, LoopLookedUp(c, t.lpb, ip), ip, actual),
     bimodal |-> IF k.gp.hit \/ k.lpHit THEN t.bimodal
                 ELSE [t.bimodal EXCEPT ![ip % c.size] = UpdateCounter(2, @, actual)],
     global |-> UpdateGlobal(c, t, ip, k, predicted # actual, k.lpHit \/ k.bm = actual, actual),
     pir |-> UpdatePir(c, t.pir, ip, actual)]
UpdatePentiumM(c, t, ip, target, predicted, actual) ==
    UpdateAfter(c, t, ip, target, predicted, actual, LookupM(c, t, ip))

-----------------------------------------------------------------------------
(* Tournament predictor.  Its tables hold shifted, not counted, states:    *)
(* a state of 0 stays 0.  lht.update(pc_index, value) stores the index     *)
(* under the value.                                                        *)

NewTournament(c) ==
    [lht |-> [i \in 0 .. c.size - 1 |-> i],
     cpt |-> [i \in 0 .. c.size - 1 |-> i % 4], gpt |-> [i \in 0 .. c.size - 1 |-> i % 4],
     lpt |-> [i \in 0 .. c.size - 1 |-> i % 4], ghr |-> c.size - 1, btb |-> NewWays(c, <<0, 0>>)]

Status(t, i) == t[i] >= 2

ShiftLeft(t, i) == IF t[i] * 2 > 4 THEN t ELSE [t EXCEPT ![i] = @ * 2]
ShiftRight(t, i) == [t EXCEPT ![i] = @ \div 2]

PredictTournament(c, t, ip) ==
    LET local == Status(t.lpt, t.lht[Line(ip) % c.size])
        global == Status(t.gpt, t.ghr)
    IN IF local = global THEN global ELSE Status(t.cpt, t.ghr)

UpdateTournament(c, t, ip, predicted, actual) ==
    LET pc == Line(ip) % c.size
        at == t.lht[pc]
        grown == (at \div 2) + (c.size \div 2)
        btb == BtbUpdate(c, t.btb, ip)
    IN IF predicted = actual
       THEN [lpt |-> ShiftLeft(t.lpt, at), cpt |-> [t.cpt EXCEPT ![t.ghr] = t.gpt[t.ghr]],
             gpt |-> ShiftLeft(t.gpt, t.ghr), ghr |-> (t.ghr \div 2) + (c.size \div 2),
             lht |-> [t.lht EXCEPT ![grown] = pc], btb |-> btb]
       ELSE [lpt |-> ShiftRight(t.lpt, at), cpt |-> [t.cpt EXCEPT ![t.ghr] = t.lpt[at]],
             gpt |-> ShiftRight(t.gpt, t.ghr), ghr |-> t.ghr \div 2,
             lht |-> ShiftRight(t.lht, pc), btb |-> btb]

-----------------------------------------------------------------------------
(* The simple tables.                                                      *)

\* Counters of c.bits bits, moved by the outcome.
NewTwoBit(c) == [i \in 0 .. c.size - 1 |-> 0]
PredictTwoBit(c, t, i) == t[i] >= 2 ^ (c.bits - 1)
UpdateTwoBit(c, t, i, actual) ==
    [t EXCEPT ![i] = IF actual THEN IF @ = 2 ^ c.bits - 1 THEN @ ELSE @ + 1
                               ELSE IF @ = 0 THEN @ ELSE @ - 1]

\* The same counters, moved by whether the prediction was right.
PredictNBit(c, t, i) == t[i] \div 2 ^ (c.bits - 1) # 0
MutUpdateNBit(c, t, i, predicted, actual) ==
    LET middle == 2 ^ (c.bits - 1)
    IN [t EXCEPT ![i] = IF actual = predicted
                        THEN IF @ \in {0, 2 ^ c.bits - 1} THEN @ ELSE IF @ <= middle THEN @ - 1 ELSE @ + 1
                        ELSE IF @ < middle THEN @ + 1 ELSE @ - 1]

UpdateNBit(c, t, i, predicted, actual) ==
    LET middle == 2 ^ (c.bits - 1)
    IN [t EXCEPT ![i] = IF actual = predicted
                        THEN IF @ \in {0, 2 ^ c.bits - 1} THEN @ ELSE IF @ < middle THEN @ - 1 ELSE @ + 1
                        ELSE IF @ < middle THEN @ + 1 ELSE @ - 1]

UpdateOneBit(t, i, actual) == [t EXCEPT ![i] = actual]

UpdateOneBitTest(t, i, actual) == [t EXCEPT ![i] = actual]

NewOneBit(c) == [i \in 0 .. c.size - 1 |-> FALSE]

NewBimodal(c) == [i \in 0 .. c.size - 1 |-> reset(2, FALSE)]

UpdateBimodal(t, i, actual) == [t EXCEPT ![i] = UpdateCounter(2, @, actual)]

-----------------------------------------------------------------------------

create(c) ==
    CASE c.type = "pentium_m" -> NewPentiumM(c)
      [] c.type = "tournament" -> NewTournament(c)
      [] c.type = "bimodal" -> NewBimodal(c)
      [] c.type \in {"one_bit", "1bittest"} -> NewOneBit(c)
      [] OTHER -> NewTwoBit(c)

Predict(c, t, ip, target) ==
    CASE c.type = "pentium_m" -> PredictPentiumM(c, t, ip, target)
      [] c.type = "tournament" -> PredictTournament(c, t, ip)
      [] c.type = "bimodal" -> predict(t[ip % c.size])
      [] c.type \in {"one_bit", "1bittest"} -> t[ip % c.size]
      [] c.type = "n_bit" -> PredictNBit(c, t, ip % c.size)
      [] OTHER -> PredictTwoBit(c, t, ip % c.size)

Update(c, t, ip, target, predicted, actual) ==
    CASE c.type = "pentium_m" -> UpdatePentiumM(c, t, ip, target, predicted, actual)
      [] c.type = "tournament" -> UpdateTournament(c, t, ip, predicted, actual)
      [] c.type = "bimodal" -> UpdateBimodal(t, ip % c.size, actual)
      [] c.type = "one_bit" -> UpdateOneBit(t, ip % c.size, actual)
      [] c.type = "1bittest" -> UpdateOneBitTest(t, ip % c.size, actual)
      [] c.type = "n_bit" -> UpdateNBit(c, t, ip % c.size, predicted, actual)
      [] OTHER -> UpdateTwoBit(c, t, ip % c.size, actual)

-----------------------------------------------------------------------------

Outcomes(b) ==
    CASE b.kind = "free" -> BOOLEAN
      [] b.kind = "steady" -> {b.dir}
      [] OTHER -> {IF bpAt[b] < b.len THEN b.dir ELSE ~b.dir}

Capped(n) == IF n < BpWarm THEN n ELSE BpWarm

\* The ghost count of what the tables could have learnt of b: passes of a
\* loop, executions of a steady branch, since the loop predictor last took
\* an entry over for it.
NextSeen(b) ==
    CASE b.kind = "free" -> 0
      [] b.kind = "steady" -> Capped(bpSeen[b] + 1)
      [] OTHER -> IF LoopHeld(bpCfg, bp.lpb, b.ip) = {} THEN 0
                  ELSE IF bpAt[b] = b.len THEN Capped(bpSeen[b] + 1) ELSE bpSeen[b]

\* A loop branch whose entry b takes over has everything to learn again.
Forgets(t, b) ==
    b.kind = "loop" /\ LoopHeld(bpCfg, t.lpb, b.ip) = {}

CountsBounded(t) ==
    bpCfg.type = "pentium_m" =>
        \A i \in DOMAIN t.lpb.set : \A w \in DOMAIN t.lpb.set[i].way : t.lpb.set[i].way[w].count <= BpMaxCount

accessBranchPredictor(b, actual, target) ==
    /\ \E next \in {Update(bpCfg, bp, b.ip, target, Predict(bpCfg, bp, b.ip, target), actual)} :
          /\ CountsBounded(next)
          /\ bp' = next
          /\ bpSeen' = [x \in DOMAIN bpSeen |->
                          IF x = b THEN NextSeen(b) ELSE IF Forgets(next, x) THEN 0 ELSE bpSeen[x]]
    /\ bpAt' = [bpAt EXCEPT ![b] = IF b.kind # "loop" \/ @ = b.len THEN 0 ELSE @ + 1]
    /\ UNCHANGED bpCfg

BpInit ==
    /\ bpCfg \in BpConfigs
    /\ bp = create(bpCfg)
    /\ bpAt = [b \in bpCfg.branches |-> 0]
    /\ bpSeen = [b \in bpCfg.branches |-> 0]

BpNext ==
    \E b \in bpCfg.branches : \E actual \in Outcomes(b), target \in {1, 2} :
        /\ b.kind # "free" => target = 1
        /\ accessBranchPredictor(b, actual, target)

BpSpec == BpInit /\ [][BpNext]_bpVars

-----------------------------------------------------------------------------

\* A branch that shares no entry of a simple table with another and always
\* goes the same way is predicted right after BpWarm executions, whatever
\* the other branches do in between.  (Not so with the Pentium M predictor,
\* whose global predictor is hit by other paths, and the tournament
\* predictor, whose states never leave 0.)
SteadyLearned ==
    \/ bpCfg.type \in {"tournament", "pentium_m"}
    \/ \A b \in bpCfg.branches :
           b.kind = "steady" /\ bpSeen[b] = BpWarm => Predict(bpCfg, bp, b.ip, 1) = b.dir

\* Once the loop predictor has kept the entry of a loop branch over BpWarm
\* whole passes it hits and predicts every iteration and the exit, also
\* when the entry was taken over from another branch together with its
\* enabled flag.
LoopLearned ==
    bpCfg.type = "pentium_m" =>
        \A b \in bpCfg.branches :
            b.kind = "loop" /\ bpSeen[b] = BpWarm =>
                LET l == LoopLookup(bpCfg, bp.lpb, b.ip)
                IN l.hit /\ l.prediction = (IF bpAt[b] < b.len THEN b.dir ELSE ~b.dir)

\* The predictors learn the branches they are made for.
BranchesLearned == SteadyLearned /\ LoopLearned
=============================================================================
