------------------------------ MODULE SideCaches ------------------------------
(***************************************************************************)
(* The small caches beside the hierarchy, one set of each, under LRU: the  *)
(* TLBs of a core (tlb.cc, accessTLB() of the memory manager), the NUCA    *)
(* slice as the tag directory uses it (nuca_cache.cc, sendDataToNUCA()),   *)
(* and the auxiliary tag directories that tell for each core of a shared   *)
(* cache what a private one would have held (cache_atd.cc).                *)
(***************************************************************************)
EXTENDS Integers, Sequences, FiniteSets, SequencesExt, FiniteSetsExt

CONSTANT
  ScConfigs   \* [kind, ways, next, cores, sets, sampling, tags, max]: max bounds the calls

VARIABLES
  scCfg,    \* the configuration
  sc,       \* the state of the component
  scHist    \* history: the calls

scVars == <<scCfg, sc, scHist>>

ScInvalid == 0   \* the tag of an invalid way
-----------------------------------------------------------------------------
(* One set under LRU: tag of every way, and the ways, last used first.     *)
LruNew(ways) == [tag |-> [w \in 1 .. ways |-> ScInvalid], order |-> [i \in 1 .. ways |-> i]]
LruTags(s) == {s.tag[w] : w \in DOMAIN s.tag} \ {ScInvalid}

\* CacheSet::find(): from the last way to the first.
LruFind(s, t) == Max({w \in DOMAIN s.tag : s.tag[w] = t})

MutLruUse(s, w) == s
\* CacheSetLRU::updateReplacementIndex() and moveToMRU()
LruUse(s, w) == [s EXCEPT !.order = <<w>> \o SelectSeq(@, LAMBDA v : v # w)]

\* CacheSetLRU::getReplacementIndex(): the first invalid way or the one not used
\* for longest.
LruSlot(s) ==
  LET free == {w \in DOMAIN s.tag : s.tag[w] = ScInvalid} IN
  IF free # {} THEN Min(free) ELSE Last(s.order)

\* CacheSet::insert()
LruInsert(s, t) ==
  LET w == LruSlot(s) IN LruUse([s EXCEPT !.tag[w] = t], w)
-----------------------------------------------------------------------------
(* TLBs: sc = [itlb, dtlb, stlb]; the second level may be missing          *)

\* TLB::allocate() of a first-level TLB: the second level takes the victim.
allocate(c, s, l, page) ==
  LET victim == s[l].tag[LruSlot(s[l])] IN
  [s EXCEPT ![l] = LruInsert(@, page),
            !.stlb = IF c.next > 0 /\ victim # ScInvalid THEN LruInsert(@, victim) ELSE @]

\* TLB::lookup(): a page that misses in the first level is moved there, and stays
\* in the second if it was found there.
lookup(c, s, l, page) ==
  IF page \in LruTags(s[l]) THEN [s EXCEPT ![l] = LruUse(@, LruFind(@, page))]
  ELSE allocate(c, [s EXCEPT !.stlb = IF page \in LruTags(@) THEN LruUse(@, LruFind(@, page)) ELSE @],
                l, page)

\* MemoryManager::accessTLB()
accessTLB(l, page) ==
  /\ scCfg.kind = "tlb"
  /\ sc' = lookup(scCfg, sc, l, page)
  /\ scHist' = Append(scHist, [who |-> l, tag |-> page])
-----------------------------------------------------------------------------
(* NUCA slice: sc = [set, dirty, data, dram, latest, writes]; the last two *)
(* are history: the contents written last to a line, and how often it was  *)
(* written since it entered the slice.                                     *)

MutNucaHit(s, w, v) == [s EXCEPT !.set = LruUse(@, w), !.data[w] = v]
\* NucaCache::write(), hit
NucaHit(s, w, v) == [s EXCEPT !.set = LruUse(@, w), !.data[w] = v, !.dirty[w] = TRUE]

\* NucaCache::write(), miss, and sendDataToNUCA(): the new block is not MODIFIED;
\* an evicted one goes to DRAM if it is.
NucaMiss(s, line, v) ==
  LET w == LruSlot(s.set)
      old == s.set.tag[w] IN
  [s EXCEPT !.set = LruInsert(@, line), !.data[w] = v, !.dirty[w] = FALSE,
            !.dram = IF old # ScInvalid /\ s.dirty[w] THEN [@ EXCEPT ![old] = s.data[w]] ELSE @]

\* sendDataToNUCA() and sendDataToDram() with a slice: the data of a flush or a
\* write-back reach the slice.
sendDataToNUCA(line) ==
  LET hit == line \in LruTags(sc.set)
      v == sc.latest[line] + 1
      s == IF hit THEN NucaHit(sc, LruFind(sc.set, line), v) ELSE NucaMiss(sc, line, v) IN
  /\ scCfg.kind = "nuca"
  /\ sc' = [s EXCEPT !.latest[line] = v, !.writes[line] = IF hit THEN @ + 1 ELSE 1]
  /\ scHist' = Append(scHist, [who |-> "write", tag |-> line])

\* The slice's part of retrieveDataAndSendToL2Cache() and NucaCache::read(): a
\* miss allocates nothing.
retrieveData(line) ==
  /\ scCfg.kind = "nuca"
  /\ sc' = IF line \in LruTags(sc.set) THEN [sc EXCEPT !.set = LruUse(@, LruFind(@, line))] ELSE sc
  /\ scHist' = Append(scHist, [who |-> "read", tag |-> line])
-----------------------------------------------------------------------------
(* Auxiliary tag directories: sc = [sampled, sets, all, misses,            *)
(* constructive, destructive], with counters for each core and operation   *)
AtdOps == {"load", "store"}

\* The sets of ATD::ATD(): all of them, the ones at 2^n + 1, or a random one.
SampledSets(c) ==
  CASE c.sampling = "full" -> {0 .. c.sets - 1}
    [] c.sampling = "2^n+1" -> {{2 ^ n + 1 : n \in {m \in 0 .. c.sets : 2 ^ m < c.sets - 1}}}
    [] c.sampling = "random" -> kSubset(1, 0 .. c.sets - 1)

\* CacheMasterCntlr::accessATDs() and ATD::access(): hit is the outcome in the
\* shared cache.
accessATDs(core, op, hit, t) ==
  LET i == t % scCfg.sets
      s == sc.sets[core][i]
      atdHit == t \in LruTags(s)
      count(f, b) == IF b THEN [f EXCEPT ![core][op] = @ + 1] ELSE f IN
  /\ scCfg.kind = "atd"
  /\ sc' = IF i \notin sc.sampled THEN sc
           ELSE [sc EXCEPT !.sets[core][i] = IF atdHit THEN LruUse(@, LruFind(@, t)) ELSE LruInsert(@, t),
                           !.all = count(@, TRUE), !.misses = count(@, ~atdHit),
                           !.constructive = count(@, hit /\ ~atdHit),
                           !.destructive = count(@, ~hit /\ atdHit)]
  /\ scHist' = Append(scHist, [who |-> core, tag |-> t, op |-> op, hit |-> hit])
-----------------------------------------------------------------------------
Zeros(c) == [k \in 1 .. c.cores |-> [o \in AtdOps |-> 0]]

ScInit ==
  /\ scCfg \in ScConfigs
  /\ scHist = <<>>
  /\ CASE scCfg.kind = "tlb" ->
            sc = [itlb |-> LruNew(scCfg.ways), dtlb |-> LruNew(scCfg.ways), stlb |-> LruNew(scCfg.next)]
       [] scCfg.kind = "nuca" ->
            sc = [set |-> LruNew(scCfg.ways), dirty |-> [w \in 1 .. scCfg.ways |-> FALSE],
                  data |-> [w \in 1 .. scCfg.ways |-> 0], dram |-> [l \in 1 .. scCfg.tags |-> 0],
                  latest |-> [l \in 1 .. scCfg.tags |-> 0], writes |-> [l \in 1 .. scCfg.tags |-> 0]]
       [] scCfg.kind = "atd" ->
            \E sampled \in SampledSets(scCfg) :
              sc = [sampled |-> sampled,
                    sets |-> [k \in 1 .. scCfg.cores |-> [i \in sampled |-> LruNew(scCfg.ways)]],
                    all |-> Zeros(scCfg), misses |-> Zeros(scCfg),
                    constructive |-> Zeros(scCfg), destructive |-> Zeros(scCfg)]

ScNext ==
  /\ Len(scHist) < scCfg.max
  /\ UNCHANGED scCfg
  /\ \E t \in 1 .. scCfg.tags :
       \/ \E l \in {"itlb", "dtlb"} : accessTLB(l, t)
       \/ sendDataToNUCA(t) \/ retrieveData(t)
       \/ \E core \in 1 .. scCfg.cores, op \in AtdOps, hit \in BOOLEAN : accessATDs(core, op, hit, t)

ScSpec == ScInit /\ [][ScNext]_scVars
-----------------------------------------------------------------------------
\* The last n different tags of a history.
LastTags(h, n) ==
  LET fresh(i) == Cardinality({h[j].tag : j \in i + 1 .. Len(h)} \cup {h[i].tag}) <= n
  IN {h[i].tag : i \in {k \in 1 .. Len(h) : fresh(k)}}

\* A first-level TLB holds the pages used last through it, whatever the other one
\* does to the second level they share.
TlbRecent ==
  scCfg.kind = "tlb" =>
    \A l \in {"itlb", "dtlb"} :
      LruTags(sc[l]) = LastTags(SelectSeq(scHist, LAMBDA x : x.who = l), scCfg.ways)

\* The slice serves the data written last, and they survive an eviction if they
\* were written while the line was in the slice: a line that has been written only
\* once, on a miss, is dropped without a trace.
SliceKeeps ==
  scCfg.kind = "nuca" =>
    \A l \in 1 .. scCfg.tags :
      IF l \in LruTags(sc.set) THEN sc.data[LruFind(sc.set, l)] = sc.latest[l]
      ELSE sc.writes[l] > 1 => sc.dram[l] = sc.latest[l]

\* What an ATD says about a core is what a private cache would have done with the
\* core's own accesses, and its counters explain the shared cache: hits of the
\* shared cache less hits of the private one are the constructive accesses less
\* the destructive ones.
AtdExplains ==
  scCfg.kind = "atd" =>
    /\ sc.sampled \subseteq 0 .. scCfg.sets - 1
    /\ \A k \in 1 .. scCfg.cores :
         LET mine(i) == SelectSeq(scHist, LAMBDA x : x.who = k /\ x.tag % scCfg.sets = i)
             seen(o) == SelectSeq(scHist, LAMBDA x : x.who = k /\ x.op = o /\ x.tag % scCfg.sets \in sc.sampled)
         IN /\ \A i \in sc.sampled : LruTags(sc.sets[k][i]) = LastTags(mine(i), scCfg.ways)
            /\ \A o \in AtdOps :
                 Len(SelectSeq(seen(o), LAMBDA x : x.hit)) - (sc.all[k][o] - sc.misses[k][o])
                   = sc.constructive[k][o] - sc.destructive[k][o]

\* The TLBs, the NUCA slice and the ATDs hold what their accesses put there.
SideCachesSound == TlbRecent /\ SliceKeeps /\ AtdExplains
=============================================================================
