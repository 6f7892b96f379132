--------------------------- MODULE CacheHierarchy ---------------------------
(***************************************************************************)
(* The cache levels of the cores that share one last-level cache with      *)
(* direct access to DRAM (perf_model/dram/direct_access): CacheCntlr at    *)
(* every level, the prefetch queues, and the DRAM cache.                   *)
(*                                                                         *)
(* A core's access is one step: a hit in the L1 holds the lock of its set, *)
(* a miss the locks of the whole stack from the L1 to DRAM and back; the   *)
(* prefetches that follow it take the locks anew.  The recursion over the  *)
(* levels is written as operators from a memory h to the memory after the  *)
(* call.  Of the contents of a line only one thing is kept: whether they   *)
(* are what was stored last.  Prefetches also follow prefetch hits.        *)
(* Each cache is a single set; the victim of an insertion is arbitrary.    *)
(***************************************************************************)
EXTENDS Naturals, Sequences, FiniteSets, FiniteSetsExt

CONSTANTS
    ChConfigs,  \* records [cores, fetch, next, ways, through, incoherent, perfect, pass, fetcher, dramways]
    ChAddrs,    \* line addresses
    ChNone,     \* no address, no cache
    ChAhead     \* ChAhead[a]: the addresses a prefetcher proposes after a

VARIABLES
    chCfg,   \* the hierarchy
    ch,      \* memory: lines of the caches, of the DRAM cache, and of DRAM
    chPc,    \* chPc[k]: what core k does after its access
    chLast   \* chLast[k]: the line core k fetched instructions from last

chVars == <<chCfg, ch, chPc, chLast>>

Caches == DOMAIN chCfg.next
NextOf(c) == chCfg.next[c]
PrevOf(c) == {x \in Caches : NextOf(x) = c}

NoLine == [st |-> "I", fresh |-> FALSE, pf |-> FALSE]

Has(h, c, a) == h.line[c][a].st # "I"
State(h, c, a) == h.line[c][a].st
Present(h, c) == {a \in ChAddrs : Has(h, c, a)}

Check(h, ok, what) == IF ok THEN h ELSE [h EXCEPT !.err = @ \cup {what}]

SetState(h, c, a, s) == [h EXCEPT !.line[c][a].st = s]

operationPermissible(h, c, a, op) ==
    State(h, c, a) \in IF op = "READ" THEN {"M", "S", "E"} ELSE {"M"}

invalidateCacheBlock(h, c, a) ==
    Check([h EXCEPT !.line[c][a] = NoLine], State(h, c, a) # "M", "invalidate")

-----------------------------------------------------------------------------
(* DRAM, behind the DRAM cache if there is one.  Its eviction writes the   *)
(* contents of the new line to the address of the old one.                 *)

WriteBack(h, v, new) == IF h.dcache[v].st = "M" THEN [h EXCEPT !.dram[v] = new] ELSE h

DramCacheInsert(h, a, st, fresh) ==
    LET P == {x \in ChAddrs : h.dcache[x].st # "I"}
        Evict(v) == [WriteBack(h, v, fresh) EXCEPT !.dcache[v] = NoLine]
    IN [(IF Cardinality(P) >= chCfg.dramways THEN Evict(CHOOSE x \in P : TRUE) ELSE h) EXCEPT
          !.dcache[a] = [st |-> st, fresh |-> fresh, pf |-> FALSE]]

DramHolds(h, a) == chCfg.dramways > 0 /\ h.dcache[a].st # "I"

DramFresh(h, a) == IF DramHolds(h, a) THEN h.dcache[a].fresh ELSE h.dram[a]

getDataFromDram(h, a) ==
    IF chCfg.dramways = 0 \/ DramHolds(h, a) THEN h ELSE DramCacheInsert(h, a, "S", h.dram[a])

putDataToDram(h, a, fresh) ==
    CASE chCfg.dramways = 0 -> [h EXCEPT !.dram[a] = fresh]
      [] chCfg.dramways > 0 /\ DramHolds(h, a) -> [h EXCEPT !.dcache[a].st = "M", !.dcache[a].fresh = fresh]
      [] OTHER -> DramCacheInsert(h, a, "M", fresh)

-----------------------------------------------------------------------------
(* Writes from the previous level: into the buffer of a line that is being *)
(* evicted, or into the line, which must be MODIFIED.                      *)

RECURSIVE writeCacheBlock(_, _, _, _)
writeCacheBlock(h, c, a, fresh) ==
    LET g == IF h.evicting[c].addr = a
             THEN [h EXCEPT !.evicting[c].fresh = fresh]
             ELSE Check([h EXCEPT !.line[c][a].fresh = Has(h, c, a) /\ fresh], State(h, c, a) = "M", "writeback")
    IN IF chCfg.through[c] THEN writeCacheBlock(g, NextOf(c), a, fresh) ELSE g

MutCleaned(h, c, a) == IF State(h, c, a) = "M" THEN SetState(h, c, a, "S") ELSE h

\* A dirty line goes to the next level and becomes SHARED.
Cleaned(h, c, a) ==
    IF State(h, c, a) # "M" THEN h
    ELSE LET g == CASE chCfg.through[c] -> h
                    [] ~chCfg.through[c] /\ NextOf(c) # ChNone ->
                         writeCacheBlock(h, NextOf(c), a, h.line[c][a].fresh)
                    [] OTHER -> Check(h, FALSE, "lost")
         IN SetState(g, c, a, "S")

RECURSIVE updateCacheBlock(_, _, _, _)
NewState(h, c, a, new) ==
    CASE new = "I" -> IF c \in chCfg.incoherent THEN h ELSE invalidateCacheBlock(h, c, a)
      [] new \in {"S", "M"} -> SetState(h, c, a, new)
      [] OTHER -> Check(h, FALSE, "new state")
Reached(h, c, a, new) == Check(h, State(h, c, a) \in {"I", new} \/ c \in chCfg.incoherent, "state")
UpdateOwn(h, c, a, new) ==
    IF Has(h, c, a) THEN Reached(NewState(Cleaned(h, c, a), c, a, new), c, a, new) ELSE h
updateCacheBlock(h, c, a, new) ==
    UpdateOwn(FoldSet(LAMBDA x, g : updateCacheBlock(g, x, a, new), h, PrevOf(c)), c, a, new)

\* Every previous level except the one that asks.
Others(h, c, requester, a, new) ==
    FoldSet(LAMBDA x, g : updateCacheBlock(g, x, a, new), h, PrevOf(c) \ {requester})

-----------------------------------------------------------------------------

Victim(h, c, vic) == IF Has(h, c, vic[c]) THEN vic[c] ELSE CHOOSE a \in Present(h, c) : TRUE

\* The previous levels give the victim up and write into its buffer.
MutBackInvalidate(h, c, v, old) == [h EXCEPT !.evicting[c] = [addr |-> ChNone, fresh |-> old.fresh]]

BackInvalidate(h, c, v, old) ==
    [Others([h EXCEPT !.evicting[c] = [addr |-> v, fresh |-> old.fresh]], c, ChNone, v, "I") EXCEPT
       !.evicting[c].addr = ChNone]

\* Where the contents of the victim go.
Disposed(h, c, v, old) ==
    LET fresh == h.evicting[c].fresh
        dirty == old.st = "M"
    IN CASE c \in chCfg.perfect -> h
         [] c \notin chCfg.perfect /\ c \in chCfg.incoherent -> Check(h, chCfg.through[c] \/ ~dirty, "thrown away")
         [] OTHER -> IF ~dirty \/ chCfg.through[c] THEN h
                     ELSE IF NextOf(c) # ChNone THEN writeCacheBlock(h, NextOf(c), v, fresh)
                     ELSE putDataToDram(h, v, fresh)

Replace(h, c, a, new, v, old) ==
    [Disposed(BackInvalidate([h EXCEPT !.line[c] = [@ EXCEPT ![v] = NoLine, ![a] = new]], c, v, old),
              c, v, old) EXCEPT !.evicting[c].fresh = FALSE]
Replacing(h, c, a, new, v) == Replace(h, c, a, new, v, h.line[c][v])
insertCacheBlock(h, c, a, st, fresh, vic) ==
    LET new == [st |-> st, fresh |-> fresh, pf |-> FALSE]
        Insert(g) == IF Cardinality(Present(g, c)) >= chCfg.ways[c]
                     THEN Replacing(g, c, a, new, Victim(g, c, vic))
                     ELSE [g EXCEPT !.line[c][a] = new]
    IN Insert(Check(h, ~Has(h, c, a), "insert"))

copyDataFromNextLevel(h, c, a, op, vic) ==
    LET Copy(g, n) == IF Has(g, c, a) THEN updateCacheBlock(g, c, a, State(g, n, a))
                      ELSE insertCacheBlock(g, c, a, State(g, n, a), g.line[n][a].fresh, vic)
    IN Copy(Check(h, operationPermissible(h, NextOf(c), a, op), "already gone"), NextOf(c))

-----------------------------------------------------------------------------
(* Prefetch queues.                                                        *)

Missing(h, c, s) == SelectSeq(s, LAMBDA a : ~operationPermissible(h, c, a, "READ"))

\* hit is TRUE for a miss that the next level could serve.
trainPrefetcher(h, c, a, hit, prefetchHit) ==
    IF c \in chCfg.fetcher /\ (~hit \/ prefetchHit)
    THEN [h EXCEPT !.queue[c] = Missing(h, c, ChAhead[a])]
    ELSE h

-----------------------------------------------------------------------------
(* A request of the previous level, or of the prefetcher of this one.      *)

Touched(h, c, a, prefetch) == IF prefetch THEN h ELSE [h EXCEPT !.line[c][a].pf = FALSE]

ServeHit(h, c, requester, a, op, prefetch) ==
    LET g == Touched(h, c, a, prefetch)
    IN CASE op # "READ" -> Others(g, c, requester, a, "I")
         [] op = "READ" /\ State(h, c, a) \in {"M", "E"} -> Others(g, c, requester, a, "S")
         [] OTHER -> g

\* The last level without a directory: an upgrade is free, a miss goes to
\* DRAM.
FromDram(h, c, a, op, prefetch, vic) ==
    [insertCacheBlock(h, c, a, IF op = "READ" THEN "S" ELSE "M", DramFresh(h, a), vic) EXCEPT
       !.line[c][a].pf = prefetch]
ServeLast(h, c, a, op, prefetch, vic) ==
    IF Has(h, c, a) THEN SetState(h, c, a, "M")
    ELSE FromDram(getDataFromDram(h, a), c, a, op, prefetch, vic)

\* A perfect cache makes up the line.
Perfected(h, c, a, op, vic) ==
    IF Has(h, c, a) THEN SetState(h, c, a, "M")
    ELSE insertCacheBlock(h, c, a, IF op = "READ" THEN "S" ELSE "M", FALSE, vic)

\* What the cache finds before it answers: a perfect cache makes a line it
\* lacks, a passthrough cache forgets one it has (every request counts: the
\* second pass that does not belongs to the directory protocol).
Made(h, c, a, op) == c \in chCfg.perfect /\ ~operationPermissible(h, c, a, op)
Passed(h, c, a, op) == c \in chCfg.pass /\ operationPermissible(h, c, a, op)
Hit(h, c, a, op) == (Made(h, c, a, op) \/ operationPermissible(h, c, a, op)) /\ ~Passed(h, c, a, op)
Start(h, c, a, op, vic) ==
    CASE Made(h, c, a, op) -> Perfected(h, c, a, op, vic)
      [] Passed(h, c, a, op) -> [h EXCEPT !.line[c][a] = NoLine]
      [] OTHER -> h

\* A copy that does not suffice is given up before the next level is asked.
Upgraded(h, c, requester, a) == IF State(h, c, a) = "S" THEN Others(h, c, requester, a, "I") ELSE h
Dropped(h, c, a) == IF Has(h, c, a) THEN invalidateCacheBlock(h, c, a) ELSE h

RECURSIVE processShmemReqFromPrevCache(_, _, _, _, _, _, _)
ServeMiss(h, c, a, op, prefetch, vic) ==
    IF NextOf(c) = ChNone THEN ServeLast(h, c, a, op, prefetch, vic)
    ELSE [copyDataFromNextLevel(
            processShmemReqFromPrevCache(Dropped(h, c, a), NextOf(c), c, a, op, prefetch, vic),
            c, a, op, vic) EXCEPT !.line[c][a].pf = prefetch]
Serve(h, c, requester, a, op, prefetch, vic, hit) ==
    trainPrefetcher(IF hit THEN ServeHit(h, c, requester, a, op, prefetch)
                    ELSE ServeMiss(Upgraded(h, c, requester, a), c, a, op, prefetch, vic),
                    c, a, TRUE, hit /\ ~prefetch /\ h.line[c][a].pf)
processShmemReqFromPrevCache(h, c, requester, a, op, prefetch, vic) ==
    Serve(Start(h, c, a, op, vic), c, requester, a, op, prefetch, vic, Hit(h, c, a, op))

-----------------------------------------------------------------------------
(* An access of a core to its first-level cache.                           *)

Stored(h, c, a) ==
    LET stale == [h EXCEPT !.line = [x \in Caches |-> [@[x] EXCEPT ![a].fresh = FALSE]],
                           !.dram[a] = FALSE, !.dcache[a].fresh = FALSE]
        own == [stale EXCEPT !.line[c][a].fresh = TRUE]
    IN IF chCfg.through[c] THEN writeCacheBlock(own, NextOf(c), a, TRUE) ELSE own

\* The line that was fetched from the next level is there.
Arrived(h, c, a, op) == Check(h, operationPermissible(h, c, a, op), "not in L1")
Fetch(h, c, a, op, vic) ==
    Arrived(copyDataFromNextLevel(
              processShmemReqFromPrevCache(Dropped(h, c, a), NextOf(c), c, a, op, FALSE, vic),
              c, a, op, vic), c, a, op)
AccessData(h, c, a, op) == IF op = "WRITE" THEN Stored(h, c, a) ELSE h

\* In a perfect first-level cache nothing is asked of the next level.
MemOp(h, c, a, op, vic, hit) ==
    trainPrefetcher(AccessData(IF hit THEN Touched(h, c, a, FALSE) ELSE Fetch(h, c, a, op, vic), c, a, op),
                    c, a, hit, hit /\ h.line[c][a].pf)
processMemOpFromCore(h, c, a, op, vic) == MemOp(Start(h, c, a, op, vic), c, a, op, vic, Hit(h, c, a, op))

\* Victims for the caches that are full; an access fills a cache only once.
VictimChoices ==
    LET Full == {c \in Caches : Cardinality(Present(ch, c)) >= chCfg.ways[c]}
    IN {f \in [Full -> ChAddrs] : \A c \in Full : Has(ch, c, f[c])}

initiateMemoryAccess(k, op, a) ==
    /\ chPc[k].at = "core"
    /\ \E vic \in VictimChoices : ch' = processMemOpFromCore(ch, chCfg.cores[k], a, op, vic)
    /\ chPc' = [chPc EXCEPT ![k] = [at |-> "prefetch", cache |-> chCfg.cores[k], addr |-> ChNone]]
    /\ UNCHANGED <<chCfg, chLast>>

\* The core keeps the line it fetched instructions from last: fetching from
\* it again does not reach the cache.
readInstructionMemory(k, a) ==
    /\ chPc[k].at = "core" /\ chCfg.fetch[k] # ChNone
    /\ a # chLast[k]
    /\ \E vic \in VictimChoices : ch' = processMemOpFromCore(ch, chCfg.fetch[k], a, "READ", vic)
    /\ chPc' = [chPc EXCEPT ![k] = [at |-> "prefetch", cache |-> chCfg.fetch[k], addr |-> ChNone]]
    /\ chLast' = [chLast EXCEPT ![k] = a]
    /\ UNCHANGED chCfg

Onward(c) == IF NextOf(c) = ChNone THEN [at |-> "core", cache |-> ChNone, addr |-> ChNone]
             ELSE [at |-> "prefetch", cache |-> NextOf(c), addr |-> ChNone]

\* Prefetch(): unless the queue has to wait (m_prefetch_next), the first
\* address that is still missing is taken off it.
Prefetch(k) ==
    LET c == chPc[k].cache
        left == Missing(ch, c, ch.queue[c])
    IN /\ chPc[k].at = "prefetch"
       /\ \/ ch' = ch /\ chPc' = [chPc EXCEPT ![k] = Onward(c)]
          \/ /\ left = <<>> /\ ch.queue[c] # <<>>
             /\ ch' = [ch EXCEPT !.queue[c] = <<>>]
             /\ chPc' = [chPc EXCEPT ![k] = Onward(c)]
          \/ /\ left # <<>>
             /\ \E i \in DOMAIN ch.queue[c] :
                  /\ ch.queue[c][i] = Head(left)
                  /\ \A j \in 1 .. i - 1 : ch.queue[c][j] # Head(left)
                  /\ ch' = [ch EXCEPT !.queue[c] = SubSeq(@, i + 1, Len(@))]
             /\ chPc' = [chPc EXCEPT ![k] = [at |-> "fill", cache |-> c, addr |-> Head(left)]]
       /\ UNCHANGED <<chCfg, chLast>>

doPrefetch(k) ==
    LET c == chPc[k].cache
    IN /\ chPc[k].at = "fill"
       /\ \E vic \in VictimChoices :
            ch' = processShmemReqFromPrevCache(ch, c, c, chPc[k].addr, "READ", TRUE, vic)
       /\ chPc' = [chPc EXCEPT ![k] = Onward(c)]
       /\ UNCHANGED <<chCfg, chLast>>

ChInit ==
    /\ chCfg \in ChConfigs
    /\ ch = [line |-> [c \in Caches |-> [a \in ChAddrs |-> NoLine]],
             evicting |-> [c \in Caches |-> [addr |-> ChNone, fresh |-> FALSE]],
             queue |-> [c \in Caches |-> <<>>],
             dcache |-> [a \in ChAddrs |-> NoLine],
             dram |-> [a \in ChAddrs |-> TRUE],
             err |-> {}]
    /\ chPc = [k \in DOMAIN chCfg.cores |-> [at |-> "core", cache |-> ChNone, addr |-> ChNone]]
    /\ chLast = [k \in DOMAIN chCfg.cores |-> ChNone]

ChNext ==
    \E k \in DOMAIN chCfg.cores :
        \/ \E a \in ChAddrs, op \in {"READ", "READ_EX", "WRITE"} : initiateMemoryAccess(k, op, a)
        \/ \E a \in ChAddrs : readInstructionMemory(k, a)
        \/ Prefetch(k)
        \/ doPrefetch(k)

ChSpec == ChInit /\ [][ChNext]_chVars

-----------------------------------------------------------------------------

\* Hierarchies whose caches all keep real contents.
Real == chCfg.perfect = {} /\ chCfg.pass = {}

\* The levels stay inclusive, in presence and in ownership, and no assertion
\* of the cache controllers fails (no line is inserted twice, written back
\* to a level that does not own it, gone before it is copied, or thrown
\* away dirty): what a coherent cache holds its next level holds, what it
\* may write its next level may write, and at most one of the caches before
\* a level may write a line.
Inclusive ==
    Real =>
        /\ ch.err = {}
        /\ \A c \in Caches \ chCfg.incoherent : \A a \in Present(ch, c) :
             /\ NextOf(c) # ChNone =>
                  /\ Has(ch, NextOf(c), a)
                  /\ State(ch, c, a) = "M" => State(ch, NextOf(c), a) = "M"
             /\ \A x, y \in PrevOf(c) : State(ch, x, a) = "M" /\ State(ch, y, a) = "M" => x = y

\* The contents of a line: those of the level nearest to the core that owns
\* it.
RECURSIVE Authority(_, _)
Authority(c, a) ==
    LET W == {x \in PrevOf(c) : State(ch, x, a) = "M" /\ ~chCfg.through[x]}
    IN IF W = {} THEN ch.line[c][a].fresh ELSE Authority(CHOOSE x \in W : TRUE, a)

\* The last store to a line is never lost: the first level from the core
\* that owns the line, else the last level, else DRAM holds it, through
\* evictions, back-invalidations, upgrades and prefetches.  (The DRAM cache
\* does lose it.)
LatestKept ==
    Real /\ chCfg.dramways = 0 =>
        \A a \in ChAddrs : \A c \in Caches :
            NextOf(c) = ChNone => IF Has(ch, c, a) THEN Authority(c, a) ELSE ch.dram[a]

\* The caches of the cores hold what they must and lose nothing.
HierarchySound == Inclusive /\ LatestKept

=============================================================================
