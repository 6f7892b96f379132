------------------------------- MODULE CacheSets -------------------------------
(***************************************************************************)
(* One set of a set-associative cache (core/memory_subsystem/cache) under  *)
(* each replacement policy of CacheSet::createCacheSet().                  *)
(*                                                                         *)
(* A way is invalid, valid, or SHARED_UPGRADING: the controller has asked  *)
(* for the write permission of the line and its answer must find the line. *)
(* Tags are abstracted: a controller inserts a line after find() failed,   *)
(* so a way stands for the line it holds.  isInLowerLevelCache() of query- *)
(* based selection (QBS) is an arbitrary set of ways, fixed while the      *)
(* victim is chosen.                                                       *)
(***************************************************************************)
EXTENDS Integers, Sequences, FiniteSets, SequencesExt, FiniteSetsExt

CONSTANTS
  CsConfigs,     \* [policy, assoc, attempts, max]: max is m_rrip_max
  CsUpgrading    \* bound: lines of the set that are upgraded at the same time

VARIABLES
  csCfg,     \* the configuration of the cache
  csState,   \* m_cache_block_info_array: way -> "invalid", "valid", "upgrading"
  csRepl,    \* the policy's state: [bits, ptr, count]
  csRecent,  \* history: the ways, the one used last first
  csOut      \* history: the outcome of the last call

csVars == <<csCfg, csState, csRepl, csRecent, csOut>>

CsWays(c) == 0 .. c.assoc - 1
CsOrdered == {"lru", "lru_qbs", "mru", "nmru"}   \* m_lru_bits is an order
CsRrip == {"srrip", "srrip_qbs"}
CsPlain == [op |-> "none", way |-> -1, inner |-> {}, was |-> <<>>, recent |-> <<>>]

\* The constructors of the policies.
CsBits(c) ==
  [w \in CsWays(c) |-> IF c.policy \in CsOrdered THEN w
                       ELSE IF c.policy \in CsRrip THEN c.max - 1 ELSE 0]

CsInit ==
  /\ csCfg \in CsConfigs
  /\ csState = [w \in CsWays(csCfg) |-> "invalid"]
  /\ csRepl = [bits |-> CsBits(csCfg), count |-> 0,
               ptr |-> IF csCfg.policy = "round_robin" THEN csCfg.assoc - 1 ELSE 0]
  /\ csRecent = IF csCfg.policy \in CsOrdered THEN [i \in 1 .. csCfg.assoc |-> i - 1] ELSE <<>>
  /\ csOut = CsPlain
-----------------------------------------------------------------------------
\* CacheSet::isValidReplacement()
isValidReplacement(st, w) == st[w] # "upgrading"

\* Mutant of moveToMRU().
MutMoveToMRU(bits, w) ==
  [i \in DOMAIN bits |-> IF i = w THEN 0 ELSE bits[i] + 1]
\* CacheSetLRU::moveToMRU(): what was used after w grows older by one.
moveToMRU(bits, w) ==
  [i \in DOMAIN bits |-> IF i = w THEN 0 ELSE IF bits[i] < bits[w] THEN bits[i] + 1 ELSE bits[i]]

\* CacheSetMRU::updateReplacementIndex() and CacheSetNMRU's are moveToMRU().
updateMRU(r, w) == [r EXCEPT !.bits = moveToMRU(@, w)]
updateNMRU(r, w) == [r EXCEPT !.bits = moveToMRU(@, w)]

\* CacheSetNRU::updateReplacementIndex(): m_num_bits_set counts the uses since
\* the bits were cleared, the ones of a line whose bit was set already included.
updateNRU(c, r, w) ==
  IF r.count + 1 = c.assoc
  THEN [r EXCEPT !.count = 0, !.bits = [i \in DOMAIN r.bits |-> 0]]
  ELSE [r EXCEPT !.count = @ + 1, !.bits[w] = 1]

\* CacheSetPLRU::updateReplacementIndex(): the bits on the path to w point away.
PlruPath(c, w) ==
  IF c.assoc = 4
  THEN {<<0, 1 - (w \div 2)>>, <<1 + (w \div 2), 1 - (w % 2)>>}
  ELSE {<<0, 1 - (w \div 4)>>,
        <<1 + 3 * (w \div 4), 1 - ((w \div 2) % 2)>>,
        <<2 + 3 * (w \div 4) + ((w \div 2) % 2), 1 - (w % 2)>>}
updatePLRU(c, r, w) ==
  [r EXCEPT !.bits = [i \in DOMAIN @ |->
     IF \E p \in PlruPath(c, w) : p[1] = i
     THEN (CHOOSE p \in PlruPath(c, w) : p[1] = i)[2] ELSE @[i]]]

\* CacheSetSRRIP::updateReplacementIndex()
updateSRRIP(r, w) == [r EXCEPT !.bits[w] = IF @ > 0 THEN @ - 1 ELSE 0]

\* updateReplacementIndex() of the configured policy.
updateReplacementIndex(c, r, w) ==
  CASE c.policy \in {"lru", "lru_qbs"} -> [r EXCEPT !.bits = moveToMRU(@, w)]
    [] c.policy = "mru" -> updateMRU(r, w)
    [] c.policy = "nmru" -> updateNMRU(r, w)
    [] c.policy = "nru" -> updateNRU(c, r, w)
    [] c.policy = "plru" -> updatePLRU(c, r, w)
    [] c.policy \in CsRrip -> updateSRRIP(r, w)
    [] OTHER -> r
-----------------------------------------------------------------------------
\* The choice of a victim in a full set: [way, repl], with way = -1 when the
\* program stops with an error.
Chosen(w, r) == [way |-> w, repl |-> r]
CsError(r) == Chosen(-1, r)

\* CacheSetLRU::getReplacementIndex(): m_num_attempts tries; all but the last
\* ask whether a lower-level cache holds the line, and if so make it the most
\* recent.  Way 0 is taken when no way with a non-zero position qualifies.
oldest(bits, st) ==
  LET ws == {w \in DOMAIN bits : bits[w] > 0 /\ isValidReplacement(st, w)} IN
  IF ws = {} THEN 0 ELSE CHOOSE w \in ws : \A v \in ws : bits[v] <= bits[w]
\* Mutant of victimLRU().
MutVictimLRU(c, r, st, inner) ==
  LET w == oldest(r.bits, st) IN Chosen(w, [r EXCEPT !.bits = moveToMRU(@, w)])
victimLRU(c, r, st, inner) ==
  LET try(a, attempt) ==
        IF a.way # -1 THEN a
        ELSE LET w == oldest(a.repl.bits, st)
                 r2 == [a.repl EXCEPT !.bits = moveToMRU(@, w)] IN
             IF attempt < c.attempts - 1 /\ w \in inner THEN CsError(r2) ELSE Chosen(w, r2)
  IN FoldLeft(try, CsError(r), [i \in 1 .. c.attempts |-> i - 1])

\* CacheSetMRU::getReplacementIndex(): the candidate that was used last.
victimMRU(c, r, st) ==
  LET ws == {w \in CsWays(c) : isValidReplacement(st, w)}
      w == CHOOSE w \in ws : \A v \in ws : r.bits[w] <= r.bits[v] IN
  IF ws = {} THEN CsError(r) ELSE Chosen(w, updateMRU(r, w))

\* The scan from the replacement pointer of CacheSetNMRU and CacheSetNRU.
scan(c, r, ok) ==
  LET ws == {i \in 0 .. c.assoc - 1 : (r.ptr + i) % c.assoc \in ok}
      w == (r.ptr + Min(ws)) % c.assoc IN
  IF ws = {} THEN CsError(r) ELSE Chosen(w, [r EXCEPT !.ptr = (w + 1) % c.assoc])

\* CacheSetNMRU::getReplacementIndex()
victimNMRU(c, r, st) ==
  LET ok == {w \in CsWays(c) : r.bits[w] # 0 /\ isValidReplacement(st, w)}
      v == scan(c, r, ok) IN
  IF v.way = -1 THEN v ELSE Chosen(v.way, updateNMRU(v.repl, v.way))

\* Mutant of victimNRU().
MutVictimNRU(c, r, st) ==
  LET ok == {w \in CsWays(c) : r.bits[w] = 0 /\ isValidReplacement(st, w)}
      v == scan(c, r, ok) IN
  IF v.way = -1 THEN v ELSE Chosen(v.way, updateNRU(c, v.repl, v.way))
\* CacheSetNRU::getReplacementIndex(): bits count only if some candidate's is 0.
victimNRU(c, r, st) ==
  LET zero == \E w \in CsWays(c) : r.bits[w] = 0 /\ isValidReplacement(st, w)
      ok == {w \in CsWays(c) : (r.bits[w] = 0 \/ ~zero) /\ isValidReplacement(st, w)}
      v == scan(c, r, ok) IN
  IF v.way = -1 THEN v ELSE Chosen(v.way, updateNRU(c, v.repl, v.way))

\* CacheSetPLRU::getReplacementIndex(): the path the bits point to, asserted to
\* be a valid replacement.
victimPLRU(c, r, st) ==
  LET w == CHOOSE w \in CsWays(c) : \A p \in PlruPath(c, w) : r.bits[p[1]] = 1 - p[2] IN
  IF isValidReplacement(st, w) THEN Chosen(w, updatePLRU(c, r, w)) ELSE CsError(r)

\* CacheSetSRRIP::getReplacementIndex(): m_rrip_max + 1 rounds over the ways.  A
\* way that QBS rejects uses up a turn of its round and leaves the pointer where
\* it is; between the rounds every way below m_rrip_max grows by one.
turnSRRIP(c, st, inner, a) ==
  LET w == a.repl.ptr
      next == (w + 1) % c.assoc IN
  IF a.way # -1 \/ a.failed THEN a
  ELSE IF a.repl.bits[w] < c.max THEN [a EXCEPT !.repl.ptr = next]
  ELSE IF a.attempt < c.attempts - 1 /\ w \in inner
       THEN [a EXCEPT !.repl.bits[w] = 0, !.attempt = @ + 1]
  ELSE IF ~isValidReplacement(st, w) THEN [a EXCEPT !.failed = TRUE]
  ELSE [a EXCEPT !.way = w, !.repl.ptr = next, !.repl.bits[w] = c.max - 1]
victimSRRIP(c, r, st, inner) ==
  LET turn(a, i) == turnSRRIP(c, st, inner, a)
      round(a, j) ==
        LET b == FoldLeft(turn, a, [i \in 1 .. c.assoc |-> i]) IN
        IF b.way # -1 \/ b.failed THEN b
        ELSE [b EXCEPT !.repl.bits = [w \in DOMAIN @ |-> IF @[w] < c.max THEN @[w] + 1 ELSE @[w]]]
      end == FoldLeft(round, [way |-> -1, repl |-> r, attempt |-> 0, failed |-> FALSE],
                      [j \in 1 .. c.max + 1 |-> j])
  IN Chosen(end.way, end.repl)

\* CacheSetRoundRobin::getReplacementIndex(): the index after the one returned
\* is the one that is tested.  It calls itself for ever if no way passes.
victimRoundRobin(c, r, st) ==
  LET ks == {k \in 1 .. c.assoc : isValidReplacement(st, (r.ptr + c.assoc - k) % c.assoc)}
      last == (r.ptr + c.assoc - Min(ks)) % c.assoc IN
  IF ks = {} THEN CsError(r) ELSE Chosen((last + 1) % c.assoc, [r EXCEPT !.ptr = last])

\* CacheSetRandom::getReplacementIndex(): drawn again until one qualifies.
victimsRandom(c, r, st) ==
  {Chosen(w, r) : w \in {v \in CsWays(c) : isValidReplacement(st, v)}}

\* getReplacementIndex(): an invalid way first, in every policy but round robin.
getReplacementIndex(c, r, st, inner) ==
  LET free == {w \in CsWays(c) : st[w] = "invalid"} IN
  CASE c.policy = "round_robin" -> {victimRoundRobin(c, r, st)}
    [] c.policy # "round_robin" /\ free # {} ->
         {Chosen(Min(free), IF c.policy \in CsRrip THEN [r EXCEPT !.bits[Min(free)] = c.max - 1]
                            ELSE updateReplacementIndex(c, r, Min(free)))}
    [] c.policy \in {"lru", "lru_qbs"} /\ free = {} -> {victimLRU(c, r, st, inner)}
    [] c.policy = "mru" /\ free = {} -> {victimMRU(c, r, st)}
    [] c.policy = "nmru" /\ free = {} -> {victimNMRU(c, r, st)}
    [] c.policy = "nru" /\ free = {} -> {victimNRU(c, r, st)}
    [] c.policy = "plru" /\ free = {} -> {victimPLRU(c, r, st)}
    [] c.policy \in CsRrip /\ free = {} -> {victimSRRIP(c, r, st, inner)}
    [] c.policy = "random" /\ free = {} -> victimsRandom(c, r, st)
-----------------------------------------------------------------------------
\* The history: the order of use, kept as far as the properties look back.
CsDepth(c) == IF c.policy \in CsOrdered THEN c.assoc ELSE 1
Used(w) == SubSeq(<<w>> \o SelectSeq(csRecent, LAMBDA v : v # w), 1,
                  Min({CsDepth(csCfg), 1 + Len(SelectSeq(csRecent, LAMBDA v : v # w))}))
CsGoing == csOut.op # "error"

\* Cache::accessSingleLine(): find(), then read_line() or write_line().
accessSingleLine(w) ==
  /\ CsGoing /\ csState[w] # "invalid"
  /\ csRepl' = updateReplacementIndex(csCfg, csRepl, w)
  /\ csRecent' = Used(w) /\ csOut' = CsPlain
  /\ UNCHANGED <<csCfg, csState>>

\* Cache::invalidateSingleLine(): the replacement state is left as it is.
invalidateSingleLine(w) ==
  /\ CsGoing /\ csState[w] # "invalid"
  /\ csState' = [csState EXCEPT ![w] = "invalid"] /\ csOut' = CsPlain
  /\ UNCHANGED <<csCfg, csRepl, csRecent>>

\* The controller asks for an upgrade of the line, or gets it.
upgrade(w) ==
  /\ CsGoing /\ csState[w] # "invalid"
  /\ csState[w] = "valid" =>
       Cardinality({v \in DOMAIN csState : csState[v] = "upgrading"}) < CsUpgrading
  /\ csState' = [csState EXCEPT ![w] = IF @ = "valid" THEN "upgrading" ELSE "valid"]
  /\ csOut' = CsPlain
  /\ UNCHANGED <<csCfg, csRepl, csRecent>>

\* CacheSet::insert(), Cache::insertSingleLine().
insertSingleLine(inner) ==
  /\ CsGoing
  /\ \E v \in getReplacementIndex(csCfg, csRepl, csState, inner) :
       /\ csRepl' = v.repl
       /\ csOut' = [op |-> IF v.way = -1 THEN "error"
                           ELSE IF csState[v.way] = "invalid" THEN "fill" ELSE "evict",
                    way |-> v.way, inner |-> inner, was |-> csState, recent |-> csRecent]
       /\ csState' = IF v.way = -1 THEN csState ELSE [csState EXCEPT ![v.way] = "valid"]
       /\ csRecent' = IF v.way = -1 THEN csRecent
                      ELSE IF csCfg.policy = "lru_qbs"   \* a rejected line counts as used
                      THEN SortSeq([i \in 1 .. csCfg.assoc |-> i - 1],
                                   LAMBDA a, b : v.repl.bits[a] < v.repl.bits[b])
                      ELSE Used(v.way)
  /\ UNCHANGED csCfg

CsInner == IF csCfg.policy \in {"lru_qbs", "srrip_qbs"} THEN SUBSET CsWays(csCfg) ELSE {{}}
CsNext ==
  \/ \E w \in CsWays(csCfg) : accessSingleLine(w) \/ invalidateSingleLine(w) \/ upgrade(w)
  \/ \E inner \in CsInner : insertSingleLine(inner)
CsSpec == CsInit /\ [][CsNext]_csVars
-----------------------------------------------------------------------------
CsCandidates == {w \in DOMAIN csOut.was : csOut.was[w] # "upgrading"}

\* The LRU family keeps a total order of use: m_lru_bits of a way is the number
\* of ways used after it, across invalidations and fills; the rejections of QBS,
\* which count as uses, leave it a permutation.
RecencyOrder ==
  csCfg.policy \in CsOrdered => \A i \in 1 .. csCfg.assoc : csRepl.bits[csRecent[i]] = i - 1

\* A line that waits for its upgrade is not thrown out, and the simulator does
\* not stop for want of a victim, while another line could go: LRU and NMRU
\* (beside the line used last), MRU, NRU and random evict a line that
\* isValidReplacement(), and SRRIP without QBS reaches neither its "Error finding
\* replacement index" nor its assertion when no line of the set is upgraded.
VictimFound ==
  csOut.op \in {"error", "evict"} =>
    /\ csCfg.policy \in {"lru", "mru", "nmru", "nru", "random"} =>
         LET mru == IF csCfg.policy \in {"lru", "nmru"} THEN {csOut.recent[1]} ELSE {} IN
         CsCandidates \ mru # {} => csOut.op = "evict" /\ csOut.way \in CsCandidates
    /\ csCfg.policy = "srrip" /\ CsCandidates = DOMAIN csOut.was => csOut.op = "evict"

\* The policies do what their names say: of the lines that may go, LRU evicts
\* the one not used for longest and MRU the one used last; tree PLRU never
\* evicts the line used last; query-based selection evicts a line that a
\* lower-level cache holds only when m_num_attempts lines of the set are held,
\* or every line but the most recent one is.
AgeOf(w) == CHOOSE i \in 1 .. csCfg.assoc : csOut.recent[i] = w
VictimByUse ==
  csOut.op = "evict" =>
    /\ csCfg.policy = "lru" =>
         \A v \in CsCandidates \ {csOut.recent[1], csOut.way} : AgeOf(v) < AgeOf(csOut.way)
    /\ csCfg.policy = "mru" => \A v \in CsCandidates \ {csOut.way} : AgeOf(v) > AgeOf(csOut.way)
    /\ csCfg.policy = "plru" => csOut.way # Head(csOut.recent)
    /\ csCfg.policy = "lru_qbs" /\ csOut.way \in csOut.inner =>
         \/ Cardinality(csOut.inner \cap CsCandidates) >= csCfg.attempts
         \/ CsCandidates \ {csOut.recent[1]} \subseteq csOut.inner

\* Replacement in a set: the state of the policies stays sound over long
\* sequences of hits, fills, invalidations and upgrades, and victims are right.
ReplacementSound == RecencyOrder /\ VictimFound /\ VictimByUse
=============================================================================
