------------------------- MODULE BarrierSyncProofs -------------------------
(***************************************************************************)
(* The clock barrier, for every number of cores, every quantum, every set  *)
(* of steps and every number of host cores.                                *)
(*                                                                         *)
(* BarrierInv is about who sleeps where and holds with every switch of     *)
(* mode.  SkewInv adds where the clocks are while the simulation is in     *)
(* detailed mode; it holds as long as no fast-forward is left again, which *)
(* may put the barrier time at the very clock of a core that is let go.    *)
(***************************************************************************)
EXTENDS BarrierSyncServer, FiniteSetTheorems, FunctionTheorems, WellFoundedInduction, TLAPS

\* Only a thread that runs comes to the barrier.
DueRuns == \A c \in Cores : place[c] = "due" => run[c] = "running"

\* Who is in the barrier has reached it, who was let go has not.
ReleasedBehind == \A c \in toRelease : local[c] < next
InBarrier == ~fastforward /\ ~disabled => \A c \in acquired : local[c] >= next
DisabledEmpty == disabled => acquired = {}

BarrierInv == /\ TypeOK /\ SleepersKnown /\ EverybodyRestarted /\ SomebodyIsOut
              /\ DueRuns /\ ReleasedBehind /\ InBarrier /\ DisabledEmpty

\* In detailed mode.
OnGrid       == \E m \in Nat : next = m * Quantum
ExecBehind   == \A c \in Cores : place[c] = "exec" => clock[c] < next
Reported     == \A c \in acquired \union toRelease : local[c] = clock[c]
NotFarAhead  == \A c \in Cores : clock[c] < next + Max(Steps)
NotFarBehind == \A c \in Running(run) \ acquired : clock[c] + Quantum + Max(Steps) >= next
OutBehind    == \A c \in Cores \ acquired : local[c] < next

Clocks == OnGrid /\ ExecBehind /\ Reported /\ NotFarAhead /\ NotFarBehind /\ OutBehind

SkewInv == BarrierInv /\ ReleaseEnds /\ (~fastforward /\ ~disabled => Clocks)
-----------------------------------------------------------------------------
(***************************************************************************)
(* Least and greatest elements, quanta.                                    *)
(***************************************************************************)
LEMMA MaxExists ==
  ASSUME NEW S \in SUBSET Nat, S # {}, IsFiniteSet(S)
  PROVE  Max(S) \in S /\ \A y \in S : Max(S) >= y
<1> DEFINE Up(x) == {y \in S : y >= x}
<1>0. \A x, y \in S : y > x => Up(y) \subseteq Up(x) /\ x \in Up(x) /\ x \notin Up(y)
  <2> SUFFICES ASSUME NEW x \in S, NEW y \in S, y > x
               PROVE  Up(y) \subseteq Up(x) /\ x \in Up(x) /\ x \notin Up(y)
    OBVIOUS
  <2>1. x \in Nat /\ y \in Nat /\ \A z \in S : z \in Nat
    OBVIOUS
  <2>2. \A z \in S : z >= y => z >= x
    BY <2>1
  <2>3. x >= x /\ ~(x >= y)
    BY <2>1
  <2> QED
    BY <2>2, <2>3
<1> DEFINE T == {Up(x) : x \in S}
<1>1. T \subseteq FiniteSubsetsOf(S) /\ T # {}
  <2>1. FiniteSubsetsOf(S) = SUBSET S
    BY FS_FiniteSubsetsOfFinite
  <2>2. \A x \in S : Up(x) \in SUBSET S /\ Up(x) \in T
    OBVIOUS
  <2>3. T \subseteq SUBSET S
    OBVIOUS
  <2> HIDE DEF T, Up
  <2> QED
    BY <2>1, <2>2, <2>3
<1>2. PICK A \in T : \A B \in T : ~(<<B, A>> \in StrictSubsetOrdering(S))
  <2>1. IsWellFoundedOn(StrictSubsetOrdering(S), FiniteSubsetsOf(S))
    BY FS_StrictSubsetOrderingWellFounded
  <2> HIDE DEF T
  <2> QED
    BY <1>1, <2>1, WFMin
<1>3. PICK x \in S : A = Up(x)
  OBVIOUS
<1>4. ASSUME NEW y \in S, y > x PROVE FALSE
  <2>1. Up(y) \in T /\ Up(x) \subseteq S
    OBVIOUS
  <2> HIDE DEF T, Up
  <2> QED
    BY <1>0, <1>2, <1>3, <1>4, <2>1 DEF StrictSubsetOrdering
<1>5. \A y \in S : x >= y
  BY <1>4
<1> QED
  BY <1>5 DEF Max

LEMMA MinExists ==
  ASSUME NEW S \in SUBSET Nat, S # {}
  PROVE  Min(S) \in S /\ \A y \in S : Min(S) <= y
<1> DEFINE Down(x) == {y \in S : y <= x}
<1>0. \A x, y \in S : y < x => Down(y) \subseteq Down(x) /\ x \in Down(x) /\ x \notin Down(y)
  <2> SUFFICES ASSUME NEW x \in S, NEW y \in S, y < x
               PROVE  Down(y) \subseteq Down(x) /\ x \in Down(x) /\ x \notin Down(y)
    OBVIOUS
  <2>1. x \in Nat /\ y \in Nat /\ \A z \in S : z \in Nat
    OBVIOUS
  <2>2. \A z \in S : z <= y => z <= x
    BY <2>1
  <2>3. x <= x /\ ~(x <= y)
    BY <2>1
  <2> QED
    BY <2>2, <2>3
<1> DEFINE T == {Down(x) : x \in S}
<1>1. T \subseteq FiniteSubsetsOf(S) /\ T # {}
  <2>1. \A x \in S : IsFiniteSet(Down(x))
    BY FS_BoundedSetOfNaturals
  <2> QED
    BY <2>1 DEF FiniteSubsetsOf
<1>2. PICK A \in T : \A B \in T : ~(<<B, A>> \in StrictSubsetOrdering(S))
  <2>1. IsWellFoundedOn(StrictSubsetOrdering(S), FiniteSubsetsOf(S))
    BY FS_StrictSubsetOrderingWellFounded
  <2> HIDE DEF T
  <2> QED
    BY <1>1, <2>1, WFMin
<1>3. PICK x \in S : A = Down(x)
  OBVIOUS
<1>4. ASSUME NEW y \in S, y < x PROVE FALSE
  <2>1. Down(y) \in T /\ Down(x) \subseteq S
    OBVIOUS
  <2> HIDE DEF T, Down
  <2> QED
    BY <1>0, <1>2, <1>3, <1>4, <2>1 DEF StrictSubsetOrdering
<1>5. \A y \in S : x <= y
  BY <1>4
<1> QED
  BY <1>5 DEF Min

LEMMA MaxOfTwo ==
  ASSUME NEW a \in Nat, NEW b \in Nat
  PROVE  Max({a, b}) = IF a >= b THEN a ELSE b
  BY DEF Max

\* The values of a function on a finite set, and 0, have a greatest element.
LEMMA LatestOf ==
  ASSUME NEW S, IsFiniteSet(S), NEW f \in [S -> Nat], NEW n \in Nat
  PROVE  /\ Latest({f[c] : c \in S}) \in Nat
         /\ \A d \in S : f[d] <= Latest({f[c] : c \in S})
         /\ Latest({n} \union {f[c] : c \in S}) \in Nat
         /\ n <= Latest({n} \union {f[c] : c \in S})
         /\ \A d \in S : f[d] <= Latest({n} \union {f[c] : c \in S})
<1> DEFINE V == {f[c] : c \in S}
<1>1. IsFiniteSet(V)
  <2>1. f \in Surjection(S, V)
    BY DEF Surjection
  <2> HIDE DEF V
  <2> QED
    BY <2>1, FS_Surjection
<1>2. V \subseteq Nat /\ \A c \in S : f[c] \in V
  OBVIOUS
<1> HIDE DEF V
<1>3. IsFiniteSet(V \union {0}) /\ IsFiniteSet(V \union {n})
  BY <1>1, FS_AddElement
<1>4. IsFiniteSet({0} \union V) /\ IsFiniteSet({0} \union ({n} \union V))
  <2>1. IsFiniteSet((V \union {n}) \union {0})
    BY <1>3, FS_AddElement
  <2>2. {0} \union V = V \union {0} /\ {0} \union ({n} \union V) = (V \union {n}) \union {0}
    OBVIOUS
  <2> QED
    BY <1>3, <2>1, <2>2
<1>5. /\ Max({0} \union V) \in Nat /\ \A y \in V : y <= Max({0} \union V)
      /\ Max({0} \union ({n} \union V)) \in Nat
      /\ \A y \in {n} \union V : y <= Max({0} \union ({n} \union V))
  <2>1. {0} \union V \in SUBSET Nat /\ {0} \union ({n} \union V) \in SUBSET Nat
    BY <1>2
  <2>2. /\ Max({0} \union V) \in {0} \union V
        /\ \A y \in {0} \union V : Max({0} \union V) >= y
    BY <1>4, <2>1, MaxExists
  <2>3. /\ Max({0} \union ({n} \union V)) \in {0} \union ({n} \union V)
        /\ \A y \in {0} \union ({n} \union V) : Max({0} \union ({n} \union V)) >= y
    BY <1>4, <2>1, MaxExists
  <2>4. Max({0} \union V) \in Nat /\ Max({0} \union ({n} \union V)) \in Nat
    <3>1. \A z \in {0} \union V : z \in Nat
      BY <1>2
    <3>2. \A z \in {0} \union ({n} \union V) : z \in Nat
      BY <1>2
    <3> QED
      BY <2>2, <2>3, <3>1, <3>2
  <2>5. \A a, b \in Nat : a >= b => b <= a
    OBVIOUS
  <2> QED
    BY <1>2, <2>2, <2>3, <2>4, <2>5
<1> QED
  BY <1>2, <1>5 DEF Latest, V

LEMMA DivLess ==
  ASSUME NEW a \in Nat, NEW b \in Nat, NEW q \in Nat \ {0}, NEW m \in Nat,
         a < m * q, m * q <= b
  PROVE  b \div q > a \div q
<1>1. PICK x \in Int : x = a \div q /\ q * x <= a
  BY Z3
<1>2. PICK y \in Int : y = b \div q /\ b < q * y + q
  BY Z3
<1>3. x < y + 1
  <2>1. q * x < q * (y + 1)
    BY <1>1, <1>2, Z3
  <2> QED
    BY <2>1, Z3
<1>4. x # y
  <2> SUFFICES ASSUME x = y PROVE FALSE
    OBVIOUS
  <2>1. q * x < q * m /\ q * m < q * (x + 1)
    BY <1>1, <1>2, Z3
  <2>2. x < m /\ m < x + 1
    BY <2>1, Z3
  <2> QED
    BY <2>2
<1> QED
  BY <1>1, <1>2, <1>3, <1>4

\* doRelease(n) lets somebody go if there is somebody.
LEMMA PickedOne ==
  ASSUME NEW S, IsFiniteSet(S), NEW n \in Nat \ {0}, NEW s \in doRelease(n, S)
  PROVE  s \subseteq S /\ (S # {} => s # {})
<1>1. Cardinality(S) \in Nat /\ (S # {} => Cardinality(S) # 0)
  BY FS_CardinalityType, FS_EmptySet
<1>2. Min({n, Cardinality(S)}) \in {n, Cardinality(S)}
  <2>1. {n, Cardinality(S)} \in SUBSET Nat
    BY <1>1
  <2> QED
    BY <2>1, MinExists
<1>3. Cardinality(s) = Min({n, Cardinality(S)}) /\ s \subseteq S
  BY DEF doRelease
<1> QED
  BY <1>1, <1>2, <1>3, FS_EmptySet
-----------------------------------------------------------------------------
(***************************************************************************)
(* What barrierRelease() does when there is somebody in the barrier: the   *)
(* barrier time goes from base to time, s is let go at once.               *)
(***************************************************************************)
Release(caller, r, plc, loc, acq, rel, timedOut, base, time, at, s) ==
  LET freed == CanContinue(loc, acq, time)
      rest  == (rel \union freed) \ {caller}
  IN /\ next <= base /\ (~fastforward => base = next)
     /\ base <= at /\ at <= time - Quantum
     /\ \E k \in Nat : time = base + k * Quantum
     /\ time = base + Quantum \/ \A c \in acq : loc[c] >= time - Quantum
     /\ freed # {}
     /\ s \subseteq rest /\ (rest # {} => s # {})
     /\ next' = time
     /\ acquired' = acq \ freed
     /\ toRelease' = rest \ s
     /\ run' = Resumed(r, timedOut)
     /\ clock' = ClockAt(timedOut, at)
     /\ place' = Due(Woken(plc, s \union (freed \intersect {caller})), clock')
     /\ fastforward' = fastforward /\ endless' = endless /\ disabled' = disabled
     /\ local' = loc /\ asserted' = (asserted /\ rel = {})

LEMMA ReleaseEffect ==
  ASSUME TypeOK, NEW caller, NEW r, NEW plc, NEW loc \in [Cores -> Nat],
         NEW acq \in SUBSET Cores, NEW rel \in SUBSET Cores, acq # {},
         barrierRelease(caller, r, plc, loc, acq, rel)
  PROVE  \E timedOut \in SUBSET {c \in Cores : r[c] = "sleeping"},
            base \in Nat, time \in Nat, at \in Nat, s \in SUBSET Cores :
           Release(caller, r, plc, loc, acq, rel, timedOut, base, time, at, s)
<1> DEFINE base == IF fastforward THEN Latest({next} \union {loc[c] : c \in Cores}) ELSE next
           enough(k) == CanContinue(loc, acq, base + k * Quantum) # {}
           K == {k \in 1..(Latest({loc[c] : c \in acq}) + 1) : enough(k)}
           time == base + Quantum * Min(K)
           freed == CanContinue(loc, acq, time)
           rest == (rel \union freed) \ {caller}
           num == IF fastforward THEN Cardinality(Cores) ELSE HostCores
<1>a. PICK timedOut \in SUBSET {c \in Cores : r[c] = "sleeping"} :
        \E s \in doRelease(num, rest), at \in {t \in base..(time - Quantum) : (t - base) % Quantum = 0} :
             /\ next' = time
             /\ acquired' = acq \ freed
             /\ toRelease' = rest \ s
             /\ run' = Resumed(r, timedOut)
             /\ clock' = ClockAt(timedOut, at)
             /\ place' = Due(Woken(plc, s \union (freed \intersect {caller})), clock')
             /\ UNCHANGED <<fastforward, endless>>
  BY DEF barrierRelease
<1>b. PICK s \in doRelease(num, rest), at \in base..(time - Quantum) :
             /\ next' = time
             /\ acquired' = acq \ freed
             /\ toRelease' = rest \ s
             /\ run' = Resumed(r, timedOut)
             /\ clock' = ClockAt(timedOut, at)
             /\ place' = Due(Woken(plc, s \union (freed \intersect {caller})), clock')
             /\ UNCHANGED <<fastforward, endless>>
  BY <1>a
<1>c. local' = loc /\ asserted' = (asserted /\ rel = {}) /\ disabled' = disabled
  BY DEF barrierRelease
<1>1. base \in Nat /\ next <= base /\ (~fastforward => base = next)
  <2>1. next \in Nat /\ fastforward \in BOOLEAN
    BY DEF TypeOK
  <2>2. Latest({next} \union {loc[c] : c \in Cores}) \in Nat
        /\ next <= Latest({next} \union {loc[c] : c \in Cores})
    <3>1. PICK n \in Nat : n = next
      BY <2>1
    <3>2. IsFiniteSet(Cores)
      BY BarrierAssumption
    <3>3. Latest({n} \union {loc[c] : c \in Cores}) \in Nat
          /\ n <= Latest({n} \union {loc[c] : c \in Cores})
      BY <3>2, LatestOf
    <3> QED
      BY <3>1, <3>3
  <2> QED
    BY <2>1, <2>2
<1>2. PICK L \in Nat : L = Latest({loc[c] : c \in acq}) /\ \A c \in acq : loc[c] <= L
  <2>1. IsFiniteSet(acq)
    BY FS_Subset, BarrierAssumption
  <2> DEFINE f == [c \in acq |-> loc[c]]
  <2>2. f \in [acq -> Nat] /\ {f[c] : c \in acq} = {loc[c] : c \in acq}
    OBVIOUS
  <2>3. Latest({f[c] : c \in acq}) \in Nat /\ \A d \in acq : f[d] <= Latest({f[c] : c \in acq})
    <3> HIDE DEF f
    <3> QED
      BY <2>1, <2>2, LatestOf
  <2> QED
    BY <2>2, <2>3
<1> HIDE DEF base
<1>3. Min(K) \in K /\ \A k \in K : Min(K) <= k
  <2>1. L + 1 \in K
    <3>1. PICK c \in acq : TRUE
      OBVIOUS
    <3>2. loc[c] \in Nat /\ loc[c] <= L /\ Quantum \in Nat \ {0}
      BY <1>2, BarrierAssumption
    <3>3. (L + 1) * Quantum \in Nat /\ (L + 1) * Quantum >= L + 1
      BY <3>2
    <3>4. loc[c] < base + (L + 1) * Quantum
      BY <1>1, <3>2, <3>3
    <3>5. enough(L + 1)
      BY <3>4 DEF CanContinue
    <3> HIDE DEF enough
    <3> QED
      BY <1>2, <3>5
  <2>2. K \in SUBSET Nat
    BY <1>2
  <2> HIDE DEF K
  <2> QED
    BY <2>1, <2>2, MinExists
<1>4. PICK k \in Nat \ {0} : k = Min(K) /\ enough(k) /\ (k > 1 => ~enough(k - 1)) /\ k <= L + 1
  <2>1. Min(K) \in 1..(L + 1) /\ enough(Min(K))
    BY <1>2, <1>3
  <2>2. ASSUME Min(K) > 1 PROVE ~enough(Min(K) - 1)
    <3>1. Min(K) - 1 \in 1..(L + 1) /\ ~(Min(K) <= Min(K) - 1)
      BY <1>2, <2>1, <2>2
    <3>2. Min(K) - 1 \notin K
      BY <1>3, <3>1
    <3> QED
      BY <1>2, <3>1, <3>2
  <2> HIDE DEF K, enough
  <2>3. Min(K) \in Nat \ {0} /\ Min(K) <= L + 1
    BY <1>2, <2>1
  <2> QED
    BY <2>1, <2>2, <2>3, Zenon
<1> HIDE DEF K
<1>5. PICK q \in Nat : q = k * Quantum /\ q = Quantum * k /\ q >= Quantum /\ time = base + q
  BY <1>1, <1>4, BarrierAssumption
<1>6. time \in Nat /\ at \in Nat /\ base <= at /\ at <= time - Quantum /\ Quantum \in Nat
  BY <1>1, <1>5, BarrierAssumption
<1>7. freed # {} /\ freed \subseteq acq
  BY <1>4, <1>5 DEF CanContinue
<1>8. time = base + Quantum \/ \A c \in acq : loc[c] >= time - Quantum
  <2>1. CASE k = 1
    BY <2>1, <1>5, BarrierAssumption
  <2>2. CASE k > 1
    <3>1. (k - 1) * Quantum = q - Quantum
      BY <1>4, <1>5, BarrierAssumption
    <3>2. \A c \in acq : ~(loc[c] < base + (q - Quantum))
      BY <1>4, <2>2, <3>1 DEF CanContinue
    <3> QED
      BY <1>1, <1>5, <1>6, <3>2
  <2> QED
    BY <2>1, <2>2
<1>9. s \subseteq rest /\ (rest # {} => s # {}) /\ rest \subseteq Cores
  <2>1. rest \subseteq Cores
    BY <1>7
  <2>2. IsFiniteSet(rest)
    BY <2>1, FS_Subset, BarrierAssumption
  <2>3. Cardinality(Cores) \in Nat \ {0}
    <3>1. Cores # {}
      OBVIOUS
    <3> QED
      BY <3>1, FS_CardinalityType, FS_EmptySet, BarrierAssumption
  <2>4. num \in Nat \ {0}
    BY <2>3, BarrierAssumption
  <2> HIDE DEF rest, num
  <2> QED
    BY <2>1, <2>2, <2>4, PickedOne
<1>10. \E j \in Nat : time = base + j * Quantum
  BY <1>4, <1>5
<1>11. Release(caller, r, plc, loc, acq, rel, timedOut, base, time, at, s)
  <2> HIDE DEF time
  <2> QED
    BY <1>b, <1>c, <1>1, <1>6, <1>7, <1>8, <1>9, <1>10 DEF Release
<1> HIDE DEF time
<1>12. timedOut \in SUBSET {c \in Cores : r[c] = "sleeping"} /\ s \in SUBSET Cores
  BY <1>9
<1> QED
  BY <1>1, <1>6, <1>11, <1>12
-----------------------------------------------------------------------------
(***************************************************************************)
(* Who sleeps where.  MidInv is BarrierInv in the middle of an operation.  *)
(***************************************************************************)
MidInv(r, plc, loc, acq, rel) ==
  /\ r \in [Cores -> RunStates] /\ plc \in [Cores -> Places] /\ loc \in [Cores -> Nat]
  /\ acq \subseteq Cores /\ rel \subseteq Cores
  /\ acq \intersect rel = {}
  /\ {c \in Cores : plc[c] = "asleep"} = acq \union rel
  /\ acq \union rel \subseteq Running(r)
  /\ \A c \in Cores : plc[c] = "due" => r[c] = "running"
  /\ \A c \in rel : loc[c] < next
  /\ ~fastforward /\ ~disabled => \A c \in acq : loc[c] >= next
  /\ disabled => acq = {}

LEMMA InvMid == BarrierInv => MidInv(run, place, local, acquired, toRelease)
  BY DEF BarrierInv, MidInv, TypeOK, SleepersKnown, DueRuns, ReleasedBehind, InBarrier,
         DisabledEmpty

\* A barrier that is reached has let everybody go.
LEMMA ReachedEmpty ==
  ASSUME NEW r, NEW plc, NEW loc, NEW acq, NEW rel, MidInv(r, plc, loc, acq, rel),
         next \in Nat, isBarrierReached(r, loc, acq)
  PROVE  rel = {}
<1>1. CASE fastforward
  BY <1>1 DEF MidInv, isBarrierReached
<1>2. CASE ~fastforward
  <2>1. \A c \in rel : loc[c] \in Nat /\ loc[c] < next /\ loc[c] >= next
    BY <1>2 DEF MidInv, isBarrierReached
  <2> QED
    BY <2>1
<1> QED
  BY <1>1, <1>2

\* A barrier that is not reached waits for somebody.
LEMMA NotReachedOut ==
  ASSUME NEW r, NEW plc, NEW loc, NEW acq, MidInv(r, plc, loc, acq, {}),
         next \in Nat, disabled \/ ~isBarrierReached(r, loc, acq),
         NEW x \in Cores, plc[x] = "asleep"
  PROVE  \E c \in Running(r) : plc[c] # "asleep"
<1>1. x \in acq /\ x \in Running(r) /\ ~disabled
  BY DEF MidInv
<1>2. PICK c \in Running(r) : c \notin acq
  <2>1. CASE fastforward
    BY <1>1, <2>1 DEF isBarrierReached
  <2>2. CASE ~fastforward
    <3>1. PICK c \in Running(r) : ~(loc[c] >= next)
      BY <1>1, <2>2 DEF isBarrierReached
    <3> QED
      BY <1>1, <2>2, <3>1 DEF MidInv
  <2> QED
    BY <2>1, <2>2
<1> QED
  BY <1>2 DEF MidInv, Running

\* A clock that stands still does not bring its core to the barrier.
LEMMA DueSame ==
  ASSUME NEW plc, NEW clk \in [Cores -> Nat], clock \in [Cores -> Nat]
  PROVE  \A c \in Cores : /\ clk[c] = clock[c] => Due(plc, clk)[c] = plc[c]
                          /\ Due(plc, clk)[c] \in {plc[c], "due"}
  BY BarrierAssumption DEF Due

LEMMA ClockAtIs ==
  ASSUME clock \in [Cores -> Nat], NEW t \in Nat, NEW T
  PROVE  /\ ClockAt(T, t) \in [Cores -> Nat]
         /\ \A c \in Cores : c \in T => ClockAt(T, t)[c] = IF clock[c] >= t THEN clock[c] ELSE t
         /\ \A c \in Cores : c \notin T => ClockAt(T, t)[c] = clock[c]
  BY MaxOfTwo DEF ClockAt

LEMMA ReleaseInv ==
  ASSUME BarrierInv, NEW caller, NEW r, NEW plc, NEW loc, NEW acq,
         MidInv(r, plc, loc, acq, {}), ~disabled, caller \in acq \union {None},
         barrierRelease(caller, r, plc, loc, acq, {})
  PROVE  BarrierInv'
<1>0. /\ TypeOK /\ asserted /\ next \in Nat /\ clock \in [Cores -> Nat]
      /\ {fastforward, disabled, endless, asserted} \subseteq BOOLEAN
  BY DEF BarrierInv, EverybodyRestarted, TypeOK
<1>1. CASE acq = {}
  <2>1. /\ asserted' = TRUE /\ local' = loc /\ disabled' = disabled /\ endless' = TRUE
        /\ run' = r /\ place' = plc /\ acquired' = {} /\ toRelease' = {}
        /\ clock' = clock /\ next' = next /\ fastforward' = fastforward
    BY <1>0, <1>1 DEF barrierRelease
  <2>2. \A c \in Cores : plc[c] # "asleep"
    BY <1>1 DEF MidInv
  <2> QED
    BY <1>0, <2>1, <2>2
       DEF BarrierInv, MidInv, TypeOK, SleepersKnown, DueRuns, ReleasedBehind, InBarrier,
           DisabledEmpty, EverybodyRestarted, SomebodyIsOut, Running
<1>2. CASE acq # {}
  <2>1. PICK timedOut \in SUBSET {c \in Cores : r[c] = "sleeping"},
             base \in Nat, time \in Nat, at \in Nat, s \in SUBSET Cores :
               Release(caller, r, plc, loc, acq, {}, timedOut, base, time, at, s)
    <3>1. loc \in [Cores -> Nat] /\ acq \in SUBSET Cores /\ {} \in SUBSET Cores
      BY DEF MidInv
    <3> QED
      BY <1>0, <1>2, <3>1, ReleaseEffect
  <2> DEFINE freed == CanContinue(loc, acq, time)
             up == s \union (freed \intersect {caller})
  <2>2. /\ freed # {} /\ s \subseteq freed \ {caller}
        /\ freed \ {caller} # {} => s # {}
        /\ next' = time /\ acquired' = acq \ freed /\ toRelease' = (freed \ {caller}) \ s
        /\ run' = Resumed(r, timedOut) /\ clock' = ClockAt(timedOut, at)
        /\ place' = Due(Woken(plc, up), clock')
        /\ fastforward' = fastforward /\ endless' = endless /\ disabled' = disabled
        /\ local' = loc /\ asserted'
    BY <1>0, <2>1 DEF Release
  <2>3. freed = {c \in acq : loc[c] < time}
    BY DEF CanContinue
  <2>4. /\ r \in [Cores -> RunStates] /\ plc \in [Cores -> Places] /\ loc \in [Cores -> Nat]
        /\ acq \subseteq Cores /\ {c \in Cores : plc[c] = "asleep"} = acq
        /\ \A c \in acq : r[c] = "running"
        /\ \A c \in Cores : plc[c] = "due" => r[c] = "running"
    BY DEF MidInv, Running
  <2> HIDE DEF freed
  <2>5. /\ run' \in [Cores -> RunStates]
        /\ \A c \in Cores : run'[c] = IF c \in timedOut THEN "running" ELSE r[c]
    BY <2>2, <2>4 DEF Resumed, RunStates
  <2>6. clock' \in [Cores -> Nat] /\ \A c \in Cores \ timedOut : clock'[c] = clock[c]
    BY <1>0, <2>2, ClockAtIs
  <2>7. \A c \in acq : c \notin timedOut
    BY <2>4
  <2>8. /\ Woken(plc, up) \in [Cores -> Places]
        /\ \A c \in Cores : Woken(plc, up)[c] = IF c \in up THEN "exec" ELSE plc[c]
    BY <2>4 DEF Woken, Places
  <2>9. /\ place' \in [Cores -> Places]
        /\ \A c \in Cores : place'[c] \in {Woken(plc, up)[c], "due"}
        /\ \A c \in Cores \ timedOut : place'[c] = Woken(plc, up)[c]
    <3>1. \A c \in Cores : /\ clock'[c] = clock[c] => Due(Woken(plc, up), clock')[c] = Woken(plc, up)[c]
                           /\ Due(Woken(plc, up), clock')[c] \in {Woken(plc, up)[c], "due"}
      BY <1>0, <2>6, DueSame
    <3>2. place' = [c \in Cores |-> place'[c]]
      BY <2>2 DEF Due
    <3> QED
      BY <2>2, <2>6, <2>8, <3>1, <3>2 DEF Places
  <2>10. \A c \in Cores : place'[c] = "asleep" <=> c \in acq /\ c \notin up
    BY <2>4, <2>7, <2>8, <2>9
  <2>11. \A c \in acq : run'[c] = "running"
    BY <2>4, <2>5, <2>7
  <2>12. TypeOK'
    BY <1>0, <2>2, <2>3, <2>4, <2>5, <2>6, <2>9 DEF TypeOK
  <2>13. SleepersKnown'
    <3>1. \A c \in acq : c \notin up <=> c \in acq \ freed \/ c \in (freed \ {caller}) \ s
      BY <2>2, <2>3
    <3>2. {c \in Cores : place'[c] = "asleep"} = acquired' \union toRelease'
      BY <2>2, <2>3, <2>4, <2>10, <3>1
    <3>3. acquired' \intersect toRelease' = {}
      BY <2>2
    <3>4. acquired' \union toRelease' \subseteq acq
      BY <2>2, <2>3
    <3> QED
      BY <2>4, <2>11, <3>2, <3>3, <3>4 DEF SleepersKnown, Running
  <2>14. SomebodyIsOut'
    <3>1. PICK c \in acq : c \in up
      BY <2>2, <2>3
    <3> QED
      BY <2>4, <2>10, <2>11, <3>1 DEF SomebodyIsOut, Running
  <2>15. DueRuns'
    BY <2>4, <2>5, <2>8, <2>9 DEF DueRuns
  <2>16. ReleasedBehind' /\ InBarrier' /\ DisabledEmpty' /\ EverybodyRestarted'
    <3>1. \A c \in toRelease' : local'[c] < next'
      BY <2>2, <2>3
    <3>2. \A c \in acquired' : local'[c] >= next'
      BY <2>2, <2>3, <2>4
    <3> QED
      BY <2>2, <3>1, <3>2 DEF ReleasedBehind, InBarrier, DisabledEmpty, EverybodyRestarted
  <2> QED
    BY <2>12, <2>13, <2>14, <2>15, <2>16 DEF BarrierInv
<1> QED
  BY <1>1, <1>2

\* What an operation leaves that does not release the barrier.
LEMMA MidDone ==
  ASSUME BarrierInv, NEW r, NEW plc, NEW loc, NEW acq, NEW rel, NEW clk \in [Cores -> Nat],
         MidInv(r, plc, loc, acq, rel),
         (\E c \in Cores : plc[c] = "asleep") => \E c \in Running(r) : plc[c] # "asleep",
         run' = r, place' = plc, local' = loc, acquired' = acq, toRelease' = rel,
         clock' = clk,
         UNCHANGED <<next, fastforward, disabled, endless, asserted>>
  PROVE  BarrierInv'
  BY DEF BarrierInv, MidInv, TypeOK, SleepersKnown, DueRuns, ReleasedBehind, InBarrier,
         DisabledEmpty, EverybodyRestarted, SomebodyIsOut, Running

\* doRelease(1), while the thread of c comes, goes or stops.
LEMMA OneReleased ==
  ASSUME BarrierInv, NEW s \in doRelease(1, toRelease)
  PROVE  /\ MidInv(run, Woken(place, s), local, acquired, toRelease \ s)
         /\ s \subseteq toRelease /\ s \subseteq Running(run)
         /\ toRelease # {} => s # {}
<1>1. MidInv(run, place, local, acquired, toRelease)
  BY InvMid
<1>2. s \subseteq toRelease /\ (toRelease # {} => s # {})
  <2>1. IsFiniteSet(toRelease)
    BY <1>1, FS_Subset, BarrierAssumption DEF MidInv
  <2> QED
    BY <2>1, PickedOne
<1>3. /\ Woken(place, s) \in [Cores -> Places]
      /\ \A c \in Cores : Woken(place, s)[c] = IF c \in s THEN "exec" ELSE place[c]
  BY <1>1 DEF Woken, Places, MidInv
<1> QED
  BY <1>1, <1>2, <1>3 DEF MidInv

LEMMA ExecuteInv == ASSUME BarrierInv, NEW c \in Cores, Execute(c) PROVE BarrierInv'
<1>1. MidInv(run, place, local, acquired, toRelease) /\ clock \in [Cores -> Nat]
  BY InvMid DEF BarrierInv, TypeOK
<1>2. clock' \in [Cores -> Nat] /\ \A u \in Cores \ {c} : clock'[u] = clock[u]
  BY <1>1, BarrierAssumption DEF Execute
<1>3. /\ place' = [u \in Cores |-> place'[u]]
      /\ \A u \in Cores \ {c} : place'[u] = place[u]
      /\ place[c] = "exec" /\ place'[c] \in {"exec", "due"} /\ run[c] = "running"
  <2>1. place' = Due(place, clock')
    BY DEF Execute
  <2>2. place[c] = "exec" /\ run[c] = "running"
    BY DEF Execute, Executes
  <2> QED
    BY <1>1, <1>2, <2>1, <2>2, DueSame DEF Due
<1>4. place' \in [Cores -> Places]
  BY <1>1, <1>3 DEF MidInv, Places
<1>5. MidInv(run, place', local, acquired, toRelease)
  BY <1>1, <1>3, <1>4 DEF MidInv
<1>6. c \in Running(run) /\ place'[c] # "asleep"
  BY <1>3 DEF Running
<1> QED
  BY <1>2, <1>5, <1>6, MidDone DEF Execute, serverVars

LEMMA SynchronizeInv == ASSUME BarrierInv, NEW c \in Cores, synchronize(c) PROVE BarrierInv'
<1>0. /\ MidInv(run, place, local, acquired, toRelease) /\ clock \in [Cores -> Nat]
      /\ next \in Nat /\ place[c] = "due" /\ place \in [Cores -> Places]
      /\ run[c] = "running"
  BY InvMid DEF BarrierInv, TypeOK, synchronize, DueRuns
<1>1. CASE disabled \/ (clock[c] < next /\ ~fastforward)
  <2>1. place' = [place EXCEPT ![c] = "exec"] /\ UNCHANGED <<run, clock, serverVars>>
    BY <1>1 DEF synchronize
  <2>2. MidInv(run, place', local, acquired, toRelease)
    BY <1>0, <2>1 DEF MidInv, Places
  <2>3. c \in Running(run) /\ place'[c] # "asleep"
    BY <1>0, <2>1 DEF Running
  <2> QED
    BY <1>0, <2>1, <2>2, <2>3, MidDone DEF serverVars
<1>2. CASE ~(disabled \/ (clock[c] < next /\ ~fastforward))
  <2> DEFINE loc == [local EXCEPT ![c] = clock[c]]
             acq == acquired \union {c}
  <2>1. PICK s \in doRelease(1, toRelease) :
          LET plc == [Woken(place, s) EXCEPT ![c] = "asleep"]
              rel == toRelease \ s
          IN IF isBarrierReached(run, loc, acq)
             THEN barrierRelease(c, run, plc, loc, acq, rel)
             ELSE /\ place' = plc /\ local' = loc /\ acquired' = acq /\ toRelease' = rel
                  /\ UNCHANGED <<run, clock, next, fastforward, disabled, endless, asserted>>
    BY <1>2 DEF synchronize
  <2> DEFINE plc == [Woken(place, s) EXCEPT ![c] = "asleep"]
             rel == toRelease \ s
  <2>2. /\ MidInv(run, Woken(place, s), local, acquired, rel)
        /\ s \subseteq toRelease /\ s \subseteq Running(run) /\ (toRelease # {} => s # {})
    BY OneReleased
  <2>3. /\ c \notin acquired /\ c \notin toRelease /\ c \notin s
        /\ Woken(place, s) \in [Cores -> Places]
        /\ \A u \in Cores : Woken(place, s)[u] = IF u \in s THEN "exec" ELSE place[u]
    BY <1>0, <2>2 DEF MidInv, Woken
  <2>4. /\ plc \in [Cores -> Places] /\ plc[c] = "asleep"
        /\ \A u \in Cores \ {c} : plc[u] = Woken(place, s)[u]
    BY <2>3 DEF Places
  <2>5. /\ loc \in [Cores -> Nat] /\ loc[c] = clock[c]
        /\ \A u \in Cores \ {c} : loc[u] = local[u]
    BY <1>0 DEF MidInv
  <2>6. ~fastforward /\ ~disabled => loc[c] >= next
    BY <1>0, <1>2, <2>5
  <2> HIDE DEF plc, loc
  <2>7. MidInv(run, plc, loc, acq, rel)
    <3>1. /\ acq \subseteq Cores /\ rel \subseteq Cores /\ acq \intersect rel = {}
          /\ acq \union rel \subseteq Running(run) /\ ~disabled
      BY <1>0, <1>2, <2>2, <2>3 DEF MidInv, Running
    <3>2. {u \in Cores : plc[u] = "asleep"} = acq \union rel
      <4>1. {u \in Cores : Woken(place, s)[u] = "asleep"} = acquired \union rel
        BY <2>2 DEF MidInv
      <4> QED
        BY <2>4, <4>1
    <3>3. \A u \in Cores : plc[u] = "due" => run[u] = "running"
      BY <2>2, <2>4 DEF MidInv
    <3>4. \A u \in rel : loc[u] < next
      BY <1>0, <2>2, <2>3, <2>5 DEF MidInv
    <3>5. ~fastforward /\ ~disabled => \A u \in acq : loc[u] >= next
      BY <1>0, <2>5, <2>6 DEF MidInv
    <3> QED
      BY <1>0, <2>4, <2>5, <3>1, <3>2, <3>3, <3>4, <3>5 DEF MidInv
  <2>8. CASE isBarrierReached(run, loc, acq)
    <3>1. rel = {}
      BY <1>0, <2>7, <2>8, ReachedEmpty
    <3>2. barrierRelease(c, run, plc, loc, acq, {})
      BY <2>1, <2>8, <3>1 DEF plc
    <3> HIDE DEF acq, rel
    <3>3. ~disabled /\ c \in acq \union {None} /\ MidInv(run, plc, loc, acq, {})
      BY <1>2, <2>7, <3>1 DEF acq
    <3> QED
      BY <3>2, <3>3, ReleaseInv
  <2>9. CASE ~isBarrierReached(run, loc, acq)
    <3>1. /\ place' = plc /\ local' = loc /\ acquired' = acq /\ toRelease' = rel
          /\ UNCHANGED <<run, clock, next, fastforward, disabled, endless, asserted>>
      BY <2>1, <2>9 DEF plc
    <3>2. \E u \in Running(run) : plc[u] # "asleep"
      <4>1. CASE toRelease # {}
        BY <2>2, <2>3, <2>4, <4>1 DEF Running
      <4>2. CASE toRelease = {}
        <5>1. MidInv(run, plc, loc, acq, {})
          BY <2>7, <4>2
        <5> HIDE DEF acq
        <5> QED
          BY <1>0, <2>4, <2>9, <5>1, NotReachedOut
      <4> QED
        BY <4>1, <4>2
    <3> HIDE DEF acq, rel
    <3> QED
      BY <1>0, <2>7, <3>1, <3>2, MidDone
  <2> QED
    BY <2>8, <2>9
<1> QED
  BY <1>1, <1>2

\* A thread that executes stops: the others may have waited for it.
LEMMA StopsInv ==
  ASSUME BarrierInv, NEW c \in Cores, Executes(c), NEW how \in {"stalled", "sleeping", "gone"},
         ThreadStops(c, [run EXCEPT ![c] = how])
  PROVE  BarrierInv'
<1> DEFINE r == [run EXCEPT ![c] = how]
<1>0. /\ MidInv(run, place, local, acquired, toRelease) /\ clock \in [Cores -> Nat]
      /\ next \in Nat /\ place[c] = "exec"
  BY InvMid DEF BarrierInv, TypeOK, Executes
<1>1. PICK s \in doRelease(1, toRelease) :
        LET plc == Woken(place, s)
            rel == toRelease \ s
        IN IF ~disabled /\ isBarrierReached(r, local, acquired)
           THEN barrierRelease(None, r, plc, local, acquired, rel)
           ELSE /\ run' = r /\ place' = plc /\ toRelease' = rel
                /\ UNCHANGED <<clock, local, acquired, next, fastforward, disabled, endless, asserted>>
  BY DEF ThreadStops
<1> DEFINE plc == Woken(place, s)
           rel == toRelease \ s
<1>2. /\ MidInv(run, plc, local, acquired, rel)
      /\ s \subseteq toRelease /\ s \subseteq Running(run) /\ (toRelease # {} => s # {})
  BY OneReleased
<1>3. /\ c \notin acquired /\ c \notin toRelease /\ plc[c] = "exec"
      /\ \A u \in s : plc[u] = "exec" /\ u \in Cores
  BY <1>0, <1>2 DEF MidInv, Woken
<1>4. /\ r \in [Cores -> RunStates] /\ \A u \in Cores \ {c} : r[u] = run[u]
  BY <1>0 DEF MidInv, RunStates
<1> HIDE DEF r, plc, rel
<1>5. MidInv(r, plc, local, acquired, rel)
  <2>1. acquired \union rel \subseteq Running(r)
    BY <1>2, <1>3, <1>4 DEF MidInv, Running, rel
  <2>2. \A u \in Cores : plc[u] = "due" => r[u] = "running"
    BY <1>2, <1>3, <1>4 DEF MidInv
  <2> QED
    BY <1>2, <1>4, <2>1, <2>2 DEF MidInv
<1>6. CASE ~disabled /\ isBarrierReached(r, local, acquired)
  <2>1. rel = {}
    BY <1>0, <1>5, <1>6, ReachedEmpty
  <2>2. barrierRelease(None, r, plc, local, acquired, {})
    BY <1>1, <1>6, <2>1 DEF plc, rel
  <2> QED
    BY <1>5, <1>6, <2>1, <2>2, ReleaseInv
<1>7. CASE ~(~disabled /\ isBarrierReached(r, local, acquired))
  <2>1. /\ run' = r /\ place' = plc /\ toRelease' = rel
        /\ UNCHANGED <<clock, local, acquired, next, fastforward, disabled, endless, asserted>>
    BY <1>1, <1>7 DEF plc, rel
  <2>2. (\E u \in Cores : plc[u] = "asleep") => \E u \in Running(r) : plc[u] # "asleep"
    <3>1. CASE toRelease # {}
      BY <1>2, <1>3, <1>4, <3>1 DEF Running
    <3>2. CASE toRelease = {}
      <4>1. MidInv(r, plc, local, acquired, {})
        BY <1>5, <3>2 DEF rel
      <4> QED
        BY <1>0, <1>7, <4>1, NotReachedOut
    <3> QED
      BY <3>1, <3>2
  <2> QED
    BY <1>0, <1>5, <2>1, <2>2, MidDone
<1> QED
  BY <1>6, <1>7

\* The time somebody is resumed at is not before the barrier time.
LEMMA BaseNat ==
  ASSUME BarrierInv
  PROVE  /\ Latest({next} \union {local[d] : d \in Cores}) \in Nat
         /\ next <= Latest({next} \union {local[d] : d \in Cores})
<1>1. next \in Nat /\ local \in [Cores -> Nat] /\ IsFiniteSet(Cores)
  BY BarrierAssumption DEF BarrierInv, TypeOK
<1> QED
  BY <1>1, LatestOf

LEMMA AdvanceInv ==
  ASSUME BarrierInv, NEW c \in Cores, NEW how \in {"stalled", "sleeping"},
         StallAndAdvance(c, how)
  PROVE  BarrierInv'
<1> DEFINE r == [run EXCEPT ![c] = how]
           base == IF fastforward THEN Latest({next} \union {local[d] : d \in Cores}) ELSE next
<1>0. /\ MidInv(run, place, local, acquired, toRelease) /\ clock \in [Cores -> Nat]
      /\ next \in Nat /\ place[c] = "exec" /\ Running(run) = {c}
      /\ base \in Nat /\ next <= base /\ Quantum \in Nat
  BY InvMid, BaseNat, BarrierAssumption
     DEF BarrierInv, TypeOK, StallAndAdvance, Executes
<1>1. PICK timedOut \in (SUBSET {d \in Cores : r[d] = "sleeping"}) \ {{}},
           time \in IF disabled THEN {base} ELSE {base, base + Quantum} :
          /\ run' = Resumed(r, timedOut)
          /\ clock' = ClockAt(timedOut, time)
          /\ place' = Due(place, clock')
          /\ next' = time
          /\ asserted' = (asserted /\ toRelease = {})
  BY DEF StallAndAdvance
<1>2. UNCHANGED <<local, acquired, toRelease, fastforward, disabled, endless>>
  BY DEF StallAndAdvance
<1>3. time \in Nat /\ next <= time
  BY <1>0, <1>1
<1> HIDE DEF base
<1>4. acquired = {} /\ toRelease = {} /\ \A u \in Cores : place[u] # "asleep"
  BY <1>0 DEF MidInv
<1>5. /\ r \in [Cores -> RunStates] /\ \A u \in Cores \ {c} : r[u] = run[u]
  BY <1>0 DEF MidInv, RunStates
<1> HIDE DEF r
<1>6. /\ run' \in [Cores -> RunStates]
      /\ \A u \in Cores : run'[u] = IF u \in timedOut THEN "running" ELSE r[u]
  BY <1>1, <1>5 DEF Resumed, RunStates
<1>7. clock' \in [Cores -> Nat] /\ \A u \in Cores \ timedOut : clock'[u] = clock[u]
  BY <1>0, <1>1, <1>3, ClockAtIs
<1>8. /\ place' \in [Cores -> Places]
      /\ \A u \in Cores : place'[u] # "asleep"
      /\ \A u \in Cores \ timedOut : place'[u] = place[u]
  <2>1. \A u \in Cores : /\ clock'[u] = clock[u] => place'[u] = place[u]
                         /\ place'[u] \in {place[u], "due"}
    BY <1>0, <1>1, <1>7, DueSame
  <2>2. place' = [u \in Cores |-> place'[u]]
    BY <1>1 DEF Due
  <2> QED
    BY <1>0, <1>4, <1>7, <2>1, <2>2 DEF MidInv, Places
<1>9. DueRuns'
  <2>1. \A u \in Cores : place[u] = "due" => u \in Running(run) /\ u # c
    BY <1>0 DEF MidInv, Running
  <2> QED
    BY <1>0, <1>5, <1>6, <1>8, <2>1 DEF DueRuns
<1>10. asserted'
  BY <1>1, <1>4 DEF BarrierInv, EverybodyRestarted
<1> QED
  BY <1>0, <1>1, <1>2, <1>3, <1>4, <1>6, <1>7, <1>8, <1>9, <1>10
     DEF BarrierInv, TypeOK, SleepersKnown, EverybodyRestarted, SomebodyIsOut,
         ReleasedBehind, InBarrier, DisabledEmpty, MidInv

\* A thread starts or is resumed by another one, at the time of that one.
LEMMA StartsInv ==
  ASSUME BarrierInv, NEW c \in Cores, NEW d \in Cores, threadMigrate(d, c) \/ Resume(d, c)
  PROVE  BarrierInv'
<1>0. /\ MidInv(run, place, local, acquired, toRelease) /\ clock \in [Cores -> Nat]
      /\ run[d] = "running" /\ place[d] = "exec" /\ run[c] \in {"new", "stalled"} /\ c # d
      /\ run' = [run EXCEPT ![c] = "running"]
      /\ clock' = [clock EXCEPT ![c] = Max({clock[c], clock[d]})]
      /\ UNCHANGED <<local, acquired, next, fastforward, disabled, endless, asserted>>
  BY InvMid DEF BarrierInv, TypeOK, threadMigrate, Resume, Executes, serverVars
<1>1. PICK s : /\ MidInv(run, Woken(place, s), local, acquired, toRelease \ s)
               /\ s \subseteq toRelease /\ toRelease' = toRelease \ s
               /\ place' = Due(Woken(place, s), clock')
  <2>1. CASE threadMigrate(d, c)
    BY <2>1, OneReleased DEF threadMigrate
  <2>2. CASE Resume(d, c)
    <3>1. Woken(place, {}) = place
      BY <1>0 DEF Woken, MidInv
    <3>2. toRelease \ {} = toRelease
      OBVIOUS
    <3> QED
      BY <1>0, <2>2, <3>1, <3>2 DEF Resume, serverVars
  <2> QED
    BY <2>1, <2>2
<1> DEFINE plc == Woken(place, s)
<1>2. clock' \in [Cores -> Nat] /\ \A u \in Cores \ {c} : clock'[u] = clock[u]
  <2>1. Max({clock[c], clock[d]}) \in Nat
    BY <1>0, MaxOfTwo
  <2> QED
    BY <1>0, <2>1
<1>3. /\ c \notin acquired /\ c \notin toRelease /\ plc[d] = "exec" /\ plc[c] # "asleep"
      /\ run' \in [Cores -> RunStates]
      /\ \A u \in Cores : run'[u] = IF u = c THEN "running" ELSE run[u]
  BY <1>0, <1>1 DEF MidInv, Running, RunStates, Woken
<1> HIDE DEF plc
<1>4. /\ place' \in [Cores -> Places]
      /\ \A u \in Cores \ {c} : place'[u] = plc[u]
      /\ place'[c] # "asleep"
  <2>1. \A u \in Cores : /\ clock'[u] = clock[u] => place'[u] = plc[u]
                         /\ place'[u] \in {plc[u], "due"}
    <3>1. /\ clock \in [Cores -> Nat] /\ clock' \in [Cores -> Nat]
          /\ place' = Due(plc, clock')
      BY <1>0, <1>1, <1>2 DEF plc
    <3> QED
      BY <3>1, DueSame
  <2>2. place' = [u \in Cores |-> place'[u]]
    BY <1>1 DEF Due
  <2> QED
    BY <1>1, <1>2, <1>3, <2>1, <2>2 DEF MidInv, Places, plc
<1>5. MidInv(run', place', local, acquired, toRelease \ s)
  <2>1. {u \in Cores : place'[u] = "asleep"} = acquired \union (toRelease \ s)
    <3>1. {u \in Cores : plc[u] = "asleep"} = acquired \union (toRelease \ s)
      BY <1>1 DEF MidInv, plc
    <3> QED
      BY <1>3, <1>4, <3>1
  <2>2. acquired \union (toRelease \ s) \subseteq Running(run')
    BY <1>1, <1>3 DEF MidInv, Running
  <2>3. \A u \in Cores : place'[u] = "due" => run'[u] = "running"
    BY <1>1, <1>3, <1>4 DEF MidInv, plc
  <2> QED
    BY <1>1, <1>3, <1>4, <2>1, <2>2, <2>3 DEF MidInv
<1>6. d \in Running(run') /\ place'[d] # "asleep"
  BY <1>0, <1>3, <1>4 DEF Running
<1>7. /\ toRelease' = toRelease \ s /\ clock' \in [Cores -> Nat]
      /\ UNCHANGED <<local, acquired, next, fastforward, disabled, endless, asserted>>
  BY <1>0, <1>1, <1>2
<1> QED
  BY <1>5, <1>6, <1>7, MidDone

\* abortBarrier() wakes up everybody in the barrier.
LEMMA SwitchInv ==
  ASSUME BarrierInv, NEW c \in Cores, setDisable(c) \/ \E on \in BOOLEAN : setFastForward(c, on)
  PROVE  BarrierInv'
<1>0. /\ MidInv(run, place, local, acquired, toRelease) /\ next \in Nat
      /\ Executes(c) /\ place' = Woken(place, acquired) /\ acquired' = {}
      /\ UNCHANGED <<run, clock, local, toRelease, endless, asserted>>
  BY InvMid DEF BarrierInv, TypeOK, setDisable, setFastForward, abortBarrier
<1>1. next' \in Nat /\ next <= next' /\ fastforward' \in BOOLEAN /\ disabled' \in BOOLEAN
  <2>1. CASE setDisable(c)
    BY <1>0, <2>1 DEF setDisable, BarrierInv, TypeOK
  <2>2. ASSUME NEW on \in BOOLEAN, setFastForward(c, on)
        PROVE  next' \in Nat /\ next <= next' /\ fastforward' \in BOOLEAN /\ disabled' \in BOOLEAN
    <3> DEFINE S == IF on THEN Cores ELSE Running(run)
    <3>1. S \subseteq Cores /\ IsFiniteSet(S)
      BY FS_Subset, BarrierAssumption DEF Running
    <3>2. clock \in [Cores -> Nat] /\ disabled \in BOOLEAN
      BY DEF BarrierInv, TypeOK
    <3>3. next' = SwitchedTime(next, on, run) /\ fastforward' = on /\ disabled' = disabled
      BY <2>2 DEF setFastForward
    <3>4. next' = Latest({next} \union {clock[u] : u \in S})
      BY <3>3 DEF SwitchedTime
    <3> HIDE DEF S
    <3> DEFINE f == [u \in S |-> clock[u]]
    <3>5. f \in [S -> Nat] /\ {clock[u] : u \in S} = {f[u] : u \in S}
      BY <3>1, <3>2
    <3>6. /\ Latest({next} \union {f[u] : u \in S}) \in Nat
          /\ next <= Latest({next} \union {f[u] : u \in S})
      <4> HIDE DEF f
      <4> QED
        BY <1>0, <3>1, <3>5, LatestOf
    <3> QED
      BY <3>2, <3>3, <3>4, <3>5, <3>6
  <2> QED
    BY <2>1, <2>2
<1>2. /\ place' \in [Cores -> Places]
      /\ \A u \in Cores : place'[u] = IF u \in acquired THEN "exec" ELSE place[u]
  BY <1>0 DEF MidInv, Woken, Places
<1>3. /\ TypeOK' /\ EverybodyRestarted'
  BY <1>0, <1>1, <1>2 DEF BarrierInv, TypeOK, EverybodyRestarted
<1>4. SleepersKnown' /\ DueRuns'
  BY <1>0, <1>2 DEF MidInv, SleepersKnown, DueRuns, Running
<1>5. SomebodyIsOut'
  <2>1. c \in Running(run') /\ place'[c] # "asleep"
    BY <1>0, <1>2 DEF Executes, Running
  <2> QED
    BY <2>1 DEF SomebodyIsOut
<1>6. ReleasedBehind' /\ InBarrier' /\ DisabledEmpty'
  <2>1. \A u \in toRelease : local[u] \in Nat /\ local[u] < next
    BY <1>0 DEF MidInv
  <2> QED
    BY <1>0, <1>1, <2>1 DEF ReleasedBehind, InBarrier, DisabledEmpty
<1> QED
  BY <1>3, <1>4, <1>5, <1>6 DEF BarrierInv
-----------------------------------------------------------------------------
LEMMA InitBarrierInv == Init => BarrierInv
<1> SUFFICES ASSUME Init PROVE BarrierInv
  OBVIOUS
<1>1. PICK first \in Cores : run = [c \in Cores |-> IF c = first THEN "running" ELSE "new"]
  BY DEF Init
<1>2. /\ run \in [Cores -> RunStates] /\ place \in [Cores -> Places]
      /\ clock \in [Cores -> Nat] /\ local \in [Cores -> Nat] /\ next \in Nat
      /\ \A c \in Cores : place[c] = "exec"
  BY <1>1, BarrierAssumption DEF Init, RunStates, Places
<1>3. /\ acquired = {} /\ toRelease = {} /\ asserted
      /\ {fastforward, disabled, endless, asserted} \subseteq BOOLEAN
  <2>1. acquired = {} /\ toRelease = {} /\ asserted = TRUE /\ endless = FALSE /\ disabled = FALSE
    BY DEF Init
  <2>2. fastforward = ("roi-begin" \in Switches)
    BY DEF Init
  <2>3. fastforward \in BOOLEAN
    <3>1. ("roi-begin" \in Switches) \in BOOLEAN
      OBVIOUS
    <3> QED
      BY <2>2, <3>1
  <2> QED
    BY <2>1, <2>3
<1> QED
  BY <1>2, <1>3
     DEF BarrierInv, TypeOK, SleepersKnown, EverybodyRestarted, SomebodyIsOut, DueRuns,
         ReleasedBehind, InBarrier, DisabledEmpty

LEMMA NextBarrierInv == BarrierInv /\ [Next]_vars => BarrierInv'
<1> SUFFICES ASSUME BarrierInv, [Next]_vars PROVE BarrierInv'
  OBVIOUS
<1>1. ASSUME NEW c \in Cores, Execute(c) \/ synchronize(c) PROVE BarrierInv'
  BY <1>1, ExecuteInv, SynchronizeInv
<1>2. ASSUME NEW c \in Cores, threadExit(c) PROVE BarrierInv'
  BY <1>2, StopsInv DEF threadExit
<1>3. ASSUME NEW c \in Cores, NEW how \in {"stalled", "sleeping"}, threadStall(c, how)
      PROVE  BarrierInv'
  BY <1>3, StopsInv DEF threadStall
<1>4. ASSUME NEW c \in Cores, NEW how \in {"stalled", "sleeping"}, StallAndAdvance(c, how)
      PROVE  BarrierInv'
  BY <1>4, AdvanceInv
<1>5. ASSUME NEW c \in Cores, NEW d \in Cores, threadMigrate(d, c) \/ Resume(d, c)
      PROVE  BarrierInv'
  BY <1>5, StartsInv
<1>6. ASSUME NEW c \in Cores, setDisable(c) \/ \E on \in BOOLEAN : setFastForward(c, on)
      PROVE  BarrierInv'
  BY <1>6, SwitchInv
<1>7. CASE UNCHANGED vars
  BY <1>7 DEF vars, serverVars, BarrierInv, TypeOK, SleepersKnown, EverybodyRestarted,
              SomebodyIsOut, DueRuns, ReleasedBehind, InBarrier, DisabledEmpty, Running
<1> QED
  BY <1>1, <1>2, <1>3, <1>4, <1>5, <1>6, <1>7 DEF Next

\* Whatever the number of cores, of host cores and the quantum, and whichever mode
\* switches happen: a host thread sleeps if and only if the server has it in the
\* barrier or in its list (barrier_sync_server.cc, doRelease() and abortBarrier()).
THEOREM BarrierSleepersKnown == Spec => []SleepersKnown
<1>1. BarrierInv => SleepersKnown
  BY DEF BarrierInv
<1> QED
  BY <1>1, InitBarrierInv, NextBarrierInv, PTL DEF Spec

\* The assertion of barrierRelease() that m_to_release is empty never fails.
THEOREM BarrierEverybodyRestarted == Spec => []EverybodyRestarted
<1>1. BarrierInv => EverybodyRestarted
  BY DEF BarrierInv
<1> QED
  BY <1>1, InitBarrierInv, NextBarrierInv, PTL DEF Spec

\* As long as somebody sleeps, somebody who runs does not: isBarrierReached() is
\* evaluated, and somebody woken up, whenever the last one comes or leaves.
THEOREM BarrierSomebodyIsOut == Spec => []SomebodyIsOut
<1>1. BarrierInv => SomebodyIsOut
  BY DEF BarrierInv
<1> QED
  BY <1>1, InitBarrierInv, NextBarrierInv, PTL DEF Spec
-----------------------------------------------------------------------------
(***************************************************************************)
(* Where the clocks are, in detailed mode.                                 *)
(***************************************************************************)
LEMMA LongestStep == Max(Steps) \in Nat \ {0} /\ \A d \in Steps : d \in Nat /\ d <= Max(Steps)
<1>1. Steps \in SUBSET Nat /\ Steps # {} /\ IsFiniteSet(Steps) /\ \A d \in Steps : d \in Nat \ {0}
  BY BarrierAssumption
<1>2. Max(Steps) \in Steps /\ \A d \in Steps : Max(Steps) >= d
  BY <1>1, MaxExists
<1> QED
  BY <1>1, <1>2

\* A core whose clock passes the barrier time is due.
LEMMA PassedIsDue ==
  ASSUME OnGrid, NEW plc, NEW clk \in [Cores -> Nat], clock \in [Cores -> Nat],
         NEW c \in Cores, clock[c] < next, clk[c] >= next
  PROVE  Due(plc, clk)[c] = "due"
<1>1. PICK m \in Nat : next = m * Quantum
  BY DEF OnGrid
<1>2. clk[c] \div Quantum > clock[c] \div Quantum
  <2>1. /\ clk[c] \in Nat /\ clock[c] \in Nat /\ Quantum \in Nat \ {0} /\ m * Quantum \in Nat
        /\ clock[c] < m * Quantum /\ m * Quantum <= clk[c]
    BY <1>1, BarrierAssumption
  <2> QED
    BY <2>1, DivLess
<1> QED
  BY <1>2 DEF Due

LEMMA ReleaseClocks ==
  ASSUME BarrierInv, ~fastforward, ~disabled, OnGrid, NotFarAhead,
         NEW caller, NEW r, NEW plc, NEW loc, NEW acq,
         MidInv(r, plc, loc, acq, {}), acq # {}, Running(r) \subseteq acq,
         \A c \in acq : loc[c] = clock[c],
         \A c \in Cores : plc[c] = "exec" => clock[c] < next,
         \A c \in Cores \ acq : loc[c] < next,
         barrierRelease(caller, r, plc, loc, acq, {})
  PROVE  Clocks' /\ endless' = endless
<1>0. /\ TypeOK /\ next \in Nat /\ clock \in [Cores -> Nat]
      /\ loc \in [Cores -> Nat] /\ acq \subseteq Cores
      /\ \A c \in acq : loc[c] >= next /\ r[c] = "running"
  BY DEF BarrierInv, TypeOK, MidInv, Running
<1>1. PICK timedOut \in SUBSET {c \in Cores : r[c] = "sleeping"},
           base \in Nat, time \in Nat, at \in Nat, s \in SUBSET Cores :
             Release(caller, r, plc, loc, acq, {}, timedOut, base, time, at, s)
  BY <1>0, ReleaseEffect
<1> DEFINE freed == CanContinue(loc, acq, time)
           up == s \union (freed \intersect {caller})
<1>2. freed = {c \in acq : loc[c] < time}
  BY DEF CanContinue
<1>3. /\ base = next /\ base <= at /\ at <= time - Quantum
      /\ \E k \in Nat : time = base + k * Quantum
      /\ time = base + Quantum \/ \A c \in acq : loc[c] >= time - Quantum
      /\ s \subseteq freed \ {caller}
      /\ next' = time /\ acquired' = acq \ freed /\ toRelease' = (freed \ {caller}) \ s
      /\ run' = Resumed(r, timedOut) /\ clock' = ClockAt(timedOut, at)
      /\ place' = Due(Woken(plc, up), clock')
      /\ local' = loc /\ endless' = endless
  BY <1>1 DEF Release
<1> HIDE DEF freed
<1>4. Quantum \in Nat \ {0} /\ next < time /\ at < time /\ at >= next
  BY <1>0, <1>3, BarrierAssumption
<1>5. /\ clock' \in [Cores -> Nat]
      /\ \A c \in Cores : c \in timedOut => clock'[c] = IF clock[c] >= at THEN clock[c] ELSE at
      /\ \A c \in Cores : c \notin timedOut => clock'[c] = clock[c]
  BY <1>0, <1>3, ClockAtIs
<1>6. \A c \in acq : c \notin timedOut /\ clock'[c] = loc[c] /\ c \in Cores
  BY <1>0, <1>5
<1>7. OnGrid'
  <2>1. PICK m \in Nat : next = m * Quantum
    BY DEF OnGrid
  <2>2. PICK k \in Nat : time = base + k * Quantum
    BY <1>3
  <2>3. time = (m + k) * Quantum
    BY <1>3, <1>4, <2>1, <2>2
  <2> QED
    BY <1>3, <2>3 DEF OnGrid
<1>8. ExecBehind'
  <2> SUFFICES ASSUME NEW c \in Cores, place'[c] = "exec" PROVE clock'[c] < time
    BY <1>3 DEF ExecBehind
  <2>1. Woken(plc, up)[c] = "exec"
    BY <1>0, <1>3, <1>5, DueSame
  <2>2. CASE c \in up
    BY <1>0, <1>2, <1>3, <1>6, <2>2
  <2>3. CASE c \notin up
    <3>1. clock[c] < next /\ clock[c] \in Nat
      BY <1>0, <2>1, <2>3 DEF Woken
    <3> QED
      BY <1>0, <1>4, <1>5, <3>1
  <2> QED
    BY <2>2, <2>3
<1>9. Reported'
  BY <1>2, <1>3, <1>6 DEF Reported
<1>10. NotFarAhead'
  <2> SUFFICES ASSUME NEW c \in Cores PROVE clock'[c] < time + Max(Steps)
    BY <1>3 DEF NotFarAhead
  <2>1. clock[c] < next + Max(Steps) /\ clock[c] \in Nat
    BY <1>0 DEF NotFarAhead
  <2> QED
    BY <1>0, <1>4, <1>5, <2>1, LongestStep
<1>11. NotFarBehind'
  <2> SUFFICES ASSUME NEW c \in Cores, run'[c] = "running", c \notin acq \ freed
               PROVE  clock'[c] + Quantum + Max(Steps) >= time
    BY <1>3 DEF NotFarBehind, Running
  <2>1. CASE c \in timedOut
    <3>1. clock'[c] >= next /\ clock'[c] \in Nat
      BY <1>0, <1>4, <1>5, <2>1
    <3>2. PICK x \in acq : TRUE
      OBVIOUS
    <3>3. loc[x] < next + Max(Steps) /\ loc[x] \in Nat
      BY <1>0, <3>2 DEF NotFarAhead
    <3> QED
      BY <1>0, <1>3, <1>4, <3>1, <3>3, LongestStep
  <2>2. CASE c \notin timedOut
    <3>1. c \in acq
      BY <1>3, <2>2 DEF Resumed, Running
    <3>2. loc[c] >= next /\ loc[c] \in Nat /\ clock'[c] = loc[c]
      BY <1>0, <1>6, <3>1
    <3> QED
      BY <1>0, <1>3, <1>4, <3>1, <3>2, LongestStep
  <2> QED
    BY <2>1, <2>2
<1>12. OutBehind'
  BY <1>0, <1>2, <1>3, <1>4 DEF OutBehind
<1> QED
  BY <1>3, <1>7, <1>8, <1>9, <1>10, <1>11, <1>12 DEF Clocks

LEMMA ExecuteClocks ==
  ASSUME SkewInv, NEW c \in Cores, Execute(c), ~fastforward, ~disabled
  PROVE  Clocks'
<1>1. PICK d \in Steps : clock' = [clock EXCEPT ![c] = @ + d]
  BY DEF Execute
<1>2. /\ Clocks /\ clock \in [Cores -> Nat] /\ next \in Nat /\ local \in [Cores -> Nat]
      /\ place[c] = "exec" /\ place' = Due(place, clock') /\ d \in Nat /\ d <= Max(Steps)
      /\ UNCHANGED <<run, local, acquired, toRelease, next>> /\ d # 0
      /\ acquired \union toRelease \subseteq Cores
  BY LongestStep, BarrierAssumption
     DEF SkewInv, BarrierInv, TypeOK, Execute, Executes, serverVars
<1>3. /\ clock' \in [Cores -> Nat] /\ clock'[c] = clock[c] + d
      /\ \A u \in Cores \ {c} : clock'[u] = clock[u]
  BY <1>1, <1>2
<1>4. clock[c] < next /\ clock[c] \in Nat
  BY <1>2 DEF Clocks, ExecBehind
<1>5. OnGrid' /\ OutBehind'
  BY <1>2 DEF Clocks, OnGrid, OutBehind
<1>6. ExecBehind'
  <2> SUFFICES ASSUME NEW u \in Cores, place'[u] = "exec" PROVE clock'[u] < next
    BY <1>2 DEF ExecBehind
  <2>1. CASE u = c
    <3>1. OnGrid
      BY <1>2 DEF Clocks
    <3> QED
      BY <1>2, <1>3, <1>4, <2>1, <3>1, PassedIsDue
  <2>2. CASE u # c
    <3>1. place[u] = "exec"
      BY <1>2, <1>3, <2>2, DueSame
    <3> QED
      BY <1>2, <1>3, <2>2, <3>1 DEF Clocks, ExecBehind
  <2> QED
    BY <2>1, <2>2
<1>7. Reported'
  <2>1. c \notin acquired \union toRelease
    BY <1>2 DEF SkewInv, BarrierInv, SleepersKnown
  <2> QED
    BY <1>2, <1>3, <2>1 DEF Clocks, Reported
<1>8. NotFarAhead'
  <2>1. \A u \in Cores : clock[u] < next + Max(Steps)
    BY <1>2 DEF Clocks, NotFarAhead
  <2>2. clock[c] + d < next + Max(Steps)
    BY <1>2, <1>4, LongestStep
  <2> QED
    BY <1>2, <1>3, <2>1, <2>2 DEF NotFarAhead
<1>9. NotFarBehind'
  <2>1. \A u \in Cores : clock'[u] \in Nat /\ clock[u] \in Nat /\ clock'[u] >= clock[u]
    BY <1>2, <1>3
  <2>2. \A u \in Running(run) \ acquired : u \in Cores /\ clock[u] + Quantum + Max(Steps) >= next
    BY <1>2 DEF Clocks, NotFarBehind, Running
  <2>3. Quantum \in Nat /\ Max(Steps) \in Nat
    BY LongestStep, BarrierAssumption
  <2>4. \A u \in Running(run) \ acquired : clock'[u] + Quantum + Max(Steps) >= next
    BY <1>2, <2>1, <2>2, <2>3
  <2> QED
    BY <1>2, <2>4 DEF NotFarBehind
<1> QED
  BY <1>5, <1>6, <1>7, <1>8, <1>9 DEF Clocks

\* Who is let go is behind the barrier time.
LEMMA WokenBehind ==
  ASSUME SkewInv, ~fastforward, ~disabled, NEW s \in SUBSET toRelease
  PROVE  \A u \in Cores : Woken(place, s)[u] = "exec" => clock[u] < next
<1>1. \A u \in s : clock[u] = local[u] /\ local[u] < next
  BY DEF SkewInv, Clocks, Reported, BarrierInv, ReleasedBehind
<1> QED
  BY <1>1 DEF Woken, SkewInv, Clocks, ExecBehind

LEMMA SynchronizeClocks ==
  ASSUME SkewInv, NEW c \in Cores, synchronize(c), ~fastforward, ~disabled
  PROVE  Clocks' /\ endless' = endless
<1>0. /\ BarrierInv /\ Clocks
      /\ MidInv(run, place, local, acquired, toRelease) /\ clock \in [Cores -> Nat]
      /\ next \in Nat /\ place[c] = "due" /\ place \in [Cores -> Places]
      /\ run[c] = "running" /\ local \in [Cores -> Nat]
  BY InvMid DEF SkewInv, BarrierInv, TypeOK, synchronize, DueRuns
<1>1. CASE clock[c] < next
  <2>1. place' = [place EXCEPT ![c] = "exec"] /\ UNCHANGED <<run, clock, serverVars>>
    BY <1>1 DEF synchronize
  <2> QED
    BY <1>0, <1>1, <2>1
       DEF serverVars, Clocks, OnGrid, ExecBehind, Reported, NotFarAhead, NotFarBehind, OutBehind
<1>2. CASE ~(clock[c] < next)
  <2> DEFINE loc == [local EXCEPT ![c] = clock[c]]
             acq == acquired \union {c}
  <2>1. PICK s \in doRelease(1, toRelease) :
          LET plc == [Woken(place, s) EXCEPT ![c] = "asleep"]
              rel == toRelease \ s
          IN IF isBarrierReached(run, loc, acq)
             THEN barrierRelease(c, run, plc, loc, acq, rel)
             ELSE /\ place' = plc /\ local' = loc /\ acquired' = acq /\ toRelease' = rel
                  /\ UNCHANGED <<run, clock, next, fastforward, disabled, endless, asserted>>
    BY <1>2 DEF synchronize
  <2> DEFINE plc == [Woken(place, s) EXCEPT ![c] = "asleep"]
             rel == toRelease \ s
  <2>2. /\ MidInv(run, Woken(place, s), local, acquired, rel)
        /\ s \subseteq toRelease /\ s \subseteq Running(run)
    BY <1>0, OneReleased
  <2>3. /\ c \notin acquired /\ c \notin toRelease /\ c \notin s
        /\ Woken(place, s) \in [Cores -> Places]
        /\ \A u \in Cores : Woken(place, s)[u] = "exec" => clock[u] < next
    BY <1>0, <2>2, WokenBehind DEF MidInv, Woken
  <2>4. /\ plc \in [Cores -> Places] /\ plc[c] = "asleep"
        /\ \A u \in Cores \ {c} : plc[u] = Woken(place, s)[u]
    BY <2>3 DEF Places
  <2>5. /\ loc \in [Cores -> Nat] /\ loc[c] = clock[c] /\ loc[c] >= next
        /\ \A u \in Cores \ {c} : loc[u] = local[u]
    BY <1>0, <1>2
  <2> HIDE DEF plc, loc
  <2>6. /\ \A u \in acq : loc[u] = clock[u]
        /\ \A u \in Cores : plc[u] = "exec" => clock[u] < next
        /\ \A u \in Cores \ acq : loc[u] < next
    <3>1. \A u \in acquired \union toRelease : u \in Cores /\ local[u] = clock[u]
      BY <1>0 DEF Clocks, Reported, MidInv
    <3>2. \A u \in Cores \ acquired : local[u] < next
      BY <1>0 DEF Clocks, OutBehind
    <3> QED
      BY <2>3, <2>4, <2>5, <3>1, <3>2
  <2>7. CASE isBarrierReached(run, loc, acq)
    <3>1. MidInv(run, plc, loc, acq, rel)
      <4>1. /\ acq \subseteq Cores /\ rel \subseteq Cores /\ acq \intersect rel = {}
            /\ acq \union rel \subseteq Running(run)
        BY <1>0, <2>2, <2>3 DEF MidInv, Running
      <4>2. {u \in Cores : plc[u] = "asleep"} = acq \union rel
        <5>1. {u \in Cores : Woken(place, s)[u] = "asleep"} = acquired \union rel
          BY <2>2 DEF MidInv
        <5> QED
          BY <2>4, <5>1
      <4>3. \A u \in Cores : plc[u] = "due" => run[u] = "running"
        BY <2>2, <2>4 DEF MidInv
      <4>4. \A u \in rel : loc[u] < next
        BY <1>0, <2>2, <2>3, <2>5 DEF MidInv
      <4>5. \A u \in acq : loc[u] >= next
        BY <1>0, <2>5 DEF MidInv
      <4> QED
        BY <1>0, <2>4, <2>5, <4>1, <4>2, <4>3, <4>4, <4>5 DEF MidInv
    <3>2. rel = {}
      BY <1>0, <2>7, <3>1, ReachedEmpty
    <3>3. barrierRelease(c, run, plc, loc, acq, {})
      BY <2>1, <2>7, <3>2 DEF plc
    <3>4. \A u \in Running(run) : u \in Cores /\ loc[u] >= next /\ loc[u] \in Nat
      BY <2>5, <2>7 DEF isBarrierReached, Running
    <3>5. Running(run) \subseteq acq
      BY <1>0, <2>6, <3>4
    <3>6. acq # {} /\ OnGrid /\ NotFarAhead /\ MidInv(run, plc, loc, acq, {})
      BY <1>0, <3>1, <3>2 DEF Clocks
    <3> HIDE DEF acq
    <3> QED
      BY <1>0, <2>6, <3>3, <3>5, <3>6, ReleaseClocks
  <2>8. CASE ~isBarrierReached(run, loc, acq)
    <3>1. /\ place' = plc /\ local' = loc /\ acquired' = acq /\ toRelease' = rel
          /\ UNCHANGED <<run, clock, next, fastforward, disabled, endless, asserted>>
      BY <2>1, <2>8 DEF plc
    <3>2. OnGrid' /\ NotFarAhead' /\ NotFarBehind'
      BY <1>0, <3>1 DEF Clocks, OnGrid, NotFarAhead, NotFarBehind
    <3>3. ExecBehind' /\ OutBehind'
      BY <2>6, <3>1 DEF ExecBehind, OutBehind
    <3>4. Reported'
      <4>1. \A u \in rel : loc[u] = clock[u]
        BY <1>0, <2>3, <2>5 DEF Clocks, Reported, MidInv
      <4> QED
        BY <2>6, <3>1, <4>1 DEF Reported
    <3> QED
      BY <3>1, <3>2, <3>3, <3>4 DEF Clocks
  <2> QED
    BY <2>7, <2>8
<1> QED
  BY <1>1, <1>2

LEMMA StopsClocks ==
  ASSUME SkewInv, NEW c \in Cores, Executes(c), NEW how \in {"stalled", "sleeping", "gone"},
         ThreadStops(c, [run EXCEPT ![c] = how]), ~fastforward, ~disabled
  PROVE  Clocks' /\ endless' = endless
<1> DEFINE r == [run EXCEPT ![c] = how]
<1>0. /\ BarrierInv /\ Clocks
      /\ MidInv(run, place, local, acquired, toRelease) /\ clock \in [Cores -> Nat]
      /\ next \in Nat /\ place[c] = "exec" /\ local \in [Cores -> Nat]
  BY InvMid DEF SkewInv, BarrierInv, TypeOK, Executes
<1>1. PICK s \in doRelease(1, toRelease) :
        LET plc == Woken(place, s)
            rel == toRelease \ s
        IN IF ~disabled /\ isBarrierReached(r, local, acquired)
           THEN barrierRelease(None, r, plc, local, acquired, rel)
           ELSE /\ run' = r /\ place' = plc /\ toRelease' = rel
                /\ UNCHANGED <<clock, local, acquired, next, fastforward, disabled, endless, asserted>>
  BY DEF ThreadStops
<1> DEFINE plc == Woken(place, s)
           rel == toRelease \ s
<1>2. /\ MidInv(run, plc, local, acquired, rel)
      /\ s \subseteq toRelease /\ s \subseteq Running(run)
  BY <1>0, OneReleased
<1>3. /\ c \notin acquired /\ c \notin toRelease /\ plc[c] = "exec"
      /\ \A u \in Cores : plc[u] = "exec" => clock[u] < next
  BY <1>0, <1>2, WokenBehind DEF MidInv, Woken
<1>4. /\ r \in [Cores -> RunStates] /\ \A u \in Cores \ {c} : r[u] = run[u]
      /\ r[c] # "running"
  BY <1>0 DEF MidInv, RunStates
<1> HIDE DEF r, plc, rel
<1>5. Running(r) \subseteq Running(run)
  BY <1>4 DEF Running
<1>6. CASE isBarrierReached(r, local, acquired)
  <2>1. MidInv(r, plc, local, acquired, rel)
    <3>1. acquired \union rel \subseteq Running(r)
      BY <1>2, <1>3, <1>4 DEF MidInv, Running, rel
    <3>2. \A u \in Cores : plc[u] = "due" => r[u] = "running"
      BY <1>2, <1>3, <1>4 DEF MidInv
    <3> QED
      BY <1>2, <1>4, <3>1, <3>2 DEF MidInv
  <2>2. rel = {}
    BY <1>0, <1>6, <2>1, ReachedEmpty
  <2>3. barrierRelease(None, r, plc, local, acquired, {})
    BY <1>1, <1>6, <2>2 DEF plc, rel
  <2>4. Running(r) \subseteq acquired /\ acquired # {}
    <3>1. \A u \in Running(r) : u \in Cores /\ local[u] >= next /\ local[u] \in Nat
      BY <1>0, <1>6 DEF isBarrierReached, Running
    <3>2. \A u \in Cores \ acquired : local[u] < next
      BY <1>0 DEF Clocks, OutBehind
    <3>3. Running(r) # {}
      BY <1>6 DEF isBarrierReached
    <3> QED
      BY <1>0, <3>1, <3>2, <3>3
  <2>5. /\ \A u \in acquired : local[u] = clock[u]
        /\ \A u \in Cores \ acquired : local[u] < next
        /\ OnGrid /\ NotFarAhead
    BY <1>0 DEF Clocks, Reported, OutBehind
  <2> QED
    BY <1>0, <1>3, <2>1, <2>2, <2>3, <2>4, <2>5, ReleaseClocks
<1>7. CASE ~isBarrierReached(r, local, acquired)
  <2>1. /\ run' = r /\ place' = plc /\ toRelease' = rel
        /\ UNCHANGED <<clock, local, acquired, next, fastforward, disabled, endless, asserted>>
    BY <1>1, <1>7 DEF plc, rel
  <2>2. OnGrid' /\ NotFarAhead' /\ OutBehind'
    BY <1>0, <2>1 DEF Clocks, OnGrid, NotFarAhead, OutBehind
  <2>3. ExecBehind' /\ Reported'
    BY <1>0, <1>3, <2>1 DEF Clocks, ExecBehind, Reported, rel
  <2>4. NotFarBehind'
    BY <1>0, <1>5, <2>1 DEF Clocks, NotFarBehind
  <2> QED
    BY <2>1, <2>2, <2>3, <2>4 DEF Clocks
<1> QED
  BY <1>6, <1>7

LEMMA AdvanceClocks ==
  ASSUME SkewInv, NEW c \in Cores, NEW how \in {"stalled", "sleeping"},
         StallAndAdvance(c, how), ~fastforward, ~disabled
  PROVE  Clocks'
<1> DEFINE r == [run EXCEPT ![c] = how]
<1>0. /\ Clocks /\ MidInv(run, place, local, acquired, toRelease) /\ clock \in [Cores -> Nat]
      /\ next \in Nat /\ place[c] = "exec" /\ Running(run) = {c} /\ local \in [Cores -> Nat]
      /\ Quantum \in Nat \ {0} /\ Max(Steps) \in Nat \ {0} /\ run \in [Cores -> RunStates]
  BY InvMid, LongestStep, BarrierAssumption
     DEF SkewInv, BarrierInv, TypeOK, StallAndAdvance, Executes
<1>1. PICK timedOut \in (SUBSET {d \in Cores : r[d] = "sleeping"}),
           time \in {next, next + Quantum} :
          /\ run' = Resumed(r, timedOut)
          /\ clock' = ClockAt(timedOut, time)
          /\ place' = Due(place, clock')
          /\ next' = time
  BY DEF StallAndAdvance
<1>2. UNCHANGED <<local, acquired, toRelease, fastforward, disabled, endless>>
  BY DEF StallAndAdvance
<1>3. time \in Nat /\ next <= time
  BY <1>0, <1>1
<1>4. acquired = {} /\ toRelease = {}
  BY <1>0 DEF MidInv
<1>5. /\ clock' \in [Cores -> Nat]
      /\ \A u \in Cores : u \in timedOut => clock'[u] = IF clock[u] >= time THEN clock[u] ELSE time
      /\ \A u \in Cores : u \notin timedOut => clock'[u] = clock[u]
  BY <1>0, <1>1, <1>3, ClockAtIs
<1>6. OnGrid'
  <2>1. PICK m \in Nat : next = m * Quantum
    BY <1>0 DEF Clocks, OnGrid
  <2>2. next + Quantum = (m + 1) * Quantum
    BY <1>0, <2>1
  <2> QED
    BY <1>1, <2>1, <2>2 DEF OnGrid
<1>7. ExecBehind'
  <2> SUFFICES ASSUME NEW u \in Cores, place'[u] = "exec" PROVE clock'[u] < time
    BY <1>1 DEF ExecBehind
  <2>1. place[u] = "exec"
    BY <1>0, <1>1, <1>5, DueSame
  <2>2. clock[u] < next /\ clock[u] \in Nat
    BY <1>0, <2>1 DEF Clocks, ExecBehind
  <2>3. OnGrid
    BY <1>0 DEF Clocks
  <2>4. ASSUME u \in timedOut PROVE FALSE
    <3>1. clock'[u] = time /\ clock'[u] >= next
      BY <1>0, <1>3, <1>5, <2>2, <2>4
    <3>2. place'[u] = "due"
      BY <1>0, <1>1, <1>5, <2>2, <2>3, <3>1, PassedIsDue
    <3> QED
      BY <3>2
  <2> QED
    BY <1>0, <1>3, <1>5, <2>2, <2>4
<1>8. Reported' /\ OutBehind'
  BY <1>0, <1>1, <1>2, <1>3, <1>4 DEF Clocks, Reported, OutBehind
<1>9. NotFarAhead'
  <2>1. \A u \in Cores : clock[u] \in Nat /\ clock[u] < next + Max(Steps)
    BY <1>0 DEF Clocks, NotFarAhead
  <2>2. \A u \in Cores : clock'[u] < time + Max(Steps)
    BY <1>0, <1>3, <1>5, <2>1
  <2> QED
    BY <1>1, <2>2 DEF NotFarAhead
<1>10. NotFarBehind'
  <2> SUFFICES ASSUME NEW u \in Cores, run'[u] = "running"
               PROVE  clock'[u] + Quantum + Max(Steps) >= time
    BY <1>1 DEF NotFarBehind, Running
  <2>1. u \in timedOut
    <3>1. \A d \in Cores : r[d] # "running"
      BY <1>0 DEF Running
    <3> QED
      BY <1>1, <3>1 DEF Resumed
  <2>2. clock'[u] >= time /\ clock'[u] \in Nat
    BY <1>0, <1>3, <1>5, <2>1
  <2> QED
    BY <1>0, <1>3, <2>2
<1> QED
  BY <1>6, <1>7, <1>8, <1>9, <1>10 DEF Clocks

LEMMA StartsClocks ==
  ASSUME SkewInv, NEW c \in Cores, NEW d \in Cores, threadMigrate(d, c) \/ Resume(d, c),
         ~fastforward, ~disabled
  PROVE  Clocks'
<1>0. /\ Clocks /\ MidInv(run, place, local, acquired, toRelease) /\ clock \in [Cores -> Nat]
      /\ run[d] = "running" /\ place[d] = "exec" /\ run[c] \in {"new", "stalled"} /\ c # d
      /\ run' = [run EXCEPT ![c] = "running"]
      /\ clock' = [clock EXCEPT ![c] = Max({clock[c], clock[d]})]
      /\ UNCHANGED <<local, acquired, next, fastforward, disabled, endless, asserted>>
      /\ next \in Nat /\ Max(Steps) \in Nat \ {0} /\ Quantum \in Nat
  BY InvMid, LongestStep, BarrierAssumption
     DEF SkewInv, BarrierInv, TypeOK, threadMigrate, Resume, Executes, serverVars
<1>1. PICK s \in SUBSET toRelease :
             toRelease' = toRelease \ s /\ place' = Due(Woken(place, s), clock')
  <2>1. CASE threadMigrate(d, c)
    BY <2>1, OneReleased DEF threadMigrate, SkewInv
  <2>2. CASE Resume(d, c)
    <3>1. Woken(place, {}) = place
      BY <1>0 DEF Woken, MidInv
    <3>2. toRelease \ {} = toRelease
      OBVIOUS
    <3> QED
      BY <1>0, <2>2, <3>1, <3>2 DEF Resume, serverVars
  <2> QED
    BY <2>1, <2>2
<1>2. /\ c \notin acquired \union toRelease /\ d \notin acquired
      /\ place[c] = "exec"
  BY <1>0 DEF MidInv, Running, Places
<1>3. /\ clock[c] \in Nat /\ clock[d] \in Nat /\ clock[c] < next /\ clock[d] < next
      /\ clock[d] + Quantum + Max(Steps) >= next
  BY <1>0, <1>2 DEF Clocks, ExecBehind, NotFarBehind, Running
<1>4. /\ clock' \in [Cores -> Nat] /\ \A u \in Cores \ {c} : clock'[u] = clock[u]
      /\ clock'[c] >= clock[d] /\ clock'[c] < next /\ clock'[c] \in Nat
  <2>1. Max({clock[c], clock[d]}) = IF clock[c] >= clock[d] THEN clock[c] ELSE clock[d]
    BY <1>3, MaxOfTwo
  <2> QED
    BY <1>0, <1>3, <2>1
<1>5. OnGrid' /\ OutBehind'
  BY <1>0 DEF Clocks, OnGrid, OutBehind
<1>6. Reported'
  BY <1>0, <1>1, <1>2, <1>4 DEF Clocks, Reported, MidInv
<1>7. ExecBehind'
  <2> SUFFICES ASSUME NEW u \in Cores \ {c}, place'[u] = "exec" PROVE clock[u] < next
    BY <1>0, <1>4 DEF ExecBehind
  <2>1. Woken(place, s)[u] = "exec"
    <3>1. clock' \in [Cores -> Nat] /\ clock \in [Cores -> Nat] /\ clock'[u] = clock[u]
      BY <1>0, <1>4
    <3> QED
      BY <1>1, <3>1, DueSame
  <2> QED
    BY <2>1, WokenBehind
<1>8. NotFarAhead'
  <2>1. \A u \in Cores : clock[u] < next + Max(Steps)
    BY <1>0 DEF Clocks, NotFarAhead
  <2>2. clock'[c] < next + Max(Steps)
    BY <1>0, <1>4
  <2> QED
    BY <1>0, <1>4, <2>1, <2>2 DEF NotFarAhead
<1>9. NotFarBehind'
  <2>1. clock'[c] + Quantum + Max(Steps) >= next
    BY <1>0, <1>3, <1>4
  <2>2. \A u \in Running(run) \ acquired : u \in Cores /\ clock[u] + Quantum + Max(Steps) >= next
    BY <1>0 DEF Clocks, NotFarBehind, Running
  <2>3. \A u \in Running(run') : u = c \/ u \in Running(run)
    BY <1>0 DEF Running
  <2> QED
    BY <1>0, <1>4, <2>1, <2>2, <2>3 DEF NotFarBehind
<1> QED
  BY <1>5, <1>6, <1>7, <1>8, <1>9 DEF Clocks

\* In fast-forward mode the barrier is reached only with somebody in it, and it is
\* never released while it is switched off.
LEMMA OtherModeEnds ==
  ASSUME NEW c \in Cores, NEW r, fastforward \/ disabled, synchronize(c) \/ ThreadStops(c, r)
  PROVE  endless' = endless
<1>1. ASSUME NEW caller, NEW q, NEW plc, NEW loc, NEW acq, NEW rel, acq # {},
             barrierRelease(caller, q, plc, loc, acq, rel)
      PROVE  endless' = endless
  BY <1>1 DEF barrierRelease
<1>2. CASE synchronize(c)
  <2>1. CASE disabled \/ (clock[c] < next /\ ~fastforward)
    BY <1>2, <2>1 DEF synchronize, serverVars
  <2>2. CASE ~(disabled \/ (clock[c] < next /\ ~fastforward))
    BY <1>1, <1>2, <2>2 DEF synchronize
  <2> QED
    BY <2>1, <2>2
<1>3. CASE ThreadStops(c, r)
  <2>1. CASE ~disabled /\ isBarrierReached(r, local, acquired)
    <3>1. acquired # {}
      BY <2>1 DEF isBarrierReached
    <3> QED
      BY <1>1, <1>3, <2>1, <3>1 DEF ThreadStops
  <2>2. CASE ~(~disabled /\ isBarrierReached(r, local, acquired))
    BY <1>3, <2>2 DEF ThreadStops
  <2> QED
    BY <2>1, <2>2
<1> QED
  BY <1>2, <1>3

LEMMA InitSkewInv == ASSUME "roi-begin" \notin Switches PROVE Init => SkewInv
<1> SUFFICES ASSUME Init PROVE SkewInv
  OBVIOUS
<1>1. PICK first \in Cores : run = [c \in Cores |-> IF c = first THEN "running" ELSE "new"]
  BY DEF Init
<1>2. /\ next = Quantum /\ acquired = {} /\ toRelease = {} /\ ~endless
      /\ \A c \in Cores : clock[c] = 0 /\ local[c] = 0
      /\ Quantum \in Nat \ {0} /\ Max(Steps) \in Nat \ {0}
  BY LongestStep, BarrierAssumption DEF Init
<1>3. OnGrid
  <2>1. next = 1 * Quantum
    BY <1>2
  <2> QED
    BY <2>1 DEF OnGrid
<1>4. NotFarBehind
  <2>1. \A c \in Running(run) : clock[c] + Quantum + Max(Steps) >= next
    BY <1>2 DEF Running
  <2> QED
    BY <2>1 DEF NotFarBehind
<1>5. ExecBehind /\ Reported /\ NotFarAhead /\ OutBehind
  BY <1>2 DEF ExecBehind, Reported, NotFarAhead, OutBehind
<1> QED
  BY <1>2, <1>3, <1>4, <1>5, InitBarrierInv DEF SkewInv, ReleaseEnds, Clocks

LEMMA NextSkewInv ==
  ASSUME "roi-begin" \notin Switches
  PROVE  SkewInv /\ [Next]_vars => SkewInv'
<1> SUFFICES ASSUME SkewInv, [Next]_vars PROVE SkewInv'
  OBVIOUS
<1>0. BarrierInv' /\ ~endless
  BY NextBarrierInv DEF SkewInv, ReleaseEnds
<1>1. ASSUME NEW c \in Cores, Execute(c) PROVE SkewInv'
  <2>1. UNCHANGED <<fastforward, disabled, endless>>
    BY <1>1 DEF Execute, serverVars
  <2> QED
    BY <1>0, <1>1, <2>1, ExecuteClocks DEF SkewInv, ReleaseEnds
<1>2. ASSUME NEW c \in Cores, synchronize(c) PROVE SkewInv'
  <2>1. endless' = endless
    BY <1>2, SynchronizeClocks, OtherModeEnds
  <2>2. fastforward' = fastforward /\ disabled' = disabled
    BY <1>2 DEF synchronize, barrierRelease, serverVars
  <2> QED
    BY <1>0, <1>2, <2>1, <2>2, SynchronizeClocks DEF SkewInv, ReleaseEnds
<1>3. ASSUME NEW c \in Cores, NEW how \in {"stalled", "sleeping", "gone"}, Executes(c),
             ThreadStops(c, [run EXCEPT ![c] = how])
      PROVE  SkewInv'
  <2>1. endless' = endless
    BY <1>3, StopsClocks, OtherModeEnds
  <2>2. fastforward' = fastforward /\ disabled' = disabled
    BY <1>3 DEF ThreadStops, barrierRelease
  <2> QED
    BY <1>0, <1>3, <2>1, <2>2, StopsClocks DEF SkewInv, ReleaseEnds
<1>4. ASSUME NEW c \in Cores, NEW how \in {"stalled", "sleeping"}, StallAndAdvance(c, how)
      PROVE  SkewInv'
  <2>1. UNCHANGED <<fastforward, disabled, endless>>
    BY <1>4 DEF StallAndAdvance
  <2> QED
    BY <1>0, <1>4, <2>1, AdvanceClocks DEF SkewInv, ReleaseEnds
<1>5. ASSUME NEW c \in Cores, NEW d \in Cores, threadMigrate(d, c) \/ Resume(d, c)
      PROVE  SkewInv'
  <2>1. UNCHANGED <<fastforward, disabled, endless>>
    BY <1>5 DEF threadMigrate, Resume, serverVars
  <2> QED
    BY <1>0, <1>5, <2>1, StartsClocks DEF SkewInv, ReleaseEnds
<1>6. ASSUME NEW c \in Cores, setDisable(c) \/ \E on \in BOOLEAN : setFastForward(c, on)
      PROVE  SkewInv'
  <2>1. endless' = endless
    BY <1>6 DEF setDisable, setFastForward
  <2>2. disabled' \/ fastforward'
    <3>1. CASE setDisable(c)
      BY <3>1 DEF setDisable
    <3>2. ASSUME NEW on \in BOOLEAN, setFastForward(c, on) PROVE fastforward'
      BY <3>2 DEF setFastForward
    <3> QED
      BY <1>6, <3>1, <3>2
  <2> QED
    BY <1>0, <2>1, <2>2 DEF SkewInv, ReleaseEnds
<1>7. CASE UNCHANGED vars
  BY <1>0, <1>7
     DEF vars, serverVars, SkewInv, ReleaseEnds, Clocks, OnGrid, ExecBehind, Reported,
         NotFarAhead, NotFarBehind, OutBehind, Running
<1> QED
  BY <1>1, <1>2, <1>3, <1>4, <1>5, <1>6, <1>7 DEF Next, threadExit, threadStall

\* As long as fast-forward is not left again: the loop of barrierRelease() that
\* adds quanta until a core can be resumed ends, for every quantum and every step.
THEOREM BarrierReleaseEnds ==
  ASSUME "roi-begin" \notin Switches
  PROVE  Spec => []ReleaseEnds
<1>1. SkewInv => ReleaseEnds
  BY DEF SkewInv
<1> QED
  BY <1>1, InitSkewInv, NextSkewInv, PTL DEF Spec

\* As long as fast-forward is not left again: in detailed mode a core that executes
\* is before the barrier time, and behind it by no more than a quantum and the
\* longest step (barrier_sync_server.cc, barrier_sync_client.cc).
THEOREM BarrierSkewBounded ==
  ASSUME "roi-begin" \notin Switches
  PROVE  Spec => []SkewBounded
<1>1. SkewInv => SkewBounded
  <2> SUFFICES ASSUME SkewInv, ~fastforward, ~disabled, NEW c \in Cores, Executes(c)
               PROVE  clock[c] < next /\ clock[c] + Quantum + Max(Steps) >= next
    BY DEF SkewBounded
  <2>1. Clocks /\ c \notin acquired /\ c \in Running(run)
    BY DEF SkewInv, BarrierInv, SleepersKnown, Executes, Running
  <2> QED
    BY <2>1 DEF Clocks, ExecBehind, NotFarBehind, Executes
<1> QED
  BY <1>1, InitSkewInv, NextSkewInv, PTL DEF Spec
=============================================================================
