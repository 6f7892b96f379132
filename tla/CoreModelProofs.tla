---------------------------- MODULE CoreModelProofs ----------------------------
(***************************************************************************)
(* The performance models of a core.  First the barrier between the        *)
(* hardware threads of an SMT core, which is sound for any number of       *)
(* hardware and software threads (SmtTimer); then the clock of a core,     *)
(* which is kept by whatever advances it (PerformanceModel).               *)
(*                                                                         *)
(* That one thread executes at a time holds however threads move: whoever  *)
(* was chosen by its slot number holds m_lock until in_sync is set and the *)
(* choice undone.  That the barrier opens needs who owns which slot: a     *)
(* slot in the barrier belongs to a host thread that waits unsignalled and *)
(* whose software thread has that slot for its core, so whoever leaves is  *)
(* signalled, and a slot that runs and is not in the barrier belongs to a  *)
(* thread that goes on.  When all that run are in, either the step that    *)
(* completed the barrier has signalled somebody or a thread synchronises.  *)
(*                                                                         *)
(* The clock is kept when each operation counts the time it spends in one  *)
(* component, and brings the detailed timer up to date unless the core is  *)
(* in fast-forward.                                                        *)
(***************************************************************************)
EXTENDS SmtTimer, PerformanceModel, WellFoundedInduction, FiniteSetTheorems, TLAPS

\* The states of the timer, and where threads can be.
SlotMap  == [Slots -> Tasks \union {NoOne}]
Flags    == [Slots -> BOOLEAN]
Counters == [Slots -> Nat]
Slot     == Slots \union {NoSlot}
Cores    == Slots \union {NoSlot, Other}
SmState == [running : Flags, inb : Flags, thread : SlotMap, surplus : Counters,
            sync : BOOLEAN, enabled : BOOLEAN, exec : Slot]

SmTypes(s, pc, core, at, sig) ==
  /\ s \in SmState
  /\ pc \in [Tasks -> SmPcs] /\ core \in [Tasks -> Cores] /\ at \in [Tasks -> Cores]
  /\ sig \subseteq Tasks
  /\ \A t \in Tasks : pc[t] \in {"wait", "execute", "sync"} => at[t] \in Slots

\* One thread executes or synchronises; in_sync is set and nobody chosen while it
\* synchronises.
One(s, pc) ==
  /\ \A t, u \in Tasks : pc[t] \in {"execute", "sync"} /\ pc[u] \in {"execute", "sync"} => t = u
  /\ \A t \in Tasks : pc[t] = "sync" => s.sync /\ s.exec = NoSlot

\* Without direct moves: a slot belongs to the thread whose core it is, runs
\* unless that thread is stalled, and is in the barrier exactly while the thread
\* waits for a signal.
SlotsSound(s, pc, core, sig) ==
  \A k \in Slots :
    /\ s.thread[k] # NoOne => core[s.thread[k]] = k
    /\ s.running[k] <=> s.thread[k] # NoOne /\ pc[s.thread[k]] \notin {"asleep", "gone"}
    /\ s.inb[k] => s.thread[k] # NoOne /\ pc[s.thread[k]] = "wait" /\ s.thread[k] \notin sig
TaskSound(s, pc, core, at, sig, t) ==
  /\ core[t] \in Slots => s.thread[core[t]] = t
  /\ pc[t] = "wait" /\ t \notin sig => core[t] = at[t] /\ s.inb[at[t]]
  /\ pc[t] \in {"run", "asleep"} => at[t] \in {NoSlot, core[t]}
  /\ pc[t] = "run" => core[t] # NoSlot
  /\ core[t] = Other => pc[t] \in {"run", "asleep", "gone"}
  /\ t \in sig => pc[t] = "wait"
  /\ pc[t] # "failed"
  /\ pc[t] = "endless" => \A k \in Slots : ~s.running[k]
SlotInv(s, pc, core, at, sig) ==
  /\ SlotsSound(s, pc, core, sig)
  /\ \A t \in Tasks : TaskSound(s, pc, core, at, sig, t)
  /\ s.sync => \E t \in Tasks : pc[t] \in {"sync", "endless"}

\* When all that run are in the barrier, somebody is about to open it.
AllIn(s) == (\A k \in Slots : s.running[k] => s.inb[k]) /\ \E k \in Slots : s.inb[k]
Pending(pc, sig) == sig # {} \/ \E t \in Tasks : pc[t] \in {"execute", "sync", "check"}
BarInv(s, pc, core, at, sig) == SlotInv(s, pc, core, at, sig) /\ (AllIn(s) => Pending(pc, sig))

\* The inductive invariant.
SmInv == /\ SmTypes(sm, smPc, smCore, smAt, smSignal)
         /\ One(sm, smPc)
         /\ ~smDirect => BarInv(sm, smPc, smCore, smAt, smSignal)
-----------------------------------------------------------------------------
\* Whom barrierRelease() chooses.
LEMMA LeastIs ==
  ASSUME NEW S \in SUBSET Nat, S # {}
  PROVE  Min(S) \in S /\ \A y \in S : Min(S) <= y
<1>1. PICK x \in S : \A y \in S : ~(<<y, x>> \in OpToRel(<, Nat)) BY NatLessThanWellFounded, WFMin
<1>2. ASSUME NEW y \in S, y < x PROVE FALSE
  <2>1. <<y, x>> \in Nat \X Nat /\ <<y, x>>[1] < <<y, x>>[2] BY <1>2
  <2>2. <<y, x>> \in OpToRel(<, Nat) BY <2>1 DEF OpToRel
  <2> QED BY <2>2, <1>1
<1>3. \A y \in S : x <= y BY <1>2
<1> QED BY <1>3 DEF Min

LEMMA ChosenIs ==
  ASSUME NEW S \in SUBSET Slots, NEW all
  PROVE  Chosen(S, all) \subseteq S /\ (S # {} => Chosen(S, all) # {})
<1>1. S \in SUBSET Nat BY SmtAssumption
<1> QED BY <1>1, LeastIs DEF Chosen

\* Of the slots that are full, some have the least: the limit reaches them first.
LEMMA LowestExists ==
  ASSUME NEW s \in SmState, \E k \in Slots : s.inb[k] /\ s.running[k]
  PROVE  LowestSurplus(s) # {}
<1> DEFINE full == {k \in Slots : s.inb[k] /\ s.running[k]}
           S == {s.surplus[k] : k \in full}
<1>1. \A k \in full : s.surplus[k] \in Nat BY DEF SmState, Counters
<1>2. S \in SUBSET Nat /\ S # {} BY <1>1
<1>3. PICK k \in full : \A j \in full : s.surplus[k] <= s.surplus[j]
  <2>1. Min(S) \in S /\ \A y \in S : Min(S) <= y BY <1>2, LeastIs
  <2> QED BY <2>1
<1>4. ASSUME NEW j \in full, NEW l \in Limits, s.surplus[j] < l PROVE s.surplus[k] < l
  <2>1. l \in Int BY DEF Limits
  <2> QED BY <2>1, <1>1, <1>3, <1>4
<1>5. k \in LowestSurplus(s) BY <1>4 DEF LowestSurplus, threadNumSurplusInstructions
<1> QED BY <1>5

LEMMA ReleasedIs ==
  ASSUME NEW s \in SmState, NEW all
  PROVE  /\ Released(s, all) \subseteq {k \in Slots : s.inb[k]}
         /\ AllIn(s) /\ (\A k \in Slots : s.inb[k] => s.running[k]) => Released(s, all) # {}
<1> DEFINE first == Chosen(Hungry(s), all)
           seen  == {k \in Slots : all \/ first = {} \/ k <= Min(first)}
           late == Chosen(LowestSurplus(s), all)
           running == {k \in seen : s.running[k] /\ (~s.inb[k] \/ k \in first)}
<1>1. Released(s, all) = IF running # {} THEN first ELSE first \union late BY DEF Released
<1>2. Hungry(s) \subseteq {k \in Slots : s.inb[k]} BY DEF Hungry
<1>3. LowestSurplus(s) \subseteq {k \in Slots : s.inb[k]} BY DEF LowestSurplus
<1>4. first \subseteq Hungry(s) /\ late \subseteq LowestSurplus(s) BY <1>2, <1>3, ChosenIs
<1>5. ASSUME AllIn(s), \A k \in Slots : s.inb[k] => s.running[k] PROVE Released(s, all) # {}
  <2>1. LowestSurplus(s) # {} BY <1>5, LowestExists DEF AllIn
  <2>2. late # {} BY <1>3, <2>1, ChosenIs
  <2>3. first = {} => running = {} BY <1>5 DEF AllIn
  <2> HIDE DEF first, late, running
  <2> QED BY <1>1, <2>2, <2>3
<1> HIDE DEF first, late, running
<1> QED BY <1>1, <1>2, <1>3, <1>4, <1>5

-----------------------------------------------------------------------------
LEMMA SmFields ==
  ASSUME NEW s \in SmState
  PROVE  /\ s.running \in Flags /\ s.inb \in Flags /\ s.thread \in SlotMap /\ s.surplus \in Counters
         /\ s.sync \in BOOLEAN /\ s.enabled \in BOOLEAN /\ s.exec \in Slot
BY DEF SmState

\* A slot enters or leaves the barrier, or begins or ceases to run.
OneFlag(f, r, k, b) ==
  /\ r \in Flags
  /\ \A j \in Slots : r[j] <=> IF j = k THEN b ELSE f[j]
LEMMA OneFlagIs ==
  ASSUME NEW f \in Flags, NEW k \in Slots, NEW b \in BOOLEAN
  PROVE  OneFlag(f, [f EXCEPT ![k] = b], k, b)
BY DEF Flags, OneFlag

InBarrier(s, k, b) == [s EXCEPT !.inb[k] = b]
RunningSlots(s, k, b) == [s EXCEPT !.running[k] = b]
LEMMA InBarrierIs ==
  ASSUME NEW s \in SmState, NEW k \in Slots, NEW b \in BOOLEAN
  PROVE  LET r == InBarrier(s, k, b)
         IN  /\ r \in SmState
             /\ r.running = s.running /\ r.thread = s.thread /\ r.surplus = s.surplus
             /\ r.sync = s.sync /\ r.enabled = s.enabled /\ r.exec = s.exec
             /\ OneFlag(s.inb, r.inb, k, b)
<1> DEFINE x == [s.inb EXCEPT ![k] = b]
<1>1. InBarrier(s, k, b) = [s EXCEPT !.inb = x] BY DEF InBarrier
<1>2. OneFlag(s.inb, x, k, b) BY SmFields, OneFlagIs
<1>3. x \in Flags BY <1>2 DEF OneFlag
<1> HIDE DEF x
<1> QED BY <1>1, <1>2, <1>3 DEF SmState

LEMMA RunningIs ==
  ASSUME NEW s \in SmState, NEW k \in Slots, NEW b \in BOOLEAN
  PROVE  LET r == RunningSlots(s, k, b)
         IN  /\ r \in SmState
             /\ r.inb = s.inb /\ r.thread = s.thread /\ r.surplus = s.surplus
             /\ r.sync = s.sync /\ r.enabled = s.enabled /\ r.exec = s.exec
             /\ OneFlag(s.running, r.running, k, b)
<1> DEFINE x == [s.running EXCEPT ![k] = b]
<1>1. RunningSlots(s, k, b) = [s EXCEPT !.running = x] BY DEF RunningSlots
<1>2. OneFlag(s.running, x, k, b) BY SmFields, OneFlagIs
<1>3. x \in Flags BY <1>2 DEF OneFlag
<1> HIDE DEF x
<1> QED BY <1>1, <1>2, <1>3 DEF SmState

\* barrierRelease(), as the change of the state.
Opened(s, r, gone) ==
  /\ r \in SmState
  /\ r.running = s.running /\ r.thread = s.thread /\ r.surplus = s.surplus
  /\ r.sync = s.sync /\ r.enabled = s.enabled
  /\ \A j \in Slots : r.inb[j] <=> s.inb[j] /\ j \notin gone

LEMMA ReleaseIs ==
  ASSUME NEW s \in SmState, NEW all, NEW me \in Slot
  PROVE  Opened(s, Release(s, all, me), Released(s, all) \ {me})
<1> DEFINE gone == Released(s, all) \ {me}
           e == Executor(s, all, me)
           x == [k \in Slots |-> s.inb[k] /\ (k = me \/ k \notin Released(s, all))]
           a == [s EXCEPT !.exec = e]
           r == [a EXCEPT !.inb = x]
<1>1. Release(s, all, me) = r BY DEF Release
<1>2. e \in Slot
  <2> DEFINE rel == Released(s, all)
             late == rel \ Chosen(Hungry(s), all)
  <2>1. rel \subseteq Slots BY ReleasedIs
  <2>2. rel # {} => Min(rel) \in rel
    <3>1. rel \in SUBSET Nat BY <2>1, SmtAssumption
    <3> QED BY <3>1, LeastIs
  <2>3. late # {} => Min(late) \in late
    <3>1. late \in SUBSET Nat BY <2>1, SmtAssumption
    <3> HIDE DEF late
    <3> QED BY <3>1, LeastIs
  <2>4. e = IF all \/ rel = {} THEN me ELSE IF late # {} THEN Min(late) ELSE Min(rel) BY DEF Executor
  <2>5. late \subseteq rel OBVIOUS
  <2> HIDE DEF rel, late, e
  <2> QED BY <2>1, <2>2, <2>3, <2>4, <2>5 DEF Slot
<1>3. x \in Flags BY DEF Flags
<1>4. \A j \in Slots : x[j] <=> s.inb[j] /\ j \notin gone OBVIOUS
<1> HIDE DEF e, x, gone
<1>5. /\ a \in SmState /\ a.running = s.running /\ a.inb = s.inb /\ a.thread = s.thread
      /\ a.surplus = s.surplus /\ a.sync = s.sync /\ a.enabled = s.enabled
  BY <1>2 DEF SmState
<1> HIDE DEF a
<1>6. /\ r \in SmState /\ r.running = a.running /\ r.inb = x /\ r.thread = a.thread
      /\ r.surplus = a.surplus /\ r.sync = a.sync /\ r.enabled = a.enabled
  BY <1>3, <1>5 DEF SmState
<1> HIDE DEF r
<1> QED BY <1>1, <1>4, <1>5, <1>6 DEF Opened, gone

\* threadMigrate(), as the change of the state: t leaves slot k and takes `to'.
Migrated(s, r, t, k, to) ==
  /\ r \in SmState
  /\ r.surplus = s.surplus /\ r.sync = s.sync /\ r.enabled = s.enabled /\ r.exec = s.exec
  /\ \A j \in Slots :
       /\ r.running[j] <=> j = to \/ (j # k /\ s.running[j])
       /\ r.thread[j] = IF j = to THEN t ELSE IF j = k THEN NoOne ELSE s.thread[j]
       /\ r.inb[j] <=> j # k /\ s.inb[j]

LEMMA FindIs ==
  ASSUME NEW s, NEW t
  PROVE  LET k == findSmtThreadFromThread(s, t)
         IN  /\ k \in Slot
             /\ k = NoSlot => \A i \in Slots : s.thread[i] # t
             /\ k # NoSlot => k \in Slots /\ s.thread[k] = t
<1> DEFINE S == {i \in Slots : s.thread[i] = t}
<1>1. S \in SUBSET Nat /\ 0 \notin S BY SmtAssumption
<1>2. findSmtThreadFromThread(s, t) = IF S = {} THEN NoSlot ELSE Min(S) BY DEF findSmtThreadFromThread
<1>3. S # {} => Min(S) \in S BY <1>1, LeastIs
<1> QED BY <1>1, <1>2, <1>3 DEF Slot, NoSlot

ThreadPut(s, k, t) == [s EXCEPT !.thread[k] = t]
LEMMA ThreadPutIs ==
  ASSUME NEW s \in SmState, NEW k \in Slots, NEW t \in Tasks \union {NoOne}
  PROVE  LET r == ThreadPut(s, k, t)
         IN  /\ r \in SmState
             /\ r.running = s.running /\ r.inb = s.inb /\ r.surplus = s.surplus
             /\ r.sync = s.sync /\ r.enabled = s.enabled /\ r.exec = s.exec
             /\ \A j \in Slots : r.thread[j] = IF j = k THEN t ELSE s.thread[j]
<1> DEFINE x == [s.thread EXCEPT ![k] = t]
<1>1. ThreadPut(s, k, t) = [s EXCEPT !.thread = x] BY DEF ThreadPut
<1>2. s.thread \in [Slots -> Tasks \union {NoOne}] BY SmFields DEF SlotMap
<1>3. x \in SlotMap /\ \A j \in Slots : x[j] = IF j = k THEN t ELSE s.thread[j] BY <1>2 DEF SlotMap
<1> HIDE DEF x
<1> QED BY <1>1, <1>3 DEF SmState

LEMMA MigrateIs ==
  ASSUME NEW s \in SmState, NEW t \in Tasks, NEW to \in Cores
  PROVE  Migrated(s, threadMigrate(s, t, to), t, findSmtThreadFromThread(s, t), to)
<1> DEFINE k == findSmtThreadFromThread(s, t)
           a == RunningSlots(s, k, FALSE)
           b == ThreadPut(a, k, NoOne)
           c == InBarrier(b, k, FALSE)
           out == IF k = NoSlot THEN s ELSE c
           d == RunningSlots(out, to, TRUE)
           e == ThreadPut(d, to, t)
<1>1. threadMigrate(s, t, to) = IF to \in Slots THEN e ELSE out
  BY DEF threadMigrate, RunningSlots, ThreadPut, InBarrier
<1>2. k \in Slot /\ NoSlot \notin Slots /\ TRUE \in BOOLEAN /\ FALSE \in BOOLEAN
      /\ t \in Tasks \union {NoOne} /\ NoOne \in Tasks \union {NoOne}
  BY FindIs, SmtAssumption DEF NoSlot
<1> HIDE DEF k
<1>3. Migrated(s, out, t, k, NoSlot)
  <2>1. CASE k = NoSlot
    <3>1. out = s BY <2>1
    <3> HIDE DEF out
    <3> QED BY <3>1, <2>1, <1>2 DEF Migrated
  <2>2. CASE k \in Slots
    <3>1. out = c BY <2>2, <1>2
    <3>2. /\ a \in SmState /\ a.inb = s.inb /\ a.thread = s.thread /\ a.surplus = s.surplus
          /\ a.sync = s.sync /\ a.enabled = s.enabled /\ a.exec = s.exec
          /\ OneFlag(s.running, a.running, k, FALSE)
      BY <2>2, <1>2, RunningIs
    <3> HIDE DEF a, out
    <3>3. /\ b \in SmState /\ b.running = a.running /\ b.inb = s.inb /\ b.surplus = s.surplus
          /\ b.sync = s.sync /\ b.enabled = s.enabled /\ b.exec = s.exec
          /\ \A j \in Slots : b.thread[j] = IF j = k THEN NoOne ELSE s.thread[j]
      BY <2>2, <3>2, <1>2, ThreadPutIs
    <3> HIDE DEF b
    <3>4. /\ c \in SmState /\ c.running = a.running /\ c.thread = b.thread /\ c.surplus = s.surplus
          /\ c.sync = s.sync /\ c.enabled = s.enabled /\ c.exec = s.exec
          /\ OneFlag(s.inb, c.inb, k, FALSE)
      BY <2>2, <3>3, <1>2, InBarrierIs
    <3> HIDE DEF c
    <3> QED BY <3>1, <3>2, <3>3, <3>4, <1>2 DEF Migrated, OneFlag
  <2> QED BY <1>2, <2>1, <2>2 DEF Slot
<1> HIDE DEF out
<1>4. CASE to \in Slots
  <2>1. out \in SmState BY <1>3 DEF Migrated
  <2>2. /\ d \in SmState /\ d.inb = out.inb /\ d.thread = out.thread /\ d.surplus = out.surplus
        /\ d.sync = out.sync /\ d.enabled = out.enabled /\ d.exec = out.exec
        /\ OneFlag(out.running, d.running, to, TRUE)
    BY <2>1, <1>2, <1>4, RunningIs
  <2> HIDE DEF d
  <2>3. /\ e \in SmState /\ e.running = d.running /\ e.inb = out.inb /\ e.surplus = out.surplus
        /\ e.sync = out.sync /\ e.enabled = out.enabled /\ e.exec = out.exec
        /\ \A j \in Slots : e.thread[j] = IF j = to THEN t ELSE out.thread[j]
    BY <2>2, <1>2, <1>4, ThreadPutIs
  <2> HIDE DEF e
  <2>4. Migrated(s, e, t, k, to) BY <2>2, <2>3, <1>2, <1>3 DEF Migrated, OneFlag
  <2> QED BY <2>4, <1>1, <1>4 DEF k
<1>5. CASE to \notin Slots
  <2>1. Migrated(s, out, t, k, to) BY <1>2, <1>3, <1>5 DEF Migrated
  <2> QED BY <2>1, <1>1, <1>5 DEF k
<1> QED BY <1>4, <1>5

-----------------------------------------------------------------------------
\* Opening the barrier: who leaves it is signalled.
WaitersAt(pc, at, S) == {t \in Tasks : pc[t] = "wait" /\ at[t] \in S}

LEMMA OpensSlots ==
  ASSUME NEW s, NEW pc, NEW core, NEW at, NEW sig, SmTypes(s, pc, core, at, sig),
         SlotInv(s, pc, core, at, sig), NEW r, NEW gone, Opened(s, r, gone)
  PROVE  SlotInv(r, pc, core, at, sig \union WaitersAt(pc, at, gone))
<1> DEFINE new == sig \union WaitersAt(pc, at, gone)
<1>1. /\ \A t \in Tasks : pc[t] = "wait" => at[t] \in Slots
      /\ \A k \in Slots : s.thread[k] # NoOne => s.thread[k] \in Tasks
  BY SmFields DEF SmTypes, SlotMap
<1>2. /\ r.running = s.running /\ r.thread = s.thread /\ r.sync = s.sync
      /\ \A j \in Slots : r.inb[j] <=> s.inb[j] /\ j \notin gone
  BY DEF Opened
<1>3. ASSUME NEW k \in Slots, r.inb[k]
      PROVE  s.thread[k] # NoOne /\ pc[s.thread[k]] = "wait" /\ s.thread[k] \notin new
  <2>1. s.inb[k] /\ k \notin gone BY <1>2, <1>3
  <2>2. s.thread[k] # NoOne /\ pc[s.thread[k]] = "wait" /\ s.thread[k] \notin sig /\ core[s.thread[k]] = k
    BY <2>1 DEF SlotInv, SlotsSound
  <2>3. at[s.thread[k]] = k BY <1>1, <2>2 DEF SlotInv, TaskSound
  <2> QED BY <2>1, <2>2, <2>3 DEF WaitersAt
<1>4. SlotsSound(r, pc, core, new) BY <1>2, <1>3 DEF SlotInv, SlotsSound
<1>5. ASSUME NEW t \in Tasks PROVE TaskSound(r, pc, core, at, new, t)
  <2>1. TaskSound(s, pc, core, at, sig, t) BY DEF SlotInv
  <2>2. pc[t] = "wait" /\ t \notin new => core[t] = at[t] /\ r.inb[at[t]]
    BY <2>1, <1>1, <1>2 DEF TaskSound, WaitersAt
  <2>3. t \in new => pc[t] = "wait" BY <2>1 DEF TaskSound, WaitersAt
  <2> QED BY <2>1, <2>2, <2>3, <1>2 DEF TaskSound
<1> QED BY <1>2, <1>4, <1>5 DEF SlotInv

\* Somebody is: a slot in the barrier has a thread that waits.
LEMMA OpensSome ==
  ASSUME NEW s, NEW pc, NEW core, NEW at, NEW sig, SmTypes(s, pc, core, at, sig),
         SlotInv(s, pc, core, at, sig), NEW k \in Slots, s.inb[k]
  PROVE  s.running[k] /\ \A S : k \in S => WaitersAt(pc, at, S) # {}
<1>1. s.thread[k] # NoOne /\ pc[s.thread[k]] = "wait" /\ s.thread[k] \notin sig /\ core[s.thread[k]] = k /\ s.running[k]
  BY DEF SlotInv, SlotsSound
<1>2. s.thread[k] \in Tasks BY <1>1, SmFields DEF SmTypes, SlotMap
<1>3. at[s.thread[k]] = k BY <1>1, <1>2 DEF SlotInv, TaskSound
<1> QED BY <1>1, <1>2, <1>3 DEF WaitersAt

\* Once all are in, it opens, unless a thread synchronises.
LEMMA OpensBarrier ==
  ASSUME NEW s, NEW pc, NEW core, NEW at, NEW sig, SmTypes(s, pc, core, at, sig),
         SlotInv(s, pc, core, at, sig), AllIn(s), NEW all
  PROVE  WaitersAt(pc, at, Released(s, all)) # {}
<1>1. s \in SmState BY DEF SmTypes
<1>2. \A k \in Slots : s.inb[k] => s.running[k] BY OpensSome
<1>3. PICK k \in Slots : k \in Released(s, all) /\ s.inb[k] BY <1>1, <1>2, ReleasedIs
<1> QED BY <1>3, OpensSome

\* signalBarrier(), with the threads where they are.
SignalsTo(s, sig, pc, at, r, new) ==
  IF isBarrierReached(s)
  THEN r = Release(s, FALSE, NoSlot) /\ new = sig \union WaitersAt(pc, at, Released(s, FALSE))
  ELSE r = s /\ new = sig

LEMMA SignalTypes ==
  ASSUME NEW s, NEW pc, NEW core, NEW at, NEW sig, SmTypes(s, pc, core, at, sig), One(s, pc),
         NEW r, NEW new, SignalsTo(s, sig, pc, at, r, new)
  PROVE  SmTypes(r, pc, core, at, new) /\ One(r, pc)
<1>1. CASE isBarrierReached(s)
  <2>1. r = Release(s, FALSE, NoSlot) /\ new = sig \union WaitersAt(pc, at, Released(s, FALSE))
    BY <1>1 DEF SignalsTo
  <2>2. r \in SmState
    <3>1. s \in SmState /\ NoSlot \in Slot BY DEF SmTypes, Slot
    <3> QED BY <2>1, <3>1, ReleaseIs DEF Opened
  <2>3. ~s.sync BY <1>1 DEF isBarrierReached
  <2>4. One(r, pc) BY <2>3 DEF One
  <2>5. new \subseteq Tasks BY <2>1 DEF SmTypes, WaitersAt
  <2> QED BY <2>2, <2>4, <2>5 DEF SmTypes
<1>2. CASE ~isBarrierReached(s) BY <1>2 DEF SignalsTo
<1> QED BY <1>1, <1>2

LEMMA SignalBar ==
  ASSUME NEW s, NEW pc, NEW core, NEW at, NEW sig, SmTypes(s, pc, core, at, sig),
         SlotInv(s, pc, core, at, sig), NEW r, NEW new, SignalsTo(s, sig, pc, at, r, new)
  PROVE  BarInv(r, pc, core, at, new)
<1>1. CASE isBarrierReached(s)
  <2>1. r = Release(s, FALSE, NoSlot) /\ new = sig \union WaitersAt(pc, at, Released(s, FALSE))
    BY <1>1 DEF SignalsTo
  <2>2. s \in SmState /\ NoSlot \in Slot /\ NoSlot \notin Slots BY SmtAssumption DEF SmTypes, Slot, NoSlot
  <2>3. Released(s, FALSE) \ {NoSlot} = Released(s, FALSE) BY <2>2, ReleasedIs
  <2>4. Opened(s, r, Released(s, FALSE)) BY <2>1, <2>2, <2>3, ReleaseIs
  <2>5. SlotInv(r, pc, core, at, new) BY <2>1, <2>4, OpensSlots
  <2>6. AllIn(s) BY <1>1 DEF isBarrierReached, AllIn
  <2>7. new # {} BY <2>1, <2>6, OpensBarrier
  <2> QED BY <2>5, <2>7 DEF BarInv, Pending
<1>2. CASE ~isBarrierReached(s)
  <2>1. r = s /\ new = sig BY <1>2 DEF SignalsTo
  <2>2. AllIn(s) => s.sync BY <1>2 DEF isBarrierReached, AllIn
  <2>3. AllIn(s) => Pending(pc, sig)
    <3>1. SUFFICES ASSUME AllIn(s) PROVE \E t \in Tasks : pc[t] = "sync" BY DEF Pending
    <3>2. PICK k \in Slots : s.inb[k] BY <3>1 DEF AllIn
    <3>3. s.running[k] BY <3>2, OpensSome
    <3>4. PICK t \in Tasks : pc[t] \in {"sync", "endless"} BY <2>2, <3>1 DEF SlotInv
    <3>5. pc[t] # "endless" BY <3>3 DEF SlotInv, TaskSound
    <3> QED BY <3>4, <3>5
  <2> QED BY <2>1, <2>3 DEF BarInv
<1> QED BY <1>1, <1>2

-----------------------------------------------------------------------------
\* A thread that goes from one place to another.
GoesTo(pc, q, t, p) == \A u \in Tasks : q[u] = IF u = t THEN p ELSE pc[u]

LEMMA GotoIs ==
  ASSUME smPc \in [Tasks -> SmPcs], NEW t \in Tasks, NEW p \in SmPcs, Goto(t, p)
  PROVE  smPc' \in [Tasks -> SmPcs] /\ GoesTo(smPc, smPc', t, p)
BY DEF Goto, GoesTo

LEMMA OneKept ==
  ASSUME NEW s, NEW pc, One(s, pc), NEW r, r.sync = s.sync, r.exec = s.exec,
         NEW t, NEW p, p \notin {"execute", "sync"}, NEW q, GoesTo(pc, q, t, p)
  PROVE  One(r, q)
BY DEF One, GoesTo

LEMMA TypesKept ==
  ASSUME NEW s, NEW pc, NEW core, NEW at, NEW sig, SmTypes(s, pc, core, at, sig),
         NEW r \in SmState, NEW t \in Tasks, NEW p, NEW q \in [Tasks -> SmPcs], GoesTo(pc, q, t, p),
         p \in {"wait", "execute", "sync"} => at[t] \in Slots, NEW new, new \subseteq Tasks
  PROVE  SmTypes(r, q, core, at, new)
BY DEF SmTypes, GoesTo

LEMMA WaitersSame ==
  ASSUME NEW pc, NEW q, NEW at, NEW b, NEW t, NEW p, GoesTo(pc, q, t, p), pc[t] # "wait", p # "wait",
         \A u \in Tasks : u # t => b[u] = at[u], NEW S
  PROVE  WaitersAt(q, b, S) = WaitersAt(pc, at, S)
BY DEF WaitersAt, GoesTo

LEMMA SlotsKept ==
  ASSUME NEW s, NEW r, r.running = s.running, r.thread = s.thread, r.sync = s.sync,
         \A j \in Slots : r.inb[j] <=> s.inb[j],
         NEW pc, NEW core, NEW at, NEW sig, BarInv(s, pc, core, at, sig),
         \A t \in Tasks : pc[t] = "wait" => at[t] \in Slots
  PROVE  BarInv(r, pc, core, at, sig)
<1>1. SlotsSound(r, pc, core, sig) BY DEF BarInv, SlotInv, SlotsSound
<1>2. ASSUME NEW t \in Tasks PROVE TaskSound(r, pc, core, at, sig, t)
  <2>1. TaskSound(s, pc, core, at, sig, t) BY DEF BarInv, SlotInv
  <2> QED BY <2>1 DEF TaskSound
<1>3. AllIn(r) => AllIn(s)
  <2>1. (\A k \in Slots : r.running[k] => r.inb[k]) => \A k \in Slots : s.running[k] => s.inb[k] OBVIOUS
  <2>2. (\E k \in Slots : r.inb[k]) => \E k \in Slots : s.inb[k] OBVIOUS
  <2> QED BY <2>1, <2>2 DEF AllIn
<1> QED BY <1>1, <1>2, <1>3 DEF BarInv, SlotInv

\* A thread outside the barrier that neither stops nor resumes.
LEMMA GoesOn ==
  ASSUME NEW s, NEW pc, NEW core, NEW at, NEW sig, SmTypes(s, pc, core, at, sig),
         SlotInv(s, pc, core, at, sig), NEW t \in Tasks, pc[t] \in {"wait", "execute", "sync"},
         pc[t] = "wait" => t \in sig,
         NEW p \in {"execute", "sync", "check", "endless"}, NEW q, GoesTo(pc, q, t, p),
         p = "endless" => \A k \in Slots : ~s.running[k],
         s.sync => \E u \in Tasks : q[u] \in {"sync", "endless"}
  PROVE  SlotInv(s, q, core, at, sig \ {t})
<1>1. \A k \in Slots : s.thread[k] # NoOne => s.thread[k] \in Tasks BY SmFields DEF SmTypes, SlotMap
<1>2. SlotsSound(s, q, core, sig \ {t}) BY <1>1 DEF SlotInv, SlotsSound, GoesTo, TaskSound
<1>3. ASSUME NEW u \in Tasks PROVE TaskSound(s, q, core, at, sig \ {t}, u)
  <2>1. TaskSound(s, pc, core, at, sig, u) BY DEF SlotInv
  <2>2. CASE u = t BY <2>1, <2>2 DEF TaskSound, GoesTo
  <2>3. CASE u # t BY <2>1, <2>3 DEF TaskSound, GoesTo
  <2> QED BY <2>2, <2>3
<1> QED BY <1>2, <1>3 DEF SlotInv

LEMMA PushInv == ASSUME SmInv, NEW t \in Tasks, pushInstruction(t), UNCHANGED smDirect PROVE SmInv'
<1> DEFINE k == smAt[t]
           x == [sm.surplus EXCEPT ![k] = @ + 1]
<1>1. /\ sm \in SmState /\ k \in Slots /\ sm' = [sm EXCEPT !.surplus = x]
      /\ UNCHANGED <<smPc, smCore, smAt, smSignal>>
  BY DEF SmInv, SmTypes, pushInstruction
<1>2. x \in Counters BY <1>1, SmFields DEF Counters
<1> HIDE DEF x
<1>3. /\ sm' \in SmState /\ sm'.running = sm.running /\ sm'.inb = sm.inb /\ sm'.thread = sm.thread
      /\ sm'.sync = sm.sync /\ sm'.exec = sm.exec
  BY <1>1, <1>2 DEF SmState
<1>4. SmTypes(sm', smPc', smCore', smAt', smSignal') BY <1>1, <1>3 DEF SmInv, SmTypes
<1>5. One(sm', smPc') BY <1>1, <1>3 DEF SmInv, One
<1>6. ~smDirect' => BarInv(sm', smPc', smCore', smAt', smSignal')
  <2>1. SUFFICES ASSUME ~smDirect PROVE BarInv(sm', smPc, smCore, smAt, smSignal) BY <1>1
  <2>2. BarInv(sm, smPc, smCore, smAt, smSignal) BY <2>1 DEF SmInv
  <2>3. \A u \in Tasks : smPc[u] = "wait" => smAt[u] \in Slots BY DEF SmInv, SmTypes
  <2>4. \A j \in Slots : sm'.inb[j] <=> sm.inb[j] BY <1>3
  <2> QED BY <2>2, <2>3, <2>4, <1>3, SlotsKept
<1> QED BY <1>4, <1>5, <1>6 DEF SmInv

LEMMA WakeInv == ASSUME SmInv, NEW t \in Tasks, simulateWake(t), ~Locked, UNCHANGED smDirect PROVE SmInv'
<1> DEFINE p == IF sm.exec = smAt[t] THEN "execute" ELSE "check"
<1>1. /\ smPc[t] = "wait" /\ t \in smSignal /\ smSignal' = smSignal \ {t}
      /\ Goto(t, p) /\ UNCHANGED <<sm, smCore, smAt>>
  BY DEF simulateWake
<1>2. SmTypes(sm, smPc, smCore, smAt, smSignal) /\ One(sm, smPc) BY DEF SmInv
<1>3. smPc' \in [Tasks -> SmPcs] /\ GoesTo(smPc, smPc', t, p)
  <2>1. p \in SmPcs BY DEF SmPcs
  <2>2. smPc \in [Tasks -> SmPcs] BY <1>2 DEF SmTypes
  <2> HIDE DEF p
  <2> QED BY <1>1, <2>1, <2>2, GotoIs
<1>4. SmTypes(sm, smPc', smCore, smAt, smSignal')
  <2>1. smAt[t] \in Slots /\ sm \in SmState /\ smSignal' \subseteq Tasks BY <1>1, <1>2 DEF SmTypes
  <2> QED BY <2>1, <1>2, <1>3, TypesKept
<1>5. One(sm, smPc')
  <2>1. CASE p = "check" BY <2>1, <1>2, <1>3, OneKept
  <2>2. CASE p = "execute"
    <3>1. sm.exec = smAt[t] /\ smAt[t] # NoSlot
      <4>1. sm.exec = smAt[t] BY <2>2
      <4>2. smAt[t] \in Slots BY <1>1, <1>2 DEF SmTypes
      <4> QED BY <4>1, <4>2, SmtAssumption DEF NoSlot
    <3>2. \A u \in Tasks : smPc[u] \notin {"execute", "sync"} BY <3>1, <1>2 DEF One, Locked
    <3> HIDE DEF p
    <3> QED BY <3>2, <2>2, <1>3 DEF One, GoesTo
  <2> QED BY <2>1, <2>2
<1>6. ~smDirect' => BarInv(sm, smPc', smCore, smAt, smSignal')
  <2>1. SUFFICES ASSUME ~smDirect PROVE BarInv(sm, smPc', smCore, smAt, smSignal') OBVIOUS
  <2>2. SlotInv(sm, smPc, smCore, smAt, smSignal) BY <2>1 DEF SmInv, BarInv
  <2>3. p \in {"execute", "check"} OBVIOUS
  <2> HIDE DEF p
  <2>4. sm.sync => \E u \in Tasks : smPc'[u] \in {"sync", "endless"}
    BY <2>2, <1>1, <1>3 DEF SlotInv, GoesTo
  <2>5. SlotInv(sm, smPc', smCore, smAt, smSignal')
    <3>1. smPc[t] \in {"wait", "execute", "sync"} /\ t \in smSignal BY <1>1
    <3>2. SmTypes(sm, smPc, smCore, smAt, smSignal) BY <1>2
    <3>3. CASE p = "execute"
      <4>1. GoesTo(smPc, smPc', t, "execute") BY <3>3, <1>3
      <4>2. SlotInv(sm, smPc', smCore, smAt, smSignal \ {t}) BY <2>2, <2>4, <3>1, <3>2, <4>1, GoesOn
      <4> QED BY <4>2, <1>1
    <3>4. CASE p = "check"
      <4>1. GoesTo(smPc, smPc', t, "check") BY <3>4, <1>3
      <4>2. SlotInv(sm, smPc', smCore, smAt, smSignal \ {t}) BY <2>2, <2>4, <3>1, <3>2, <4>1, GoesOn
      <4> QED BY <4>2, <1>1
    <3> QED BY <2>3, <3>3, <3>4
  <2>6. Pending(smPc', smSignal') BY <2>3, <1>3 DEF Pending, GoesTo
  <2> QED BY <2>5, <2>6 DEF BarInv
<1> QED BY <1>1, <1>4, <1>5, <1>6 DEF SmInv

LEMMA ExecuteInv == ASSUME SmInv, NEW t \in Tasks, smtExecute(t), UNCHANGED smDirect PROVE SmInv'
<1>1. /\ smPc[t] = "execute" /\ UNCHANGED <<smCore, smAt, smSignal>>
      /\ SmTypes(sm, smPc, smCore, smAt, smSignal) /\ One(sm, smPc)
  BY DEF smtExecute, SmInv
<1>2. smPc \in [Tasks -> SmPcs] /\ smAt[t] \in Slots /\ sm \in SmState /\ smSignal \subseteq Tasks
  BY <1>1 DEF SmTypes
<1>3. "endless" \in SmPcs /\ "sync" \in SmPcs BY DEF SmPcs
<1>4. CASE \A k \in Slots : ~sm.running[k]
  <2>1. Goto(t, "endless") /\ sm' = sm BY <1>4 DEF smtExecute
  <2>2. smPc' \in [Tasks -> SmPcs] /\ GoesTo(smPc, smPc', t, "endless") BY <2>1, <1>2, <1>3, GotoIs
  <2>3. SmTypes(sm, smPc', smCore, smAt, smSignal) BY <2>2, <1>1, <1>2, TypesKept
  <2>4. One(sm, smPc') BY <2>2, <1>1, OneKept
  <2>5. ~smDirect' => BarInv(sm, smPc', smCore, smAt, smSignal)
    <3>1. SUFFICES ASSUME ~smDirect PROVE BarInv(sm, smPc', smCore, smAt, smSignal) OBVIOUS
    <3>2. SlotInv(sm, smPc, smCore, smAt, smSignal) BY <3>1 DEF SmInv, BarInv
    <3>3. smPc'[t] = "endless" BY <2>2 DEF GoesTo
    <3>4. SlotInv(sm, smPc', smCore, smAt, smSignal \ {t}) BY <3>2, <3>3, <2>2, <1>1, <1>4, GoesOn
    <3>5. smSignal \ {t} = smSignal BY <3>2, <1>1 DEF SlotInv, TaskSound
    <3>6. ~AllIn(sm)
      <4>1. SUFFICES ASSUME NEW k \in Slots, sm.inb[k] PROVE FALSE BY DEF AllIn
      <4> QED BY <4>1, <3>2, <1>1, <1>4, OpensSome
    <3> QED BY <3>4, <3>5, <3>6 DEF BarInv
  <2> QED BY <2>1, <2>3, <2>4, <2>5, <1>1 DEF SmInv
<1>5. CASE ~(\A k \in Slots : ~sm.running[k])
  <2>1. PICK left \in [Slots -> 0 .. SmtLimit + 1] :
          sm' = [sm EXCEPT !.surplus = left, !.exec = NoSlot, !.sync = TRUE]
    BY <1>5 DEF smtExecute
  <2> DEFINE a == [sm EXCEPT !.surplus = left]
             b == [a EXCEPT !.exec = NoSlot]
             c == [b EXCEPT !.sync = TRUE]
  <2>2. sm' = c BY <2>1
  <2>3. left \in Counters BY SmtAssumption DEF Counters
  <2>4. /\ a \in SmState /\ a.running = sm.running /\ a.inb = sm.inb /\ a.thread = sm.thread
    BY <1>2, <2>3 DEF SmState
  <2> HIDE DEF a
  <2>5. /\ b \in SmState /\ b.running = sm.running /\ b.inb = sm.inb /\ b.thread = sm.thread /\ b.exec = NoSlot
    BY <2>4 DEF SmState, Slot
  <2> HIDE DEF b
  <2>6. c \in SmState
    <3>1. TRUE \in BOOLEAN OBVIOUS
    <3> QED BY <2>5, <3>1 DEF SmState
  <2>7. c.running = sm.running /\ c.inb = sm.inb /\ c.thread = sm.thread /\ c.exec = NoSlot BY <2>5 DEF SmState
  <2>8. c.sync BY <2>5 DEF SmState
  <2> HIDE DEF c
  <2>9. Goto(t, "sync") BY <1>5 DEF smtExecute
  <2>10. smPc' \in [Tasks -> SmPcs] /\ GoesTo(smPc, smPc', t, "sync") BY <2>9, <1>2, <1>3, GotoIs
  <2>11. SmTypes(c, smPc', smCore, smAt, smSignal) BY <2>6, <2>10, <1>1, <1>2, TypesKept
  <2>12. One(c, smPc') BY <2>7, <2>8, <2>10, <1>1 DEF One, GoesTo
  <2>13. ~smDirect' => BarInv(c, smPc', smCore, smAt, smSignal)
    <3>1. SUFFICES ASSUME ~smDirect PROVE BarInv(c, smPc', smCore, smAt, smSignal) OBVIOUS
    <3>2. SlotInv(sm, smPc, smCore, smAt, smSignal) BY <3>1 DEF SmInv, BarInv
    <3>3. smPc'[t] = "sync" BY <2>10 DEF GoesTo
    <3>4. SlotInv(sm, smPc', smCore, smAt, smSignal \ {t}) BY <3>2, <3>3, <2>10, <1>1, GoesOn
    <3>5. smSignal \ {t} = smSignal BY <3>2, <1>1 DEF SlotInv, TaskSound
    <3>6. SlotsSound(c, smPc', smCore, smSignal) BY <3>4, <3>5, <2>7 DEF SlotInv, SlotsSound
    <3>7. \A u \in Tasks : TaskSound(c, smPc', smCore, smAt, smSignal, u)
      BY <3>4, <3>5, <2>7 DEF SlotInv, TaskSound
    <3>8. \E u \in Tasks : smPc'[u] \in {"sync", "endless"} BY <3>3
    <3>9. Pending(smPc', smSignal) BY <3>3 DEF Pending
    <3> QED BY <3>6, <3>7, <3>8, <3>9 DEF BarInv, SlotInv
  <2> QED BY <2>2, <2>11, <2>12, <2>13, <1>1 DEF SmInv
<1> QED BY <1>4, <1>5

\* The flag in_sync.
Synced(s) == [s EXCEPT !.sync = FALSE]
LEMMA SyncedIs ==
  ASSUME NEW s \in SmState
  PROVE  LET r == Synced(s)
         IN  /\ r \in SmState /\ r.running = s.running /\ r.inb = s.inb /\ r.thread = s.thread
             /\ r.exec = s.exec /\ ~r.sync
<1>1. FALSE \in BOOLEAN OBVIOUS
<1>2. Synced(s) \in SmState BY <1>1 DEF SmState, Synced
<1>3. /\ Synced(s).running = s.running /\ Synced(s).inb = s.inb /\ Synced(s).thread = s.thread
      /\ Synced(s).exec = s.exec
  BY DEF SmState, Synced
<1>4. ~Synced(s).sync BY DEF SmState, Synced
<1> QED BY <1>2, <1>3, <1>4

LEMMA ExitInv == ASSUME SmInv, NEW t \in Tasks, simulateExit(t), UNCHANGED smDirect PROVE SmInv'
<1> DEFINE s == Synced(sm)
           gone == Released(s, TRUE) \ {smAt[t]}
<1>1. /\ smPc[t] = "sync" /\ UNCHANGED <<smCore, smAt>>
      /\ SmTypes(sm, smPc, smCore, smAt, smSignal) /\ One(sm, smPc)
  BY DEF simulateExit, SmInv
<1>2. /\ smPc \in [Tasks -> SmPcs] /\ smAt[t] \in Slots /\ sm \in SmState /\ smSignal \subseteq Tasks
      /\ smAt[t] \in Slot
  BY <1>1 DEF SmTypes, Slot
<1>3. "endless" \in SmPcs /\ "check" \in SmPcs BY DEF SmPcs
<1>4. /\ s \in SmState /\ s.running = sm.running /\ s.inb = sm.inb /\ s.thread = sm.thread /\ ~s.sync
  BY <1>2, SyncedIs
<1>5. \/ /\ \A k \in Slots : ~s.running[k]
         /\ Goto(t, "endless") /\ UNCHANGED <<sm, smSignal>>
      \/ /\ sm' = Release(s, TRUE, smAt[t]) /\ smSignal' = smSignal \union WaitingAt(gone)
         /\ Goto(t, "check")
  BY DEF simulateExit, Synced, ReleaseEndless
<1> HIDE DEF s, gone
<1>6. CASE (\A k \in Slots : ~s.running[k]) /\ Goto(t, "endless") /\ UNCHANGED <<sm, smSignal>>
  <2>1. smPc' \in [Tasks -> SmPcs] /\ GoesTo(smPc, smPc', t, "endless") BY <1>2, <1>3, <1>6, GotoIs
  <2>2. SmTypes(sm, smPc', smCore, smAt, smSignal) BY <2>1, <1>1, <1>2, TypesKept
  <2>3. One(sm, smPc') BY <2>1, <1>1, OneKept
  <2>4. ~smDirect' => BarInv(sm, smPc', smCore, smAt, smSignal)
    <3>1. SUFFICES ASSUME ~smDirect PROVE BarInv(sm, smPc', smCore, smAt, smSignal) OBVIOUS
    <3>2. SlotInv(sm, smPc, smCore, smAt, smSignal) BY <3>1 DEF SmInv, BarInv
    <3>3. smPc'[t] = "endless" /\ \A k \in Slots : ~sm.running[k] BY <2>1, <1>4, <1>6 DEF GoesTo
    <3>4. SlotInv(sm, smPc', smCore, smAt, smSignal \ {t}) BY <3>2, <3>3, <2>1, <1>1, GoesOn
    <3>5. smSignal \ {t} = smSignal BY <3>2, <1>1 DEF SlotInv, TaskSound
    <3>6. ~AllIn(sm)
      <4>1. SUFFICES ASSUME NEW k \in Slots, sm.inb[k] PROVE FALSE BY DEF AllIn
      <4> QED BY <4>1, <3>2, <3>3, <1>1, OpensSome
    <3> QED BY <3>4, <3>5, <3>6 DEF BarInv
  <2> QED BY <2>2, <2>3, <2>4, <1>1, <1>6 DEF SmInv
<1>7. CASE sm' = Release(s, TRUE, smAt[t]) /\ smSignal' = smSignal \union WaitingAt(gone) /\ Goto(t, "check")
  <2>1. smPc' \in [Tasks -> SmPcs] /\ GoesTo(smPc, smPc', t, "check") BY <1>2, <1>3, <1>7, GotoIs
  <2>2. Opened(s, sm', gone) BY <1>2, <1>4, <1>7, ReleaseIs DEF gone
  <2>3. smSignal' = smSignal \union WaitersAt(smPc', smAt, gone)
    <3>1. WaitingAt(gone) = WaitersAt(smPc, smAt, gone) BY DEF WaitingAt, WaitersAt
    <3>2. WaitersAt(smPc', smAt, gone) = WaitersAt(smPc, smAt, gone) BY <2>1, <1>1, WaitersSame
    <3> QED BY <3>1, <3>2, <1>7
  <2>4. smSignal' \subseteq Tasks BY <2>3, <1>2 DEF WaitersAt
  <2>5. sm' \in SmState BY <2>2 DEF Opened
  <2>6. SmTypes(sm', smPc', smCore, smAt, smSignal') BY <2>1, <2>4, <2>5, <1>1, TypesKept
  <2>7. One(sm', smPc') BY <2>1, <1>1 DEF One, GoesTo
  <2>8. ~smDirect' => BarInv(sm', smPc', smCore, smAt, smSignal')
    <3>1. SUFFICES ASSUME ~smDirect PROVE BarInv(sm', smPc', smCore, smAt, smSignal') OBVIOUS
    <3>2. SlotInv(sm, smPc, smCore, smAt, smSignal) BY <3>1 DEF SmInv, BarInv
    <3>3. SlotInv(s, smPc, smCore, smAt, smSignal)
      <4>1. SlotsSound(s, smPc, smCore, smSignal) BY <3>2, <1>4 DEF SlotInv, SlotsSound
      <4>2. \A u \in Tasks : TaskSound(s, smPc, smCore, smAt, smSignal, u) BY <3>2, <1>4 DEF SlotInv, TaskSound
      <4> QED BY <4>1, <4>2, <1>4 DEF SlotInv
    <3>4. SmTypes(s, smPc, smCore, smAt, smSignal) BY <1>1, <1>4 DEF SmTypes
    <3>5. SlotInv(s, smPc', smCore, smAt, smSignal \ {t}) BY <3>3, <3>4, <2>1, <1>1, <1>4, GoesOn
    <3>6. smSignal \ {t} = smSignal BY <3>2, <1>1 DEF SlotInv, TaskSound
    <3>7. SmTypes(s, smPc', smCore, smAt, smSignal) BY <2>1, <1>1, <1>2, <1>4, TypesKept
    <3>8. SlotInv(sm', smPc', smCore, smAt, smSignal') BY <3>5, <3>6, <3>7, <2>2, <2>3, OpensSlots
    <3>9. Pending(smPc', smSignal') BY <2>1 DEF Pending, GoesTo
    <3> QED BY <3>8, <3>9 DEF BarInv
  <2> QED BY <2>6, <2>7, <2>8, <1>1 DEF SmInv
<1> QED BY <1>5, <1>6, <1>7

-----------------------------------------------------------------------------
\* barrier(): the thread of a slot enters it ...
Entered(s, r, k) ==
  /\ r.running = s.running /\ r.thread = s.thread /\ r.sync = s.sync
  /\ OneFlag(s.inb, r.inb, k, TRUE)
LEMMA EntersSlots ==
  ASSUME NEW s, NEW pc, NEW core, NEW at, NEW sig, SmTypes(s, pc, core, at, sig),
         SlotInv(s, pc, core, at, sig), NEW t \in Tasks, pc[t] = "run", at[t] \in Slots,
         NEW q, GoesTo(pc, q, t, "wait"), NEW r, Entered(s, r, at[t])
  PROVE  /\ SlotInv(r, q, core, at, sig)
         /\ core[t] = at[t] /\ s.thread[at[t]] = t /\ s.running[at[t]] /\ t \notin sig
<1>1. \A k \in Slots : s.thread[k] # NoOne => s.thread[k] \in Tasks BY SmFields DEF SmTypes, SlotMap
<1>2. TaskSound(s, pc, core, at, sig, t) /\ NoSlot \notin Slots BY SmtAssumption DEF SlotInv, NoSlot
<1>3. core[t] = at[t] /\ s.thread[at[t]] = t /\ t \notin sig BY <1>2 DEF TaskSound
<1>4. t # NoOne BY SmtAssumption DEF NoOne
<1>5. s.running[at[t]] BY <1>3, <1>4 DEF SlotInv, SlotsSound
<1>6. /\ r.running = s.running /\ r.thread = s.thread /\ r.sync = s.sync
      /\ \A j \in Slots : r.inb[j] <=> j = at[t] \/ s.inb[j]
  BY DEF Entered, OneFlag
<1>7. ASSUME NEW k \in Slots
      PROVE  /\ r.thread[k] # NoOne => core[r.thread[k]] = k
             /\ r.running[k] <=> r.thread[k] # NoOne /\ q[r.thread[k]] \notin {"asleep", "gone"}
             /\ r.inb[k] => r.thread[k] # NoOne /\ q[r.thread[k]] = "wait" /\ r.thread[k] \notin sig
  <2>1. /\ s.thread[k] # NoOne => core[s.thread[k]] = k
        /\ s.running[k] <=> s.thread[k] # NoOne /\ pc[s.thread[k]] \notin {"asleep", "gone"}
        /\ s.inb[k] => s.thread[k] # NoOne /\ pc[s.thread[k]] = "wait" /\ s.thread[k] \notin sig
    BY DEF SlotInv, SlotsSound
  <2>2. CASE k = at[t] BY <2>1, <2>2, <1>3, <1>4, <1>5, <1>6 DEF GoesTo
  <2>3. CASE k # at[t]
    <3>1. s.thread[k] # NoOne => s.thread[k] # t BY <2>1, <2>3, <1>3
    <3> QED BY <3>1, <2>1, <2>3, <1>1, <1>6 DEF GoesTo
  <2> QED BY <2>2, <2>3
<1>8. ASSUME NEW u \in Tasks PROVE TaskSound(r, q, core, at, sig, u)
  <2>1. TaskSound(s, pc, core, at, sig, u) BY DEF SlotInv
  <2>2. CASE u = t
    <3>1. core[t] # Other BY <1>3, SmtAssumption DEF Other
    <3> QED BY <3>1, <2>1, <2>2, <1>3, <1>6 DEF TaskSound, GoesTo
  <2>3. CASE u # t
    <3>1. pc[u] = "wait" => at[u] \in Slots BY DEF SmTypes
    <3> QED BY <3>1, <2>1, <2>3, <1>6 DEF TaskSound, GoesTo
  <2> QED BY <2>2, <2>3
<1>9. r.sync => \E u \in Tasks : q[u] \in {"sync", "endless"} BY <1>6 DEF SlotInv, GoesTo
<1> QED BY <1>3, <1>5, <1>7, <1>8, <1>9 DEF SlotInv, SlotsSound

\* ... and leaves it, if it is the one that is released.
LEMMA LeavesSlots ==
  ASSUME NEW s, NEW pc, NEW core, NEW at, NEW sig, SmTypes(s, pc, core, at, sig),
         SlotInv(s, pc, core, at, sig), NEW t \in Tasks, pc[t] = "wait", t \notin sig,
         NEW p \in {"execute", "check"}, NEW q, GoesTo(pc, q, t, p), NEW r, r.running = s.running,
         r.thread = s.thread, r.sync = s.sync, OneFlag(s.inb, r.inb, at[t], FALSE)
  PROVE  SlotInv(r, q, core, at, sig)
<1>1. \A k \in Slots : s.thread[k] # NoOne => s.thread[k] \in Tasks BY SmFields DEF SmTypes, SlotMap
<1>2. TaskSound(s, pc, core, at, sig, t) /\ at[t] \in Slots BY DEF SlotInv, SmTypes
<1>3. core[t] = at[t] /\ s.thread[at[t]] = t BY <1>2 DEF TaskSound
<1>4. core[t] # Other BY <1>2, <1>3, SmtAssumption DEF Other
<1>5. \A j \in Slots : r.inb[j] <=> j # at[t] /\ s.inb[j] BY DEF OneFlag
<1>6. ASSUME NEW k \in Slots
      PROVE  /\ r.thread[k] # NoOne => core[r.thread[k]] = k
             /\ r.running[k] <=> r.thread[k] # NoOne /\ q[r.thread[k]] \notin {"asleep", "gone"}
             /\ r.inb[k] => r.thread[k] # NoOne /\ q[r.thread[k]] = "wait" /\ r.thread[k] \notin sig
  <2>1. /\ s.thread[k] # NoOne => core[s.thread[k]] = k
        /\ s.running[k] <=> s.thread[k] # NoOne /\ pc[s.thread[k]] \notin {"asleep", "gone"}
        /\ s.inb[k] => s.thread[k] # NoOne /\ pc[s.thread[k]] = "wait" /\ s.thread[k] \notin sig
    BY DEF SlotInv, SlotsSound
  <2>2. r.inb[k] => s.thread[k] # t BY <2>1, <1>3, <1>5
  <2> QED BY <2>1, <2>2, <1>1, <1>5 DEF GoesTo
<1>7. ASSUME NEW u \in Tasks PROVE TaskSound(r, q, core, at, sig, u)
  <2>1. TaskSound(s, pc, core, at, sig, u) BY DEF SlotInv
  <2>2. CASE u = t BY <2>1, <2>2, <1>4 DEF TaskSound, GoesTo
  <2>3. CASE u # t
    <3>1. pc[u] = "wait" => at[u] \in Slots BY DEF SmTypes
    <3>2. core[u] = at[t] => FALSE BY <2>1, <2>3, <1>2, <1>3 DEF TaskSound
    <3> QED BY <3>1, <3>2, <2>1, <2>3, <1>5 DEF TaskSound, GoesTo
  <2> QED BY <2>2, <2>3
<1>8. r.sync => \E u \in Tasks : q[u] \in {"sync", "endless"} BY DEF SlotInv, GoesTo
<1> QED BY <1>6, <1>7, <1>8 DEF SlotInv, SlotsSound

\* The four ways through barrier().
EnterCases(t, s, rel, k) ==
  \/ sm.thread[k] = NoOne /\ Goto(t, "failed") /\ UNCHANGED <<sm, smSignal>>
  \/ /\ ~isBarrierReached(s)
     /\ Goto(t, "wait") /\ sm' = s /\ smSignal' = smSignal \ {t}
  \/ ReleaseEndless(s) /\ Goto(t, "endless") /\ UNCHANGED <<sm, smSignal>>
  \/ /\ isBarrierReached(s)
     /\ sm' = InBarrier(Release(s, FALSE, k), k, k \notin rel)
     /\ smSignal' = (smSignal \ {t}) \union WaitingAt(rel \ {k})
     /\ \/ k \notin rel /\ Goto(t, "wait")
        \/ k \in rel /\ \E p \in {"execute", "check"} : Goto(t, p)

LEMMA EnterIs ==
  ASSUME SmInv, NEW t \in Tasks, simulateEnter(t)
  PROVE  LET k == smAt[t]
             s == InBarrier(sm, k, TRUE)
         IN  /\ smPc[t] = "run" /\ k \in Slots /\ UNCHANGED <<smCore, smAt>>
             /\ EnterCases(t, s, Released(s, FALSE), k)
BY DEF simulateEnter, EnterCases, InBarrier

LEMMA EnterInv == ASSUME SmInv, NEW t \in Tasks, simulateEnter(t), ~Locked, UNCHANGED smDirect PROVE SmInv'
<1> DEFINE k == smAt[t]
           s == InBarrier(sm, k, TRUE)
           rel == Released(s, FALSE)
           gone == rel \ {k}
           q == [smPc EXCEPT ![t] = "wait"]
           r == Release(s, FALSE, k)
           new == smSignal \union WaitersAt(q, smAt, gone)
<1>1. smPc[t] = "run" /\ k \in Slots /\ UNCHANGED <<smCore, smAt>> /\ EnterCases(t, s, rel, k)
  BY EnterIs
<1>2. SmTypes(sm, smPc, smCore, smAt, smSignal) /\ One(sm, smPc) BY DEF SmInv
<1>3. /\ smPc \in [Tasks -> SmPcs] /\ sm \in SmState /\ smSignal \subseteq Tasks
      /\ TRUE \in BOOLEAN /\ FALSE \in BOOLEAN /\ k \in Slot /\ smSignal \ {t} \subseteq Tasks
  BY <1>1, <1>2 DEF SmTypes, Slot
<1>4. {"failed", "wait", "endless", "execute", "check"} \subseteq SmPcs BY DEF SmPcs
<1>5. /\ s \in SmState /\ s.running = sm.running /\ s.thread = sm.thread /\ s.sync = sm.sync
      /\ s.exec = sm.exec /\ OneFlag(sm.inb, s.inb, k, TRUE)
  BY <1>1, <1>3, InBarrierIs
<1>6. q \in [Tasks -> SmPcs] /\ GoesTo(smPc, q, t, "wait")
  BY <1>3, <1>4 DEF GoesTo
<1> HIDE DEF s, q
<1>7. SmTypes(s, q, smCore, smAt, smSignal) BY <1>1, <1>2, <1>3, <1>5, <1>6, TypesKept
<1>8. ASSUME ~smDirect
      PROVE  /\ SlotInv(s, q, smCore, smAt, smSignal)
             /\ sm.thread[k] = t /\ sm.running[k] /\ t \notin smSignal
  <2>1. SlotInv(sm, smPc, smCore, smAt, smSignal) BY <1>8 DEF SmInv, BarInv
  <2>2. Entered(sm, s, smAt[t]) /\ smAt[t] \in Slots BY <1>1, <1>5 DEF Entered
  <2>3. /\ SlotInv(s, q, smCore, smAt, smSignal)
        /\ smCore[t] = smAt[t] /\ sm.thread[smAt[t]] = t /\ sm.running[smAt[t]] /\ t \notin smSignal
    <3>1. smPc[t] = "run" BY <1>1
    <3>2. SmTypes(sm, smPc, smCore, smAt, smSignal) BY <1>2
    <3>3. GoesTo(smPc, q, t, "wait") BY <1>6
    <3> QED BY <2>1, <2>2, <3>1, <3>2, <3>3, EntersSlots
  <2> QED BY <2>3
<1>9. CASE \E p \in {"failed", "endless"} : Goto(t, p) /\ UNCHANGED <<sm, smSignal>>
                                           /\ (p = "failed" => sm.thread[k] = NoOne)
                                           /\ (p = "endless" => ReleaseEndless(s))
  <2>1. PICK p \in {"failed", "endless"} : Goto(t, p) /\ UNCHANGED <<sm, smSignal>>
                                           /\ (p = "failed" => sm.thread[k] = NoOne)
                                           /\ (p = "endless" => ReleaseEndless(s))
    BY <1>9
  <2>2. smPc' \in [Tasks -> SmPcs] /\ GoesTo(smPc, smPc', t, p) BY <2>1, <1>3, <1>4, GotoIs
  <2>3. SmTypes(sm, smPc', smCore, smAt, smSignal) BY <2>2, <1>2, <1>3, TypesKept
  <2>4. One(sm, smPc') BY <2>2, <1>2, OneKept
  <2>5. smDirect
    <3>1. SUFFICES ASSUME ~smDirect PROVE FALSE OBVIOUS
    <3>2. sm.thread[k] = t /\ sm.running[k] BY <3>1, <1>8
    <3>3. t # NoOne BY SmtAssumption DEF NoOne
    <3> QED BY <3>2, <3>3, <2>1, <1>1, <1>5 DEF ReleaseEndless
  <2> QED BY <2>1, <2>3, <2>4, <2>5, <1>1 DEF SmInv
<1>10. CASE ~isBarrierReached(s) /\ Goto(t, "wait") /\ sm' = s /\ smSignal' = smSignal \ {t}
  <2>1. smPc' = q BY <1>10 DEF Goto, q
  <2>2. SmTypes(s, q, smCore, smAt, smSignal \ {t}) BY <1>3, <1>7 DEF SmTypes
  <2>3. One(s, q) BY <1>2, <1>5, <1>6, OneKept
  <2>4. ~smDirect => BarInv(s, q, smCore, smAt, smSignal \ {t})
    <3>1. SUFFICES ASSUME ~smDirect PROVE BarInv(s, q, smCore, smAt, smSignal \ {t}) OBVIOUS
    <3>2. SlotInv(s, q, smCore, smAt, smSignal) /\ t \notin smSignal BY <3>1, <1>8
    <3>3. SignalsTo(s, smSignal, q, smAt, s, smSignal) BY <1>10 DEF SignalsTo
    <3>4. BarInv(s, q, smCore, smAt, smSignal) BY <3>2, <3>3, <1>7, SignalBar
    <3>5. smSignal \ {t} = smSignal BY <3>2
    <3> QED BY <3>4, <3>5
  <2> QED BY <2>1, <2>2, <2>3, <2>4, <1>1, <1>10 DEF SmInv
<1>11. CASE /\ isBarrierReached(s)
            /\ sm' = InBarrier(r, k, k \notin rel)
            /\ smSignal' = (smSignal \ {t}) \union WaitingAt(gone)
            /\ \/ k \notin rel /\ Goto(t, "wait")
               \/ k \in rel /\ \E p \in {"execute", "check"} : Goto(t, p)
  <2>1. Opened(s, r, gone) BY <1>3, <1>5, ReleaseIs
  <2>2. AllIn(s) /\ ~sm.sync BY <1>5, <1>11 DEF isBarrierReached, AllIn
  <2>3. WaitersAt(q, smAt, gone) = WaitingAt(gone)
    BY <1>1, <1>6 DEF WaitersAt, WaitingAt, GoesTo
  <2>4. smSignal' \subseteq Tasks /\ smSignal' = (smSignal \ {t}) \union WaitersAt(q, smAt, gone)
    BY <2>3, <1>3, <1>11 DEF WaitersAt
  <2> HIDE DEF r
  <2>5. (k \notin rel) \in BOOLEAN OBVIOUS
  <2>6. /\ sm' \in SmState /\ sm'.running = r.running /\ sm'.thread = r.thread /\ sm'.sync = r.sync
        /\ OneFlag(r.inb, sm'.inb, k, k \notin rel)
    <3>1. r \in SmState BY <2>1 DEF Opened
    <3> HIDE DEF rel
    <3> QED BY <3>1, <2>5, <1>1, <1>11, InBarrierIs
  <2>7. \A u \in Tasks : smPc[u] \notin {"execute", "sync"} BY <2>2, <1>2 DEF One, Locked
  <2>8. ASSUME ~smDirect
        PROVE  /\ SlotInv(r, q, smCore, smAt, new)
               /\ t \notin new /\ smSignal' = new
    <3>1. SlotInv(s, q, smCore, smAt, smSignal) /\ t \notin smSignal BY <2>8, <1>8
    <3>2. SlotInv(r, q, smCore, smAt, new) BY <3>1, <2>1, <1>7, OpensSlots
    <3>3. t \notin WaitersAt(q, smAt, gone) BY DEF WaitersAt
    <3>4. smSignal \ {t} = smSignal BY <3>1
    <3> QED BY <3>1, <3>2, <3>3, <3>4, <2>4
  <2>9. CASE k \notin rel /\ Goto(t, "wait")
    <3>1. smPc' = q BY <2>9 DEF Goto, q
    <3>2. SmTypes(sm', q, smCore, smAt, smSignal') BY <2>4, <2>6, <1>7 DEF SmTypes
    <3>3. One(sm', q) BY <2>7, <1>6 DEF One, GoesTo
    <3>4. ~smDirect => BarInv(sm', q, smCore, smAt, smSignal')
      <4>1. SUFFICES ASSUME ~smDirect PROVE BarInv(sm', q, smCore, smAt, new) BY <2>8
      <4>2. gone = rel BY <2>9
      <4>3. WaitersAt(q, smAt, gone) # {} BY <4>1, <4>2, <2>2, <1>7, <1>8, OpensBarrier
      <4>4. BarInv(r, q, smCore, smAt, new) BY <4>1, <4>3, <2>8 DEF BarInv, Pending
      <4>5. \A j \in Slots : sm'.inb[j] <=> r.inb[j]
        <5>1. r.inb[k] BY <4>2, <2>1, <2>9, <1>1, <1>5 DEF Opened, OneFlag
        <5> HIDE DEF rel
        <5> QED BY <5>1, <2>6, <2>9 DEF OneFlag
      <4>6. \A u \in Tasks : q[u] = "wait" => smAt[u] \in Slots BY <1>7 DEF SmTypes
      <4> HIDE DEF new
      <4> QED BY <4>4, <4>5, <4>6, <2>6, SlotsKept
    <3> QED BY <3>1, <3>2, <3>3, <3>4, <1>1 DEF SmInv
  <2>10. CASE k \in rel /\ \E p \in {"execute", "check"} : Goto(t, p)
    <3>1. PICK p \in {"execute", "check"} : Goto(t, p) BY <2>10
    <3>2. smPc' \in [Tasks -> SmPcs] /\ GoesTo(smPc, smPc', t, p) BY <3>1, <1>3, <1>4, GotoIs
    <3>3. SmTypes(sm', smPc', smCore, smAt, smSignal')
      <4>1. sm' \in SmState /\ smSignal' \subseteq Tasks /\ smAt[t] \in Slots BY <2>4, <2>6, <1>1
      <4> QED BY <4>1, <3>2, <1>2, TypesKept
    <3>4. One(sm', smPc') BY <3>2, <2>7 DEF One, GoesTo
    <3>5. ~smDirect => BarInv(sm', smPc', smCore, smAt, smSignal')
      <4>1. SUFFICES ASSUME ~smDirect PROVE BarInv(sm', smPc', smCore, smAt, new) BY <2>8
      <4>2. GoesTo(q, smPc', t, p) /\ q[t] = "wait" BY <3>2, <1>6 DEF GoesTo
      <4>3. OneFlag(r.inb, sm'.inb, k, FALSE)
        <5>1. (k \notin rel) <=> FALSE BY <2>10
        <5> HIDE DEF rel
        <5> QED BY <5>1, <2>6 DEF OneFlag
      <4>4. SmTypes(r, q, smCore, smAt, new)
        <5>1. r \in SmState /\ new \subseteq Tasks BY <2>1, <1>3 DEF Opened, WaitersAt
        <5> HIDE DEF new
        <5> QED BY <5>1, <1>7 DEF SmTypes
      <4>5. SlotInv(r, q, smCore, smAt, new) /\ t \notin new BY <4>1, <2>8
      <4> HIDE DEF new, k
      <4>6. SlotInv(sm', smPc', smCore, smAt, new)
        BY <4>2, <4>3, <4>4, <4>5, <2>6, LeavesSlots DEF k
      <4>7. Pending(smPc', new) BY <3>2 DEF Pending, GoesTo
      <4> QED BY <4>6, <4>7 DEF BarInv
    <3> QED BY <3>3, <3>4, <3>5, <1>1 DEF SmInv
  <2> QED BY <2>9, <2>10, <1>11
<1>12. \/ \E p \in {"failed", "endless"} : Goto(t, p) /\ UNCHANGED <<sm, smSignal>>
                                           /\ (p = "failed" => sm.thread[k] = NoOne)
                                           /\ (p = "endless" => ReleaseEndless(s))
       \/ ~isBarrierReached(s) /\ Goto(t, "wait") /\ sm' = s /\ smSignal' = smSignal \ {t}
       \/ /\ isBarrierReached(s)
          /\ sm' = InBarrier(r, k, k \notin rel)
          /\ smSignal' = (smSignal \ {t}) \union WaitingAt(gone)
          /\ \/ k \notin rel /\ Goto(t, "wait")
             \/ k \in rel /\ \E p \in {"execute", "check"} : Goto(t, p)
  BY <1>1 DEF EnterCases
<1> QED BY <1>9, <1>10, <1>11, <1>12

-----------------------------------------------------------------------------
\* The hooks.
LEMMA SetRunningIs ==
  ASSUME sm \in SmState, NEW k \in Slot, NEW b \in BOOLEAN
  PROVE  LET r == SetRunning(k, b)
         IN  /\ r \in SmState /\ r.inb = sm.inb /\ r.thread = sm.thread
             /\ r.sync = sm.sync /\ r.exec = sm.exec
             /\ \A j \in Slots : r.running[j] <=> IF j = k THEN b ELSE sm.running[j]
<1>1. NoSlot \notin Slots BY SmtAssumption DEF NoSlot
<1>2. CASE k = NoSlot
  <2>1. SetRunning(k, b) = sm BY <1>2 DEF SetRunning
  <2>2. \A j \in Slots : j # k BY <1>1, <1>2
  <2> QED BY <2>1, <2>2
<1>3. CASE k # NoSlot
  <2>1. SetRunning(k, b) = RunningSlots(sm, k, b) BY <1>3 DEF SetRunning, RunningSlots
  <2>2. k \in Slots BY <1>3 DEF Slot
  <2> QED BY <2>1, <2>2, RunningIs DEF OneFlag
<1> QED BY <1>2, <1>3

LEMMA SignalIs ==
  ASSUME NEW s, signalBarrier(s), NEW q, NEW b, NEW t, NEW p, GoesTo(smPc, q, t, p),
         smPc[t] # "wait", p # "wait", \A u \in Tasks : u # t => b[u] = smAt[u]
  PROVE  SignalsTo(s, smSignal, q, b, sm', smSignal')
<1>1. WaitingAt(Released(s, FALSE)) = WaitersAt(smPc, smAt, Released(s, FALSE)) BY DEF WaitingAt, WaitersAt
<1>2. WaitersAt(q, b, Released(s, FALSE)) = WaitersAt(smPc, smAt, Released(s, FALSE))
  BY DEF WaitersAt, GoesTo
<1> QED BY <1>1, <1>2 DEF signalBarrier, SignalsTo

\* A thread stops or resumes, and its slot with it.
Turned(s, r, k, b) ==
  /\ r.inb = s.inb /\ r.thread = s.thread /\ r.sync = s.sync
  /\ \A j \in Slots : r.running[j] <=> IF j = k THEN b ELSE s.running[j]
LEMMA TurnsSlots ==
  ASSUME NEW s, NEW pc, NEW core, NEW at, NEW sig, SmTypes(s, pc, core, at, sig),
         SlotInv(s, pc, core, at, sig), NEW t \in Tasks, pc[t] \in {"run", "asleep"},
         NEW p \in {"run", "asleep", "gone"}, p = "run" => core[t] # NoSlot,
         NEW q, GoesTo(pc, q, t, p), \A u \in Tasks : pc[u] # "endless",
         NEW b, b <=> p = "run", NEW r, Turned(s, r, findSmtThreadFromThread(s, t), b)
  PROVE  SlotInv(r, q, core, at, sig)
<1> DEFINE k == findSmtThreadFromThread(s, t)
<1>1. /\ \A j \in Slots : s.thread[j] # NoOne => s.thread[j] \in Tasks
      /\ t # NoOne /\ NoSlot \notin Slots
  BY SmFields, SmtAssumption DEF SmTypes, SlotMap, NoOne, NoSlot
<1>2. /\ k = NoSlot => \A j \in Slots : s.thread[j] # t
      /\ k # NoSlot => k \in Slots /\ s.thread[k] = t
  BY FindIs
<1>3. /\ r.inb = s.inb /\ r.thread = s.thread /\ r.sync = s.sync
      /\ \A j \in Slots : r.running[j] <=> IF j = k THEN p = "run" ELSE s.running[j]
  BY DEF Turned
<1> HIDE DEF k
<1>4. ASSUME NEW j \in Slots
      PROVE  /\ r.thread[j] # NoOne => core[r.thread[j]] = j
             /\ r.running[j] <=> r.thread[j] # NoOne /\ q[r.thread[j]] \notin {"asleep", "gone"}
             /\ r.inb[j] => r.thread[j] # NoOne /\ q[r.thread[j]] = "wait" /\ r.thread[j] \notin sig
  <2>1. /\ s.thread[j] # NoOne => core[s.thread[j]] = j
        /\ s.running[j] <=> s.thread[j] # NoOne /\ pc[s.thread[j]] \notin {"asleep", "gone"}
        /\ s.inb[j] => s.thread[j] # NoOne /\ pc[s.thread[j]] = "wait" /\ s.thread[j] \notin sig
    BY DEF SlotInv, SlotsSound
  <2>2. CASE j = k
    <3>1. s.thread[j] = t BY <2>2, <1>1, <1>2
    <3>2. q[t] = p BY DEF GoesTo
    <3> QED BY <3>1, <3>2, <2>1, <2>2, <1>1, <1>3
  <2>3. CASE j # k
    <3>1. s.thread[j] # t
      <4>1. SUFFICES ASSUME s.thread[j] = t PROVE FALSE OBVIOUS
      <4>2. core[t] = j BY <4>1, <2>1, <1>1
      <4>3. k \in Slots /\ s.thread[k] = t BY <4>1, <1>2
      <4>4. core[t] = k BY <4>3, <1>1 DEF SlotInv, SlotsSound
      <4> QED BY <4>2, <4>4, <2>3
    <3> QED BY <3>1, <2>1, <2>3, <1>1, <1>3 DEF GoesTo
  <2> QED BY <2>2, <2>3
<1>5. ASSUME NEW u \in Tasks PROVE TaskSound(r, q, core, at, sig, u)
  <2>1. TaskSound(s, pc, core, at, sig, u) BY DEF SlotInv
  <2>2. q[u] = IF u = t THEN p ELSE pc[u] BY DEF GoesTo
  <2>3. q[u] # "endless" BY <2>2
  <2>4. CASE u = t BY <2>1, <2>2, <2>3, <2>4, <1>3 DEF TaskSound
  <2>5. CASE u # t
    <3>1. q[u] = pc[u] BY <2>2, <2>5
    <3> QED BY <3>1, <2>1, <2>3, <1>3 DEF TaskSound
  <2> QED BY <2>4, <2>5
<1>6. r.sync => \E u \in Tasks : q[u] \in {"sync", "endless"} BY <1>3 DEF SlotInv, GoesTo
<1> QED BY <1>4, <1>5, <1>6 DEF SlotInv, SlotsSound

LEMMA StopsInv ==
  ASSUME SmInv, NEW t \in Tasks, NEW p \in {"asleep", "gone"}, threadStops(t, p), ~Locked, UNCHANGED smDirect
  PROVE  SmInv'
<1> DEFINE k == findSmtThreadFromThread(sm, t)
           s == SetRunning(k, FALSE)
<1>1. smPc[t] = "run" /\ signalBarrier(s) /\ Goto(t, p) /\ UNCHANGED <<smCore, smAt>> BY DEF threadStops
<1>2. SmTypes(sm, smPc, smCore, smAt, smSignal) /\ One(sm, smPc) BY DEF SmInv
<1>3. smPc \in [Tasks -> SmPcs] /\ sm \in SmState /\ smSignal \subseteq Tasks BY <1>2 DEF SmTypes
<1>4. p \in SmPcs BY DEF SmPcs
<1>5. smPc' \in [Tasks -> SmPcs] /\ GoesTo(smPc, smPc', t, p) BY <1>1, <1>3, <1>4, GotoIs
<1>6. k \in Slot /\ FALSE \in BOOLEAN BY FindIs
<1>7. /\ s \in SmState /\ s.inb = sm.inb /\ s.thread = sm.thread /\ s.sync = sm.sync /\ s.exec = sm.exec
      /\ \A j \in Slots : s.running[j] <=> IF j = k THEN FALSE ELSE sm.running[j]
  <2> HIDE DEF k
  <2> QED BY <1>3, <1>6, SetRunningIs
<1>8. Turned(sm, s, k, FALSE) BY <1>7 DEF Turned
<1> HIDE DEF s
<1>9. SignalsTo(s, smSignal, smPc', smAt, sm', smSignal') BY <1>1, <1>5, SignalIs
<1>10. SmTypes(s, smPc', smCore, smAt, smSignal) BY <1>2, <1>3, <1>5, <1>7, TypesKept
<1>11. One(s, smPc') BY <1>2, <1>5, <1>7, OneKept
<1>12. SmTypes(sm', smPc', smCore, smAt, smSignal') /\ One(sm', smPc') BY <1>9, <1>10, <1>11, SignalTypes
<1>13. ASSUME ~smDirect PROVE BarInv(sm', smPc', smCore, smAt, smSignal')
  <2>1. SlotInv(sm, smPc, smCore, smAt, smSignal) BY <1>13 DEF SmInv, BarInv
  <2>2. \A u \in Tasks : smPc[u] # "endless" BY DEF Locked
  <2>3. SlotInv(s, smPc', smCore, smAt, smSignal) BY <2>1, <2>2, <1>1, <1>2, <1>5, <1>8, TurnsSlots
  <2> QED BY <2>3, <1>9, <1>10, SignalBar
<1> QED BY <1>1, <1>12, <1>13 DEF SmInv

LEMMA ResumesInv ==
  ASSUME SmInv, NEW t \in Tasks, threadResumes(t), ~Locked, UNCHANGED smDirect
  PROVE  SmInv'
<1> DEFINE k == findSmtThreadFromThread(sm, t)
<1>1. /\ smPc[t] = "asleep" /\ smCore[t] # NoSlot /\ sm' = SetRunning(k, TRUE) /\ Goto(t, "run")
      /\ UNCHANGED <<smCore, smAt, smSignal>>
  BY DEF threadResumes
<1>2. SmTypes(sm, smPc, smCore, smAt, smSignal) /\ One(sm, smPc) BY DEF SmInv
<1>3. smPc \in [Tasks -> SmPcs] /\ sm \in SmState /\ smSignal \subseteq Tasks BY <1>2 DEF SmTypes
<1>4. "run" \in SmPcs BY DEF SmPcs
<1>5. smPc' \in [Tasks -> SmPcs] /\ GoesTo(smPc, smPc', t, "run") BY <1>1, <1>3, <1>4, GotoIs
<1>6. k \in Slot /\ TRUE \in BOOLEAN BY FindIs
<1>7. /\ sm' \in SmState /\ sm'.inb = sm.inb /\ sm'.thread = sm.thread /\ sm'.sync = sm.sync
      /\ sm'.exec = sm.exec
      /\ \A j \in Slots : sm'.running[j] <=> IF j = k THEN TRUE ELSE sm.running[j]
  <2> HIDE DEF k
  <2> QED BY <1>1, <1>3, <1>6, SetRunningIs
<1>8. Turned(sm, sm', k, TRUE) BY <1>7 DEF Turned
<1>9. SmTypes(sm', smPc', smCore, smAt, smSignal) BY <1>2, <1>3, <1>5, <1>7, TypesKept
<1>10. One(sm', smPc') BY <1>2, <1>5, <1>7, OneKept
<1>11. ASSUME ~smDirect PROVE BarInv(sm', smPc', smCore, smAt, smSignal)
  <2>1. BarInv(sm, smPc, smCore, smAt, smSignal) BY <1>11 DEF SmInv
  <2>2. \A u \in Tasks : smPc[u] # "endless" BY DEF Locked
  <2>3. SlotInv(sm, smPc, smCore, smAt, smSignal) BY <2>1 DEF BarInv
  <2>4. SlotInv(sm', smPc', smCore, smAt, smSignal) BY <2>2, <2>3, <1>1, <1>2, <1>5, <1>8, TurnsSlots
  <2>5. ASSUME AllIn(sm') PROVE Pending(smPc', smSignal)
    <3>1. ASSUME k \in Slots PROVE FALSE
      <4>1. sm.inb[k] BY <3>1, <2>5, <1>7 DEF AllIn
      <4>2. sm.thread[k] = t BY <3>1, FindIs, SmtAssumption DEF NoSlot
      <4> HIDE DEF k
      <4> QED BY <4>1, <4>2, <3>1, <2>3, <1>1 DEF SlotInv, SlotsSound
    <3>2. \A j \in Slots : j # k BY <3>1
    <3>3. AllIn(sm) BY <3>2, <2>5, <1>7 DEF AllIn
    <3> QED BY <3>3, <2>1, <1>1, <1>5 DEF BarInv, Pending, GoesTo
  <2> QED BY <2>4, <2>5 DEF BarInv
<1> QED BY <1>1, <1>9, <1>10, <1>11 DEF SmInv

\* Thread::reschedule(): the host thread looks at the core of its thread.
LooksAt(at, b, t, c) == \A u \in Tasks : b[u] = IF u = t THEN c ELSE at[u]
LEMMA LooksSlots ==
  ASSUME NEW s, NEW pc, NEW core, NEW at, NEW sig, SmTypes(s, pc, core, at, sig),
         SlotInv(s, pc, core, at, sig), NEW t \in Tasks, pc[t] \in {"run", "check"},
         NEW p \in {"run", "asleep"}, p = "run" <=> core[t] # NoSlot,
         NEW q, GoesTo(pc, q, t, p), NEW b, LooksAt(at, b, t, core[t])
  PROVE  SlotInv(s, q, core, b, sig)
<1>1. /\ \A j \in Slots : s.thread[j] # NoOne => s.thread[j] \in Tasks
      /\ t # NoOne /\ NoSlot \notin Slots
  BY SmFields, SmtAssumption DEF SmTypes, SlotMap, NoOne, NoSlot
<1>2. ASSUME NEW j \in Slots
      PROVE  /\ s.thread[j] # NoOne => core[s.thread[j]] = j
             /\ s.running[j] <=> s.thread[j] # NoOne /\ q[s.thread[j]] \notin {"asleep", "gone"}
             /\ s.inb[j] => s.thread[j] # NoOne /\ q[s.thread[j]] = "wait" /\ s.thread[j] \notin sig
  <2>1. /\ s.thread[j] # NoOne => core[s.thread[j]] = j
        /\ s.running[j] <=> s.thread[j] # NoOne /\ pc[s.thread[j]] \notin {"asleep", "gone"}
        /\ s.inb[j] => s.thread[j] # NoOne /\ pc[s.thread[j]] = "wait" /\ s.thread[j] \notin sig
    BY DEF SlotInv, SlotsSound
  <2>2. CASE s.thread[j] = t
    <3>1. core[t] = j BY <2>1, <2>2, <1>1
    <3>2. q[t] = "run" BY <3>1, <1>1 DEF GoesTo
    <3> QED BY <3>2, <2>1, <2>2
  <2>3. CASE s.thread[j] # t BY <2>1, <2>3, <1>1 DEF GoesTo
  <2> QED BY <2>2, <2>3
<1>3. ASSUME NEW u \in Tasks PROVE TaskSound(s, q, core, b, sig, u)
  <2>1. TaskSound(s, pc, core, at, sig, u) BY DEF SlotInv
  <2>2. q[u] = (IF u = t THEN p ELSE pc[u]) /\ b[u] = (IF u = t THEN core[t] ELSE at[u]) BY DEF GoesTo, LooksAt
  <2>3. CASE u = t
    <3>1. q[u] = p /\ b[u] = core[u] BY <2>2, <2>3
    <3> QED BY <3>1, <2>1, <2>3 DEF TaskSound
  <2>4. CASE u # t
    <3>1. q[u] = pc[u] /\ b[u] = at[u] BY <2>2, <2>4
    <3> QED BY <3>1, <2>1 DEF TaskSound
  <2> QED BY <2>3, <2>4
<1>4. s.sync => \E u \in Tasks : q[u] \in {"sync", "endless"} BY DEF SlotInv, GoesTo
<1> QED BY <1>2, <1>3, <1>4 DEF SlotInv, SlotsSound

LEMMA LooksTypes ==
  ASSUME NEW s, NEW pc, NEW core, NEW at, NEW sig, SmTypes(s, pc, core, at, sig),
         NEW t \in Tasks, NEW p \in {"run", "asleep"}, NEW q \in [Tasks -> SmPcs], GoesTo(pc, q, t, p),
         NEW b, b = [at EXCEPT ![t] = core[t]]
  PROVE  SmTypes(s, q, core, b, sig) /\ LooksAt(at, b, t, core[t])
<1>1. at \in [Tasks -> Cores] /\ core[t] \in Cores BY DEF SmTypes
<1>2. b \in [Tasks -> Cores] /\ LooksAt(at, b, t, core[t]) BY <1>1 DEF LooksAt
<1>3. ASSUME NEW u \in Tasks, q[u] \in {"wait", "execute", "sync"} PROVE b[u] \in Slots
  <2>1. u # t BY <1>3 DEF GoesTo
  <2>2. q[u] = pc[u] /\ b[u] = at[u] BY <2>1, <1>2 DEF GoesTo, LooksAt
  <2> QED BY <2>2, <1>3 DEF SmTypes
<1> QED BY <1>2, <1>3 DEF SmTypes

LEMMA RescheduleInv ==
  ASSUME SmInv, NEW t \in Tasks, rescheduleHost(t), UNCHANGED smDirect
  PROVE  SmInv'
<1>1. /\ smPc[t] \in {"run", "check"} /\ smAt' = [smAt EXCEPT ![t] = smCore[t]] /\ UNCHANGED smCore
      /\ \/ smCore[t] = NoSlot /\ Goto(t, "asleep") /\ signalBarrier(sm)
         \/ smCore[t] # NoSlot /\ Goto(t, "run") /\ UNCHANGED <<sm, smSignal>>
  BY DEF rescheduleHost
<1>2. SmTypes(sm, smPc, smCore, smAt, smSignal) /\ One(sm, smPc) BY DEF SmInv
<1>3. smPc \in [Tasks -> SmPcs] BY <1>2 DEF SmTypes
<1>4. "run" \in SmPcs /\ "asleep" \in SmPcs BY DEF SmPcs
<1>5. CASE smCore[t] = NoSlot /\ Goto(t, "asleep") /\ signalBarrier(sm)
  <2>1. smPc' \in [Tasks -> SmPcs] /\ GoesTo(smPc, smPc', t, "asleep") BY <1>3, <1>4, <1>5, GotoIs
  <2>2. SmTypes(sm, smPc', smCore, smAt', smSignal) /\ LooksAt(smAt, smAt', t, smCore[t])
    BY <2>1, <1>1, <1>2, LooksTypes
  <2>3. One(sm, smPc') BY <2>1, <1>2, OneKept
  <2>4. SignalsTo(sm, smSignal, smPc', smAt', sm', smSignal')
    <3>1. signalBarrier(sm) /\ smPc[t] # "wait" BY <1>1, <1>5
    <3>2. \A u \in Tasks : u # t => smAt'[u] = smAt[u] BY <2>2 DEF LooksAt
    <3> QED BY <3>1, <3>2, <2>1, SignalIs
  <2>5. SmTypes(sm', smPc', smCore, smAt', smSignal') /\ One(sm', smPc') BY <2>2, <2>3, <2>4, SignalTypes
  <2>6. ASSUME ~smDirect PROVE BarInv(sm', smPc', smCore, smAt', smSignal')
    <3>1. SlotInv(sm, smPc, smCore, smAt, smSignal) BY <2>6 DEF SmInv, BarInv
    <3>2. SlotInv(sm, smPc', smCore, smAt', smSignal) BY <3>1, <2>1, <2>2, <1>1, <1>2, <1>5, LooksSlots
    <3> QED BY <3>2, <2>2, <2>4, SignalBar
  <2> QED BY <2>5, <2>6, <1>1 DEF SmInv
<1>6. CASE smCore[t] # NoSlot /\ Goto(t, "run") /\ UNCHANGED <<sm, smSignal>>
  <2>1. smPc' \in [Tasks -> SmPcs] /\ GoesTo(smPc, smPc', t, "run") BY <1>3, <1>4, <1>6, GotoIs
  <2>2. SmTypes(sm, smPc', smCore, smAt', smSignal) /\ LooksAt(smAt, smAt', t, smCore[t])
    BY <2>1, <1>1, <1>2, LooksTypes
  <2>3. One(sm, smPc') BY <2>1, <1>2, OneKept
  <2>4. ASSUME ~smDirect PROVE BarInv(sm, smPc', smCore, smAt', smSignal)
    <3>1. BarInv(sm, smPc, smCore, smAt, smSignal) BY <2>4 DEF SmInv
    <3>2. SlotInv(sm, smPc, smCore, smAt, smSignal) BY <3>1 DEF BarInv
    <3>3. SlotInv(sm, smPc', smCore, smAt', smSignal) BY <3>2, <2>1, <2>2, <1>1, <1>2, <1>6, LooksSlots
    <3>4. ASSUME AllIn(sm), ~Pending(smPc', smSignal) PROVE FALSE
      <4>1. Pending(smPc, smSignal) BY <3>1, <3>4 DEF BarInv
      <4>2. smPc[t] = "check" BY <4>1, <3>4, <2>1, <1>1 DEF Pending, GoesTo
      <4>3. TaskSound(sm, smPc, smCore, smAt, smSignal, t) BY <3>2 DEF SlotInv
      <4>4. smCore[t] \in Slots /\ sm.thread[smCore[t]] = t
        <5>1. smCore[t] \in Cores BY <1>2 DEF SmTypes
        <5> QED BY <5>1, <4>2, <4>3, <1>6 DEF TaskSound, Cores
      <4>5. t # NoOne BY SmtAssumption DEF NoOne
      <4>6. sm.running[smCore[t]] /\ ~sm.inb[smCore[t]]
        BY <4>2, <4>4, <4>5, <3>2 DEF SlotInv, SlotsSound
      <4> QED BY <4>4, <4>6, <3>4 DEF AllIn
    <3> QED BY <3>3, <3>4 DEF BarInv
  <2> QED BY <2>2, <2>3, <2>4, <1>1, <1>6 DEF SmInv
<1> QED BY <1>1, <1>5, <1>6

\* The scheduler gives a thread a core.
LEMMA ScheduleInv ==
  ASSUME SmInv, NEW u \in Tasks, NEW c \in Slots \union {Other}, schedule(u, c), ~Locked, UNCHANGED smDirect
  PROVE  SmInv'
<1> DEFINE k == findSmtThreadFromThread(sm, u)
<1>1. /\ smPc[u] = "asleep" /\ smCore[u] = NoSlot /\ Free(c)
      /\ sm' = threadMigrate(sm, u, c) /\ smCore' = [smCore EXCEPT ![u] = c] /\ Goto(u, "run")
      /\ UNCHANGED <<smAt, smSignal>>
  BY DEF schedule, Unscheduled
<1>2. SmTypes(sm, smPc, smCore, smAt, smSignal) /\ One(sm, smPc) BY DEF SmInv
<1>3. /\ smPc \in [Tasks -> SmPcs] /\ sm \in SmState /\ smSignal \subseteq Tasks
      /\ smCore \in [Tasks -> Cores] /\ c \in Cores
  BY <1>2 DEF SmTypes, Cores
<1>4. "run" \in SmPcs BY DEF SmPcs
<1>5. smPc' \in [Tasks -> SmPcs] /\ GoesTo(smPc, smPc', u, "run") BY <1>1, <1>3, <1>4, GotoIs
<1>6. Migrated(sm, sm', u, k, c) BY <1>1, <1>3, MigrateIs
<1> HIDE DEF k
<1>7. smCore' \in [Tasks -> Cores] /\ \A w \in Tasks : smCore'[w] = IF w = u THEN c ELSE smCore[w]
  BY <1>1, <1>3
<1>8. SmTypes(sm', smPc', smCore, smAt, smSignal)
  <2>1. sm' \in SmState BY <1>6 DEF Migrated
  <2> QED BY <2>1, <1>2, <1>3, <1>5, TypesKept
<1>9. SmTypes(sm', smPc', smCore', smAt, smSignal) BY <1>7, <1>8 DEF SmTypes
<1>10. One(sm', smPc')
  <2>1. sm'.sync = sm.sync /\ sm'.exec = sm.exec BY <1>6 DEF Migrated
  <2> QED BY <2>1, <1>2, <1>5, OneKept
<1>11. ASSUME ~smDirect PROVE BarInv(sm', smPc', smCore', smAt, smSignal)
  <2>1. BarInv(sm, smPc, smCore, smAt, smSignal) BY <1>11 DEF SmInv
  <2>2. SlotInv(sm, smPc, smCore, smAt, smSignal) BY <2>1 DEF BarInv
  <2>3. /\ \A j \in Slots : sm.thread[j] # NoOne => sm.thread[j] \in Tasks
        /\ u # NoOne /\ NoSlot \notin Slots /\ Other \notin Slots /\ Other # NoSlot
    <3>1. \A j \in Slots : sm.thread[j] # NoOne => sm.thread[j] \in Tasks BY <1>3, SmFields DEF SlotMap
    <3>2. u # NoOne /\ NoSlot \notin Slots /\ Other \notin Slots /\ Other # NoSlot
      BY SmtAssumption DEF NoOne, NoSlot, Other
    <3> QED BY <3>1, <3>2
  <2>4. \A j \in Slots : sm.thread[j] # u BY <2>2, <2>3, <1>1 DEF SlotInv, SlotsSound
  <2>5. k = NoSlot BY <2>4, FindIs DEF k
  <2>6. /\ sm'.sync = sm.sync
        /\ \A j \in Slots : /\ sm'.running[j] <=> j = c \/ sm.running[j]
                            /\ sm'.thread[j] = IF j = c THEN u ELSE sm.thread[j]
                            /\ sm'.inb[j] <=> sm.inb[j]
    BY <2>3, <2>5, <1>6 DEF Migrated
  <2>7. c \in Slots => \A w \in Tasks : smCore[w] # c BY <2>3, <1>1 DEF Free
  <2>8. c \in Slots => ~sm.inb[c] BY <2>2, <2>3, <2>7 DEF SlotInv, SlotsSound
  <2>9. ASSUME NEW j \in Slots
        PROVE  /\ sm'.thread[j] # NoOne => smCore'[sm'.thread[j]] = j
               /\ sm'.running[j] <=> sm'.thread[j] # NoOne /\ smPc'[sm'.thread[j]] \notin {"asleep", "gone"}
               /\ sm'.inb[j] => /\ sm'.thread[j] # NoOne /\ smPc'[sm'.thread[j]] = "wait"
                                /\ sm'.thread[j] \notin smSignal
    <3>1. /\ sm.thread[j] # NoOne => smCore[sm.thread[j]] = j
          /\ sm.running[j] <=> sm.thread[j] # NoOne /\ smPc[sm.thread[j]] \notin {"asleep", "gone"}
          /\ sm.inb[j] => sm.thread[j] # NoOne /\ smPc[sm.thread[j]] = "wait" /\ sm.thread[j] \notin smSignal
      BY <2>2 DEF SlotInv, SlotsSound
    <3>2. CASE j = c BY <3>2, <2>3, <2>6, <2>8, <1>5, <1>7 DEF GoesTo
    <3>3. CASE j # c BY <3>1, <3>3, <2>3, <2>4, <2>6, <1>5, <1>7 DEF GoesTo
    <3> QED BY <3>2, <3>3
  <2>10. ASSUME NEW w \in Tasks PROVE TaskSound(sm', smPc', smCore', smAt, smSignal, w)
    <3>1. TaskSound(sm, smPc, smCore, smAt, smSignal, w) BY <2>2 DEF SlotInv
    <3>2. smPc[w] # "endless" BY DEF Locked
    <3>3. CASE w = u
      <4>1. smPc'[w] = "run" /\ smCore'[w] = c BY <3>3, <1>5, <1>7 DEF GoesTo
      <4> QED BY <4>1, <3>1, <3>3, <2>3, <2>6, <1>1 DEF TaskSound
    <3>4. CASE w # u
      <4>1. smPc'[w] = smPc[w] /\ smCore'[w] = smCore[w] BY <3>4, <1>5, <1>7 DEF GoesTo
      <4>2. smPc[w] = "wait" => smAt[w] \in Slots BY <1>2 DEF SmTypes
      <4> QED BY <4>1, <4>2, <3>1, <3>2, <2>6, <2>7 DEF TaskSound
    <3> QED BY <3>3, <3>4
  <2>11. sm'.sync => \E w \in Tasks : smPc'[w] \in {"sync", "endless"}
    BY <2>2, <2>6, <1>1, <1>5 DEF SlotInv, GoesTo
  <2>12. SlotInv(sm', smPc', smCore', smAt, smSignal) BY <2>9, <2>10, <2>11 DEF SlotInv, SlotsSound
  <2>13. ASSUME AllIn(sm') PROVE Pending(smPc', smSignal)
    <3>1. c \notin Slots BY <2>6, <2>8, <2>13 DEF AllIn
    <3>2. AllIn(sm) BY <3>1, <2>6, <2>13 DEF AllIn
    <3> QED BY <3>2, <2>1, <1>1, <1>5 DEF BarInv, Pending, GoesTo
  <2> QED BY <2>12, <2>13 DEF BarInv
<1> QED BY <1>1, <1>9, <1>10, <1>11 DEF SmInv

\* Whose slot is whose, for the hooks of the scheduler.
LEMMA SlotFacts ==
  ASSUME NEW t \in Tasks
  PROVE  t # NoOne /\ NoSlot \notin Slots /\ Other \notin Slots /\ Other # NoSlot
BY SmtAssumption DEF NoOne, NoSlot, Other

\* The two migrations of replace(), together.
Replaced(s, r, c, u) ==
  /\ r \in SmState /\ r.sync = s.sync /\ r.exec = s.exec
  /\ \A j \in Slots : /\ r.running[j] <=> j = c \/ s.running[j]
                      /\ r.thread[j] = IF j = c THEN u ELSE s.thread[j]
                      /\ r.inb[j] <=> j # c /\ s.inb[j]
LEMMA ReplacesSlots ==
  ASSUME NEW s, NEW pc, NEW core, NEW at, NEW sig, SmTypes(s, pc, core, at, sig),
         SlotInv(s, pc, core, at, sig), NEW t \in Tasks, core[t] \in Slots, pc[t] \in {"wait", "sync"},
         NEW u \in Tasks, pc[u] = "asleep", core[u] = NoSlot, \A w \in Tasks : pc[w] # "endless",
         NEW q, GoesTo(pc, q, u, "run"), NEW r, Replaced(s, r, core[t], u),
         NEW co, \A w \in Tasks : co[w] = IF w = u THEN core[t] ELSE IF w = t THEN NoSlot ELSE core[w],
         NEW new, new = sig \union IF s.inb[core[t]] THEN WaitersAt(pc, at, {core[t]}) ELSE {}
  PROVE  SlotInv(r, q, co, at, new)
<1> DEFINE c == core[t]
<1>1. /\ \A j \in Slots : s.thread[j] # NoOne => s.thread[j] \in Tasks
      /\ \A w \in Tasks : pc[w] = "wait" => at[w] \in Slots
  BY SmFields DEF SmTypes, SlotMap
<1>2. t # NoOne /\ u # NoOne /\ NoSlot \notin Slots /\ Other \notin Slots /\ t # u /\ c \in Slots
  BY SlotFacts
<1>3. s.thread[c] = t BY DEF SlotInv, TaskSound
<1>4. /\ r.sync = s.sync
      /\ \A j \in Slots : /\ r.running[j] <=> j = c \/ s.running[j]
                          /\ r.thread[j] = IF j = c THEN u ELSE s.thread[j]
                          /\ r.inb[j] <=> j # c /\ s.inb[j]
  BY DEF Replaced
<1>5. \A w \in Tasks : w \in new <=> w \in sig \/ (s.inb[c] /\ pc[w] = "wait" /\ at[w] = c)
  BY DEF WaitersAt
<1>6. \A w \in Tasks : co[w] = IF w = u THEN c ELSE IF w = t THEN NoSlot ELSE core[w] OBVIOUS
<1> HIDE DEF c
<1>7. ASSUME NEW j \in Slots
      PROVE  /\ r.thread[j] # NoOne => co[r.thread[j]] = j
             /\ r.running[j] <=> r.thread[j] # NoOne /\ q[r.thread[j]] \notin {"asleep", "gone"}
             /\ r.inb[j] => r.thread[j] # NoOne /\ q[r.thread[j]] = "wait" /\ r.thread[j] \notin new
  <2>1. /\ s.thread[j] # NoOne => core[s.thread[j]] = j
        /\ s.running[j] <=> s.thread[j] # NoOne /\ pc[s.thread[j]] \notin {"asleep", "gone"}
        /\ s.inb[j] => s.thread[j] # NoOne /\ pc[s.thread[j]] = "wait" /\ s.thread[j] \notin sig
    BY DEF SlotInv, SlotsSound
  <2>2. CASE j = c BY <2>2, <1>2, <1>4, <1>6 DEF GoesTo
  <2>3. CASE j # c
    <3>1. r.thread[j] = s.thread[j] /\ (r.running[j] <=> s.running[j]) /\ (r.inb[j] <=> s.inb[j])
      BY <2>3, <1>4
    <3>2. CASE s.thread[j] = NoOne BY <3>1, <3>2, <2>1
    <3>3. CASE s.thread[j] # NoOne
      <4>1. s.thread[j] \in Tasks /\ core[s.thread[j]] = j BY <3>3, <2>1, <1>1
      <4>2. s.thread[j] # u /\ s.thread[j] # t BY <4>1, <2>3, <1>2 DEF c
      <4>3. co[s.thread[j]] = j /\ q[s.thread[j]] = pc[s.thread[j]] BY <4>1, <4>2, <1>6 DEF GoesTo
      <4>4. s.inb[j] => s.thread[j] \notin new
        <5>1. SUFFICES ASSUME s.inb[j] PROVE at[s.thread[j]] # c BY <4>1, <2>1, <1>5
        <5>2. TaskSound(s, pc, core, at, sig, s.thread[j]) BY <4>1 DEF SlotInv
        <5> QED BY <5>1, <5>2, <4>1, <2>1, <2>3 DEF TaskSound
      <4> QED BY <4>3, <4>4, <3>1, <2>1
    <3> QED BY <3>2, <3>3
  <2> QED BY <2>2, <2>3
<1>8. ASSUME NEW w \in Tasks PROVE TaskSound(r, q, co, at, new, w)
  <2>1. TaskSound(s, pc, core, at, sig, w) BY DEF SlotInv
  <2>2. CASE w = t
    <3>1. q[w] = pc[w] /\ co[w] = NoSlot BY <2>2, <1>2, <1>6 DEF GoesTo
    <3>2. pc[w] = "wait" => w \in new
      <4>1. SUFFICES ASSUME pc[w] = "wait", w \notin sig PROVE s.inb[c] /\ at[w] = c BY <1>5
      <4> QED BY <4>1, <2>1, <2>2 DEF TaskSound, c
    <3>3. w \in new => pc[w] = "wait" BY <2>1, <1>5 DEF TaskSound
    <3>4. NoSlot # Other BY SlotFacts
    <3> QED BY <3>1, <3>2, <3>3, <3>4, <2>2, <1>2 DEF TaskSound
  <2>3. CASE w = u
    <3>1. q[w] = "run" /\ co[w] = c /\ at[w] = NoSlot BY <2>1, <2>3, <1>6 DEF GoesTo, TaskSound
    <3>2. w \notin new BY <2>1, <2>3, <1>5 DEF TaskSound
    <3>3. r.thread[c] = u BY <1>2, <1>4
    <3> QED BY <3>1, <3>2, <3>3, <2>3, <1>2 DEF TaskSound
  <2>4. CASE w # t /\ w # u
    <3>1. q[w] = pc[w] /\ co[w] = core[w] BY <2>4, <1>6 DEF GoesTo
    <3>2. core[w] # c BY <2>1, <2>4, <1>2, <1>3 DEF TaskSound
    <3>3. core[w] \in Slots => r.thread[core[w]] = w BY <3>2, <2>1, <1>4 DEF TaskSound
    <3>4. pc[w] = "wait" /\ w \notin new => core[w] = at[w] /\ r.inb[at[w]]
      BY <3>2, <2>1, <1>1, <1>4, <1>5 DEF TaskSound
    <3>5. w \in new => pc[w] = "wait" BY <2>1, <1>5 DEF TaskSound
    <3> QED BY <3>1, <3>3, <3>4, <3>5, <2>1 DEF TaskSound
  <2> QED BY <2>2, <2>3, <2>4
<1>9. r.sync => \E w \in Tasks : q[w] \in {"sync", "endless"} BY <1>4 DEF SlotInv, GoesTo
<1> QED BY <1>7, <1>8, <1>9 DEF SlotInv, SlotsSound

LEMMA ReplaceInv ==
  ASSUME SmInv, NEW t \in Tasks, NEW u \in Tasks, replace(t, u), ~Locked, UNCHANGED smDirect
  PROVE  SmInv'
<1> DEFINE c == smCore[t]
           m == threadMigrate(sm, t, NoSlot)
           k == findSmtThreadFromThread(sm, t)
           l == findSmtThreadFromThread(m, u)
<1>1. /\ sm.sync /\ c \in Slots /\ smPc[t] \in {"wait", "sync"}
      /\ smPc[u] = "asleep" /\ smCore[u] = NoSlot
      /\ sm' = threadMigrate(m, u, c)
      /\ smSignal' = smSignal \union MigrateSignals(t)
      /\ smCore' = [smCore EXCEPT ![t] = NoSlot, ![u] = c] /\ Goto(u, "run") /\ UNCHANGED smAt
  BY DEF replace, Unscheduled
<1>2. SmTypes(sm, smPc, smCore, smAt, smSignal) /\ One(sm, smPc) BY DEF SmInv
<1>3. /\ smPc \in [Tasks -> SmPcs] /\ sm \in SmState /\ smSignal \subseteq Tasks
      /\ smCore \in [Tasks -> Cores] /\ c \in Cores /\ NoSlot \in Cores
  BY <1>2 DEF SmTypes, Cores
<1>4. "run" \in SmPcs BY DEF SmPcs
<1>5. smPc' \in [Tasks -> SmPcs] /\ GoesTo(smPc, smPc', u, "run") BY <1>1, <1>3, <1>4, GotoIs
<1>6. Migrated(sm, m, t, k, NoSlot) BY <1>3, MigrateIs
<1> HIDE DEF m
<1>7. Migrated(m, sm', u, l, c)
  <2>1. m \in SmState BY <1>6 DEF Migrated
  <2> HIDE DEF c
  <2> QED BY <2>1, <1>1, <1>3, MigrateIs
<1>8. smSignal' = smSignal \union IF k # NoSlot /\ sm.inb[k] THEN WaitersAt(smPc, smAt, {k}) ELSE {}
  <2>1. WaitingAt({k}) = WaitersAt(smPc, smAt, {k}) BY DEF WaitingAt, WaitersAt
  <2> QED BY <2>1, <1>1 DEF MigrateSignals
<1> HIDE DEF k, l
<1>9. smSignal' \subseteq Tasks BY <1>3, <1>8 DEF WaitersAt
<1>10. /\ smCore' \in [Tasks -> Cores]
       /\ \A w \in Tasks : smCore'[w] = IF w = u THEN c ELSE IF w = t THEN NoSlot ELSE smCore[w]
  <2> DEFINE d == [smCore EXCEPT ![t] = NoSlot]
  <2>1. d \in [Tasks -> Cores] /\ \A w \in Tasks : d[w] = IF w = t THEN NoSlot ELSE smCore[w] BY <1>3
  <2>2. smCore' = [d EXCEPT ![u] = c] BY <1>1
  <2> HIDE DEF d, c
  <2> QED BY <2>1, <2>2, <1>3
<1>11. SmTypes(sm', smPc', smCore, smAt, smSignal')
  <2>1. sm' \in SmState BY <1>7 DEF Migrated
  <2> QED BY <2>1, <1>2, <1>5, <1>9, TypesKept
<1>12. SmTypes(sm', smPc', smCore', smAt, smSignal') BY <1>10, <1>11 DEF SmTypes
<1>13. One(sm', smPc')
  <2>1. sm'.sync = sm.sync /\ sm'.exec = sm.exec BY <1>6, <1>7 DEF Migrated
  <2> QED BY <2>1, <1>2, <1>5, OneKept
<1>14. ASSUME ~smDirect PROVE BarInv(sm', smPc', smCore', smAt, smSignal')
  <2>1. SlotInv(sm, smPc, smCore, smAt, smSignal) BY <1>14 DEF SmInv, BarInv
  <2>2. t # NoOne /\ u # NoOne /\ NoSlot \notin Slots BY SlotFacts
  <2>3. sm.thread[c] = t BY <2>1, <1>1 DEF SlotInv, TaskSound
  <2>4. k = c
    <3>1. k \in Slots /\ sm.thread[k] = t BY <2>3, <1>1, FindIs DEF k
    <3> QED BY <3>1, <2>1, <2>2 DEF SlotInv, SlotsSound
  <2>5. \A j \in Slots : sm.thread[j] # u BY <2>1, <2>2, <1>1 DEF SlotInv, SlotsSound
  <2>6. \A j \in Slots : m.thread[j] # u BY <2>2, <2>5, <1>6 DEF Migrated
  <2>7. l = NoSlot BY <2>6, FindIs DEF l
  <2>8. Replaced(sm, sm', c, u) BY <2>2, <2>4, <2>7, <1>6, <1>7 DEF Migrated, Replaced
  <2>9. smSignal' = smSignal \union IF sm.inb[c] THEN WaitersAt(smPc, smAt, {c}) ELSE {}
    BY <2>2, <2>4, <1>1, <1>8
  <2>10. \A w \in Tasks : smPc[w] # "endless" BY DEF Locked
  <2>11. SlotInv(sm', smPc', smCore', smAt, smSignal')
    <3>1. smCore[t] \in Slots /\ smPc[t] \in {"wait", "sync"} /\ smPc[u] = "asleep" /\ smCore[u] = NoSlot BY <1>1
    <3> QED BY <3>1, <2>1, <2>8, <2>9, <2>10, <1>2, <1>5, <1>10, ReplacesSlots
  <2>12. PICK w \in Tasks : smPc[w] = "sync" BY <2>1, <2>10, <1>1 DEF SlotInv
  <2>13. smPc'[w] = "sync" BY <2>12, <1>1, <1>5 DEF GoesTo
  <2> QED BY <2>11, <2>13 DEF BarInv, Pending
<1> QED BY <1>1, <1>12, <1>13, <1>14 DEF SmInv

LEMMA MoveInv ==
  ASSUME SmInv, NEW t \in Tasks, NEW c \in Slots \union {Other}, moveRunning(t, c), UNCHANGED smDirect
  PROVE  SmInv'
<1>1. /\ smDirect /\ sm' = threadMigrate(sm, t, c) /\ smSignal' = smSignal \union MigrateSignals(t)
      /\ smCore' = [smCore EXCEPT ![t] = c] /\ UNCHANGED <<smPc, smAt>>
  BY DEF moveRunning
<1>2. SmTypes(sm, smPc, smCore, smAt, smSignal) /\ One(sm, smPc) BY DEF SmInv
<1>3. sm \in SmState /\ smSignal \subseteq Tasks /\ smCore \in [Tasks -> Cores] /\ c \in Cores
  BY <1>2 DEF SmTypes, Cores
<1>4. /\ sm' \in SmState /\ sm'.sync = sm.sync /\ sm'.exec = sm.exec
  <2>1. Migrated(sm, sm', t, findSmtThreadFromThread(sm, t), c) BY <1>1, <1>3, MigrateIs
  <2> QED BY <2>1 DEF Migrated
<1>5. smSignal' \subseteq Tasks /\ smCore' \in [Tasks -> Cores] BY <1>1, <1>3 DEF MigrateSignals, WaitingAt
<1>6. SmTypes(sm', smPc, smCore', smAt, smSignal') BY <1>2, <1>4, <1>5 DEF SmTypes
<1>7. One(sm', smPc) BY <1>2, <1>4 DEF One
<1> QED BY <1>1, <1>6, <1>7 DEF SmInv

-----------------------------------------------------------------------------
\* The region of interest.
Enabled(s, b) == [s EXCEPT !.enabled = b]
LEMMA EnabledIs ==
  ASSUME NEW s \in SmState, NEW b \in BOOLEAN
  PROVE  LET r == Enabled(s, b)
         IN  /\ r \in SmState /\ r.running = s.running /\ r.inb = s.inb /\ r.thread = s.thread
             /\ r.sync = s.sync /\ r.exec = s.exec
<1>1. Enabled(s, b) \in SmState BY DEF SmState, Enabled
<1>2. /\ Enabled(s, b).running = s.running /\ Enabled(s, b).inb = s.inb /\ Enabled(s, b).thread = s.thread
      /\ Enabled(s, b).sync = s.sync /\ Enabled(s, b).exec = s.exec
  BY DEF SmState, Enabled
<1> QED BY <1>1, <1>2

LEMMA EnableInv == ASSUME SmInv, smtEnable, UNCHANGED smDirect PROVE SmInv'
<1>1. sm' = Enabled(sm, TRUE) /\ UNCHANGED <<smPc, smCore, smAt, smSignal>> BY DEF smtEnable, Enabled
<1>2. SmTypes(sm, smPc, smCore, smAt, smSignal) /\ One(sm, smPc) BY DEF SmInv
<1>3. /\ sm' \in SmState /\ sm'.running = sm.running /\ sm'.inb = sm.inb /\ sm'.thread = sm.thread
      /\ sm'.sync = sm.sync /\ sm'.exec = sm.exec
  <2>1. sm \in SmState /\ TRUE \in BOOLEAN BY <1>2 DEF SmTypes
  <2> QED BY <2>1, <1>1, EnabledIs
<1>4. SmTypes(sm', smPc, smCore, smAt, smSignal) BY <1>2, <1>3 DEF SmTypes
<1>5. One(sm', smPc) BY <1>2, <1>3 DEF One
<1>6. ASSUME ~smDirect PROVE BarInv(sm', smPc, smCore, smAt, smSignal)
  <2>1. BarInv(sm, smPc, smCore, smAt, smSignal) BY <1>6 DEF SmInv
  <2>2. \A u \in Tasks : smPc[u] = "wait" => smAt[u] \in Slots BY <1>2 DEF SmTypes
  <2>3. \A j \in Slots : sm'.inb[j] <=> sm.inb[j] BY <1>3
  <2> QED BY <2>1, <2>2, <2>3, <1>3, SlotsKept
<1> QED BY <1>1, <1>4, <1>5, <1>6 DEF SmInv

LEMMA DisableInv == ASSUME SmInv, smtDisable, UNCHANGED smDirect PROVE SmInv'
<1> DEFINE x == [k \in Slots |-> FALSE]
           e == Enabled(sm, FALSE)
           r == [e EXCEPT !.inb = x]
           gone == {k \in Slots : sm.inb[k]}
<1>1. sm' = r /\ smSignal' = smSignal \union WaitingAt(gone) /\ UNCHANGED <<smPc, smCore, smAt>>
  BY DEF smtDisable, Enabled
<1>2. SmTypes(sm, smPc, smCore, smAt, smSignal) /\ One(sm, smPc) BY DEF SmInv
<1>3. sm \in SmState /\ smSignal \subseteq Tasks /\ FALSE \in BOOLEAN BY <1>2 DEF SmTypes
<1>4. /\ e \in SmState /\ e.running = sm.running /\ e.inb = sm.inb /\ e.thread = sm.thread
      /\ e.sync = sm.sync /\ e.exec = sm.exec
  BY <1>3, EnabledIs
<1>5. x \in Flags /\ \A k \in Slots : ~x[k] BY DEF Flags
<1> HIDE DEF x, e
<1>6. r \in SmState BY <1>4, <1>5 DEF SmState
<1>7. /\ r.running = sm.running /\ r.inb = x /\ r.thread = sm.thread /\ r.sync = sm.sync
      /\ r.exec = sm.exec /\ r.surplus = e.surplus /\ r.enabled = e.enabled
  BY <1>4, <1>5 DEF SmState
<1> HIDE DEF r
<1>8. smSignal' \subseteq Tasks /\ smSignal' = smSignal \union WaitersAt(smPc, smAt, gone)
  BY <1>1, <1>3 DEF WaitingAt, WaitersAt
<1>9. SmTypes(r, smPc, smCore, smAt, smSignal') BY <1>2, <1>6, <1>8 DEF SmTypes
<1>10. One(r, smPc) BY <1>2, <1>7 DEF One
<1>11. ASSUME ~smDirect PROVE BarInv(r, smPc, smCore, smAt, smSignal')
  <2>1. SlotInv(sm, smPc, smCore, smAt, smSignal) BY <1>11 DEF SmInv, BarInv
  <2>2. SmTypes(e, smPc, smCore, smAt, smSignal) BY <1>2, <1>4 DEF SmTypes
  <2>3. SlotInv(e, smPc, smCore, smAt, smSignal)
    <3>1. SlotsSound(e, smPc, smCore, smSignal) BY <2>1, <1>4 DEF SlotInv, SlotsSound
    <3>2. \A t \in Tasks : TaskSound(e, smPc, smCore, smAt, smSignal, t) BY <2>1, <1>4 DEF SlotInv, TaskSound
    <3> QED BY <3>1, <3>2, <2>1, <1>4 DEF SlotInv
  <2>4. Opened(e, r, gone) BY <1>4, <1>5, <1>6, <1>7 DEF Opened
  <2>5. SlotInv(r, smPc, smCore, smAt, smSignal') BY <2>2, <2>3, <2>4, <1>8, OpensSlots
  <2>6. ~AllIn(r) BY <1>5, <1>7 DEF AllIn
  <2> QED BY <2>5, <2>6 DEF BarInv
<1> QED BY <1>1, <1>9, <1>10, <1>11 DEF SmInv

-----------------------------------------------------------------------------
LEMMA InitInv == ASSUME SmtBarrierInit PROVE SmInv
<1> DEFINE run == [k \in Slots |-> k \in Tasks]
           inb == [k \in Slots |-> FALSE]
           thread == [k \in Slots |-> IF k \in Tasks THEN k ELSE NoOne]
           surplus == [k \in Slots |-> 0]
           pc == [t \in Tasks |-> IF t \in Slots THEN "run" ELSE "asleep"]
           at == [t \in Tasks |-> IF t \in Slots THEN t ELSE NoSlot]
<1>1. /\ sm = [running |-> run, inb |-> inb, thread |-> thread, surplus |-> surplus,
               sync |-> FALSE, enabled |-> TRUE, exec |-> Min(Slots)]
      /\ smPc = pc /\ smAt = at /\ smCore = at /\ smSignal = {}
  BY DEF SmtBarrierInit
<1>2. Min(Slots) \in Slot
  <2>1. Slots \in SUBSET Nat /\ Slots # {} BY SmtAssumption
  <2> QED BY <2>1, LeastIs DEF Slot
<1>3. run \in Flags /\ inb \in Flags /\ \A k \in Slots : (run[k] <=> k \in Tasks) /\ ~inb[k]
  <2>1. \A k \in Slots : (k \in Tasks) \in BOOLEAN OBVIOUS
  <2>2. run \in Flags BY <2>1 DEF Flags
  <2>3. inb \in Flags BY DEF Flags
  <2>4. \A k \in Slots : run[k] <=> k \in Tasks OBVIOUS
  <2>5. \A k \in Slots : ~inb[k] OBVIOUS
  <2> QED BY <2>2, <2>3, <2>4, <2>5
<1>4. thread \in SlotMap /\ \A k \in Slots : thread[k] = IF k \in Tasks THEN k ELSE NoOne BY DEF SlotMap
<1>5. surplus \in Counters BY DEF Counters
<1>6. pc \in [Tasks -> SmPcs] /\ \A t \in Tasks : pc[t] = IF t \in Slots THEN "run" ELSE "asleep"
  BY DEF SmPcs
<1>7. at \in [Tasks -> Cores] /\ \A t \in Tasks : at[t] = IF t \in Slots THEN t ELSE NoSlot BY DEF Cores
<1> HIDE DEF run, inb, thread, surplus, pc, at
<1>8. TRUE \in BOOLEAN /\ FALSE \in BOOLEAN OBVIOUS
<1>9. sm \in SmState BY <1>1, <1>2, <1>3, <1>4, <1>5, <1>8 DEF SmState
<1>10. sm.running = run /\ sm.inb = inb /\ sm.thread = thread BY <1>1
<1>11. ~sm.sync BY <1>1
<1>12. SmTypes(sm, smPc, smCore, smAt, smSignal) BY <1>1, <1>6, <1>7, <1>9 DEF SmTypes
<1>13. One(sm, smPc) BY <1>1, <1>6 DEF One
<1>14. SlotsSound(sm, smPc, smCore, smSignal)
  <2>1. ASSUME NEW k \in Slots
        PROVE  /\ sm.thread[k] # NoOne => smCore[sm.thread[k]] = k
               /\ sm.running[k] <=> sm.thread[k] # NoOne /\ smPc[sm.thread[k]] \notin {"asleep", "gone"}
               /\ ~sm.inb[k]
    <3>1. NoOne \notin Tasks BY SmtAssumption DEF NoOne
    <3>2. CASE k \in Tasks BY <3>1, <3>2, <1>1, <1>3, <1>4, <1>6, <1>7, <1>10
    <3>3. CASE k \notin Tasks BY <3>3, <1>3, <1>4, <1>10
    <3> QED BY <3>2, <3>3
  <2> QED BY <2>1 DEF SlotsSound
<1>15. ASSUME NEW t \in Tasks PROVE TaskSound(sm, smPc, smCore, smAt, smSignal, t)
  <2>1. NoSlot \notin Slots /\ Other \notin Slots /\ Other # NoSlot BY SlotFacts
  <2>2. smPc[t] = (IF t \in Slots THEN "run" ELSE "asleep") /\ smCore[t] = (IF t \in Slots THEN t ELSE NoSlot)
        /\ smAt[t] = smCore[t] /\ smSignal = {}
    BY <1>1, <1>6, <1>7
  <2>3. CASE t \in Slots
    <3>1. smPc[t] = "run" /\ smCore[t] = t /\ smAt[t] = t BY <2>2, <2>3
    <3>2. sm.thread[t] = t BY <2>3, <1>4, <1>10
    <3> QED BY <3>1, <3>2, <2>1, <2>2, <2>3 DEF TaskSound
  <2>4. CASE t \notin Slots
    <3>1. smPc[t] = "asleep" /\ smCore[t] = NoSlot /\ smAt[t] = NoSlot BY <2>2, <2>4
    <3> QED BY <3>1, <2>1, <2>2 DEF TaskSound
  <2> QED BY <2>3, <2>4
<1>16. ~AllIn(sm) BY <1>3, <1>10 DEF AllIn
<1> QED BY <1>11, <1>12, <1>13, <1>14, <1>15, <1>16 DEF SmInv, BarInv, SlotInv

LEMMA NextInv == ASSUME SmInv, [SmtBarrierNext]_smtBarrierVars PROVE SmInv'
<1>1. CASE UNCHANGED smtBarrierVars
  <2>1. UNCHANGED <<smDirect, sm, smPc, smCore, smAt, smSignal>> BY <1>1 DEF smtBarrierVars
  <2> QED BY <2>1 DEF SmInv
<1>2. CASE SmtBarrierNext
  <2>1. UNCHANGED smDirect BY <1>2 DEF SmtBarrierNext
  <2>2. CASE \E t \in Tasks : smtExecute(t) BY <2>1, <2>2, ExecuteInv
  <2>3. CASE ~Locked /\ smtDisable BY <2>1, <2>3, DisableInv
  <2>4. CASE ~Locked /\ smtEnable BY <2>1, <2>4, EnableInv
  <2>5. ASSUME ~Locked, NEW t \in Tasks,
               \/ pushInstruction(t) \/ simulateEnter(t)
               \/ simulateWake(t) \/ simulateExit(t)
               \/ threadStops(t, "asleep") \/ threadStops(t, "gone")
               \/ threadResumes(t) \/ rescheduleHost(t)
               \/ \E u \in Tasks : replace(t, u)
               \/ \E c \in Slots \union {Other} : schedule(t, c) \/ moveRunning(t, c)
        PROVE  SmInv'
    <3>1. CASE pushInstruction(t) BY <3>1, <2>1, PushInv
    <3>2. CASE simulateEnter(t) BY <3>2, <2>1, <2>5, EnterInv
    <3>3. CASE simulateWake(t) BY <3>3, <2>1, <2>5, WakeInv
    <3>4. CASE simulateExit(t) BY <3>4, <2>1, ExitInv
    <3>5. ASSUME NEW p \in {"asleep", "gone"}, threadStops(t, p) PROVE SmInv' BY <3>5, <2>1, <2>5, StopsInv
    <3>6. CASE threadResumes(t) BY <3>6, <2>1, <2>5, ResumesInv
    <3>7. CASE rescheduleHost(t) BY <3>7, <2>1, RescheduleInv
    <3>8. CASE \E u \in Tasks : replace(t, u) BY <3>8, <2>1, <2>5, ReplaceInv
    <3>9. CASE \E c \in Slots \union {Other} : schedule(t, c) BY <3>9, <2>1, <2>5, ScheduleInv
    <3>10. CASE \E c \in Slots \union {Other} : moveRunning(t, c) BY <3>10, <2>1, MoveInv
    <3> QED BY <3>1, <3>2, <3>3, <3>4, <3>5, <3>6, <3>7, <3>8, <3>9, <3>10, <2>5
  <2> QED BY <1>2, <2>2, <2>3, <2>4, <2>5 DEF SmtBarrierNext
<1> QED BY <1>1, <1>2

\* A waiter without a signal is in the barrier at its slot, so either all that
\* run are, and somebody is about to open it, or one that runs is not.
LEMMA OpenedBySmInv == ASSUME SmInv PROVE BarrierOpened
<1>1. SUFFICES ASSUME ~smDirect, NEW t \in Tasks, smPc[t] = "wait", t \notin smSignal
               PROVE  \/ smSignal # {}
                      \/ \E u \in Tasks : smPc[u] \in {"execute", "sync", "check"}
                      \/ \E k \in Slots : sm.running[k] /\ ~sm.inb[k]
  BY DEF BarrierOpened, BarrierAlwaysOpened
<1>2. SlotInv(sm, smPc, smCore, smAt, smSignal) /\ (AllIn(sm) => Pending(smPc, smSignal))
  BY <1>1 DEF SmInv, BarInv
<1>3. smAt[t] \in Slots BY <1>1 DEF SmInv, SmTypes
<1>4. sm.inb[smAt[t]] BY <1>1, <1>2 DEF SlotInv, TaskSound
<1> QED BY <1>2, <1>3, <1>4 DEF AllIn, Pending

LEMMA OneBySmInv == ASSUME SmInv PROVE OneExecutes
<1> DEFINE S == {t \in Tasks : smPc[t] \in {"execute", "sync"}}
<1>1. \A t, u \in S : t = u BY DEF SmInv, One
<1>2. CASE S = {}
  <2>1. Cardinality(S) = 0 BY <1>2, FS_EmptySet
  <2> QED BY <2>1 DEF OneExecutes
<1>3. CASE S # {}
  <2>1. PICK t \in S : TRUE BY <1>3
  <2>2. S = {t} BY <1>1, <2>1
  <2>3. Cardinality(S) = 1
    <3> HIDE DEF S
    <3> QED BY <2>2, FS_Singleton
  <2> QED BY <2>3 DEF OneExecutes
<1> QED BY <1>2, <1>3

\* The invariant holds in every state of every execution.
THEOREM SmInvariant == SmtBarrierSpec => []SmInv
<1>1. SmtBarrierInit => SmInv BY InitInv
<1>2. SmInv /\ [SmtBarrierNext]_smtBarrierVars => SmInv' BY NextInv
<1> QED BY <1>1, <1>2, PTL DEF SmtBarrierSpec

\* However many hardware threads the core has and software threads run on it,
\* and however these stall, resume, exit and change slots: no two of them execute
\* for the core at once, and no host thread is left waiting in the barrier with
\* nobody to open it, as long as a thread changes cores by way of no core
\* (SmtTimer::simulate(), signalBarrier(), barrierRelease()).
THEOREM SmtBarrierSoundHolds == SmtBarrierSpec => []SmtBarrierSound
<1>1. SmInv => SmtBarrierSound BY OpenedBySmInv, OneBySmInv DEF SmtBarrierSound
<1> QED BY <1>1, SmInvariant, PTL
-----------------------------------------------------------------------------
\* The performance model of a core and what may wait in its queue.
PmQueues == Seq(PmInstrs \union PmPseudo)
PmStacks == [PmComponents -> Int]
PmState ==
  [elapsed : Int, idle : Int, timer : Int, enabled : BOOLEAN, ff : BOOLEAN, dsync : BOOLEAN,
   queue : PmQueues, cpi : PmStacks]

\* Every femtosecond is in one component of the CPI stack.
StackKept(s) ==
  /\ s \in PmState
  /\ s.elapsed = AllTime(s.cpi)
  /\ s.idle = IdleTime(s.cpi)

\* The detailed timer has the time of the core.
TimerKept(s) == s.timer = s.elapsed

\* The inductive invariant: the timer is behind in fast-forward only.
PmInv ==
  /\ pmCfg \in PmConfigs
  /\ StackKept(pm)
  /\ (~pm.ff /\ pmCfg.model = "microop") => TimerKept(pm)

LEMMA FunctionPut ==
  ASSUME NEW D, NEW R, NEW f \in [D -> R], NEW i, NEW x \in R
  PROVE  [f EXCEPT ![i] = x] \in [D -> R]
OBVIOUS

\* PerformanceModel counts the time it spends, in the component it names, and
\* leaves the idle time alone.
LEMMA SpendKeeps ==
  ASSUME NEW s, StackKept(s), NEW t \in Int, NEW k \in {"base", "oob", "ffwd"}
  PROVE  /\ StackKept(Spend(s, k, t))
         /\ Spend(s, k, t).ff = s.ff
         /\ Spend(s, k, t).timer = s.timer
         /\ Spend(s, k, t).elapsed = s.elapsed + t
<1> DEFINE r == Spend(s, k, t)
<1>1. s \in PmState /\ s.elapsed = AllTime(s.cpi) /\ s.idle = IdleTime(s.cpi)
  BY DEF StackKept
<1>2. k \in PmComponents
  BY DEF PmComponents
<1>3. r = [s EXCEPT !.elapsed = s.elapsed + t, !.cpi = [s.cpi EXCEPT ![k] = s.cpi[k] + t]]
  BY <1>1, <1>2 DEF Spend, PmState
<1>4. s.cpi \in [PmComponents -> Int] /\ s.cpi[k] \in Int
  BY <1>1, <1>2 DEF PmState, PmStacks
<1> HIDE DEF r
<1>5. r \in PmState /\ r.elapsed = s.elapsed + t /\ r.idle = s.idle /\ r.ff = s.ff /\ r.timer = s.timer
      /\ r.cpi = [s.cpi EXCEPT ![k] = s.cpi[k] + t]
  <2>1. PICK g \in PmStacks : g = [s.cpi EXCEPT ![k] = s.cpi[k] + t]
    <3>1. s.cpi[k] + t \in Int
      BY <1>4
    <3>2. [s.cpi EXCEPT ![k] = s.cpi[k] + t] \in PmStacks
      BY <1>4, <3>1, FunctionPut DEF PmStacks
    <3> QED BY <3>2
  <2>2. PICK e \in Int : e = s.elapsed + t
    BY <1>1 DEF PmState
  <2>3. r = [s EXCEPT !.elapsed = e, !.cpi = g]
    BY <1>3, <2>1, <2>2
  <2>4. r \in PmState /\ r.elapsed = e /\ r.idle = s.idle /\ r.ff = s.ff /\ r.timer = s.timer
        /\ r.cpi = g
    BY <1>1, <2>3 DEF PmState
  <2> QED BY <2>1, <2>2, <2>4
<1>6. IdleTime(r.cpi) = IdleTime(s.cpi)
  BY <1>4, <1>5 DEF IdleTime, PmComponents
<1>7. AllTime(r.cpi) = AllTime(s.cpi) + t
  <2>1. {"start", "sync", "recv", "delay", "base", "oob", "ffwd"} = PmComponents
    BY DEF PmComponents
  <2>2. IdleTime(s.cpi) \in Int
    BY <1>4, <2>1 DEF IdleTime
  <2> QED BY <1>4, <1>5, <1>6, <2>1, <2>2 DEF AllTime
<1> QED
  BY <1>1, <1>5, <1>6, <1>7 DEF StackKept, r

\* Idle time is counted twice, in its component and as idle, and the detailed
\* timer is told.
LEMMA IdleKeeps ==
  ASSUME NEW s, StackKept(s), NEW t \in Int, NEW k \in {"start", "sync", "recv", "delay"}
  PROVE  /\ StackKept(incrementIdleElapsedTime(s, k, t))
         /\ TimerKept(incrementIdleElapsedTime(s, k, t))
<1> DEFINE r == incrementIdleElapsedTime(s, k, t)
<1>1. s \in PmState /\ s.elapsed = AllTime(s.cpi) /\ s.idle = IdleTime(s.cpi)
  BY DEF StackKept
<1>2. k \in PmComponents
  BY DEF PmComponents
<1>3. s.cpi \in [PmComponents -> Int] /\ s.cpi[k] \in Int
  BY <1>1, <1>2 DEF PmState, PmStacks
<1>4. r = [s EXCEPT !.elapsed = s.elapsed + t, !.cpi = [s.cpi EXCEPT ![k] = s.cpi[k] + t],
                    !.idle = s.idle + t, !.timer = s.elapsed + t]
  BY <1>1, <1>2 DEF incrementIdleElapsedTime, notifyElapsedTimeUpdate, Spend, PmState
<1> HIDE DEF r
<1>5. r \in PmState /\ r.elapsed = s.elapsed + t /\ r.idle = s.idle + t /\ r.timer = s.elapsed + t
      /\ r.cpi = [s.cpi EXCEPT ![k] = s.cpi[k] + t]
  <2>1. PICK g \in PmStacks : g = [s.cpi EXCEPT ![k] = s.cpi[k] + t]
    <3>1. s.cpi[k] + t \in Int
      BY <1>3
    <3>2. [s.cpi EXCEPT ![k] = s.cpi[k] + t] \in PmStacks
      BY <1>3, <3>1, FunctionPut DEF PmStacks
    <3> QED BY <3>2
  <2>2. PICK e \in Int, i \in Int : e = s.elapsed + t /\ i = s.idle + t
    BY <1>1 DEF PmState
  <2>3. r = [s EXCEPT !.elapsed = e, !.cpi = g, !.idle = i, !.timer = e]
    BY <1>4, <2>1, <2>2
  <2>4. r \in PmState /\ r.elapsed = e /\ r.idle = i /\ r.timer = e /\ r.cpi = g
    BY <1>1, <2>3 DEF PmState
  <2> QED BY <2>1, <2>2, <2>4
<1>6. {"start", "sync", "recv", "delay", "base", "oob", "ffwd"} = PmComponents
  BY DEF PmComponents
<1>7. IdleTime(r.cpi) = IdleTime(s.cpi) + t /\ IdleTime(s.cpi) \in Int
  BY <1>3, <1>5, <1>6 DEF IdleTime
<1>8. AllTime(r.cpi) = AllTime(s.cpi) + t
  BY <1>3, <1>5, <1>6, <1>7 DEF AllTime
<1>9. StackKept(r) /\ TimerKept(r)
  BY <1>1, <1>5, <1>7, <1>8 DEF StackKept, TimerKept
<1> QED
  BY <1>9 DEF r

LEMMA NotifyKeeps ==
  ASSUME NEW s, StackKept(s)
  PROVE  /\ StackKept(notifyElapsedTimeUpdate(s))
         /\ TimerKept(notifyElapsedTimeUpdate(s))
BY DEF StackKept, TimerKept, notifyElapsedTimeUpdate, PmState

\* A change of the switches or of the queue does not touch the time.
LEMMA SwitchKeeps ==
  ASSUME NEW s, StackKept(s), NEW e \in BOOLEAN, NEW f \in BOOLEAN, NEW d \in BOOLEAN,
         NEW q \in PmQueues,
         NEW r, r = [s EXCEPT !.enabled = e, !.ff = f, !.dsync = d, !.queue = q]
  PROVE  StackKept(r) /\ r.timer = s.timer /\ r.elapsed = s.elapsed /\ r.ff = f
BY DEF StackKept, PmState

-----------------------------------------------------------------------------
\* A simulated instruction: the timer and the core advance by its cycles, and a
\* latency that the timer did not see brings it back to the time of the core.
LEMMA MicroOpsKeeps ==
  ASSUME NEW c \in PmConfigs, NEW s, StackKept(s), NEW ins, NEW d \in Int,
         OutOfBand(c, ins) \in Nat
  PROVE  /\ StackKept(handleMicroOps(c, s, ins, d))
         /\ TimerKept(s) => TimerKept(handleMicroOps(c, s, ins, d))
<1> DEFINE b == Spend(s, "base", d * c.period)
           t == [b EXCEPT !.timer = @ + d * c.period]
           u == Spend(t, "oob", OutOfBand(c, ins))
<1>1. d * c.period \in Int
  BY PmAssumption
<1>2. /\ StackKept(b) /\ b.timer = s.timer
      /\ b.elapsed = s.elapsed + d * c.period
  BY <1>1, SpendKeeps
<1>3. /\ StackKept(t) /\ t.timer = b.timer + d * c.period /\ t.elapsed = b.elapsed
  <2>1. PICK x \in Int : x = d * c.period
    BY <1>1
  <2>2. b \in PmState /\ t = [b EXCEPT !.timer = b.timer + x]
    BY <1>2, <2>1 DEF StackKept, PmState
  <2> HIDE DEF b, t
  <2>3. PICK y \in Int : y = b.timer + x
    BY <2>2 DEF PmState
  <2>4. t = [b EXCEPT !.timer = y]
    BY <2>2, <2>3
  <2>5. StackKept(t) /\ t.timer = y /\ t.elapsed = b.elapsed
    BY <1>2, <2>2, <2>4 DEF StackKept, PmState
  <2> QED BY <2>1, <2>3, <2>5
<1>4. TimerKept(s) => TimerKept(t)
  <2> HIDE DEF b, t
  <2> QED BY <1>2, <1>3 DEF TimerKept
<1>5. /\ StackKept(u) /\ u.timer = t.timer /\ u.elapsed = t.elapsed + OutOfBand(c, ins)
  <2>1. OutOfBand(c, ins) \in Int OBVIOUS
  <2> HIDE DEF t
  <2> QED BY <1>3, <2>1, SpendKeeps
<1>6. handleMicroOps(c, s, ins, d) = IF OutOfBand(c, ins) > 0 THEN notifyElapsedTimeUpdate(u) ELSE u
  BY DEF handleMicroOps
<1>7. CASE OutOfBand(c, ins) > 0
  <2> HIDE DEF u
  <2> QED BY <1>5, <1>6, <1>7, NotifyKeeps
<1>8. CASE ~(OutOfBand(c, ins) > 0)
  <2>1. u.elapsed = t.elapsed
    <3>1. OutOfBand(c, ins) = 0 BY <1>8
    <3>2. t.elapsed \in Int BY <1>3 DEF StackKept, PmState
    <3> HIDE DEF u, t
    <3> QED BY <1>5, <3>1, <3>2
  <2> HIDE DEF u, t
  <2> QED BY <1>4, <1>5, <1>6, <1>8, <2>1 DEF TimerKept
<1> QED BY <1>7, <1>8

\* What is in the queue has a cost or loads.
LEMMA QueuedCost ==
  ASSUME NEW ins \in PmInstrs \union PmPseudo
  PROVE  /\ Pseudo(ins) => ins.cost \in Nat
         /\ ~Pseudo(ins) => Len(ins.loads) \in Nat
BY PmAssumption DEF Pseudo

LEMMA OneIPCKeeps ==
  ASSUME NEW c \in PmConfigs, NEW s, StackKept(s), NEW ins \in PmInstrs \union PmPseudo,
         NEW lat \in PmLatencies
  PROVE  StackKept(handleOneIPC(c, s, ins, lat))
<1>1. c.period \in Int /\ c.branchCost * c.period \in Int /\ lat \in Int
  BY PmAssumption
<1> DEFINE reads == IF ~Pseudo(ins) /\ lat > c.cutoff * c.period THEN Len(ins.loads) * lat ELSE 0
           own == IF ~isModeled(ins) THEN c.period
                  ELSE IF Pseudo(ins) THEN ins.cost ELSE c.branchCost * c.period
<1>2. reads \in Int
  BY <1>1, QueuedCost
<1>3. own \in Int
  BY <1>1, QueuedCost
<1>4. handleOneIPC(c, s, ins, lat) = Spend(s, "base", reads + own)
  BY DEF handleOneIPC
<1> HIDE DEF reads, own
<1>5. reads + own \in Int
  BY <1>2, <1>3
<1> QED BY <1>4, <1>5, SpendKeeps

\* The cycles of an instruction and the latency that the timer did not return
\* are numbers.
LEMMA CyclesAreNumbers ==
  ASSUME NEW c \in PmConfigs, NEW ins \in PmInstrs \union PmPseudo
  PROVE  OutOfBand(c, ins) \in Nat /\ SimulatedCycles(c, ins) \subseteq Int
<1>1. OutOfBand(c, ins) \in Nat
  BY QueuedCost DEF OutOfBand
<1>2. PmCycles \subseteq Int
  BY PmAssumption
<1>3. CASE c.model = "oneipc" \/ (Pseudo(ins) /\ ins.cost = 0)
  <2>1. SimulatedCycles(c, ins) = {0}
    BY <1>3, Zenon DEF SimulatedCycles
  <2> QED BY <1>1, <2>1
<1>4. CASE ~(c.model = "oneipc" \/ (Pseudo(ins) /\ ins.cost = 0))
  <2>1. Pseudo(ins) => divideRounded(ins.cost, c.period) \in Int
    BY PmAssumption, QueuedCost DEF divideRounded
  <2> DEFINE D == {d + divideRounded(ins.cost, c.period) : d \in PmCycles}
  <2>2. Pseudo(ins) => D \subseteq Int
    BY <1>2, <2>1
  <2>3. \/ SimulatedCycles(c, ins) = PmCycles
        \/ Pseudo(ins) /\ SimulatedCycles(c, ins) = D
    BY <1>4, Zenon DEF SimulatedCycles
  <2> HIDE DEF D
  <2> QED BY <1>1, <1>2, <2>2, <2>3
<1> QED BY <1>1, <1>3, <1>4
-----------------------------------------------------------------------------
LEMMA PmInitInv == PmInit => PmInv
BY DEF PmInit, PmInv, PmFresh, StackKept, TimerKept, PmState, PmQueues, PmStacks, PmComponents,
       AllTime, IdleTime

\* INST_SPAWN and the idle pseudo instructions.
LEMMA SetTimeKeeps ==
  ASSUME NEW s, StackKept(s), NEW t \in Int
  PROVE  StackKept(setElapsedTime(s, t)) /\ TimerKept(setElapsedTime(s, t))
<1>1. PICK k \in {"start", "sync", "recv", "delay"} : k = IF s.elapsed > 0 THEN "sync" ELSE "start"
  OBVIOUS
<1>2. t - s.elapsed \in Int
  BY DEF StackKept, PmState
<1>3. setElapsedTime(s, t) = incrementIdleElapsedTime(s, k, t - s.elapsed)
  BY <1>1 DEF setElapsedTime
<1> QED BY <1>2, <1>3, IdleKeeps

LEMMA IdleInstructionKeeps ==
  ASSUME NEW s, StackKept(s), NEW p \in PmPseudo, p.kind \in IdleKinds
  PROVE  /\ StackKept(handleIdleInstruction(s, p))
         /\ \/ handleIdleInstruction(s, p) = s
            \/ TimerKept(handleIdleInstruction(s, p))
<1>1. p.cost \in Int /\ s.elapsed \in Int
  BY PmAssumption DEF StackKept, PmState
<1>2. PICK t \in Int : t = Max({p.cost - s.elapsed, 0})
  <2>1. PICK x \in Int : x = p.cost - s.elapsed
    BY <1>1
  <2>2. Max({x, 0}) \in Int
    <3>1. CASE x >= 0 BY <3>1 DEF Max
    <3>2. CASE ~(x >= 0) BY <3>2 DEF Max
    <3> QED BY <3>1, <3>2
  <2> QED BY <2>1, <2>2
<1>3. CASE s.ff /\ ~s.dsync
  BY <1>3 DEF handleIdleInstruction
<1>4. CASE ~(s.ff /\ ~s.dsync) /\ p.kind = "sync"
  <2>1. handleIdleInstruction(s, p) = incrementIdleElapsedTime(s, "sync", t)
    BY <1>2, <1>4 DEF handleIdleInstruction
  <2> QED BY <2>1, IdleKeeps
<1>5. CASE ~(s.ff /\ ~s.dsync) /\ p.kind # "sync"
  <2>1. handleIdleInstruction(s, p) = incrementIdleElapsedTime(s, p.kind, p.cost)
    BY <1>5 DEF handleIdleInstruction
  <2>2. p.kind \in {"start", "sync", "recv", "delay"}
    BY DEF IdleKinds
  <2> QED BY <1>1, <2>1, <2>2, IdleKeeps
<1> QED BY <1>3, <1>4, <1>5

\* A state that follows pm keeps the invariant when its stack is kept and, where the
\* detailed model has control, its timer.
Follows(r) ==
  StackKept(r) /\ ((~r.ff /\ pmCfg.model = "microop") => TimerKept(r))

LEMMA QueuePseudoKeeps ==
  ASSUME PmInv, NEW p \in PmPseudo
  PROVE  Follows(queuePseudoInstruction(pm, p))
<1> DEFINE r == queuePseudoInstruction(pm, p)
<1>1. StackKept(pm) /\ Follows(pm)
  BY DEF PmInv, Follows
<1>2. CASE ~pm.enabled
  BY <1>1, <1>2 DEF queuePseudoInstruction
<1>3. CASE pm.enabled /\ p.kind \in IdleKinds
  <2>1. r = handleIdleInstruction(pm, p)
    BY <1>3 DEF queuePseudoInstruction
  <2>2. StackKept(r) /\ (r = pm \/ TimerKept(r))
    BY <1>1, <1>3, <2>1, IdleInstructionKeeps
  <2> HIDE DEF r
  <2>3. Follows(r)
    BY <1>1, <2>2 DEF Follows
  <2> QED BY <2>3 DEF r
<1>4. CASE pm.enabled /\ p.kind \notin IdleKinds /\ pm.ff
  <2>1. r = Spend(pm, "ffwd", p.cost)
    BY <1>4 DEF queuePseudoInstruction, ffQueuePseudoInstruction, ffIncrement
  <2>2. p.cost \in Int
    BY PmAssumption
  <2>3. StackKept(r) /\ r.ff
    BY <1>1, <1>4, <2>1, <2>2, SpendKeeps
  <2> HIDE DEF r
  <2>4. Follows(r)
    BY <2>3 DEF Follows
  <2> QED BY <2>4 DEF r
<1>5. CASE pm.enabled /\ p.kind \notin IdleKinds /\ ~pm.ff
  <2>1. r = [pm EXCEPT !.queue = Append(@, p)]
    BY <1>5 DEF queuePseudoInstruction
  <2>2. pm \in PmState
    BY <1>1 DEF StackKept
  <2>3. PICK q \in PmQueues : q = Append(pm.queue, p)
    <3>1. Append(pm.queue, p) \in PmQueues
      BY <2>2 DEF PmState, PmQueues
    <3> QED BY <3>1
  <2>4. r = [pm EXCEPT !.queue = q]
    BY <2>1, <2>3
  <2> HIDE DEF r
  <2>5. Follows(r)
    BY <1>1, <2>2, <2>4 DEF Follows, StackKept, TimerKept, PmState
  <2> QED BY <2>5 DEF r
<1> QED BY <1>2, <1>3, <1>4, <1>5

LEMMA SetFastForwardKeeps ==
  ASSUME PmInv, NEW f \in BOOLEAN, NEW d \in BOOLEAN
  PROVE  Follows(setFastForward(pm, f, d))
<1> DEFINE t == [pm EXCEPT !.ff = f, !.dsync = d]
<1>1. StackKept(pm) /\ Follows(pm)
  BY DEF PmInv, Follows
<1>2. StackKept(t) /\ t.ff = f
  BY <1>1 DEF StackKept, PmState
<1>3. setFastForward(pm, f, d) = IF pm.ff = f THEN pm ELSE IF f THEN t ELSE notifyElapsedTimeUpdate(t)
  BY DEF setFastForward
<1> HIDE DEF t
<1>4. StackKept(notifyElapsedTimeUpdate(t)) /\ TimerKept(notifyElapsedTimeUpdate(t))
  BY <1>2, NotifyKeeps
<1>5. f => Follows(t)
  BY <1>2 DEF Follows
<1>6. Follows(notifyElapsedTimeUpdate(t))
  BY <1>4 DEF Follows
<1> QED BY <1>1, <1>3, <1>5, <1>6

\* One turn of iterate(), with the head of the queue taken off.
LEMMA IterateKeeps ==
  ASSUME PmInv, Iterate
  PROVE  Follows(pm')
<1> DEFINE ins == Head(pm.queue)
           s == [pm EXCEPT !.queue = Tail(@)]
<1>1. StackKept(pm) /\ Follows(pm) /\ pmCfg \in PmConfigs /\ pm \in PmState /\ pm.queue # <<>>
  BY DEF PmInv, Follows, StackKept, Iterate
<1>2. ins \in PmInstrs \union PmPseudo
  BY <1>1 DEF PmState, PmQueues
<1>3. /\ StackKept(s) /\ s.ff = pm.ff
      /\ TimerKept(s) <=> TimerKept(pm)
  <2>1. PICK q \in PmQueues : q = Tail(pm.queue)
    <3>1. Tail(pm.queue) \in PmQueues
      BY <1>1 DEF PmState, PmQueues
    <3> QED BY <3>1
  <2>2. s = [pm EXCEPT !.queue = q]
    BY <2>1
  <2> HIDE DEF s
  <2> QED BY <1>1, <2>2 DEF StackKept, TimerKept, PmState
<1>4. CASE pm.ff \/ ~pm.enabled
  <2>1. pm' = s
    BY <1>4 DEF Iterate
  <2>2. Follows(s)
    <3> HIDE DEF s
    <3> QED BY <1>1, <1>3 DEF Follows
  <2> QED BY <2>1, <2>2
<1>5. CASE ~(pm.ff \/ ~pm.enabled)
  <2>1. PICK lat \in PmLatencies, d \in SimulatedCycles(pmCfg, ins) :
          pm' = IF pmCfg.model = "oneipc" THEN handleOneIPC(pmCfg, s, ins, lat)
                ELSE handleMicroOps(pmCfg, s, ins, d)
    BY <1>5 DEF Iterate
  <2>2. d \in Int /\ OutOfBand(pmCfg, ins) \in Nat
    BY <1>1, <1>2, <2>1, CyclesAreNumbers
  <2>3. ~pm.ff
    BY <1>5
  <2> HIDE DEF ins, s
  <2>4. CASE pmCfg.model = "oneipc"
    <3>1. StackKept(pm')
      BY <1>1, <1>2, <1>3, <2>1, <2>4, OneIPCKeeps
    <3> QED BY <3>1, <2>4 DEF Follows
  <2>5. CASE pmCfg.model # "oneipc"
    <3>1. StackKept(pm') /\ (TimerKept(s) => TimerKept(pm'))
      BY <1>1, <1>3, <2>1, <2>2, <2>5, MicroOpsKeeps
    <3> QED BY <1>1, <1>3, <2>3, <3>1 DEF Follows
  <2> QED BY <2>4, <2>5
<1> QED BY <1>4, <1>5

\* Fast-forward spends time only in fast-forward.
LEMMA FastForwardedKeeps ==
  ASSUME PmInv, FastForwarded
  PROVE  Follows(pm')
<1>1. StackKept(pm) /\ pmCfg \in PmConfigs /\ pm.ff
  BY DEF PmInv, FastForwarded
<1>2. \/ pm' = pm
      \/ \E t \in Int : pm' = Spend(pm, "ffwd", t)
  <2>1. \A n \in 1 .. 2 : n * pmCfg.cpi \in Int
    BY <1>1, PmAssumption
  <2>2. PmLatencies \subseteq Int /\ pmCfg.branch \in Int
    BY <1>1, PmAssumption
  <2> QED BY <2>1, <2>2 DEF FastForwarded, ffCountInstructions, ffHandleMemoryLatency,
                            ffHandleBranchMispredict, ffIncrement
<1>3. StackKept(pm') /\ pm'.ff
  BY <1>1, <1>2, SpendKeeps
<1> QED BY <1>3 DEF Follows

LEMMA PmNextInv ==
  ASSUME PmInv, [PmNext]_pmVars
  PROVE  PmInv'
<1>1. CASE UNCHANGED pmVars
  BY <1>1 DEF PmInv, pmVars, StackKept, TimerKept
<1>2. CASE PmNext
  <2>1. pmCfg' = pmCfg
    BY <1>2 DEF PmNext, Running, EnableModel, DisableModel, SetFastForward, SpawnThread, QueuePseudo,
                QueueInstruction, Iterate, FastForwarded
  <2>2. StackKept(pm) /\ Follows(pm)
    BY DEF PmInv, Follows
  <2>3. Follows(pm')
    <3>1. ASSUME EnableModel \/ DisableModel PROVE Follows(pm')
      <4>1. PICK e \in BOOLEAN : pm' = [pm EXCEPT !.enabled = e]
        BY <3>1 DEF EnableModel, DisableModel
      <4> QED BY <2>2, <4>1 DEF Follows, StackKept, TimerKept, PmState
    <3>2. ASSUME SetFastForward PROVE Follows(pm')
      BY <3>2, SetFastForwardKeeps DEF SetFastForward
    <3>3. ASSUME SpawnThread PROVE Follows(pm')
      <4>1. PICK t \in Int : pm' = setElapsedTime(pm, t)
        BY <3>3 DEF SpawnThread
      <4> QED BY <2>2, <4>1, SetTimeKeeps DEF Follows
    <3>4. ASSUME QueuePseudo PROVE Follows(pm')
      BY <3>4, QueuePseudoKeeps DEF QueuePseudo
    <3>5. ASSUME QueueInstruction PROVE Follows(pm')
      <4>1. PICK i \in PmInstrs : pm' = [pm EXCEPT !.queue = Append(@, i)]
        BY <3>5 DEF QueueInstruction
      <4>2. PICK q \in PmQueues : q = Append(pm.queue, i)
        <5>1. Append(pm.queue, i) \in PmQueues
          BY <2>2 DEF StackKept, PmState, PmQueues
        <5> QED BY <5>1
      <4>3. pm' = [pm EXCEPT !.queue = q]
        BY <4>1, <4>2
      <4> QED BY <2>2, <4>3 DEF Follows, StackKept, TimerKept, PmState
    <3>6. ASSUME Iterate PROVE Follows(pm')
      BY <3>6, IterateKeeps
    <3>7. ASSUME FastForwarded PROVE Follows(pm')
      BY <3>7, FastForwardedKeeps
    <3> QED BY <1>2, <3>1, <3>2, <3>3, <3>4, <3>5, <3>6, <3>7 DEF PmNext
  <2>4. pmCfg \in PmConfigs
    BY DEF PmInv
  <2> QED BY <2>1, <2>3, <2>4 DEF PmInv, Follows, StackKept, TimerKept
<1> QED BY <1>1, <1>2

\* performance_model.cc, micro_op_performance_model.cc: whatever jumps the clock
\* of a core, the detailed timer has the core's time whenever the detailed model is in
\* control, and every femtosecond is in one component of the CPI stack; for every
\* instruction, latency and cost, however other threads switch the models.
THEOREM TimeKeptHolds == PmSpec => []TimeKept
<1>1. PmInv /\ [PmNext]_pmVars => PmInv'
  BY PmNextInv
<1>2. PmInv => TimeKept
  BY DEF PmInv, StackKept, TimerKept, TimeKept
<1> QED
  BY PmInitInv, <1>1, <1>2, PTL DEF PmSpec
=============================================================================
