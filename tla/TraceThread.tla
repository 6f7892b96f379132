----------------------------- MODULE TraceThread -----------------------------
(***************************************************************************)
(* How a thread of the trace front end turns the packets of its trace into *)
(* counts, cache accesses and instructions (trace_frontend/trace_thread.cc)*)
(* while the instrumentation mode of the simulator changes under it, the   *)
(* recorder follows with a delay, and the scheduler moves the thread.      *)
(***************************************************************************)
EXTENDS Integers, Sequences, FiniteSets

CONSTANTS
  TtCode,      \* static instructions: [addr, size, branch, kind, executed, mapped]
  TtDigit,     \* stands for 256: values of a byte of the page number
  TtIds,       \* ids of applications and of cores: the sets of their bits
  TtMaxSteps,  \* bound: packets of the trace
  TtMaxModes   \* bound: changes of the instrumentation mode

\* No instruction is at address 0, which run() takes for "no block yet".
ASSUME TtAssumption ==
  /\ TtDigit \in Nat \ {0}
  /\ \A id \in TtIds : id \subseteq 0 .. 15
  /\ \A i \in TtCode : i.addr \in Nat \ {0} /\ i.size \in Nat

TtModes == {"FAST_FORWARD", "CACHE_ONLY", "DETAILED"}

VARIABLES
  ttMode,    \* Simulator::getInstrumentationMode()
  ttRec,     \* the mode of the recorder: kind of packets it sends
  ttInst,    \* run(): `inst', the instruction that waits for its successor
  ttBbv,     \* m_bbv_base, m_bbv_count, m_bbv_last, m_bbv_end
  ttBlocked, \* m_blocked
  ttCore,    \* m_thread->getCore() is not NULL
  ttCounted, \* what countInstructions() was told
  ttWarmed,  \* addresses readInstructionMemory() has warmed up
  ttAborted, \* an assertion that the thread is on a core has failed
  ttDone,    \* history: instructions executed
  ttDark,    \* history: those in cache-only packets of a thread that sleeps in a
             \* system call or has no core
  ttRan,     \* history: addresses executed since the mode became CACHE_ONLY
  ttSteps, ttChanges

ttVars == <<ttMode, ttRec, ttInst, ttBbv, ttBlocked, ttCore, ttCounted, ttWarmed,
            ttAborted, ttDone, ttDark, ttRan, ttSteps, ttChanges>>

NoInst == [addr |-> 0]
-----------------------------------------------------------------------------
\* The constructor: the inside-out shuffle, for draws[i] = rng_next() % (i + 1).
MutShuffle(draws) ==
  LET Put[i \in 0 .. TtDigit - 1] ==
        IF i = 0 THEN [k \in {0} |-> 0]
        ELSE [k \in 0 .. i |-> IF k \in {draws[i], i} THEN i ELSE Put[i - 1][k]]
  IN  Put[TtDigit - 1]
shuffle(draws) ==
  LET Put[i \in 0 .. TtDigit - 1] ==
        IF i = 0 THEN [k \in {0} |-> 0]
        ELSE LET t == Put[i - 1]
             IN  [k \in 0 .. i |-> IF k = draws[i] THEN i
                                   ELSE IF k = i THEN t[draws[i]] ELSE t[k]]
  IN  Put[TtDigit - 1]
Draws == {d \in [1 .. TtDigit - 1 -> 0 .. TtDigit - 1] : \A i \in DOMAIN d : d[i] <= i}

\* Addresses are [top, high, digits, offset]: the set bits of the 16 highest, the
\* part of the page number that is kept, the bytes of it that are remapped, and
\* the offset in the page.
remapAddress(table, digits) == [k \in DOMAIN digits |-> table[digits[k]]]

\* va2pa(): the address the trace knows, if it has physical addresses, or one made
\* of the id of the application (of the core, with the sequential scheduler), which
\* is or-ed to the address when it is randomised and replaces the highest bits
\* otherwise.
NoPa == [high |-> -1]
MadeUp(random, id, table, va) ==
  IF random THEN [va EXCEPT !.top = id \union @, !.digits = remapAddress(table, @)]
  ELSE [va EXCEPT !.top = id]
va2pa(pa, fromCore, random, app, core, table, va) ==
  IF pa # NoPa THEN pa ELSE MadeUp(random, IF fromCore THEN core ELSE app, table, va)

\* num_memory_operands(), op_read_mem(), op_write_mem() of the decoder: the
\* operands that are read, and those that are written.  A pair has two operands
\* and one address in the trace.
Reads(i)  == CASE i.kind \in {"load", "atomic", "prefetch"} -> {0} [] i.kind = "pair" -> {0, 1} [] OTHER -> {}
Writes(i) == CASE i.kind \in {"store", "atomic"} -> {0} [] OTHER -> {}
NumAddresses(i) == IF Reads(i) \union Writes(i) = {} THEN 0 ELSE 1
Skipped(i) == ~i.executed \/ (i.kind = "prefetch" /\ ~i.mapped)
Fails == "Did not receive enough data addresses"

\* handleInstructionWarmup(): the accesses it makes.  It looks for the second
\* operand of a pair one index too high, and logs the write of an atomic update,
\* which was read for writing, as a hit.
ReadOp(i) == IF i.kind = "atomic" THEN "READ_EX" ELSE "READ"
WarmupAccesses(i) ==
  LET Address(k) == IF k < NumAddresses(i) THEN k ELSE Fails
  IN  IF Skipped(i) THEN {} ELSE {<<ReadOp(i), Address(k)>> : k \in Reads(i)} \union
                                 {<<"WRITE", Address(k)>> : k \in IF i.kind = "atomic" THEN {} ELSE Writes(i)}
\* handleInstructionDetailed(), addDetailedMemoryInfo(): the operands that will
\* access memory when the instruction is simulated.
DetailedAccesses(i) ==
  LET Address(k) == IF k < NumAddresses(i) \/ (i.kind = "pair" /\ k = NumAddresses(i)) THEN k ELSE Fails
  IN  IF Skipped(i) THEN {} ELSE {<<ReadOp(i), Address(k)>> : k \in Reads(i)} \union
                                 {<<"WRITE", Address(k)>> : k \in Writes(i)}
-----------------------------------------------------------------------------
TtInit ==
  /\ ttMode \in TtModes /\ ttRec = ttMode
  /\ ttInst = NoInst
  /\ ttBbv = [base |-> 0, count |-> 0, last |-> 0, end |-> FALSE]
  /\ ttBlocked = FALSE /\ ttCore = TRUE /\ ttAborted = FALSE
  /\ ttCounted = 0 /\ ttWarmed = {} /\ ttDone = 0 /\ ttDark = 0 /\ ttRan = {}
  /\ ttSteps = 0 /\ ttChanges = 0

Packet == ttSteps < TtMaxSteps /\ ttSteps' = ttSteps + 1

\* The reconstruction of basic blocks in run().
Block(i) == i.addr .. (i.addr + i.size - 1)
NewBlock(i) == ttBbv.end \/ ttBbv.last # i.addr
MutNextBbv(i) ==
  [base  |-> IF NewBlock(i) THEN i.addr ELSE ttBbv.base,
   count |-> ttBbv.count + 1,
   last  |-> i.addr + i.size,
   end   |-> i.branch]
NextBbv(i) ==
  [base  |-> IF NewBlock(i) THEN i.addr ELSE ttBbv.base,
   count |-> (IF NewBlock(i) THEN 0 ELSE ttBbv.count) + 1,
   last  |-> i.addr + i.size,
   end   |-> i.branch]

\* unblock() is the first thing a packet does to a thread that sleeps: it waits
\* for a core, and so does reschedule() in the end.
CanRun == ttBlocked \/ ttCore
Runs == CanRun /\ ttBlocked' = FALSE /\ ttCore' = TRUE

\* An iteration of run(): the packet of the next instruction has arrived and
\* `inst' is counted and, by mode, ignored, used for warm-up or simulated.
\* handleInstructionWarmup() warms up the block before.
runIteration(next) ==
  /\ ttRec = "DETAILED" /\ Packet
  /\ ttInst' = next
  /\ IF ttInst = NoInst
     THEN UNCHANGED <<ttBbv, ttCounted, ttWarmed, ttDone, ttRan, ttBlocked, ttCore>>
     ELSE /\ Runs
          /\ ttBbv' = NextBbv(ttInst)
          /\ ttCounted' = ttCounted + IF NewBlock(ttInst) THEN ttBbv.count ELSE 0
          /\ ttWarmed' = IF NewBlock(ttInst) /\ ttBbv.base # 0 /\ ttMode = "CACHE_ONLY"
                         THEN ttWarmed \union (ttBbv.base .. ttBbv.last - 1) ELSE ttWarmed
          /\ ttRan' = IF ttMode = "CACHE_ONLY" THEN ttRan \union Block(ttInst) ELSE ttRan
          /\ ttDone' = ttDone + 1
  /\ UNCHANGED <<ttMode, ttRec, ttAborted, ttDark, ttChanges>>

\* handleInstructionCountFunc(): icount instructions without detail, and the
\* reply that tells the recorder the mode.
handleInstructionCountFunc(icount) ==
  /\ Packet /\ Runs
  /\ ttRec # "DETAILED" \/ icount = 0
  /\ ttCounted' = ttCounted + icount
  /\ ttDone' = ttDone + icount
  /\ ttRec' = ttMode
  /\ UNCHANGED <<ttMode, ttInst, ttBbv, ttWarmed, ttAborted, ttDark, ttRan, ttChanges>>

\* handleCacheOnlyFunc(): an access with the instructions since the last one; it
\* is ignored, instructions and all, when the thread is on no core.  The only
\* packet that does not unblock the thread, and that does not call reschedule():
\* a hook that countInstructions() runs may synchronize, and at the end of the
\* period the scheduler may take the thread off its core.
handleCacheOnlyFunc(icount) ==
  /\ Packet
  /\ ttRec = "CACHE_ONLY"
  /\ ttCounted' = ttCounted + IF ttCore THEN icount ELSE 0
  /\ ttCore' \in IF ttCore /\ icount > 0 THEN BOOLEAN ELSE {ttCore}
  /\ ttDone' = ttDone + icount
  /\ ttDark' = ttDark + IF ttBlocked \/ ~ttCore THEN icount ELSE 0
  /\ UNCHANGED <<ttMode, ttRec, ttInst, ttBbv, ttBlocked, ttWarmed, ttAborted, ttRan, ttChanges>>

\* handleSyscallFunc(): a call that sleeps, or one that returns.
handleSyscall(sleeps) ==
  /\ Packet /\ CanRun
  /\ ttBlocked' = sleeps /\ ttCore' = TRUE
  /\ UNCHANGED <<ttMode, ttRec, ttInst, ttBbv, ttCounted, ttWarmed, ttAborted, ttDone, ttDark, ttRan,
                 ttChanges>>

\* handleEmuFunc(): an emulated instruction (time, processor numbers, counters).
handleEmuFunc ==
  /\ Packet /\ Runs
  /\ UNCHANGED <<ttMode, ttRec, ttInst, ttBbv, ttCounted, ttWarmed, ttAborted, ttDone, ttDark, ttRan,
                 ttChanges>>

\* Any other packet but a cache-only one for a thread that is on no core and does
\* not sleep: LOG_ASSERT_ERROR(m_thread->getCore(), ...).
assertOnCore ==
  /\ Packet /\ ~CanRun
  /\ ttAborted' = TRUE
  /\ UNCHANGED <<ttMode, ttRec, ttInst, ttBbv, ttBlocked, ttCore, ttCounted, ttWarmed, ttDone, ttDark,
                 ttRan, ttChanges>>

\* Thread::setCore(), by the scheduler: a thread that sleeps loses its core, and
\* one without a core gets one.
threadSetCore ==
  /\ ttBlocked \/ ~ttCore
  /\ ttCore' = ~ttCore
  /\ UNCHANGED <<ttMode, ttRec, ttInst, ttBbv, ttBlocked, ttCounted, ttWarmed, ttAborted, ttDone, ttDark,
                 ttRan, ttSteps, ttChanges>>

\* Simulator::setInstrumentationMode(), by any thread.
setInstrumentationMode(m) ==
  /\ ttChanges < TtMaxModes /\ ttChanges' = ttChanges + 1
  /\ m # ttMode
  /\ ttMode' = m
  /\ ttRan' = {}
  /\ UNCHANGED <<ttRec, ttInst, ttBbv, ttBlocked, ttCore, ttCounted, ttWarmed, ttAborted, ttDone, ttDark,
                 ttSteps>>

TtNext ==
  /\ ~ttAborted
  /\ \/ \E i \in TtCode : runIteration(i)
     \/ \E n \in 0 .. 2 : handleInstructionCountFunc(n) \/ handleCacheOnlyFunc(n)
     \/ \E sleeps \in BOOLEAN : handleSyscall(sleeps)
     \/ handleEmuFunc \/ assertOnCore \/ threadSetCore
     \/ \E m \in TtModes : setInstrumentationMode(m)

TtSpec == TtInit /\ [][TtNext]_ttVars
-----------------------------------------------------------------------------
\* No instruction is counted twice, whatever the recorder sends and wherever the
\* mode changes, and none is lost but in cache-only packets of a thread that sleeps
\* in a system call or has no core: what countInstructions() was told and the open
\* basic block account for all the others.  And warm-up reaches the instruction
\* cache for everything that ran, the open block apart.
BlocksAccounted ==
  /\ LET seen == ttCounted + ttBbv.count IN ttDone - ttDark <= seen /\ seen <= ttDone
  /\ ttRan \subseteq ttWarmed \union (ttBbv.base .. ttBbv.last - 1)

\* Two addresses that va2pa() makes up for user addresses of threads with other ids
\* never are the same, whatever the random numbers were, and neither are two of one
\* application (remapAddress(): "we never map different incoming addresses onto the
\* same outgoing address"); of two applications that share an id, only without
\* randomisation.  One made up is a physical address of the trace only for id 0.
UserAddresses ==
  [top : {{}}, high : {0, 1}, digits : [1 .. 2 -> 0 .. TtDigit - 1], offset : {0}]
AddressesDistinct ==
  \A fromCore, random \in BOOLEAN, draws \in [TtIds -> Draws], a, b \in TtIds, c, d \in TtIds :
    LET Id(app, core) == IF fromCore THEN core ELSE app
        A(v) == va2pa(NoPa, fromCore, random, a, c, shuffle(draws[a]), v)
        B(pa, w) == va2pa(pa, fromCore, random, b, d, shuffle(draws[b]), w)
    IN  \A v, w \in UserAddresses :
          /\ A(v) = B(NoPa, w) => Id(a, c) = Id(b, d) /\ (a = b \/ ~random => v = w)
          /\ A(v) = B(w, w) => Id(a, c) = {}

\* An instruction other than a pair makes the same accesses in warm-up and in
\* detailed simulation, where the write that follows a read for writing finds the
\* line.
AccessesAgree ==
  \A i \in TtCode :
    LET detailed == DetailedAccesses(i)
    IN  i.kind = "pair" \/
        WarmupAccesses(i) = detailed \ {<<"WRITE", k>> : k \in {k \in 0 .. 1 : <<"READ_EX", k>> \in detailed}}

\* What a trace contains is counted, warmed up and mapped to memory faithfully.
TraceAccounted == BlocksAccounted /\ AddressesDistinct /\ AccessesAgree
=============================================================================
