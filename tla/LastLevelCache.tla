--------------------------- MODULE LastLevelCache ---------------------------
(***************************************************************************)
(* The last-level caches, seen from the directory: CacheCntlr at the level *)
(* that has no next level, together with the cores whose misses reach it   *)
(* (parametric_dram_directory_msi/cache_cntlr.cc).                         *)
(*                                                                         *)
(* A core's access that reaches this level, and a message handler of the   *)
(* network thread, each run under the stack lock of the line's set, so     *)
(* each is one step.  The exception is the loop that wakes the waiting     *)
(* cores after a reply: it hands the stack lock to one core after the      *)
(* other, and other cores get in between.                                  *)
(***************************************************************************)
EXTENDS ShmemNetwork

CONSTANTS
  Cores,        \* the cores that run a user thread
  LlcOf,        \* LlcOf[c]: the master core of c's last-level cache
  MaxWriteBacks \* bound: no line is evicted while this many write-backs are
                \* under way to the DRAM controller

ASSUME CoresAssumption == /\ IsFiniteSet(Cores) /\ LlcOf \in [Cores -> LLCs]
                          /\ MaxWriteBacks \in Nat

VARIABLES
  cstate,       \* cstate[l][a]: state of the line in l
  cdata,        \* cdata[l][a]: its contents
  waiters,      \* waiters[l][a]: m_directory_waiters
  net           \* net[l]: what l's network thread is doing

llcVars == <<cstate, cdata, waiters, net>>

CStates == {"I", "S", "SU", "E", "M"}
Readable == {"M", "S", "E"}
Writable == {"M"}

Waiter == [core : Cores, exclusive : BOOLEAN]

\* "idle"   between two messages;
\* "loop"   at the head of the wake-up loop for addr, holding the stack lock;
\* "served" the first waiter has run with the stack lock and released it, and
\*          is still at the front of the queue.
NetIdle == [phase |-> "idle"]
Net == {NetIdle} \union [phase : {"loop", "served"}, addr : Addrs]

CacheInit == /\ cstate = [l \in LLCs |-> [a \in Addrs |-> "I"]]
             /\ cdata = [l \in LLCs |-> [a \in Addrs |-> 0]]
             /\ waiters = [l \in LLCs |-> [a \in Addrs |-> <<>>]]
             /\ net = [l \in LLCs |-> NetIdle]

CacheTypeOK == /\ cstate \in [LLCs -> [Addrs -> CStates]]
               /\ cdata \in [LLCs -> [Addrs -> Data]]
               /\ waiters \in [LLCs -> [Addrs -> Seq(Waiter)]]
               /\ net \in [LLCs -> Net]

\* A waiter that has run stays queued until the network thread takes it off.
Served(l, a, i) == net[l] = [phase |-> "served", addr |-> a] /\ i = 1

\* A core is blocked while it waits in the queue of its cache.
Blocked(c) ==
  LET l == LlcOf[c]
  IN  \E a \in Addrs : \E i \in DOMAIN waiters[l][a] :
        waiters[l][a][i].core = c /\ ~Served(l, a, i)

StackLockFree(l) == net[l].phase # "loop"

\* The contents of an invalid line do not matter; they are kept at 0.
SetLine(l, a, s, d) == /\ cstate' = [cstate EXCEPT ![l][a] = s]
                       /\ cdata' = [cdata EXCEPT ![l][a] = d]
-----------------------------------------------------------------------------
(***************************************************************************)
(* processShmemReqFromPrevCache() at the last level.  A read leaves the    *)
(* line alone; a write, or a read with intent to write, needs MODIFIED and *)
(* turns EXCLUSIVE into it without telling the directory.                  *)
(***************************************************************************)
CanRead(l, a)  == cstate[l][a] \in Readable
MutCanWriteShared(l, a) == cstate[l][a] \in {"S", "E", "M"}
CanWrite(l, a) == cstate[l][a] \in Writable \union {"E"}
Permitted(l, a, exclusive) ==
  IF exclusive THEN CanWrite(l, a) ELSE CanRead(l, a)

NextVersion(a) == IF latest[a] < MaxWrites THEN latest[a] + 1 ELSE latest[a]

Access(l, a, exclusive) ==
  \/ exclusive = FALSE /\ UNCHANGED <<cstate, cdata, latest>>
  \/ /\ exclusive = TRUE
     /\ SetLine(l, a, "M", NextVersion(a))
     /\ latest' = [latest EXCEPT ![a] = NextVersion(a)]

Hit(c, a) ==
  LET l == LlcOf[c]
  IN  /\ ~Blocked(c) /\ StackLockFree(l)
      /\ \E exclusive \in BOOLEAN :
           Permitted(l, a, exclusive) /\ Access(l, a, exclusive)
      /\ UNCHANGED <<waiters, net, inbox, dram>>

\* initiateDirectoryAccess(): queue up; only the first waiter of a line sends a
\* request.  A write that finds the line SHARED asks for an upgrade.
FirstWaiter(l, a) == waiters[l][a] = <<>>

Miss(c, a) ==
  LET l == LlcOf[c]
      first == FirstWaiter(l, a)
  IN  /\ ~Blocked(c) /\ StackLockFree(l)
      /\ \E exclusive \in BOOLEAN :
           LET upgrade == exclusive /\ cstate[l][a] = "S"
               type == CASE upgrade -> "UPGRADE_REQ"
                         [] exclusive /\ ~upgrade -> "EX_REQ"
                         [] OTHER -> "SH_REQ"
           IN  /\ ~Permitted(l, a, exclusive)
               /\ waiters' = [waiters EXCEPT ![l][a] =
                    Append(@, [core |-> c, exclusive |-> exclusive])]
               /\ inbox' = IF first THEN Send(inbox, Home, Msg(type, l, a, NoData))
                           ELSE inbox
               /\ cstate' = IF first /\ upgrade
                            THEN [cstate EXCEPT ![l][a] = "SU"] ELSE cstate
      /\ UNCHANGED <<cdata, net, dram, latest>>
-----------------------------------------------------------------------------
(***************************************************************************)
(* handleMsgFromDramDirectory(): the replies.                              *)
(***************************************************************************)
LlcMsg(l) == Head(inbox[l])
Gets(l, types) == /\ net[l] = NetIdle /\ Pending(l)
                  /\ LlcMsg(l).type \in types

\* What the code asserts of a reply: somebody waits for it; data goes into a
\* line that is not there, an upgrade to one that is waiting for it.
RepAssertions(l, m) ==
  /\ waiters[l][m.addr] # <<>>
  /\ cstate[l][m.addr] = IF m.type = "UPGRADE_REP" THEN "SU" ELSE "I"

MutInsertedExclusive(type) == "E"
InsertedAs(type) == CASE type = "EX_REP" -> "E"
                      [] type = "SH_REP" -> "S"

HandleDataRep(l) ==
  /\ Gets(l, {"EX_REP", "SH_REP"}) /\ RepAssertions(l, LlcMsg(l))
  /\ SetLine(l, LlcMsg(l).addr, InsertedAs(LlcMsg(l).type), LlcMsg(l).data)
  /\ net' = [net EXCEPT ![l] = [phase |-> "loop", addr |-> LlcMsg(l).addr]]
  /\ inbox' = Received(l)
  /\ UNCHANGED <<waiters, dram, latest>>

MutUpgradeTakesBuffer(l) ==
  /\ Gets(l, {"UPGRADE_REP"}) /\ RepAssertions(l, LlcMsg(l))
  /\ SetLine(l, LlcMsg(l).addr, "M", LlcMsg(l).data)
  /\ net' = [net EXCEPT ![l] = [phase |-> "loop", addr |-> LlcMsg(l).addr]]
  /\ inbox' = Received(l)
  /\ UNCHANGED <<waiters, dram, latest>>
HandleUpgradeRep(l) ==
  /\ Gets(l, {"UPGRADE_REP"}) /\ RepAssertions(l, LlcMsg(l))
  /\ SetLine(l, LlcMsg(l).addr, "M", cdata[l][LlcMsg(l).addr])
  /\ net' = [net EXCEPT ![l] = [phase |-> "loop", addr |-> LlcMsg(l).addr]]
  /\ inbox' = Received(l)
  /\ UNCHANGED <<waiters, dram, latest>>

\* The head of the loop: the queue is empty, the next waiter needs an upgrade
\* first, or it runs with the stack lock and finds its line.
LoopEnds(l) ==
  /\ net[l].phase = "loop" /\ waiters[l][net[l].addr] = <<>>
  /\ net' = [net EXCEPT ![l] = NetIdle]
  /\ UNCHANGED <<cstate, cdata, waiters, inbox, dram, latest>>

LoopUpgrades(l) ==
  /\ net[l].phase = "loop"
  /\ LET a == net[l].addr
     IN  /\ waiters[l][a] # <<>> /\ waiters[l][a][1].exclusive
         /\ cstate[l][a] = "S"
         /\ cstate' = [cstate EXCEPT ![l][a] = "SU"]
         /\ inbox' = Send(inbox, Home, Msg("UPGRADE_REQ", l, a, NoData))
  /\ net' = [net EXCEPT ![l] = NetIdle]
  /\ UNCHANGED <<cdata, waiters, dram, latest>>

\* "Tried to read in next-level cache, but data is already gone"
WakeAssertion(l, a) == Permitted(l, a, waiters[l][a][1].exclusive)

LoopWakes(l) ==
  /\ net[l].phase = "loop"
  /\ LET a == net[l].addr
     IN  /\ waiters[l][a] # <<>>
         /\ ~(waiters[l][a][1].exclusive /\ cstate[l][a] = "S")
         /\ WakeAssertion(l, a)
         /\ Access(l, a, waiters[l][a][1].exclusive)
  /\ net' = [net EXCEPT ![l] = [phase |-> "served", addr |-> net[l].addr]]
  /\ UNCHANGED <<waiters, inbox, dram>>

LoopDequeues(l) ==
  /\ net[l].phase = "served"
  /\ waiters' = [waiters EXCEPT ![l][net[l].addr] = Tail(@)]
  /\ net' = [net EXCEPT ![l] = [phase |-> "loop", addr |-> net[l].addr]]
  /\ UNCHANGED <<cstate, cdata, inbox, dram, latest>>
-----------------------------------------------------------------------------
(***************************************************************************)
(* handleMsgFromDramDirectory(): the requests of the directory.  A line    *)
(* that is not there gets no answer: the eviction message, which is on its *)
(* way, takes its place.                                                   *)
(***************************************************************************)
Answer(l, type, d) ==
  inbox' = Send(Received(l), Home, Msg(type, l, LlcMsg(l).addr, d))

\* updateCacheBlock() without an output buffer: "MODIFIED data is about to get
\* lost!"
InvAssertion(l, m) == cstate[l][m.addr] # "M"

HandleInvReq(l) ==
  /\ Gets(l, {"INV_REQ"})
  /\ LET a == LlcMsg(l).addr
     IN  \/ /\ cstate[l][a] # "I" /\ InvAssertion(l, LlcMsg(l))
            /\ SetLine(l, a, "I", 0)
            /\ Answer(l, "INV_REP", NoData)
         \/ /\ cstate[l][a] = "I" /\ inbox' = Received(l)
            /\ UNCHANGED <<cstate, cdata>>
  /\ UNCHANGED <<waiters, net, dram, latest>>

HandleFlushReq(l) ==
  /\ Gets(l, {"FLUSH_REQ"})
  /\ LET a == LlcMsg(l).addr
     IN  \/ /\ cstate[l][a] # "I"
            /\ SetLine(l, a, "I", 0)
            /\ Answer(l, "FLUSH_REP", cdata[l][a])
         \/ /\ cstate[l][a] = "I" /\ inbox' = Received(l)
            /\ UNCHANGED <<cstate, cdata>>
  /\ UNCHANGED <<waiters, net, dram, latest>>

\* A line that waits for its upgrade stays as it is, and the buffer that is
\* sent was never filled.
HandleWbReq(l) ==
  /\ Gets(l, {"WB_REQ"})
  /\ LET a == LlcMsg(l).addr
     IN  \/ /\ cstate[l][a] \in {"S", "E", "M"}
            /\ cstate' = [cstate EXCEPT ![l][a] = "S"]
            /\ Answer(l, "WB_REP", cdata[l][a])
         \/ /\ cstate[l][a] = "SU"
            /\ \E d \in {cdata[l][a], Garbage} : Answer(l, "WB_REP", d)
            /\ UNCHANGED cstate
         \/ /\ cstate[l][a] = "I" /\ inbox' = Received(l)
            /\ UNCHANGED cstate
  /\ UNCHANGED <<cdata, waiters, net, dram, latest>>

\* The network thread fills in a line that is not one of Addrs and its victim
\* is a (insertCacheBlock; isValidReplacement spares SHARED_UPGRADING lines).
WriteBacks ==
  Len(SelectSeq(inbox[Home], LAMBDA m : m.type = "FLUSH_REP")) + Len(inbox[Dram])

\* isValidReplacement()
MutReplaceableAny(s) == s # "I"
Replaceable(s) == s \in {"S", "E", "M"}

Evict(l, a) ==
  /\ net[l] = NetIdle /\ WriteBacks < MaxWriteBacks
  /\ Replaceable(cstate[l][a])
  /\ SetLine(l, a, "I", 0)
  /\ inbox' = Send(inbox, Home,
                IF cstate[l][a] = "M" THEN Msg("FLUSH_REP", l, a, cdata[l][a])
                ELSE Msg("INV_REP", l, a, NoData))
  /\ UNCHANGED <<waiters, net, dram, latest>>
=============================================================================
