--------------------------- MODULE CoherentMemory ---------------------------
(***************************************************************************)
(* The coherent memory system: last-level caches, tag directory and DRAM   *)
(* controller, each run by the network thread of its core, and the cores'  *)
(* user threads.                                                           *)
(***************************************************************************)
EXTENDS DramDirectory, LastLevelCache

vars == <<inbox, dram, latest, dirVars, llcVars>>

Init == NetworkInit /\ DirectoryInit /\ CacheInit

DirectoryStep ==
  /\ \/ ProcessWithEntry \/ ProcessEvictUncached \/ ProcessEvictCached
     \/ ProcessNullify
     \/ HandleReq \/ HandleInvRep \/ HandleFlushRep \/ HandleWbRep
     \/ HandleDramReply
  /\ UNCHANGED llcVars

DramStep == (DramRead \/ DramWrite) /\ UNCHANGED <<dirVars, llcVars>>

NetworkThreadStep(l) ==
  /\ \/ HandleDataRep(l) \/ HandleUpgradeRep(l)
     \/ HandleInvReq(l) \/ HandleFlushReq(l) \/ HandleWbReq(l)
     \/ LoopEnds(l) \/ LoopUpgrades(l) \/ LoopWakes(l) \/ LoopDequeues(l)
  /\ UNCHANGED dirVars

CoreStep(c, a) == (Hit(c, a) \/ Miss(c, a)) /\ UNCHANGED dirVars
EvictStep(l, a) == Evict(l, a) /\ UNCHANGED dirVars

Next == \/ DirectoryStep \/ DramStep
        \/ \E l \in LLCs : NetworkThreadStep(l)
        \/ \E c \in Cores, a \in Addrs : CoreStep(c, a)
        \/ \E l \in LLCs, a \in Addrs : EvictStep(l, a)

\* Every network thread loops over its inbox for ever; cores may stop
\* accessing memory, and lines need not be evicted.
Fairness == /\ WF_vars(DirectoryStep) /\ WF_vars(DramStep)
            /\ \A l \in LLCs : WF_vars(NetworkThreadStep(l))

Spec == Init /\ [][Next]_vars /\ Fairness
-----------------------------------------------------------------------------
TypeOK == NetworkTypeOK /\ DirectoryTypeOK /\ CacheTypeOK

\* A cache that may write a line (MODIFIED, or EXCLUSIVE, which it may turn into
\* MODIFIED without asking) is the only one that holds a copy of it.
SingleWriter ==
  \A a \in Addrs : \A l, k \in LLCs :
    l # k /\ cstate[l][a] \in {"E", "M"} => cstate[k][a] = "I"

\* The directory knows every copy: silent drops do not exist in this protocol,
\* so a cache with a copy is one of the sharers of the line's entry, and the
\* entry of a line that some cache may write names that cache as the owner.
DirectoryCovers ==
  \A a \in Addrs : \A l \in LLCs :
    cstate[l][a] # "I" =>
      /\ HasEntry(a) /\ l \in dir[a].sharers
      /\ cstate[l][a] \in {"E", "M"} =>
           /\ dir[a].state \in {"EXCLUSIVE", "MODIFIED"}
           /\ dir[a].owner = l /\ dir[a].sharers = {l}

\* Nothing in flight and nobody in the middle of a handler: then the directory
\* and the caches agree exactly, and no request is left behind in a queue.
Quiet == /\ \A n \in Nodes : inbox[n] = <<>>
         /\ ~work.busy /\ \A l \in LLCs : net[l] = NetIdle
QuietAgreement ==
  Quiet => \A a \in Addrs :
    /\ queue[a] = <<>> /\ a \notin replaced
    /\ \A l \in LLCs : waiters[l][a] = <<>>
    /\ dir[a].sharers = {l \in LLCs : cstate[l][a] # "I"}
    /\ dir[a].state = "UNCACHED" <=> dir[a].sharers = {}
    /\ dir[a].state = "MODIFIED" => \E l \in LLCs : cstate[l][a] = "M"

\* The assertions of dram_directory_cntlr.cc, at the moment the code evaluates
\* them: on the message about to be handled, and on the request about to be
\* processed (assert, LOG_ASSERT_ERROR, "Should not reach here").
DirectoryAssertions ==
  /\ ~work.busy /\ Pending(Home) =>
       CASE HomeMsg.type = "INV_REP" -> InvRepAssertions(HomeMsg)
         [] HomeMsg.type = "FLUSH_REP" -> FlushRepAssertions(HomeMsg)
         [] HomeMsg.type = "WB_REP" -> WbRepAssertions(HomeMsg)
         [] HomeMsg.type = "DRAM_READ_REP" -> DramReplyAssertions(HomeMsg)
         [] OTHER -> HomeMsg.type \in ReqTypes
  /\ work.busy =>
       LET e == IF HasEntry(work.addr) THEN dir[work.addr] ELSE NewEntry
           f == Front(work.addr)
       IN  /\ queue[work.addr] # <<>>
           /\ e.state \in {"EXCLUSIVE", "MODIFIED"} =>
                /\ work.data = NoData
                /\ f.type = "SH_REQ" => e.owner # f.from
                /\ f.type = "UPGRADE_REQ" /\ f.from \in e.sharers =>
                     e.owner = f.from
           /\ e.state = "SHARED" /\ f.type = "EX_REQ" => work.data = NoData
           /\ e.state = "UNCACHED" => e.sharers = {}
           /\ Protocol = "MESIF" /\ e.state = "SHARED" /\ work.data = NoData =>
                e.forwarder # Uninit
           /\ f.type = "NULLIFY_REQ" =>
                work.addr \in replaced /\ e.state = "UNCACHED"
  /\ \A a \in Addrs : \A i \in 2..Len(queue[a]) :
       queue[a][i].type # "NULLIFY_REQ"

\* The assertions of cache_cntlr.cc on messages from the directory, and on a
\* waiter that is woken up ("data is already gone").
CacheAssertions ==
  \A l \in LLCs :
    /\ net[l] = NetIdle /\ Pending(l) =>
         /\ LlcMsg(l).type \in RepTypes => RepAssertions(l, LlcMsg(l))
         /\ LlcMsg(l).type = "INV_REQ" => InvAssertion(l, LlcMsg(l))
    /\ net[l].phase = "loop" /\ waiters[l][net[l].addr] # <<>> =>
         \/ WakeAssertion(l, net[l].addr)
         \/ cstate[l][net[l].addr] = "S"

\* "Cannot find a directory entry to be replaced with a non-zero request list":
\* when a request needs an entry, some entry of the set can be given up.
AllocationSucceeds ==
  work.busy /\ ~HasEntry(work.addr) => Candidates # {}

\* The version last written to a line is still somewhere: in DRAM, in a cache,
\* in a message, or with the directory ("MODIFIED data is about to get lost!").
LatestSurvives ==
  \A a \in Addrs :
    \/ dram[a] = latest[a]
    \/ \E l \in LLCs : cstate[l][a] # "I" /\ cdata[l][a] = latest[a]
    \/ \E n \in Nodes : \E i \in DOMAIN inbox[n] :
         inbox[n][i].addr = a /\ inbox[n][i].data = latest[a]
    \/ work.busy /\ work.addr = a /\ work.data = latest[a]
    \/ \E i \in DOMAIN queue[a] : queue[a][i].data = latest[a]

\* A core that waits for the directory is eventually served.
WaitersServed == \A c \in Cores : Blocked(c) ~> ~Blocked(c)
=============================================================================
