---------------------------- MODULE DramDirectory ----------------------------
(***************************************************************************)
(* The tag directory: DramDirectoryCntlr with its DramDirectoryCache, for  *)
(* one set of the directory (dram_directory_cntlr.cc).                     *)
(*                                                                         *)
(* One handler of the directory may process several queued requests, one   *)
(* after the other, because processNextReqFromL2Cache() calls the handler  *)
(* of the next request.  Each request is a step of its own here; `work'    *)
(* says which one is next, and the directory takes no message from its     *)
(* inbox until the chain has ended.  In between, the other nodes run, as   *)
(* they do while the directory's thread is inside its handler.             *)
(*                                                                         *)
(* A guard that repeats an assertion of the code marks where the simulator *)
(* would abort; DirectoryAssertions states that none of them ever fails.   *)
(***************************************************************************)
EXTENDS ShmemNetwork

CONSTANTS
  Protocol,       \* m_protocol
  MaxHwSharers,   \* max_hw_sharers of the directory entries
  DirWays         \* m_associativity

ASSUME DirectoryAssumption ==
  /\ Protocol \in {"MSI", "MESI", "MESIF"}
  /\ MaxHwSharers \in Nat \ {0} /\ DirWays \in Nat \ {0}

VARIABLES
  dir,        \* dir[a]: the DirectoryEntry of a, if it has one
  cached,     \* addresses with an entry in the set
  replaced,   \* addresses with an entry in m_replaced_directory_entry_list
  queue,      \* m_dram_directory_req_queue_list
  work        \* the request to process next in the running handler

dirVars == <<dir, cached, replaced, queue, work>>

\* Uninit stands for the value of a field the constructor does not set.
Uninit == Dram

DStates == {"UNCACHED", "SHARED", "EXCLUSIVE", "MODIFIED"}
Entry == [state : DStates, sharers : SUBSET LLCs, owner : LLCs \union {None},
          forwarder : LLCs \union {None, Uninit}]
NewEntry == [state |-> "UNCACHED", sharers |-> {}, owner |-> None,
             forwarder |-> Uninit]

Request ==
  [type : ReqTypes, from : LLCs, waitForData : BOOLEAN,
   forwardingFrom : LLCs \union {None}, data : Data \union {NoData}] \union
  [type : {"NULLIFY_REQ"}, from : {None}, waitForData : {FALSE},
   forwardingFrom : {None}, data : {NoData}]
NewRequest(type, from) ==
  [type |-> type, from |-> from, waitForData |-> FALSE,
   forwardingFrom |-> None, data |-> NoData]

Idle == [busy |-> FALSE]
Process(a, d) == [busy |-> TRUE, addr |-> a, data |-> d]
Work == {Idle} \union
        [busy : {TRUE}, addr : Addrs, data : Data \union {NoData}]

Front(a) == Head(queue[a])

\* getDirectoryEntry() finds an entry of the set, or a replaced one.
HasEntry(a) == a \in cached \union replaced

DirectoryInit == /\ dir = [a \in Addrs |-> NewEntry]
                 /\ cached = {} /\ replaced = {}
                 /\ queue = [a \in Addrs |-> <<>>]
                 /\ work = Idle

DirectoryTypeOK == /\ dir \in [Addrs -> Entry]
                   /\ cached \subseteq Addrs /\ replaced \subseteq Addrs
                   /\ queue \in [Addrs -> Seq(Request)]
                   /\ work \in Work
-----------------------------------------------------------------------------
(***************************************************************************)
(* processNextReqFromL2Cache(): drop the completed request and turn to the *)
(* next one.  q is the queues as the caller leaves them.                   *)
(***************************************************************************)
MutCompleteStops(q, a) == queue' = [q EXCEPT ![a] = Tail(@)] /\ work' = Idle
Complete(q, a) ==
  /\ queue' = [q EXCEPT ![a] = Tail(@)]
  /\ work' = IF Len(q[a]) > 1 THEN Process(a, NoData) ELSE Idle

Wait(q) == queue' = q /\ work' = Idle

\* retrieveDataAndSendToL2Cache(), without a NUCA cache.  e is the entry as the
\* caller leaves it, boxes the inboxes.
Retrieve(a, e, boxes, q, reply, d) ==
  LET r == q[a][1].from
  IN
  \/ /\ d # NoData
     /\ dir' = [dir EXCEPT ![a] = [e EXCEPT !.forwarder = r]]
     /\ inbox' = Send(boxes, r, Msg(reply, Home, a, d))
     /\ Complete(q, a)
  \/ /\ d = NoData
     /\ Protocol = "MESIF" /\ q[a][1].forwardingFrom = None
     /\ e.state = "SHARED" /\ e.forwarder # None
     /\ e.forwarder # Uninit
     /\ dir' = [dir EXCEPT ![a] = e]
     /\ inbox' = Send(boxes, e.forwarder, Msg("WB_REQ", Home, a, NoData))
     /\ Wait([q EXCEPT ![a][1].forwardingFrom = e.forwarder])
  \/ /\ d = NoData
     /\ ~(/\ Protocol = "MESIF" /\ q[a][1].forwardingFrom = None
          /\ e.state = "SHARED" /\ e.forwarder # None)
     /\ dir' = [dir EXCEPT ![a] = e]
     /\ inbox' = Send(boxes, Dram, Msg("DRAM_READ_REQ", Home, a, NoData))
     /\ Wait([q EXCEPT ![a][1].waitForData = TRUE])
-----------------------------------------------------------------------------
(***************************************************************************)
(* The request handlers.  They share their shape: e is the line's entry,   *)
(* boxes and q the inboxes and queues after an entry was allocated for it. *)
(***************************************************************************)
Invalidate(a, S, boxes, q) ==
  /\ inbox' = SendAll(boxes, S, Msg("INV_REQ", Home, a, NoData))
  /\ Wait(q)

ProcessExReq(a, e, boxes, q, d) ==
  LET r == q[a][1].from
  IN
  \/ /\ e.state \in {"EXCLUSIVE", "MODIFIED"} /\ d = NoData
     /\ inbox' = Send(boxes, e.owner, Msg("FLUSH_REQ", Home, a, NoData))
     /\ Wait(q) /\ dir' = [dir EXCEPT ![a] = e]
  \/ /\ e.state = "SHARED" /\ d = NoData
     /\ Invalidate(a, e.sharers, boxes, q) /\ dir' = [dir EXCEPT ![a] = e]
  \/ /\ e.state = "UNCACHED" /\ e.sharers = {}
     /\ Retrieve(a, [e EXCEPT !.state = "MODIFIED", !.sharers = {r},
                              !.owner = r], boxes, q, "EX_REP", d)

\* addSharer() of a full-map or limited_no_broadcast entry.
CanAddSharer(e) == Cardinality(e.sharers) < MaxHwSharers

ProcessShReq(a, e, boxes, q, d) ==
  LET r == q[a][1].from
  IN
  \/ /\ e.state \in {"EXCLUSIVE", "MODIFIED"} /\ d = NoData
     /\ e.state = "EXCLUSIVE" => e.owner # r
     /\ inbox' = Send(boxes, e.owner, Msg("WB_REQ", Home, a, NoData))
     /\ Wait(q) /\ dir' = [dir EXCEPT ![a] = e]
  \/ /\ e.state = "SHARED" /\ r \notin e.sharers /\ ~CanAddSharer(e)
     /\ \E s \in e.sharers : Invalidate(a, {s}, boxes, q)
     /\ dir' = [dir EXCEPT ![a] = e]
  \/ /\ e.state = "SHARED" /\ (r \in e.sharers \/ CanAddSharer(e))
     /\ Retrieve(a, [e EXCEPT !.sharers = @ \union {r}], boxes, q, "SH_REP", d)
  \/ /\ e.state = "UNCACHED" /\ e.sharers = {}
     /\ LET shared == Protocol = "MSI"
        IN  Retrieve(a, [e EXCEPT !.sharers = {r}, !.owner = r,
                           !.state = IF shared THEN "SHARED" ELSE "EXCLUSIVE"],
                     boxes, q, IF shared THEN "SH_REP" ELSE "EX_REP", d)

\* The owner of an EXCLUSIVE or MODIFIED line is its only sharer.
ProcessUpgradeReq(a, e, boxes, q, d) ==
  LET r == q[a][1].from
      stored == q[a][1].data
  IN
  \/ /\ \/ e.state \in {"EXCLUSIVE", "MODIFIED"} /\ r \in e.sharers /\ e.owner = r
        \/ e.state = "SHARED" /\ e.sharers = {r}
     /\ dir' = [dir EXCEPT ![a] = [e EXCEPT !.owner = r, !.state = "MODIFIED"]]
     /\ inbox' = Send(boxes, r, Msg("UPGRADE_REP", Home, a, NoData))
     /\ Complete(q, a)
  \/ /\ e.state \in {"EXCLUSIVE", "MODIFIED"} /\ r \notin e.sharers
     /\ inbox' = Send(boxes, e.owner, Msg("FLUSH_REQ", Home, a, NoData))
     /\ Wait(q) /\ dir' = [dir EXCEPT ![a] = e]
  \/ /\ e.state = "SHARED" /\ e.sharers # {r} /\ r \in e.sharers
     /\ Invalidate(a, e.sharers \ {r}, boxes, q) /\ dir' = [dir EXCEPT ![a] = e]
  \/ \* the requester has lost its copy: one sharer is asked for the data
     /\ e.state = "SHARED" /\ r \notin e.sharers
     /\ \E s \in e.sharers :
          Invalidate(a, e.sharers \ {s},
                     Send(boxes, s, Msg("FLUSH_REQ", Home, a, NoData)), q)
     /\ dir' = [dir EXCEPT ![a] = e]
  \/ /\ e.state = "UNCACHED" /\ e.sharers = {}
     /\ Retrieve(a, [e EXCEPT !.state = "MODIFIED", !.sharers = {r},
                              !.owner = r], boxes, q, "EX_REP",
                 IF d # NoData THEN d ELSE stored)

ProcessReq(a, e, boxes, q, d) ==
  \/ q[a][1].type = "EX_REQ" /\ ProcessExReq(a, e, boxes, q, d)
  \/ q[a][1].type = "SH_REQ" /\ ProcessShReq(a, e, boxes, q, d)
  \/ q[a][1].type = "UPGRADE_REQ" /\ ProcessUpgradeReq(a, e, boxes, q, d)
-----------------------------------------------------------------------------
(***************************************************************************)
(* processDirectoryEntryAllocationReq().  The victim is an entry with the  *)
(* fewest sharers among those without queued requests (m_replacement_ptrs, *)
(* which is never initialised, breaks ties).  It is moved to the list of   *)
(* replaced entries and nullified there: processNullifyReq() is the body   *)
(* below, run for the new NULLIFY_REQ, which is the only queued request of *)
(* the victim.                                                             *)
(***************************************************************************)
MutCandidatesBusy ==
  {v \in cached : \A w \in cached :
     Cardinality(dir[v].sharers) <= Cardinality(dir[w].sharers)}
MutCandidatesUncached == {v \in cached : queue[v] = <<>> /\ dir[v].state = "UNCACHED"}
Candidates ==
  LET free == {v \in cached : queue[v] = <<>>}
  IN  {v \in free : \A w \in free :
         Cardinality(dir[v].sharers) <= Cardinality(dir[w].sharers)}

NullifyRecipients(v) ==
  IF dir[v].state = "SHARED" THEN dir[v].sharers ELSE {dir[v].owner}
NullifyMsg(v) ==
  Msg(IF dir[v].state = "SHARED" THEN "INV_REQ" ELSE "FLUSH_REQ", Home, v, NoData)

\* Process the request at the front of a's queue, whose line has an entry.
ProcessWithEntry ==
  /\ work.busy /\ HasEntry(work.addr)
  /\ Front(work.addr).type # "NULLIFY_REQ"
  /\ ProcessReq(work.addr, dir[work.addr], inbox, queue, work.data)
  /\ UNCHANGED <<cached, replaced, dram, latest>>

\* The same when the line has no entry: an uncached victim goes at once ...
ProcessEvictUncached ==
  /\ work.busy /\ ~HasEntry(work.addr)
  /\ \E v \in Candidates :
       /\ dir[v].state = "UNCACHED"
       /\ cached' = (cached \ {v}) \union {work.addr}
  /\ ProcessReq(work.addr, NewEntry, inbox, queue, work.data)
  /\ UNCHANGED <<replaced, dram, latest>>

\* ... a cached one has to be invalidated or flushed first.
ProcessEvictCached ==
  /\ work.busy /\ ~HasEntry(work.addr)
  /\ \E v \in Candidates :
       /\ dir[v].state # "UNCACHED"
       /\ cached' = (cached \ {v}) \union {work.addr}
       /\ replaced' = replaced \union {v}
       /\ ProcessReq(work.addr, NewEntry,
            SendAll(inbox, NullifyRecipients(v), NullifyMsg(v)),
            [queue EXCEPT ![v] = Append(@, NewRequest("NULLIFY_REQ", None))],
            work.data)
  /\ UNCHANGED <<dram, latest>>

\* processNullifyReq() once the last copy is gone: the replaced entry is
\* deleted and the requests that arrived meanwhile are taken up.
ProcessNullify ==
  /\ work.busy /\ work.addr \in replaced
  /\ Front(work.addr).type = "NULLIFY_REQ"
  /\ dir[work.addr].state = "UNCACHED"
  /\ replaced' = replaced \ {work.addr}
  /\ dir' = [dir EXCEPT ![work.addr] = NewEntry]
  /\ Complete(queue, work.addr)
  /\ UNCHANGED <<cached, inbox, dram, latest>>
-----------------------------------------------------------------------------
(***************************************************************************)
(* handleMsgFromL2Cache() and handleMsgFromDRAM().                         *)
(***************************************************************************)
HomeMsg == Head(inbox[Home])
Handles(type) == ~work.busy /\ Pending(Home) /\ HomeMsg.type = type

\* getDirectoryEntry(): a line that is not in the set takes a free entry of it,
\* if there is one, before the replaced entries are searched.
Lookup(a) == cached' =
  IF a \notin cached /\ Cardinality(cached) < DirWays
  THEN cached \union {a} ELSE cached

HandleReq ==
  \E type \in ReqTypes :
    /\ Handles(type)
    /\ Lookup(HomeMsg.addr)
    /\ LET a == HomeMsg.addr
       IN  /\ queue' = [queue EXCEPT ![a] =
                          Append(@, NewRequest(type, HomeMsg.from))]
           /\ work' = IF queue[a] = <<>> THEN Process(a, NoData) ELSE Idle
    /\ inbox' = Received(Home)
    /\ UNCHANGED <<dir, replaced, dram, latest>>

\* processInvRepFromL2Cache(): is the front request woken up by the removal of
\* sender, which leaves entry e?
MutWokenWhileWaiting(a, e, sender) ==
  /\ queue[a] # <<>>
  /\ Front(a).type # "SH_REQ" => e.sharers \subseteq {Front(a).from}
MutForwarderForgotten(a, e, sender) ==
  /\ queue[a] # <<>>
  /\ IF Front(a).type = "SH_REQ"
     THEN ~Front(a).waitForData /\ Front(a).forwardingFrom = None
     ELSE e.sharers \subseteq {Front(a).from}
WokenByInv(a, e, sender) ==
  LET f == Front(a)
  IN  /\ queue[a] # <<>>
      /\ CASE f.type \in {"EX_REQ", "NULLIFY_REQ"} -> e.state = "UNCACHED"
           [] f.type = "UPGRADE_REQ" -> e.sharers \subseteq {f.from}
           [] f.type = "SH_REQ" ->
                /\ ~f.waitForData
                /\ f.forwardingFrom \in {None, sender}

InvRepAssertions(m) == /\ HasEntry(m.addr)
                       /\ dir[m.addr].state \in {"SHARED", "EXCLUSIVE"}
                       /\ m.from \in dir[m.addr].sharers

\* removeSharer(), and UNCACHED once nobody is left.
MutRemovedAll(e, l) == [e EXCEPT !.sharers = {}, !.state = "UNCACHED"]
Removed(e, l) == [e EXCEPT !.sharers = @ \ {l},
                           !.state = IF e.sharers = {l} THEN "UNCACHED" ELSE @]

HandleInvRep ==
  /\ Handles("INV_REP") /\ InvRepAssertions(HomeMsg)
  /\ LET a == HomeMsg.addr
         s == HomeMsg.from
         r == Removed(dir[a], s)
         e == [r EXCEPT !.forwarder = IF @ = s THEN None ELSE @]
     IN  /\ dir' = [dir EXCEPT ![a] = e]
         /\ work' = IF WokenByInv(a, e, s) THEN Process(a, NoData) ELSE Idle
  /\ inbox' = Received(Home)
  /\ UNCHANGED <<cached, replaced, queue, dram, latest>>

FlushRepAssertions(m) ==
  /\ HasEntry(m.addr)
  /\ m.from \in dir[m.addr].sharers
  /\ dir[m.addr].sharers # {m.from} => dir[m.addr].state = "SHARED"

\* A buffer of the message that is kept after the handler has returned: the
\* message's data is freed then, so its contents are no longer known.
Freed(d) == {d, Garbage}

\* processFlushRepFromL2Cache()
HandleFlushRep ==
  /\ Handles("FLUSH_REP") /\ FlushRepAssertions(HomeMsg)
  /\ LET a == HomeMsg.addr
         d == HomeMsg.data
         e == [Removed(dir[a], HomeMsg.from) EXCEPT !.owner = None,
                                                    !.forwarder = None]
         toDram == Send(Received(Home), Dram, Msg("DRAM_WRITE_REQ", Home, a, d))
         idle == queue[a] = <<>>
     IN  /\ dir' = [dir EXCEPT ![a] = e]
         /\ \/ /\ idle
               /\ inbox' = toDram
               /\ work' = Idle
               /\ UNCHANGED queue
            \/ /\ ~idle /\ Front(a).type = "NULLIFY_REQ"
               /\ inbox' = toDram
               /\ work' = Process(a, NoData)
               /\ UNCHANGED queue
            \/ /\ ~idle /\ Front(a).type = "SH_REQ"
               /\ inbox' = toDram
               /\ work' = Process(a, d)
               /\ UNCHANGED queue
            \/ /\ ~idle
               /\ \/ Front(a).type = "EX_REQ"
                  \/ Front(a).type = "UPGRADE_REQ" /\ e.sharers = {}
               /\ inbox' = Received(Home)
               /\ work' = Process(a, d)
               /\ UNCHANGED queue
            \/ /\ ~idle /\ Front(a).type = "UPGRADE_REQ" /\ e.sharers # {}
               /\ \E x \in Freed(d) : queue' = [queue EXCEPT ![a][1].data = x]
               /\ inbox' = Received(Home)
               /\ UNCHANGED work
  /\ UNCHANGED <<cached, replaced, dram, latest>>

WbRepAssertions(m) == /\ HasEntry(m.addr)
                      /\ m.from \in dir[m.addr].sharers
                      /\ queue[m.addr] # <<>> /\ Front(m.addr).type = "SH_REQ"

\* processWbRepFromL2Cache()
HandleWbRep ==
  /\ Handles("WB_REP") /\ WbRepAssertions(HomeMsg)
  /\ dir' = [dir EXCEPT ![HomeMsg.addr].owner = None,
                        ![HomeMsg.addr].state = "SHARED"]
  /\ work' = Process(HomeMsg.addr, HomeMsg.data)
  /\ inbox' = Received(Home)
  /\ UNCHANGED <<cached, replaced, queue, dram, latest>>

DramReplyAssertions(m) ==
  /\ queue[m.addr] # <<>> /\ HasEntry(m.addr)
  /\ Front(m.addr).type = "SH_REQ" =>
       dir[m.addr].state \in {"SHARED", "EXCLUSIVE"}
  /\ Front(m.addr).type = "EX_REQ" => dir[m.addr].state = "MODIFIED"
  /\ Front(m.addr).type # "NULLIFY_REQ"

\* processDRAMReply()
HandleDramReply ==
  /\ Handles("DRAM_READ_REP") /\ DramReplyAssertions(HomeMsg)
  /\ LET a == HomeMsg.addr
         shared == Front(a).type = "SH_REQ" /\ dir[a].state = "SHARED"
     IN  /\ inbox' = Send(Received(Home), Front(a).from,
                          Msg(IF shared THEN "SH_REP" ELSE "EX_REP",
                              Home, a, HomeMsg.data))
         /\ Complete(queue, a)
  /\ UNCHANGED <<dir, cached, replaced, dram, latest>>
=============================================================================
