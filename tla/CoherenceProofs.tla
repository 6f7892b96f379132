--------------------------- MODULE CoherenceProofs ---------------------------
(***************************************************************************)
(* Coherence of CoherentMemory, for any number of caches, cores and lines  *)
(* and each of the three protocols, with a directory whose entries can     *)
(* name every cache (FullMap).                                             *)
(*                                                                         *)
(* For a line and a cache that the directory counts among its sharers      *)
(* there is exactly one of: a copy in the cache, a reply with the line on  *)
(* its way to the cache, a message that gives the line up on its way to    *)
(* the directory, and a request of the cache the directory is fetching the *)
(* line for (OneToken, Tokens).  What the directory has sent to a cache    *)
(* concerns its present copy only if no reply with the line comes after    *)
(* it: then the request it was sent for is still at the front of the queue *)
(* and waits for the answer (RecallInv, RecallFlush, Copying).             *)
(*                                                                         *)
(* Before that, the state is well formed (TInv): TypeOK says which node    *)
(* may send which message and which messages bring a line along, so it is  *)
(* what lets a handler use the sender and the data of its message.  It is  *)
(* inductive together with HandlersHaveWork: a running handler of the      *)
(* directory has a request to process, and a waiter that has been served   *)
(* is still queued when it is taken off.                                   *)
(***************************************************************************)
EXTENDS CoherentMemory, SequenceTheorems, FiniteSetTheorems, TLAPS

HandlersHaveWork ==
  /\ work.busy => queue[work.addr] # <<>>
  /\ \A l \in LLCs :
       net[l].phase = "served" => waiters[l][net[l].addr] # <<>>

TInv == TypeOK /\ HandlersHaveWork

Inboxes == [Nodes -> Seq(Message)]
Queues  == [Addrs -> Seq(Request)]

\* The initial state is well typed and no handler runs.
LEMMA InitTInv == Init => TInv
<1> SUFFICES ASSUME Init PROVE TInv
  OBVIOUS
<1>1. NetworkTypeOK
  BY NetworkAssumption DEF Init, NetworkInit, NetworkTypeOK, Data, Garbage
<1>2. DirectoryTypeOK
  BY DEF Init, DirectoryInit, DirectoryTypeOK, Entry, NewEntry, DStates, Work
<1>3. CacheTypeOK
  BY NetworkAssumption DEF Init, CacheInit, CacheTypeOK, CStates, Net, Data, Garbage
<1>4. HandlersHaveWork
  BY DEF Init, DirectoryInit, CacheInit, HandlersHaveWork, Idle, NetIdle
<1> QED
  BY <1>1, <1>2, <1>3, <1>4 DEF TInv, TypeOK

\* Sending a well-formed message keeps the inboxes well formed.
LEMMA SendType ==
  ASSUME NEW boxes \in Inboxes, NEW n, NEW m \in Message
  PROVE  Send(boxes, n, m) \in Inboxes
<1>1. CASE n \in Nodes
  BY <1>1 DEF Send, Inboxes
<1>2. CASE n \notin Nodes
  <2>1. Send(boxes, n, m) = boxes
    BY <1>2 DEF Send, Inboxes
  <2> QED
    BY <2>1
<1> QED
  BY <1>1, <1>2

LEMMA SendAllType ==
  ASSUME NEW boxes \in Inboxes, NEW S, NEW m \in Message
  PROVE  SendAll(boxes, S, m) \in Inboxes
  BY DEF SendAll, Inboxes

\* A handler gets a well-formed message and leaves well-formed inboxes.
LEMMA ReceivedType ==
  ASSUME inbox \in Inboxes, NEW n \in Nodes, Pending(n)
  PROVE  Head(inbox[n]) \in Message /\ Received(n) \in Inboxes
  BY DEF Pending, Received, Inboxes

\* The messages of the protocol are well formed.
LEMMA MsgType ==
  ASSUME NEW a \in Addrs
  PROVE  /\ \A type \in HomeToAny : Msg(type, Home, a, NoData) \in Message
         /\ \A type \in HomeToAnyData : \A d \in Data :
              Msg(type, Home, a, d) \in Message
         /\ \A type \in CacheToHome : \A l \in LLCs :
              Msg(type, l, a, NoData) \in Message
         /\ \A type \in CacheToHomeData : \A l \in LLCs : \A d \in Data :
              Msg(type, l, a, d) \in Message
         /\ \A d \in Data : Msg("DRAM_READ_REP", Dram, a, d) \in Message
  BY DEF Msg, Message

\* What a received message carries depends on its type.
LEMMA MessageFields ==
  ASSUME NEW m \in Message
  PROVE  /\ m.addr \in Addrs
         /\ m.type \in ReqTypes \union CacheToHomeData \union {"INV_REP"} =>
              m.from \in LLCs
         /\ m.type \in CacheToHomeData \union HomeToAnyData \union
                       {"DRAM_READ_REP"} => m.data \in Data
  BY DEF Message, CacheToHome, CacheToHomeData, HomeToAny, HomeToAnyData, ReqTypes

LEMMA RequestFields ==
  ASSUME NEW r \in Request
  PROVE  /\ r.type # "NULLIFY_REQ" => r.from \in LLCs
         /\ r.data \in Data \union {NoData}
         /\ r.forwardingFrom \in LLCs \union {None}
  BY DEF Request

LEMMA WorkFields ==
  ASSUME NEW w \in Work
  PROVE  w.busy => w.addr \in Addrs /\ w.data \in Data \union {NoData}
<1>1. CASE w = Idle
  BY <1>1 DEF Idle
<1>2. CASE w \in [busy : {TRUE}, addr : Addrs, data : Data \union {NoData}]
  BY <1>2
<1> QED
  BY <1>1, <1>2 DEF Work

LEMMA WorkType ==
  /\ Idle \in Work /\ ~Idle.busy
  /\ \A a \in Addrs, d \in Data \union {NoData} :
       Process(a, d) \in Work /\ Process(a, d).addr = a
<1>1. Idle \in Work /\ ~Idle.busy
  BY DEF Work, Idle
<1>2. ASSUME NEW a \in Addrs, NEW d \in Data \union {NoData}
      PROVE  Process(a, d) \in Work /\ Process(a, d).addr = a
  <2>1. Process(a, d) \in Work
    BY DEF Work, Process
  <2>2. Process(a, d).addr = a
    BY DEF Process
  <2> QED
    BY <2>1, <2>2
<1> QED
  BY <1>1, <1>2

\* The requests of a line whose queue is not empty.
LEMMA FrontType ==
  ASSUME NEW q \in Queues, NEW a \in Addrs, q[a] # <<>>
  PROVE  /\ q[a][1] \in Request /\ Head(q[a]) = q[a][1]
         /\ Tail(q[a]) \in Seq(Request)
         /\ Len(q[a]) > 1 => Tail(q[a]) # <<>>
<1>1. q[a] \in Seq(Request) /\ Len(q[a]) \in Nat /\ Len(q[a]) # 0
  BY DEF Queues
<1>2. q[a][1] \in Request /\ Head(q[a]) = q[a][1]
  BY <1>1
<1>3. Tail(q[a]) \in Seq(Request) /\ Len(Tail(q[a])) = Len(q[a]) - 1
  BY <1>1
<1>4. Len(q[a]) > 1 => Tail(q[a]) # <<>>
  <2> DEFINE n == Len(q[a])
             k == Len(Tail(q[a]))
  <2>0. n \in Nat /\ k = n - 1
    BY <1>1, <1>3
  <2>1. n > 1 => k # 0
    <3> HIDE DEF n, k
    <3> QED
      BY <2>0
  <2> QED
    BY <1>3, <2>1, EmptySeq, Zenon
<1> QED
  BY <1>2, <1>3, <1>4

\* What every step of the directory has to establish about its own variables.
DirectoryNext ==
  /\ queue' \in Queues /\ work' \in Work
  /\ work'.busy => queue'[work'.addr] # <<>>

\* processNextReqFromL2Cache() and returning to the inbox.
LEMMA CompleteType ==
  ASSUME NEW q \in Queues, NEW a \in Addrs, q[a] # <<>>, Complete(q, a)
  PROVE  DirectoryNext
<1>1. queue' \in Queues /\ queue'[a] = Tail(q[a])
  BY FrontType DEF Complete, Queues
<1>2. CASE Len(q[a]) > 1
  <2>1. work' = Process(a, NoData)
    BY <1>2 DEF Complete
  <2>2. work'.addr = a /\ work' \in Work
    BY <2>1, WorkType
  <2> QED
    BY <1>1, <1>2, <2>2, FrontType DEF DirectoryNext
<1>3. CASE ~(Len(q[a]) > 1)
  BY <1>1, <1>3 DEF Complete, DirectoryNext, Work, Idle
<1> QED
  BY <1>2, <1>3

LEMMA WaitType ==
  ASSUME NEW q \in Queues, Wait(q)
  PROVE  DirectoryNext
  BY DEF Wait, DirectoryNext, Work, Idle

\* Marking the front request keeps the queues well typed.
LEMMA MarkType ==
  ASSUME NEW q \in Queues, NEW a \in Addrs, q[a] # <<>>,
         q[a][1].type # "NULLIFY_REQ"
  PROVE  /\ [q EXCEPT ![a][1].waitForData = TRUE] \in Queues
         /\ \A l \in LLCs : [q EXCEPT ![a][1].forwardingFrom = l] \in Queues
         /\ \A d \in Data : [q EXCEPT ![a][1].data = d] \in Queues
<1> DEFINE r == q[a][1]
<1>1. r \in Request /\ 1 \in DOMAIN q[a]
  BY FrontType DEF Queues
<1>2. ASSUME NEW x \in Request
      PROVE  [q EXCEPT ![a][1] = x] \in Queues
  <2>1. [q[a] EXCEPT ![1] = x] \in Seq(Request)
    BY <1>1, <1>2 DEF Queues
  <2> QED
    BY <2>1 DEF Queues
<1>3. /\ [r EXCEPT !.waitForData = TRUE] \in Request
      /\ \A l \in LLCs : [r EXCEPT !.forwardingFrom = l] \in Request
      /\ \A d \in Data : [r EXCEPT !.data = d] \in Request
  BY <1>1 DEF Request
<1>4. [q EXCEPT ![a][1].waitForData = TRUE] =
      [q EXCEPT ![a][1] = [r EXCEPT !.waitForData = TRUE]]
  BY <1>1 DEF Queues
<1>5. \A l \in LLCs : [q EXCEPT ![a][1].forwardingFrom = l] =
      [q EXCEPT ![a][1] = [r EXCEPT !.forwardingFrom = l]]
  BY <1>1 DEF Queues
<1>6. \A d \in Data : [q EXCEPT ![a][1].data = d] =
      [q EXCEPT ![a][1] = [r EXCEPT !.data = d]]
  BY <1>1 DEF Queues
<1> QED
  BY <1>2, <1>3, <1>4, <1>5, <1>6

\* What processing a request has to establish.
ProcessNext ==
  inbox' \in Inboxes /\ dir' \in [Addrs -> Entry] /\ DirectoryNext

\* The data of a line is never NULL.
LEMMA DataNotNull == NoData \notin Data
  BY NetworkAssumption DEF NoData, Data, Garbage

LEMMA RetrieveType ==
  ASSUME dir \in [Addrs -> Entry],
         NEW a \in Addrs, NEW e \in Entry, NEW boxes \in Inboxes,
         NEW q \in Queues, q[a] # <<>>, q[a][1].type # "NULLIFY_REQ",
         NEW reply \in {"EX_REP", "SH_REP"}, NEW d \in Data \union {NoData},
         Retrieve(a, e, boxes, q, reply, d)
  PROVE  ProcessNext
<1> DEFINE r == q[a][1].from
<1>0. r \in LLCs
  BY FrontType, RequestFields
<1>1. CASE /\ d # NoData
           /\ dir' = [dir EXCEPT ![a] = [e EXCEPT !.forwarder = r]]
           /\ inbox' = Send(boxes, r, Msg(reply, Home, a, d))
           /\ Complete(q, a)
  <2>1. dir' \in [Addrs -> Entry]
    BY <1>0, <1>1 DEF Entry
  <2>2. inbox' \in Inboxes
    BY <1>1, MsgType, SendType DEF HomeToAnyData
  <2> QED
    BY <1>1, <2>1, <2>2, CompleteType DEF ProcessNext
<1>2. CASE /\ e.forwarder # None /\ e.forwarder # Uninit
           /\ dir' = [dir EXCEPT ![a] = e]
           /\ inbox' = Send(boxes, e.forwarder, Msg("WB_REQ", Home, a, NoData))
           /\ Wait([q EXCEPT ![a][1].forwardingFrom = e.forwarder])
  <2>1. e.forwarder \in LLCs
    BY <1>2 DEF Entry
  <2>2. inbox' \in Inboxes
    BY <1>2, MsgType, SendType DEF HomeToAny
  <2>3. DirectoryNext
    BY <1>2, <2>1, MarkType, WaitType
  <2> QED
    BY <1>2, <2>2, <2>3 DEF ProcessNext
<1>3. CASE /\ dir' = [dir EXCEPT ![a] = e]
           /\ inbox' = Send(boxes, Dram, Msg("DRAM_READ_REQ", Home, a, NoData))
           /\ Wait([q EXCEPT ![a][1].waitForData = TRUE])
  <2>2. inbox' \in Inboxes
    BY <1>3, MsgType, SendType DEF HomeToAny
  <2>3. DirectoryNext
    BY <1>3, MarkType, WaitType
  <2> QED
    BY <1>3, <2>2, <2>3 DEF ProcessNext
<1> QED
  BY <1>1, <1>2, <1>3 DEF Retrieve

\* A handler that sends requests to caches and returns.
LEMMA AskType ==
  ASSUME dir \in [Addrs -> Entry], NEW a \in Addrs, NEW e \in Entry,
         NEW boxes \in Inboxes, NEW q \in Queues,
         dir' = [dir EXCEPT ![a] = e], Wait(q),
         \/ \E n : \E type \in HomeToAny :
              inbox' = Send(boxes, n, Msg(type, Home, a, NoData))
         \/ \E S : inbox' = SendAll(boxes, S, Msg("INV_REQ", Home, a, NoData))
  PROVE  ProcessNext
<1>1. inbox' \in Inboxes
  BY MsgType, SendType, SendAllType DEF HomeToAny
<1> QED
  BY <1>1, WaitType DEF ProcessNext

\* The entries the handlers leave behind.
LEMMA EntryUpdates ==
  ASSUME NEW e \in Entry, NEW r \in LLCs
  PROVE  /\ \A s \in DStates :
              [e EXCEPT !.state = s, !.sharers = {r}, !.owner = r] \in Entry
         /\ \A s \in DStates :
              [e EXCEPT !.sharers = {r}, !.owner = r, !.state = s] \in Entry
         /\ [e EXCEPT !.sharers = @ \union {r}] \in Entry
         /\ [e EXCEPT !.owner = r, !.state = "MODIFIED"] \in Entry
  BY DEF Entry, DStates

LEMMA ProcessReqType ==
  ASSUME dir \in [Addrs -> Entry],
         NEW a \in Addrs, NEW e \in Entry, NEW boxes \in Inboxes,
         NEW q \in Queues, q[a] # <<>>, NEW d \in Data \union {NoData},
         ProcessReq(a, e, boxes, q, d)
  PROVE  ProcessNext
<1> DEFINE r == q[a][1].from
<1>0. /\ q[a][1].type # "NULLIFY_REQ" /\ r \in LLCs
      /\ q[a][1].data \in Data \union {NoData}
  BY FrontType, RequestFields DEF ProcessReq
<1> DEFINE owned(s) == [e EXCEPT !.state = s, !.sharers = {r}, !.owner = r]
<1>1. CASE ProcessExReq(a, e, boxes, q, d)
  <2>1. CASE \/ /\ inbox' = Send(boxes, e.owner, Msg("FLUSH_REQ", Home, a, NoData))
                /\ Wait(q) /\ dir' = [dir EXCEPT ![a] = e]
             \/ Invalidate(a, e.sharers, boxes, q) /\ dir' = [dir EXCEPT ![a] = e]
    BY <2>1, AskType DEF Invalidate, HomeToAny
  <2>2. CASE Retrieve(a, owned("MODIFIED"), boxes, q, "EX_REP", d)
    BY <1>0, <2>2, EntryUpdates, RetrieveType DEF DStates
  <2> QED
    BY <1>1, <2>1, <2>2 DEF ProcessExReq
<1>2. CASE ProcessShReq(a, e, boxes, q, d)
  <2> DEFINE shared == Protocol = "MSI"
             state == IF shared THEN "SHARED" ELSE "EXCLUSIVE"
             reply == IF shared THEN "SH_REP" ELSE "EX_REP"
  <2>1. CASE \/ /\ inbox' = Send(boxes, e.owner, Msg("WB_REQ", Home, a, NoData))
                /\ Wait(q) /\ dir' = [dir EXCEPT ![a] = e]
             \/ /\ \E s \in e.sharers : Invalidate(a, {s}, boxes, q)
                /\ dir' = [dir EXCEPT ![a] = e]
    BY <2>1, AskType DEF Invalidate, HomeToAny
  <2>2. CASE Retrieve(a, [e EXCEPT !.sharers = @ \union {r}], boxes, q, "SH_REP", d)
    BY <1>0, <2>2, EntryUpdates, RetrieveType
  <2>3. CASE Retrieve(a, [e EXCEPT !.sharers = {r}, !.owner = r, !.state = state],
                      boxes, q, reply, d)
    <3>1. [e EXCEPT !.sharers = {r}, !.owner = r, !.state = state] \in Entry
      BY <1>0, EntryUpdates DEF DStates
    <3> QED
      BY <1>0, <2>3, <3>1, RetrieveType
  <2> QED
    BY <1>2, <2>1, <2>2, <2>3 DEF ProcessShReq
<1>3. CASE ProcessUpgradeReq(a, e, boxes, q, d)
  <2> DEFINE data == IF d # NoData THEN d ELSE q[a][1].data
  <2>1. CASE /\ dir' = [dir EXCEPT ![a] = [e EXCEPT !.owner = r, !.state = "MODIFIED"]]
             /\ inbox' = Send(boxes, r, Msg("UPGRADE_REP", Home, a, NoData))
             /\ Complete(q, a)
    <3>1. dir' \in [Addrs -> Entry]
      BY <1>0, <2>1, EntryUpdates
    <3>2. inbox' \in Inboxes
      BY <2>1, MsgType, SendType DEF HomeToAny
    <3> QED
      BY <2>1, <3>1, <3>2, CompleteType DEF ProcessNext
  <2>2. CASE \/ /\ inbox' = Send(boxes, e.owner, Msg("FLUSH_REQ", Home, a, NoData))
                /\ Wait(q) /\ dir' = [dir EXCEPT ![a] = e]
             \/ Invalidate(a, e.sharers \ {r}, boxes, q) /\ dir' = [dir EXCEPT ![a] = e]
    BY <2>2, AskType DEF Invalidate, HomeToAny
  <2>3. ASSUME NEW s \in e.sharers,
               Invalidate(a, e.sharers \ {s},
                     Send(boxes, s, Msg("FLUSH_REQ", Home, a, NoData)), q),
               dir' = [dir EXCEPT ![a] = e]
        PROVE  ProcessNext
    <3>1. Send(boxes, s, Msg("FLUSH_REQ", Home, a, NoData)) \in Inboxes
      BY MsgType, SendType DEF HomeToAny
    <3> QED
      BY <2>3, <3>1, AskType DEF Invalidate
  <2>4. CASE Retrieve(a, owned("MODIFIED"), boxes, q, "EX_REP", data)
    <3>1. data \in Data \union {NoData}
      BY <1>0
    <3> QED
      BY <1>0, <2>4, <3>1, EntryUpdates, RetrieveType DEF DStates
  <2> QED
    BY <1>3, <2>1, <2>2, <2>3, <2>4 DEF ProcessUpgradeReq
<1> QED
  BY <1>1, <1>2, <1>3 DEF ProcessReq

\* A step of the directory keeps the invariant if it leaves well-typed inboxes,
\* entries and queues: it does not touch the caches.
LEMMA DirectoryFrame ==
  ASSUME TInv, UNCHANGED llcVars, UNCHANGED <<dram, latest>>, ProcessNext,
         cached' \subseteq Addrs, replaced' \subseteq Addrs
  PROVE  TInv'
<1>1. NetworkTypeOK'
  BY DEF TInv, TypeOK, NetworkTypeOK, ProcessNext, Inboxes
<1>2. DirectoryTypeOK'
  BY DEF DirectoryTypeOK, ProcessNext, DirectoryNext, Queues
<1>3. CacheTypeOK'
  BY DEF TInv, TypeOK, CacheTypeOK, llcVars
<1>4. HandlersHaveWork'
  BY DEF TInv, HandlersHaveWork, llcVars, ProcessNext, DirectoryNext
<1> QED
  BY <1>1, <1>2, <1>3, <1>4 DEF TInv, TypeOK

\* The directory's own variables in a state that satisfies the invariant.
LEMMA DirectoryFacts ==
  ASSUME TInv
  PROVE  /\ inbox \in Inboxes /\ dir \in [Addrs -> Entry] /\ queue \in Queues
         /\ work \in Work /\ (work.busy => queue[work.addr] # <<>>)
         /\ cached \subseteq Addrs /\ replaced \subseteq Addrs
         /\ NewEntry \in Entry
  BY DEF TInv, TypeOK, NetworkTypeOK, DirectoryTypeOK, HandlersHaveWork,
         Inboxes, Queues, NewEntry, Entry, DStates

\* The steps that process the request of the running handler.
LEMMA ProcessTInv ==
  ASSUME TInv, UNCHANGED llcVars,
         \/ ProcessWithEntry \/ ProcessEvictUncached \/ ProcessEvictCached
         \/ ProcessNullify
  PROVE  TInv'
<1> USE DirectoryFacts
<1> DEFINE a == work.addr
<1>0. work.busy /\ a \in Addrs /\ work.data \in Data \union {NoData}
  BY WorkFields DEF ProcessWithEntry, ProcessEvictUncached, ProcessEvictCached,
                    ProcessNullify
<1>1. CASE ProcessWithEntry
  <2>1. ProcessNext
    BY <1>0, <1>1, ProcessReqType DEF ProcessWithEntry
  <2> QED
    BY <1>1, <2>1, DirectoryFrame DEF ProcessWithEntry
<1>2. CASE ProcessEvictUncached
  <2>1. ProcessNext
    BY <1>0, <1>2, ProcessReqType DEF ProcessEvictUncached
  <2>2. cached' \subseteq Addrs
    BY <1>0, <1>2 DEF ProcessEvictUncached
  <2> QED
    BY <1>2, <2>1, <2>2, DirectoryFrame DEF ProcessEvictUncached
<1>3. CASE ProcessEvictCached
  <2> PICK v \in Candidates :
         /\ cached' = (cached \ {v}) \union {a}
         /\ replaced' = replaced \union {v}
         /\ ProcessReq(a, NewEntry,
              SendAll(inbox, NullifyRecipients(v), NullifyMsg(v)),
              [queue EXCEPT ![v] = Append(@, NewRequest("NULLIFY_REQ", None))],
              work.data)
    BY <1>3 DEF ProcessEvictCached
  <2> DEFINE boxes == SendAll(inbox, NullifyRecipients(v), NullifyMsg(v))
             q == [queue EXCEPT ![v] = Append(@, NewRequest("NULLIFY_REQ", None))]
  <2>1. v \in Addrs /\ queue[v] = <<>>
    BY DEF Candidates
  <2>2. boxes \in Inboxes
    <3>1. NullifyMsg(v) \in Message
      BY <2>1, MsgType DEF NullifyMsg, HomeToAny
    <3> QED
      BY <3>1, SendAllType
  <2>3. q \in Queues /\ q[a] # <<>>
    <3>1. NewRequest("NULLIFY_REQ", None) \in Request
      BY DEF NewRequest, Request
    <3>2. q \in Queues
      BY <2>1, <3>1 DEF Queues
    <3>3. a # v
      BY <1>0, <2>1
    <3> QED
      BY <1>0, <2>1, <3>2, <3>3 DEF Queues
  <2>4. ProcessNext
    BY <1>0, <2>2, <2>3, ProcessReqType
  <2> QED
    BY <1>0, <1>3, <2>1, <2>4, DirectoryFrame DEF ProcessEvictCached
<1>4. CASE ProcessNullify
  <2>1. DirectoryNext
    BY <1>0, <1>4, CompleteType DEF ProcessNullify
  <2>2. ProcessNext
    BY <1>0, <1>4, <2>1 DEF ProcessNullify, ProcessNext
  <2> QED
    BY <1>4, <2>2, DirectoryFrame DEF ProcessNullify
<1> QED
  BY <1>1, <1>2, <1>3, <1>4

\* Removing a sharer, or clearing the owner and the forwarder, gives an entry.
LEMMA RemovedType ==
  ASSUME NEW e \in Entry, NEW l
  PROVE  /\ Removed(e, l) \in Entry
         /\ [Removed(e, l) EXCEPT !.forwarder = IF @ = l THEN None ELSE @] \in Entry
         /\ [Removed(e, l) EXCEPT !.owner = None, !.forwarder = None] \in Entry
<1>1. Removed(e, l) \in Entry
  BY DEF Removed, Entry, DStates
<1> QED
  BY <1>1 DEF Entry

\* The directory's message handlers.
LEMMA HandleTInv ==
  ASSUME TInv, UNCHANGED llcVars,
         \/ HandleReq \/ HandleInvRep \/ HandleFlushRep \/ HandleWbRep
         \/ HandleDramReply
  PROVE  TInv'
<1> USE DirectoryFacts
<1> DEFINE m == HomeMsg
           a == m.addr
<1>0. m \in Message /\ Received(Home) \in Inboxes /\ a \in Addrs
  <2>1. Pending(Home) /\ Home \in Nodes
    BY DEF HandleReq, HandleInvRep, HandleFlushRep, HandleWbRep, HandleDramReply,
           Handles, Nodes
  <2> QED
    BY <2>1, ReceivedType, MessageFields DEF HomeMsg
<1>1. CASE HandleReq
  <2> PICK type \in ReqTypes :
        /\ Handles(type) /\ Lookup(a)
        /\ queue' = [queue EXCEPT ![a] = Append(@, NewRequest(type, m.from))]
        /\ work' = IF queue[a] = <<>> THEN Process(a, NoData) ELSE Idle
    BY <1>1 DEF HandleReq
  <2>1. NewRequest(type, m.from) \in Request
    BY <1>0, MessageFields DEF Handles, NewRequest, Request
  <2>2. queue' \in Queues /\ queue'[a] # <<>>
    <3>1. Append(queue[a], NewRequest(type, m.from)) \in Seq(Request)
      BY <1>0, <2>1 DEF Queues
    <3>2. Append(queue[a], NewRequest(type, m.from)) # <<>>
      BY <1>0, <2>1 DEF Queues
    <3> HIDE DEF m, a
    <3> QED
      BY <1>0, <3>1, <3>2 DEF Queues
  <2>3. DirectoryNext
    BY <1>0, <2>2, WorkType DEF DirectoryNext
  <2>4. cached' \subseteq Addrs
    BY <1>0 DEF Lookup
  <2>5. ProcessNext
    BY <1>0, <1>1, <2>3 DEF HandleReq, ProcessNext
  <2> QED
    BY <1>1, <2>4, <2>5, DirectoryFrame DEF HandleReq
<1>2. CASE HandleInvRep
  <2> DEFINE e == [Removed(dir[a], m.from) EXCEPT
                     !.forwarder = IF @ = m.from THEN None ELSE @]
  <2>1. dir' = [dir EXCEPT ![a] = e] /\ e \in Entry
    BY <1>0, <1>2, RemovedType DEF HandleInvRep
  <2>2. work' = IF WokenByInv(a, e, m.from) THEN Process(a, NoData) ELSE Idle
    BY <1>2 DEF HandleInvRep
  <2>3. WokenByInv(a, e, m.from) => queue[a] # <<>>
    BY DEF WokenByInv
  <2>4. DirectoryNext
    BY <1>0, <1>2, <2>2, <2>3, WorkType DEF DirectoryNext, HandleInvRep
  <2>5. ProcessNext
    BY <1>0, <1>2, <2>1, <2>4 DEF HandleInvRep, ProcessNext
  <2> QED
    BY <1>2, <2>5, DirectoryFrame DEF HandleInvRep
<1>3. CASE HandleFlushRep
  <2> DEFINE e == [Removed(dir[a], m.from) EXCEPT !.owner = None, !.forwarder = None]
             toDram == Send(Received(Home), Dram,
                            Msg("DRAM_WRITE_REQ", Home, a, m.data))
  <2>0. m.data \in Data
    BY <1>0, <1>3, MessageFields DEF HandleFlushRep, Handles, CacheToHomeData
  <2>1. dir' \in [Addrs -> Entry]
    BY <1>0, <1>3, RemovedType DEF HandleFlushRep
  <2>2. toDram \in Inboxes
    BY <1>0, <2>0, MsgType, SendType DEF HomeToAnyData
  <2>3. inbox' \in Inboxes
    BY <1>0, <1>3, <2>2 DEF HandleFlushRep
  <2>4. DirectoryNext
    <3>1. CASE queue' = queue /\ work' = Idle
      BY <3>1, WorkType DEF DirectoryNext
    <3>2. CASE /\ queue' = queue /\ queue[a] # <<>>
               /\ work' \in {Process(a, NoData), Process(a, m.data)}
      BY <1>0, <2>0, <3>2, WorkType DEF DirectoryNext
    <3>3. CASE /\ queue[a] # <<>> /\ Front(a).type = "UPGRADE_REQ"
               /\ \E x \in Freed(m.data) : queue' = [queue EXCEPT ![a][1].data = x]
               /\ work' = work
      <4>1. queue[a][1].type # "NULLIFY_REQ"
        BY <1>0, <3>3, FrontType DEF Front
      <4>2. Freed(m.data) \subseteq Data
        BY <2>0, NetworkAssumption DEF Freed, Data, Garbage
      <4>3. \A x \in Data : [queue EXCEPT ![a][1].data = x] \in Queues
        BY <1>0, <3>3, <4>1, MarkType
      <4>4. ~work.busy
        BY <1>3 DEF HandleFlushRep, Handles
      <4> QED
        BY <3>3, <4>2, <4>3, <4>4 DEF DirectoryNext
    <3> QED
      BY <1>3, <3>1, <3>2, <3>3 DEF HandleFlushRep
  <2> QED
    BY <1>3, <2>1, <2>3, <2>4, DirectoryFrame DEF HandleFlushRep, ProcessNext
<1>4. CASE HandleWbRep
  <2>0. m.data \in Data
    BY <1>0, <1>4, MessageFields DEF HandleWbRep, Handles, CacheToHomeData
  <2>1. dir' \in [Addrs -> Entry]
    BY <1>0, <1>4 DEF HandleWbRep, Entry, DStates
  <2>2. DirectoryNext
    BY <1>0, <1>4, <2>0, WorkType DEF HandleWbRep, WbRepAssertions, DirectoryNext
  <2> QED
    BY <1>0, <1>4, <2>1, <2>2, DirectoryFrame DEF HandleWbRep, ProcessNext
<1>5. CASE HandleDramReply
  <2> DEFINE type == IF Front(a).type = "SH_REQ" /\ dir[a].state = "SHARED"
                     THEN "SH_REP" ELSE "EX_REP"
  <2>0. m.data \in Data
    BY <1>0, <1>5, MessageFields DEF HandleDramReply, Handles
  <2>1. Msg(type, Home, a, m.data) \in Message
    BY <1>0, <2>0, MsgType DEF HomeToAnyData
  <2>2. inbox' \in Inboxes
    BY <1>0, <1>5, <2>1, SendType DEF HandleDramReply
  <2>3. DirectoryNext
    BY <1>0, <1>5, CompleteType DEF HandleDramReply, DramReplyAssertions
  <2> QED
    BY <1>5, <2>2, <2>3, DirectoryFrame DEF HandleDramReply, ProcessNext
<1> QED
  BY <1>1, <1>2, <1>3, <1>4, <1>5

ServedQueued ==
  \A l \in LLCs : net[l].phase = "served" => waiters[l][net[l].addr] # <<>>

\* A step outside the directory keeps the invariant if it leaves the network
\* and the caches well typed.
LEMMA CacheFrame ==
  ASSUME TInv, UNCHANGED dirVars, NetworkTypeOK', CacheTypeOK', ServedQueued'
  PROVE  TInv'
<1>1. DirectoryTypeOK'
  BY DEF TInv, TypeOK, DirectoryTypeOK, dirVars
<1>2. HandlersHaveWork'
  BY DEF TInv, HandlersHaveWork, ServedQueued, dirVars
<1> QED
  BY <1>1, <1>2 DEF TInv, TypeOK

LEMMA DramTInv ==
  ASSUME TInv, DramStep
  PROVE  TInv'
<1>1. CacheTypeOK' /\ ServedQueued'
  BY DEF TInv, TypeOK, CacheTypeOK, HandlersHaveWork, ServedQueued, DramStep, llcVars
<1>2. Head(inbox[Dram]) \in Message /\ Received(Dram) \in Inboxes
  <2>1. Pending(Dram) /\ Dram \in Nodes
    BY DEF DramStep, DramRead, DramWrite, Nodes
  <2> QED
    BY <2>1, DirectoryFacts, ReceivedType
<1>3. CASE DramRead
  <2> DEFINE a == Head(inbox[Dram]).addr
  <2>1. a \in Addrs /\ dram[a] \in Data
    BY <1>2, MessageFields DEF TInv, TypeOK, NetworkTypeOK
  <2>2. inbox' \in Inboxes
    BY <1>2, <1>3, <2>1, MsgType, SendType DEF DramRead
  <2>3. NetworkTypeOK'
    BY <1>3, <2>2 DEF DramRead, TInv, TypeOK, NetworkTypeOK, Inboxes
  <2> QED
    BY <1>1, <2>3, CacheFrame DEF DramStep
<1>4. CASE DramWrite
  <2>1. Head(inbox[Dram]).addr \in Addrs /\ Head(inbox[Dram]).data \in Data
    BY <1>2, <1>4, MessageFields DEF DramWrite, HomeToAnyData
  <2>2. NetworkTypeOK'
    BY <1>2, <1>4, <2>1 DEF DramWrite, TInv, TypeOK, NetworkTypeOK, Inboxes
  <2> QED
    BY <1>1, <2>2, CacheFrame DEF DramStep
<1> QED
  BY <1>3, <1>4 DEF DramStep

\* The caches' variables in a state that satisfies the invariant.
LEMMA CacheFacts ==
  ASSUME TInv
  PROVE  /\ inbox \in Inboxes /\ dram \in [Addrs -> Data]
         /\ latest \in [Addrs -> 0..MaxWrites]
         /\ cstate \in [LLCs -> [Addrs -> CStates]]
         /\ cdata \in [LLCs -> [Addrs -> Data]]
         /\ waiters \in [LLCs -> [Addrs -> Seq(Waiter)]]
         /\ net \in [LLCs -> Net] /\ ServedQueued
         /\ 0..MaxWrites \subseteq Data
  BY NetworkAssumption
     DEF TInv, TypeOK, NetworkTypeOK, CacheTypeOK, HandlersHaveWork, Inboxes,
         ServedQueued, Data, Garbage

\* A network thread that is busy is busy with a line.
LEMMA NetFields ==
  ASSUME NEW s \in Net
  PROVE  s.phase \in {"loop", "served"} => s.addr \in Addrs
<1>1. CASE s = NetIdle
  BY <1>1 DEF NetIdle
<1>2. CASE s \in [phase : {"loop", "served"}, addr : Addrs]
  BY <1>2 DEF NetIdle
<1> QED
  BY <1>1, <1>2 DEF Net

\* Changing one line of one cache.
LEMMA SetLineType ==
  ASSUME TInv, NEW l \in LLCs, NEW a \in Addrs, NEW s \in CStates, NEW d \in Data,
         SetLine(l, a, s, d)
  PROVE  /\ cstate' \in [LLCs -> [Addrs -> CStates]]
         /\ cdata' \in [LLCs -> [Addrs -> Data]]
  BY CacheFacts DEF SetLine

LEMMA AccessType ==
  ASSUME TInv, NEW l \in LLCs, NEW a \in Addrs, NEW x, Access(l, a, x)
  PROVE  /\ cstate' \in [LLCs -> [Addrs -> CStates]]
         /\ cdata' \in [LLCs -> [Addrs -> Data]]
         /\ latest' \in [Addrs -> 0..MaxWrites]
<1>1. CASE UNCHANGED <<cstate, cdata, latest>>
  BY <1>1, CacheFacts
<1>2. CASE /\ SetLine(l, a, "M", NextVersion(a))
           /\ latest' = [latest EXCEPT ![a] = NextVersion(a)]
  <2>1. NextVersion(a) \in 0..MaxWrites
    BY CacheFacts, NetworkAssumption DEF NextVersion
  <2>2. NextVersion(a) \in Data
    BY <2>1, CacheFacts
  <2>3. latest' \in [Addrs -> 0..MaxWrites]
    BY <1>2, <2>1, CacheFacts
  <2> QED
    BY <1>2, <2>2, <2>3, SetLineType DEF CStates
<1> QED
  BY <1>1, <1>2 DEF Access

\* The network thread moves to a phase other than "served" of some line, or to
\* idle.
LEMMA NetMoves ==
  ASSUME TInv, NEW l \in LLCs, NEW s \in Net, s.phase # "served",
         net' = [net EXCEPT ![l] = s], UNCHANGED waiters
  PROVE  net' \in [LLCs -> Net] /\ ServedQueued'
  BY CacheFacts DEF ServedQueued

LEMMA NetLoop ==
  ASSUME NEW a \in Addrs
  PROVE  /\ [phase |-> "loop", addr |-> a] \in Net
         /\ NetIdle \in Net /\ NetIdle.phase # "served"
  BY DEF Net, NetIdle

\* The cache's handlers of messages from the directory.
LEMMA MessageTInv ==
  ASSUME TInv, NEW l \in LLCs, UNCHANGED dirVars,
         \/ HandleDataRep(l) \/ HandleUpgradeRep(l) \/ HandleInvReq(l)
         \/ HandleFlushReq(l) \/ HandleWbReq(l)
  PROVE  TInv'
<1> USE CacheFacts
<1> DEFINE m == LlcMsg(l)
           a == m.addr
<1>0. m \in Message /\ Received(l) \in Inboxes /\ a \in Addrs
  <2>1. Pending(l) /\ l \in Nodes
    BY DEF HandleDataRep, HandleUpgradeRep, HandleInvReq, HandleFlushReq,
           HandleWbReq, Gets, Nodes
  <2> QED
    BY <2>1, ReceivedType, MessageFields DEF LlcMsg
<1>1. 0 \in Data /\ Garbage \in Data /\ cdata[l][a] \in Data /\ {"I", "S", "E", "M"} \subseteq CStates
  BY <1>0, NetworkAssumption DEF Data, Garbage, CStates
<1>2. /\ \A type \in CacheToHome : Answer(l, type, NoData) => inbox' \in Inboxes
      /\ \A type \in CacheToHomeData : \A d \in Data :
           Answer(l, type, d) => inbox' \in Inboxes
  BY <1>0, MsgType, SendType DEF Answer
<1>3. ASSUME inbox' \in Inboxes, UNCHANGED <<dram, latest>>
      PROVE  NetworkTypeOK'
  BY <1>3 DEF NetworkTypeOK, Inboxes
<1>4. ASSUME UNCHANGED <<waiters, net>>
      PROVE  ServedQueued'
  BY <1>4 DEF ServedQueued
<1>5. CASE HandleDataRep(l) \/ HandleUpgradeRep(l)
  <2> DEFINE s == IF m.type = "UPGRADE_REP" THEN "M" ELSE InsertedAs(m.type)
             d == IF m.type = "UPGRADE_REP" THEN cdata[l][a] ELSE m.data
  <2>1. SetLine(l, a, s, d) /\ s \in CStates /\ d \in Data
    <3>1. CASE HandleDataRep(l)
      <4>1. m.type \in {"EX_REP", "SH_REP"}
        BY <3>1 DEF HandleDataRep, Gets
      <4>2. m.data \in Data
        BY <1>0, <4>1, MessageFields DEF HomeToAnyData
      <4> QED
        BY <3>1, <4>1, <4>2 DEF HandleDataRep, InsertedAs, CStates
    <3>2. CASE HandleUpgradeRep(l)
      BY <1>1, <3>2 DEF HandleUpgradeRep, Gets, CStates
    <3> QED
      BY <1>5, <3>1, <3>2
  <2>2. net' = [net EXCEPT ![l] = [phase |-> "loop", addr |-> a]] /\ UNCHANGED waiters
    BY <1>5 DEF HandleDataRep, HandleUpgradeRep
  <2>3. net' \in [LLCs -> Net] /\ ServedQueued'
    BY <1>0, <2>2, NetLoop, NetMoves
  <2>4. CacheTypeOK'
    BY <1>0, <2>1, <2>2, <2>3, SetLineType DEF CacheTypeOK
  <2> QED
    BY <1>0, <1>3, <1>5, <2>3, <2>4, CacheFrame DEF HandleDataRep, HandleUpgradeRep
<1>6. CASE HandleInvReq(l) \/ HandleFlushReq(l)
  <2>1. inbox' \in Inboxes
    BY <1>0, <1>1, <1>2, <1>6 DEF HandleInvReq, HandleFlushReq, CacheToHome,
                                  CacheToHomeData
  <2>2. CacheTypeOK'
    <3>1. CASE SetLine(l, a, "I", 0)
      BY <1>0, <1>1, <1>6, <3>1, SetLineType DEF HandleInvReq, HandleFlushReq, CacheTypeOK
    <3>2. CASE UNCHANGED <<cstate, cdata>>
      BY <1>6, <3>2 DEF HandleInvReq, HandleFlushReq, CacheTypeOK
    <3> QED
      BY <1>6, <3>1, <3>2 DEF HandleInvReq, HandleFlushReq
  <2> QED
    BY <1>3, <1>4, <1>6, <2>1, <2>2, CacheFrame DEF HandleInvReq, HandleFlushReq
<1>7. CASE HandleWbReq(l)
  <2>1. inbox' \in Inboxes
    BY <1>0, <1>1, <1>2, <1>7 DEF HandleWbReq, CacheToHomeData
  <2>2. cstate' \in [LLCs -> [Addrs -> CStates]]
    <3>1. CASE cstate' = [cstate EXCEPT ![l][a] = "S"]
      BY <1>0, <1>1, <3>1
    <3>2. CASE UNCHANGED cstate
      BY <3>2
    <3> QED
      BY <1>7, <3>1, <3>2 DEF HandleWbReq
  <2>3. CacheTypeOK'
    BY <1>7, <2>2 DEF HandleWbReq, CacheTypeOK
  <2> QED
    BY <1>3, <1>4, <1>7, <2>1, <2>3, CacheFrame DEF HandleWbReq
<1> QED
  BY <1>5, <1>6, <1>7

\* The wake-up loop of the network thread.
LEMMA LoopTInv ==
  ASSUME TInv, NEW l \in LLCs, UNCHANGED dirVars,
         \/ LoopEnds(l) \/ LoopUpgrades(l) \/ LoopWakes(l) \/ LoopDequeues(l)
  PROVE  TInv'
<1> USE CacheFacts
<1> DEFINE a == net[l].addr
<1>0. a \in Addrs
  BY NetFields DEF LoopEnds, LoopUpgrades, LoopWakes, LoopDequeues
<1>1. CASE LoopEnds(l)
  <2>1. net' \in [LLCs -> Net] /\ ServedQueued'
    BY <1>0, <1>1, NetLoop, NetMoves DEF LoopEnds
  <2> QED
    BY <1>1, <2>1, CacheFrame DEF LoopEnds, NetworkTypeOK, CacheTypeOK, Inboxes
<1>2. CASE LoopUpgrades(l)
  <2>1. net' \in [LLCs -> Net] /\ ServedQueued'
    BY <1>0, <1>2, NetLoop, NetMoves DEF LoopUpgrades
  <2>2. inbox' \in Inboxes
    BY <1>0, <1>2, MsgType, SendType DEF LoopUpgrades, CacheToHome, ReqTypes
  <2>3. cstate' \in [LLCs -> [Addrs -> CStates]]
    BY <1>0, <1>2 DEF LoopUpgrades, CStates
  <2> QED
    BY <1>2, <2>1, <2>2, <2>3, CacheFrame
       DEF LoopUpgrades, NetworkTypeOK, CacheTypeOK, Inboxes
<1>3. CASE LoopWakes(l)
  <2>1. net' = [net EXCEPT ![l] = [phase |-> "served", addr |-> a]]
    BY <1>0, <1>3 DEF LoopWakes
  <2>2. net' \in [LLCs -> Net]
    BY <1>0, <2>1 DEF Net
  <2>3. waiters[l][a] # <<>> /\ UNCHANGED waiters
    BY <1>3 DEF LoopWakes
  <2>4. ServedQueued'
    BY <1>0, <2>1, <2>3 DEF ServedQueued
  <2>5. /\ cstate' \in [LLCs -> [Addrs -> CStates]]
        /\ cdata' \in [LLCs -> [Addrs -> Data]]
        /\ latest' \in [Addrs -> 0..MaxWrites]
    BY <1>0, <1>3, AccessType DEF LoopWakes
  <2> QED
    BY <1>3, <2>2, <2>3, <2>4, <2>5, CacheFrame
       DEF LoopWakes, NetworkTypeOK, CacheTypeOK, Inboxes
<1>4. CASE LoopDequeues(l)
  <2>1. net' = [net EXCEPT ![l] = [phase |-> "loop", addr |-> a]]
    BY <1>0, <1>4 DEF LoopDequeues
  <2>2. net' \in [LLCs -> Net]
    BY <1>0, <2>1, NetLoop
  <2>3. waiters[l][a] # <<>> /\ waiters[l][a] \in Seq(Waiter)
    BY <1>0, <1>4 DEF LoopDequeues, ServedQueued
  <2>4. Tail(waiters[l][a]) \in Seq(Waiter)
    BY <2>3
  <2>5. waiters' \in [LLCs -> [Addrs -> Seq(Waiter)]]
    BY <1>0, <1>4, <2>4 DEF LoopDequeues
  <2>6. ServedQueued'
    <3> SUFFICES ASSUME NEW k \in LLCs, net'[k].phase = "served"
                 PROVE  waiters'[k][net'[k].addr] # <<>>
      BY DEF ServedQueued
    <3>1. k # l /\ net'[k] = net[k]
      BY <2>1
    <3>2. waiters'[k] = waiters[k]
      BY <1>4, <3>1 DEF LoopDequeues
    <3> QED
      BY <3>1, <3>2 DEF ServedQueued
  <2> QED
    BY <1>4, <2>2, <2>5, <2>6, CacheFrame
       DEF LoopDequeues, NetworkTypeOK, CacheTypeOK, Inboxes
<1> QED
  BY <1>1, <1>2, <1>3, <1>4

\* Appending to a sequence keeps its type and leaves it nonempty.
LEMMA AppendType ==
  ASSUME NEW S, NEW s \in Seq(S), NEW x \in S
  PROVE  Append(s, x) \in Seq(S) /\ Append(s, x) # <<>>
BY AppendProperties

\* A core's access, and an eviction.
LEMMA CoreTInv ==
  ASSUME TInv, NEW c \in Cores, NEW a \in Addrs, CoreStep(c, a)
  PROVE  TInv'
<1> USE CacheFacts
<1> DEFINE l == LlcOf[c]
<1>0. l \in LLCs /\ UNCHANGED dirVars
  BY CoresAssumption DEF CoreStep
<1>1. CASE Hit(c, a)
  <2>1. /\ cstate' \in [LLCs -> [Addrs -> CStates]]
        /\ cdata' \in [LLCs -> [Addrs -> Data]]
        /\ latest' \in [Addrs -> 0..MaxWrites]
    BY <1>0, <1>1, AccessType DEF Hit
  <2> QED
    BY <1>0, <1>1, <2>1, CacheFrame
       DEF Hit, NetworkTypeOK, CacheTypeOK, Inboxes, ServedQueued
<1>2. CASE Miss(c, a)
  <2> DEFINE first == FirstWaiter(l, a)
  <2> PICK x \in BOOLEAN, type \in ReqTypes :
        /\ waiters' = [waiters EXCEPT ![l][a] = Append(@, [core |-> c, exclusive |-> x])]
        /\ inbox' = IF first THEN Send(inbox, Home, Msg(type, l, a, NoData)) ELSE inbox
        /\ cstate' \in {cstate, [cstate EXCEPT ![l][a] = "SU"]}
    BY <1>2 DEF Miss, ReqTypes
  <2>1. inbox' \in Inboxes
    BY <1>0, MsgType, SendType DEF CacheToHome
  <2>2. /\ Append(waiters[l][a], [core |-> c, exclusive |-> x]) \in Seq(Waiter)
        /\ Append(waiters[l][a], [core |-> c, exclusive |-> x]) # <<>>
    <3>1. waiters[l][a] \in Seq(Waiter)
      BY <1>0
    <3>2. [core |-> c, exclusive |-> x] \in Waiter
      BY Zenon DEF Waiter
    <3> QED
      BY <3>1, <3>2, AppendType
  <2>3. waiters' \in [LLCs -> [Addrs -> Seq(Waiter)]]
    BY <1>0, <2>2
  <2>4. cstate' \in [LLCs -> [Addrs -> CStates]]
    <3>1. [cstate EXCEPT ![l][a] = "SU"] \in [LLCs -> [Addrs -> CStates]]
      BY <1>0 DEF CStates
    <3> QED
      BY <3>1
  <2>5. ServedQueued'
    <3> SUFFICES ASSUME NEW k \in LLCs, net'[k].phase = "served"
                 PROVE  waiters'[k][net'[k].addr] # <<>>
      BY DEF ServedQueued
    <3>1. net' = net /\ net[k].addr \in Addrs /\ waiters[k][net[k].addr] # <<>>
      BY <1>2, NetFields DEF Miss, ServedQueued
    <3>2. CASE k = l /\ net[k].addr = a
      <4>1. waiters'[k][net[k].addr] = Append(waiters[l][a], [core |-> c, exclusive |-> x])
        BY <1>0, <3>1, <3>2
      <4> QED
        BY <2>2, <3>1, <4>1
    <3>3. CASE ~(k = l /\ net[k].addr = a)
      <4>1. waiters'[k][net[k].addr] = waiters[k][net[k].addr]
        BY <1>0, <3>1, <3>3
      <4> QED
        BY <3>1, <4>1
    <3> QED
      BY <3>2, <3>3
  <2> QED
    BY <1>0, <1>2, <2>1, <2>3, <2>4, <2>5, CacheFrame
       DEF Miss, NetworkTypeOK, CacheTypeOK, Inboxes
<1> QED
  BY <1>1, <1>2 DEF CoreStep

LEMMA EvictTInv ==
  ASSUME TInv, NEW l \in LLCs, NEW a \in Addrs, EvictStep(l, a)
  PROVE  TInv'
<1> USE CacheFacts
<1>1. cdata[l][a] \in Data /\ 0 \in Data
  BY NetworkAssumption DEF Data, Garbage
<1>2. inbox' \in Inboxes
  BY <1>1, MsgType, SendType DEF EvictStep, Evict, CacheToHome, CacheToHomeData
<1>3. CacheTypeOK'
  BY <1>1, SetLineType DEF EvictStep, Evict, CacheTypeOK, CStates
<1> QED
  BY <1>2, <1>3, CacheFrame
     DEF EvictStep, Evict, NetworkTypeOK, Inboxes, ServedQueued

LEMMA StutterTInv ==
  ASSUME TInv, UNCHANGED vars
  PROVE  TInv'
  BY DEF TInv, TypeOK, NetworkTypeOK, DirectoryTypeOK, CacheTypeOK,
         HandlersHaveWork, vars, dirVars, llcVars

\* Every step keeps the invariant.
LEMMA NextTInv == TInv /\ [Next]_vars => TInv'
<1> SUFFICES ASSUME TInv, [Next]_vars PROVE TInv'
  OBVIOUS
<1>1. CASE DirectoryStep
  BY <1>1, ProcessTInv, HandleTInv DEF DirectoryStep
<1>2. CASE DramStep
  BY <1>2, DramTInv
<1>3. ASSUME NEW l \in LLCs, NetworkThreadStep(l) PROVE TInv'
  BY <1>3, MessageTInv, LoopTInv DEF NetworkThreadStep
<1>4. ASSUME NEW c \in Cores, NEW a \in Addrs, CoreStep(c, a) PROVE TInv'
  BY <1>4, CoreTInv
<1>5. ASSUME NEW l \in LLCs, NEW a \in Addrs, EvictStep(l, a) PROVE TInv'
  BY <1>5, EvictTInv
<1>6. CASE UNCHANGED vars
  BY <1>6, StutterTInv
<1> QED
  BY <1>1, <1>2, <1>3, <1>4, <1>5, <1>6 DEF Next

\* Type correctness of the memory system: every message has the sender and the
\* payload its handler relies on, every entry, queue and line a legal value
\* (handleMsgFromL2Cache, handleMsgFromDramDirectory, processMemOpFromCore).
THEOREM CoherentMemoryTyped == Spec => []TypeOK
<1>1. TInv => TypeOK
  BY DEF TInv
<1> QED
  BY <1>1, InitTInv, NextTInv, PTL DEF Spec

-----------------------------------------------------------------------------
(* Coherence: the directory and the caches.                                *)

\* The entries of a full-map directory have a bit for every cache.
FullMap == Cardinality(LLCs) <= MaxHwSharers

-----------------------------------------------------------------------------
(* What a queue of packets holds: m is a message of one of the types T, by *)
(* f, about a; there is one in s; a T comes before a U; T, U, V in turn.   *)

Is(m, T, f, a) == m.type \in T /\ m.from = f /\ m.addr = a
Has(s, T, f, a) == \E i \in 1 .. Len(s) : Is(s[i], T, f, a)
Prec(s, T, U, f, a) ==
  \E i, j \in 1 .. Len(s) : i < j /\ Is(s[i], T, f, a) /\ Is(s[j], U, f, a)
Prec3(s, T, U, V, f, a) ==
  \E i, j, k \in 1 .. Len(s) :
    i < j /\ j < k /\ Is(s[i], T, f, a) /\ Is(s[j], U, f, a) /\ Is(s[k], V, f, a)

\* t is s as far as f and a go; s with a message of type y at its end; s without
\* the message of type y at its head.
SameBox(s, t, f, a) ==
  /\ \A T : Has(t, T, f, a) <=> Has(s, T, f, a)
  /\ \A T, U : Prec(t, T, U, f, a) <=> Prec(s, T, U, f, a)
  /\ \A T, U, V : Prec3(t, T, U, V, f, a) <=> Prec3(s, T, U, V, f, a)
PushBox(s, t, f, a, y) ==
  /\ \A T : Has(t, T, f, a) <=> Has(s, T, f, a) \/ y \in T
  /\ \A T, U : Prec(t, T, U, f, a) <=> Prec(s, T, U, f, a) \/ (Has(s, T, f, a) /\ y \in U)
  /\ \A T, U, V : Prec3(t, T, U, V, f, a) <=>
                    Prec3(s, T, U, V, f, a) \/ (Prec(s, T, U, f, a) /\ y \in V)
PopBox(s, t, f, a, y) ==
  /\ \A T : Has(s, T, f, a) <=> Has(t, T, f, a) \/ y \in T
  /\ \A T, U : Prec(s, T, U, f, a) <=> Prec(t, T, U, f, a) \/ (y \in T /\ Has(t, U, f, a))
  /\ \A T, U, V : Prec3(s, T, U, V, f, a) <=>
                    Prec3(t, T, U, V, f, a) \/ (y \in T /\ Prec(t, U, V, f, a))

\* A message at the end of a queue.
LEMMA HasAppend ==
  ASSUME NEW s \in Seq(Message), NEW m \in Message, NEW f, NEW a
  PROVE  /\ \A T : Has(Append(s, m), T, f, a) <=> Has(s, T, f, a) \/ Is(m, T, f, a)
         /\ \A T, U : Prec(Append(s, m), T, U, f, a) <=>
              Prec(s, T, U, f, a) \/ (Has(s, T, f, a) /\ Is(m, U, f, a))
         /\ \A T, U, V : Prec3(Append(s, m), T, U, V, f, a) <=>
              Prec3(s, T, U, V, f, a) \/ (Prec(s, T, U, f, a) /\ Is(m, V, f, a))
<1> DEFINE t == Append(s, m)
           n == Len(s)
<1>1. /\ n \in Nat /\ Len(t) = n + 1 /\ t[n + 1] = m
      /\ \A i \in 1 .. n : t[i] = s[i]
  OBVIOUS
<1> HIDE DEF t, n
<1>2. ASSUME NEW T PROVE Has(t, T, f, a) <=> Has(s, T, f, a) \/ Is(m, T, f, a)
  <2>1. ASSUME NEW i \in 1 .. (n + 1), Is(t[i], T, f, a)
        PROVE  (i \in 1 .. n /\ Is(s[i], T, f, a)) \/ Is(m, T, f, a)
    BY <1>1, <2>1
  <2>2. ASSUME NEW i \in 1 .. n, Is(s[i], T, f, a)
        PROVE  i \in 1 .. (n + 1) /\ Is(t[i], T, f, a)
    BY <1>1, <2>2
  <2>3. n + 1 \in 1 .. (n + 1)
    BY <1>1
  <2> QED
    BY <1>1, <2>1, <2>2, <2>3 DEF Has, n
<1>3. ASSUME NEW T, NEW U
      PROVE  Prec(t, T, U, f, a) <=> Prec(s, T, U, f, a) \/ (Has(s, T, f, a) /\ Is(m, U, f, a))
  <2>1. ASSUME NEW i \in 1 .. (n + 1), NEW j \in 1 .. (n + 1), i < j,
               Is(t[i], T, f, a), Is(t[j], U, f, a)
        PROVE  /\ i \in 1 .. n /\ Is(s[i], T, f, a)
               /\ (j \in 1 .. n /\ Is(s[j], U, f, a)) \/ Is(m, U, f, a)
    BY <1>1, <2>1
  <2>2. ASSUME NEW i \in 1 .. n, Is(s[i], T, f, a)
        PROVE  i \in 1 .. (n + 1) /\ i < n + 1 /\ Is(t[i], T, f, a)
    BY <1>1, <2>2
  <2>3. n + 1 \in 1 .. (n + 1)
    BY <1>1
  <2> QED
    BY <1>1, <2>1, <2>2, <2>3 DEF Has, Prec, n
<1>4. ASSUME NEW T, NEW U, NEW V
      PROVE  Prec3(t, T, U, V, f, a) <=>
               Prec3(s, T, U, V, f, a) \/ (Prec(s, T, U, f, a) /\ Is(m, V, f, a))
  <2>1. ASSUME NEW i \in 1 .. (n + 1), NEW j \in 1 .. (n + 1), NEW k \in 1 .. (n + 1), i < j, j < k,
               Is(t[i], T, f, a), Is(t[j], U, f, a), Is(t[k], V, f, a)
        PROVE  /\ i \in 1 .. n /\ Is(s[i], T, f, a)
               /\ j \in 1 .. n /\ Is(s[j], U, f, a)
               /\ (k \in 1 .. n /\ Is(s[k], V, f, a)) \/ Is(m, V, f, a)
    BY <1>1, <2>1
  <2>2. ASSUME NEW i \in 1 .. n, NEW T2, Is(s[i], T2, f, a)
        PROVE  i \in 1 .. (n + 1) /\ i < n + 1 /\ Is(t[i], T2, f, a)
    BY <1>1, <2>2
  <2>3. n + 1 \in 1 .. (n + 1)
    BY <1>1
  <2>4. Prec3(t, T, U, V, f, a) => Prec3(s, T, U, V, f, a) \/ (Prec(s, T, U, f, a) /\ Is(m, V, f, a))
    BY <1>1, <2>1 DEF Prec, Prec3, n
  <2>5. Prec3(s, T, U, V, f, a) => Prec3(t, T, U, V, f, a)
    BY <1>1, <2>2 DEF Prec3, n
  <2>6. Prec(s, T, U, f, a) /\ Is(m, V, f, a) => Prec3(t, T, U, V, f, a)
    BY <1>1, <2>2, <2>3 DEF Prec, Prec3, n
  <2> QED
    BY <2>4, <2>5, <2>6
<1> QED
  BY <1>2, <1>3, <1>4 DEF t

\* The message at the head of a queue is taken off.
LEMMA HasTail ==
  ASSUME NEW s \in Seq(Message), s # <<>>, NEW f, NEW a
  PROVE  /\ \A T : Has(s, T, f, a) <=> Has(Tail(s), T, f, a) \/ Is(Head(s), T, f, a)
         /\ \A T, U : Prec(s, T, U, f, a) <=>
              Prec(Tail(s), T, U, f, a) \/ (Is(Head(s), T, f, a) /\ Has(Tail(s), U, f, a))
         /\ \A T, U, V : Prec3(s, T, U, V, f, a) <=>
              Prec3(Tail(s), T, U, V, f, a) \/ (Is(Head(s), T, f, a) /\ Prec(Tail(s), U, V, f, a))
<1> DEFINE t == Tail(s)
           h == Head(s)
           n == Len(t)
<1>1. /\ n \in Nat /\ Len(s) = n + 1 /\ h = s[1]
      /\ \A i \in 1 .. n : t[i] = s[i + 1]
  OBVIOUS
<1> HIDE DEF t, n, h
<1>2. ASSUME NEW i \in 1 .. (n + 1), NEW T, Is(s[i], T, f, a)
      PROVE  (i = 1 /\ Is(h, T, f, a)) \/ (i - 1 \in 1 .. n /\ Is(t[i - 1], T, f, a))
  BY <1>1, <1>2
<1>3. ASSUME NEW i \in 1 .. n, NEW T, Is(t[i], T, f, a)
      PROVE  i + 1 \in 1 .. (n + 1) /\ 1 < i + 1 /\ Is(s[i + 1], T, f, a)
  BY <1>1, <1>3
<1>4. 1 \in 1 .. (n + 1) /\ (\A T : Is(h, T, f, a) => Is(s[1], T, f, a))
  BY <1>1
<1>5. ASSUME NEW T PROVE Has(s, T, f, a) <=> Has(t, T, f, a) \/ Is(h, T, f, a)
  BY <1>1, <1>2, <1>3, <1>4 DEF Has, n
<1>6. ASSUME NEW T, NEW U
      PROVE  Prec(s, T, U, f, a) <=> Prec(t, T, U, f, a) \/ (Is(h, T, f, a) /\ Has(t, U, f, a))
  <2>1. ASSUME NEW i \in 1 .. (n + 1), NEW j \in 1 .. (n + 1), i < j,
               Is(s[i], T, f, a), Is(s[j], U, f, a)
        PROVE  /\ j - 1 \in 1 .. n /\ Is(t[j - 1], U, f, a)
               /\ Is(h, T, f, a) \/ (i - 1 \in 1 .. n /\ i - 1 < j - 1 /\ Is(t[i - 1], T, f, a))
    BY <1>1, <1>2, <2>1
  <2>2. Prec(s, T, U, f, a) => Prec(t, T, U, f, a) \/ (Is(h, T, f, a) /\ Has(t, U, f, a))
    BY <1>1, <2>1 DEF Has, Prec, n
  <2>3. Prec(t, T, U, f, a) => Prec(s, T, U, f, a)
    <3>1. ASSUME NEW i \in 1 .. n, NEW j \in 1 .. n, i < j, Is(t[i], T, f, a), Is(t[j], U, f, a)
          PROVE  Prec(s, T, U, f, a)
      <4>1. i + 1 < j + 1
        BY <3>1
      <4> QED
        BY <1>1, <1>3, <3>1, <4>1 DEF Prec
    <3> QED
      BY <3>1 DEF Prec, n
  <2>4. Is(h, T, f, a) /\ Has(t, U, f, a) => Prec(s, T, U, f, a)
    BY <1>1, <1>3, <1>4 DEF Has, Prec, n
  <2> QED
    BY <2>2, <2>3, <2>4
<1>7. ASSUME NEW T, NEW U, NEW V
      PROVE  Prec3(s, T, U, V, f, a) <=>
               Prec3(t, T, U, V, f, a) \/ (Is(h, T, f, a) /\ Prec(t, U, V, f, a))
  <2>1. Prec3(s, T, U, V, f, a) => Prec3(t, T, U, V, f, a) \/ (Is(h, T, f, a) /\ Prec(t, U, V, f, a))
    <3> SUFFICES ASSUME Prec3(s, T, U, V, f, a)
                 PROVE  Prec3(t, T, U, V, f, a) \/ (Is(h, T, f, a) /\ Prec(t, U, V, f, a))
      OBVIOUS
    <3>1. PICK i \in 1 .. (n + 1), j \in 1 .. (n + 1), k \in 1 .. (n + 1) :
            i < j /\ j < k /\ Is(s[i], T, f, a) /\ Is(s[j], U, f, a) /\ Is(s[k], V, f, a)
      BY <1>1 DEF Prec3
    <3>2. j # 1 /\ k # 1 /\ j - 1 < k - 1
      BY <1>1, <3>1
    <3>3. /\ j - 1 \in 1 .. n /\ Is(t[j - 1], U, f, a)
          /\ k - 1 \in 1 .. n /\ Is(t[k - 1], V, f, a)
      BY <1>2, <3>1, <3>2
    <3>4. CASE i = 1 /\ Is(h, T, f, a)
      BY <3>2, <3>3, <3>4 DEF Prec, n
    <3>5. CASE i - 1 \in 1 .. n /\ Is(t[i - 1], T, f, a)
      <4>1. i - 1 < j - 1
        BY <1>1, <3>1
      <4> QED
        BY <3>2, <3>3, <3>5, <4>1 DEF Prec3, n
    <3> QED
      BY <1>2, <3>1, <3>4, <3>5
  <2>2. Prec3(t, T, U, V, f, a) => Prec3(s, T, U, V, f, a)
    <3>1. ASSUME NEW i \in 1 .. n, NEW j \in 1 .. n, NEW k \in 1 .. n, i < j, j < k,
                 Is(t[i], T, f, a), Is(t[j], U, f, a), Is(t[k], V, f, a)
          PROVE  Prec3(s, T, U, V, f, a)
      <4>1. i + 1 < j + 1 /\ j + 1 < k + 1
        BY <3>1
      <4> QED
        BY <1>1, <1>3, <3>1, <4>1 DEF Prec3
    <3> QED
      BY <3>1 DEF Prec3, n
  <2>3. Is(h, T, f, a) /\ Prec(t, U, V, f, a) => Prec3(s, T, U, V, f, a)
    <3>1. ASSUME NEW j \in 1 .. n, NEW k \in 1 .. n, j < k, Is(h, T, f, a),
                 Is(t[j], U, f, a), Is(t[k], V, f, a)
          PROVE  Prec3(s, T, U, V, f, a)
      <4>1. j + 1 < k + 1
        BY <3>1
      <4> QED
        BY <1>1, <1>3, <1>4, <3>1, <4>1 DEF Prec3
    <3> QED
      BY <3>1 DEF Prec, n
  <2> QED
    BY <2>1, <2>2, <2>3
<1> QED
  BY <1>5, <1>6, <1>7 DEF t, h
LEMMA AppendBox ==
  ASSUME NEW s \in Seq(Message), NEW m \in Message, NEW f, NEW a
  PROVE  /\ m.from = f /\ m.addr = a => PushBox(s, Append(s, m), f, a, m.type)
         /\ ~(m.from = f /\ m.addr = a) => SameBox(s, Append(s, m), f, a)
<1>1. CASE m.from = f /\ m.addr = a
  <2>1. \A T : Is(m, T, f, a) <=> m.type \in T
    BY <1>1 DEF Is
  <2> QED
    BY <1>1, <2>1, HasAppend DEF PushBox
<1>2. CASE ~(m.from = f /\ m.addr = a)
  <2>1. \A T : ~Is(m, T, f, a)
    BY <1>2 DEF Is
  <2> QED
    BY <1>2, <2>1, HasAppend DEF SameBox
<1> QED
  BY <1>1, <1>2

LEMMA TailBox ==
  ASSUME NEW s \in Seq(Message), s # <<>>, NEW f, NEW a
  PROVE  /\ Head(s).from = f /\ Head(s).addr = a => PopBox(s, Tail(s), f, a, Head(s).type)
         /\ ~(Head(s).from = f /\ Head(s).addr = a) => SameBox(s, Tail(s), f, a)
<1>1. CASE Head(s).from = f /\ Head(s).addr = a
  <2>1. \A T : Is(Head(s), T, f, a) <=> Head(s).type \in T
    BY <1>1 DEF Is
  <2> QED
    BY <1>1, <2>1, HasTail DEF PopBox
<1>2. CASE ~(Head(s).from = f /\ Head(s).addr = a)
  <2>1. \A T : ~Is(Head(s), T, f, a)
    BY <1>2 DEF Is
  <2> QED
    BY <1>2, <2>1, HasTail DEF SameBox
<1> QED
  BY <1>1, <1>2

LEMMA EmptyBox ==
  ASSUME NEW f, NEW a
  PROVE  /\ \A T : ~Has(<<>>, T, f, a)
         /\ \A T, U : ~Prec(<<>>, T, U, f, a)
         /\ \A T, U, V : ~Prec3(<<>>, T, U, V, f, a)
  BY DEF Has, Prec, Prec3

LEMMA SameBoxRefl ==
  ASSUME NEW s, NEW f, NEW a
  PROVE  SameBox(s, s, f, a)
  BY DEF SameBox

-----------------------------------------------------------------------------
(* The view one line has of the system.                                    *)

Grants  == {"EX_REP", "SH_REP"}
Leaves  == {"INV_REP", "FLUSH_REP"}
Asks    == {"EX_REQ", "SH_REQ"}
Recalls == {"INV_REQ", "FLUSH_REQ", "WB_REQ"}
Owned   == {"EXCLUSIVE", "MODIFIED"}

ToCache(l, a, T) == Has(inbox[l], T, Home, a)
ToHome(l, a, T)  == Has(inbox[Home], T, l, a)

Held(l, a)    == cstate[l][a] # "I"
Granted(l, a) == ToCache(l, a, Grants)
Leaving(l, a) == ToHome(l, a, Leaves)

Queued(a) == queue[a] # <<>>
Busy(a)   == work.busy /\ work.addr = a
\* The front request waits for an answer of some cache.
Waits(a)  == Queued(a) /\ ~Busy(a) /\ ~Front(a).waitForData
Fetching(l, a) ==
  Queued(a) /\ Front(a).from = l /\ (Front(a).waitForData \/ Front(a).forwardingFrom # None)
\* ... of l, among others, because its copy is in the way.
Recalled(l, a) ==
  Waits(a) /\ Front(a).type \in {"EX_REQ", "UPGRADE_REQ", "NULLIFY_REQ"} /\ Front(a).from # l

InQueue(l, a, T) ==
  \E i \in 1 .. Len(queue[a]) : queue[a][i].from = l /\ queue[a][i].type \in T
Asking(l, a, T) == ToHome(l, a, T) \/ InQueue(l, a, T)
\* A request of the directory that meets a copy of l.
Live(l, a, T) == (Held(l, a) /\ ToCache(l, a, T)) \/ Prec(inbox[l], Grants, T, Home, a)
InLoop(l, a) == net[l].phase \in {"loop", "served"} /\ net[l].addr = a

-----------------------------------------------------------------------------
(* The invariant, for a line and a cache.                                  *)

OneToken(l, a) ==
  /\ Held(l, a) => ~Granted(l, a) /\ ~Leaving(l, a) /\ ~Fetching(l, a)
  /\ Granted(l, a) => ~Leaving(l, a) /\ ~Fetching(l, a)
  /\ Leaving(l, a) => ~Fetching(l, a)
  /\ ~Prec(inbox[Home], Leaves, Leaves, l, a)
Tokens(l, a) ==
  l \in dir[a].sharers <=> Held(l, a) \/ Granted(l, a) \/ Leaving(l, a) \/ Fetching(l, a)

\* Who may write, or is about to, is the owner.
OwnerOnly(l, a) ==
  cstate[l][a] \in {"E", "M"} \/ ToCache(l, a, {"EX_REP"}) => dir[a].state \in Owned

RecallInv(l, a) ==
  Live(l, a, {"INV_REQ"}) => Recalled(l, a) /\ dir[a].state = "SHARED"
\* A SHARED line is flushed only for an upgrade whose requester has lost its copy.
RecallFlush(l, a) ==
  /\ Live(l, a, {"FLUSH_REQ"}) => Recalled(l, a)
  /\ (Live(l, a, {"FLUSH_REQ"}) \/ ToHome(l, a, {"FLUSH_REP"})) /\ dir[a].state = "SHARED" =>
       Waits(a) /\ Front(a).type = "UPGRADE_REQ" /\ Front(a).from \notin dir[a].sharers
\* A read waits for one write-back, of the owner or of the forwarder.
Copying(l, a) ==
  Live(l, a, {"WB_REQ"}) \/ ToHome(l, a, {"WB_REP"}) =>
    /\ Waits(a) /\ Front(a).type = "SH_REQ"
    /\ dir[a].state \in Owned \/ (dir[a].state = "SHARED" /\ Front(a).forwardingFrom = l)
CopyOnce(l, a) ==
  /\ ~(Live(l, a, {"WB_REQ"}) /\ ToHome(l, a, {"WB_REP"}))
  /\ Held(l, a) => ~Prec(inbox[l], {"WB_REQ"}, {"WB_REQ"}, Home, a)
  /\ ~Prec3(inbox[l], Grants, {"WB_REQ"}, {"WB_REQ"}, Home, a)
  /\ ~Prec(inbox[Home], {"WB_REP"}, {"WB_REP"}, l, a)
  /\ ~Prec(inbox[Home], Leaves, {"WB_REP"}, l, a)
  /\ ToHome(l, a, {"WB_REP"}) => cstate[l][a] \in {"S", "SU"} \/ Leaving(l, a)
  /\ ~(ToHome(l, a, {"WB_REP"}) /\ ToHome(l, a, {"FLUSH_REP"}))

\* An upgrade that was granted is not overtaken by anything.
Upgraded(l, a) ==
  ToCache(l, a, {"UPGRADE_REP"}) =>
    /\ cstate[l][a] = "SU" /\ dir[a].state \in Owned
    /\ ~ToHome(l, a, {"WB_REP"})
    /\ ~Prec(inbox[l], Recalls, {"UPGRADE_REP"}, Home, a)

\* A cache has one request for a line at a time, up to its reply.
AskOnce(l, a) ==
  /\ ~Prec(inbox[Home], ReqTypes, ReqTypes, l, a)
  /\ ~(ToHome(l, a, ReqTypes) /\ InQueue(l, a, ReqTypes))
  /\ \A i, j \in 1 .. Len(queue[a]) : queue[a][i].from = l /\ queue[a][j].from = l => i = j
  /\ Asking(l, a, ReqTypes) => ~ToCache(l, a, RepTypes)
  /\ ~Prec(inbox[l], RepTypes, RepTypes, Home, a)
AskMiss(l, a) ==
  /\ Asking(l, a, Asks) => ~Held(l, a)
  /\ InQueue(l, a, Asks) => ~Leaving(l, a)
  /\ ~Prec(inbox[Home], Asks, Leaves, l, a)
AskUpgrade(l, a) ==
  Asking(l, a, {"UPGRADE_REQ"}) => /\ cstate[l][a] \in {"SU", "I"}
                                   /\ Leaving(l, a) => Recalled(l, a)
AskWaits(l, a) ==
  Asking(l, a, ReqTypes) \/ ToCache(l, a, RepTypes) => waiters[l][a] # <<>> /\ ~InLoop(l, a)
UpgradeAsked(l, a) ==
  cstate[l][a] = "SU" => Asking(l, a, {"UPGRADE_REQ"}) \/ ToCache(l, a, {"UPGRADE_REP"})
LoopLine(l, a) == InLoop(l, a) => cstate[l][a] \in {"S", "E", "M"}

\* A copy, or a message that gives one up, and the state of the entry.
SharedReply(l, a) == ToCache(l, a, {"SH_REP"}) => dir[a].state = "SHARED"
SharedCopy(l, a) == cstate[l][a] = "S" /\ dir[a].state \in Owned => ToHome(l, a, {"WB_REP"})
LeftShared(l, a) ==
  ToHome(l, a, {"INV_REP"}) /\ dir[a].state = "MODIFIED" => ToHome(l, a, {"WB_REP"})
\* A line that is MODIFIED in the directory is written at once when it arrives.
WritersWait(l, a) ==
  \/ Asking(l, a, {"EX_REQ", "UPGRADE_REQ"})
  \/ dir[a].state = "MODIFIED" /\ (ToCache(l, a, {"EX_REP"}) \/ cstate[l][a] = "E")
  => waiters[l][a] # <<>> /\ waiters[l][a][1].exclusive
WriterNow(l, a) ==
  dir[a].state = "MODIFIED" /\ cstate[l][a] = "E" => net[l] = [phase |-> "loop", addr |-> a]

LineInv(l, a) ==
  /\ OneToken(l, a) /\ Tokens(l, a) /\ OwnerOnly(l, a)
  /\ RecallInv(l, a) /\ RecallFlush(l, a) /\ Copying(l, a) /\ CopyOnce(l, a) /\ Upgraded(l, a)
  /\ AskOnce(l, a) /\ AskMiss(l, a) /\ AskUpgrade(l, a) /\ AskWaits(l, a)
  /\ UpgradeAsked(l, a) /\ LoopLine(l, a)
  /\ SharedReply(l, a) /\ SharedCopy(l, a) /\ LeftShared(l, a)
  /\ WritersWait(l, a) /\ WriterNow(l, a)

-----------------------------------------------------------------------------
(* The invariant, for the entry of a line.                                 *)

EntryShape(a) ==
  /\ dir[a].state = "UNCACHED" <=> dir[a].sharers = {}
  /\ dir[a].state \in Owned => dir[a].sharers = {dir[a].owner}
  /\ dir[a].state # "UNCACHED" => HasEntry(a)
FrontState(a) ==
  Queued(a) =>
    /\ Front(a).waitForData =>
         IF Front(a).type = "SH_REQ" THEN dir[a].state \in {"SHARED", "EXCLUSIVE"}
         ELSE dir[a].state = "MODIFIED"
    /\ Front(a).forwardingFrom # None => Front(a).type = "SH_REQ" /\ dir[a].state = "SHARED"
    /\ Front(a).type = "NULLIFY_REQ" => a \in replaced
QueueFresh(a) ==
  \A i \in 2 .. Len(queue[a]) : /\ ~queue[a][i].waitForData /\ queue[a][i].forwardingFrom = None
                                /\ queue[a][i].type # "NULLIFY_REQ"
BusyFront(a) ==
  Busy(a) => /\ ~Front(a).waitForData
             /\ Front(a).type = "NULLIFY_REQ" => dir[a].state = "UNCACHED"
             /\ work.data # NoData =>
                  dir[a].state = "UNCACHED" \/ (dir[a].state = "SHARED" /\ Front(a).type = "SH_REQ")
\* One read of the line at a time is under way to the DRAM controller and back.
Reading(a) == Has(inbox[Dram], {"DRAM_READ_REQ"}, Home, a)
ReadDone(a) == Has(inbox[Home], {"DRAM_READ_REP"}, Dram, a)
DramOnce(a) ==
  /\ Reading(a) \/ ReadDone(a) => Queued(a) /\ Front(a).waitForData
  /\ ~(Reading(a) /\ ReadDone(a))
  /\ ~Prec(inbox[Dram], {"DRAM_READ_REQ"}, {"DRAM_READ_REQ"}, Home, a)
  /\ ~Prec(inbox[Home], {"DRAM_READ_REP"}, {"DRAM_READ_REP"}, Dram, a)
ForwarderKnown(a) ==
  Protocol = "MESIF" /\ dir[a].state = "SHARED" /\ ~(Busy(a) /\ work.data # NoData) =>
    dir[a].forwarder # Uninit

EntryInv(a) ==
  /\ EntryShape(a) /\ FrontState(a) /\ QueueFresh(a) /\ BusyFront(a)
  /\ DramOnce(a) /\ ForwarderKnown(a)

\* The directory is sent nothing it has no handler for.
HomeTypes == CacheToHome \union CacheToHomeData \union {"DRAM_READ_REP"}
HomeBox == \A i \in 1 .. Len(inbox[Home]) : inbox[Home][i].type \in HomeTypes

CInv == /\ TInv /\ HomeBox
        /\ \A a \in Addrs : EntryInv(a)
        /\ \A a \in Addrs : \A l \in LLCs : LineInv(l, a)

-----------------------------------------------------------------------------
(* What leaves the view of a line alone keeps its invariant.               *)

LEMMA LineFrame ==
  ASSUME NEW l \in LLCs, NEW a \in Addrs, LineInv(l, a),
         SameBox(inbox[l], inbox'[l], Home, a), SameBox(inbox[Home], inbox'[Home], l, a),
         cstate'[l][a] = cstate[l][a], waiters'[l][a] = waiters[l][a],
         InLoop(l, a)' <=> InLoop(l, a),
         net'[l] = [phase |-> "loop", addr |-> a] <=> net[l] = [phase |-> "loop", addr |-> a],
         dir'[a] = dir[a], queue'[a] = queue[a], Busy(a)' <=> Busy(a)
  PROVE  LineInv(l, a)'
<1>1. /\ \A T : ToCache(l, a, T)' <=> ToCache(l, a, T)
      /\ \A T : ToHome(l, a, T)' <=> ToHome(l, a, T)
  BY DEF SameBox, ToCache, ToHome
<1>2. /\ Queued(a)' <=> Queued(a)
      /\ Front(a)' = Front(a)
      /\ Held(l, a)' <=> Held(l, a)
      /\ Granted(l, a)' <=> Granted(l, a)
      /\ Leaving(l, a)' <=> Leaving(l, a)
      /\ Waits(a)' <=> Waits(a)
      /\ Fetching(l, a)' <=> Fetching(l, a)
      /\ Recalled(l, a)' <=> Recalled(l, a)
      /\ \A T : InQueue(l, a, T)' <=> InQueue(l, a, T)
  BY <1>1 DEF Queued, Front, Held, Granted, Leaving, Waits, Fetching, Recalled, InQueue
<1>3. /\ \A T : Asking(l, a, T)' <=> Asking(l, a, T)
      /\ \A T : Live(l, a, T)' <=> Live(l, a, T)
  BY <1>1, <1>2 DEF Asking, Live, SameBox
<1>4. OneToken(l, a)' /\ Tokens(l, a)' /\ OwnerOnly(l, a)'
  BY <1>1, <1>2, <1>3 DEF LineInv, OneToken, Tokens, OwnerOnly, SameBox
<1>5. RecallInv(l, a)' /\ RecallFlush(l, a)' /\ Copying(l, a)'
  <2>1. RecallInv(l, a)'
    BY <1>1, <1>2, <1>3 DEF LineInv, RecallInv
  <2>2. RecallFlush(l, a)'
    BY <1>1, <1>2, <1>3 DEF LineInv, RecallFlush
  <2>3. Copying(l, a)'
    BY <1>1, <1>2, <1>3 DEF LineInv, Copying
  <2> QED
    BY <2>1, <2>2, <2>3
<1>6. CopyOnce(l, a)' /\ Upgraded(l, a)'
  BY <1>1, <1>2, <1>3 DEF LineInv, CopyOnce, Upgraded, SameBox
<1>7. AskOnce(l, a)' /\ AskMiss(l, a)' /\ AskUpgrade(l, a)'
  BY <1>1, <1>2, <1>3 DEF LineInv, AskOnce, AskMiss, AskUpgrade, SameBox
<1>8. AskWaits(l, a)' /\ UpgradeAsked(l, a)' /\ LoopLine(l, a)'
  BY <1>1, <1>2, <1>3 DEF LineInv, AskWaits, UpgradeAsked, LoopLine
<1>9. SharedReply(l, a)' /\ SharedCopy(l, a)' /\ LeftShared(l, a)' /\ WritersWait(l, a)' /\ WriterNow(l, a)'
  BY <1>1, <1>2, <1>3 DEF LineInv, SharedReply, SharedCopy, LeftShared, WritersWait, WriterNow
<1> QED
  BY <1>4, <1>5, <1>6, <1>7, <1>8, <1>9 DEF LineInv
LEMMA EntryFrame ==
  ASSUME NEW a \in Addrs, EntryInv(a),
         SameBox(inbox[Dram], inbox'[Dram], Home, a), SameBox(inbox[Home], inbox'[Home], Dram, a),
         dir'[a] = dir[a], queue'[a] = queue[a], Busy(a)' <=> Busy(a),
         Busy(a) => work'.data = work.data,
         dir[a].state # "UNCACHED" /\ HasEntry(a) => HasEntry(a)',
         Queued(a) /\ a \in replaced => a \in replaced'
  PROVE  EntryInv(a)'
<1>1. /\ Queued(a)' <=> Queued(a)
      /\ Front(a)' = Front(a)
      /\ Reading(a)' <=> Reading(a)
      /\ ReadDone(a)' <=> ReadDone(a)
  BY DEF Queued, Front, Reading, ReadDone, SameBox
<1>2. EntryShape(a)' /\ FrontState(a)' /\ QueueFresh(a)'
  BY <1>1 DEF EntryInv, EntryShape, FrontState, QueueFresh
<1>3. BusyFront(a)' /\ ForwarderKnown(a)'
  BY <1>1 DEF EntryInv, BusyFront, ForwarderKnown
<1>4. DramOnce(a)'
  BY <1>1 DEF EntryInv, DramOnce, SameBox
<1> QED
  BY <1>2, <1>3, <1>4 DEF EntryInv

\* The boxes of every cache but l, of l for every line but a, and of the DRAM
\* controller.
OtherBoxes(l, a) ==
  /\ \A k \in LLCs, b \in Addrs : ~(k = l /\ b = a) =>
       SameBox(inbox[k], inbox'[k], Home, b) /\ SameBox(inbox[Home], inbox'[Home], k, b)
  /\ \A b \in Addrs : /\ SameBox(inbox[Dram], inbox'[Dram], Home, b)
                      /\ SameBox(inbox[Home], inbox'[Home], Dram, b)

\* Nothing changes in a cache but l, and in l but for line a.
OnlyLine(l, a) ==
  /\ \A k \in LLCs : k # l =>
       cstate'[k] = cstate[k] /\ waiters'[k] = waiters[k] /\ net'[k] = net[k]
  /\ \A b \in Addrs : b # a =>
       /\ cstate'[l][b] = cstate[l][b] /\ waiters'[l][b] = waiters[l][b]
       /\ InLoop(l, b)' <=> InLoop(l, b)
       /\ net'[l] = [phase |-> "loop", addr |-> b] <=> net[l] = [phase |-> "loop", addr |-> b]

\* A step of cache l that concerns line a.
LEMMA CacheActs ==
  ASSUME CInv, TInv', NEW l \in LLCs, NEW a \in Addrs, UNCHANGED dirVars,
         OtherBoxes(l, a), HomeBox', LineInv(l, a)',
         OnlyLine(l, a)
  PROVE  CInv'
<1>1. ASSUME NEW b \in Addrs PROVE EntryInv(b)'
  <2>1. EntryInv(b)
    BY DEF CInv
  <2>2. /\ dir'[b] = dir[b] /\ queue'[b] = queue[b]
        /\ Busy(b)' <=> Busy(b)
        /\ work'.data = work.data
        /\ HasEntry(b)' <=> HasEntry(b)
        /\ b \in replaced' <=> b \in replaced
    BY DEF dirVars, Busy, HasEntry
  <2> QED
    BY <2>1, <2>2, EntryFrame DEF OtherBoxes
<1>2. ASSUME NEW k \in LLCs, NEW b \in Addrs, ~(k = l /\ b = a) PROVE LineInv(k, b)'
  <2>1. LineInv(k, b)
    BY DEF CInv
  <2>2. /\ dir'[b] = dir[b] /\ queue'[b] = queue[b]
        /\ Busy(b)' <=> Busy(b)
    BY DEF dirVars, Busy
  <2>3. /\ cstate'[k][b] = cstate[k][b] /\ waiters'[k][b] = waiters[k][b]
        /\ InLoop(k, b)' <=> InLoop(k, b)
        /\ net'[k] = [phase |-> "loop", addr |-> b] <=> net[k] = [phase |-> "loop", addr |-> b]
    BY <1>2 DEF InLoop, OnlyLine
  <2> QED
    BY <1>2, <2>1, <2>2, <2>3, LineFrame DEF OtherBoxes
<1> QED
  BY <1>1, <1>2 DEF CInv

\* What a cache does to the boxes: it takes a message of the directory off its
\* own, sends one to the directory, or both.
LEMMA CacheTakes ==
  ASSUME inbox \in Inboxes, NEW l \in LLCs, inbox[l] # <<>>, Head(inbox[l]).from = Home,
         inbox' = Received(l)
  PROVE  /\ PopBox(inbox[l], inbox'[l], Home, LlcMsg(l).addr, LlcMsg(l).type)
         /\ SameBox(inbox[Home], inbox'[Home], l, LlcMsg(l).addr)
         /\ OtherBoxes(l, LlcMsg(l).addr) /\ inbox'[Home] = inbox[Home]
<1>1. /\ inbox'[l] = Tail(inbox[l])
      /\ \A n \in Nodes : n # l => inbox'[n] = inbox[n]
      /\ l \in Nodes /\ Home \in Nodes /\ Dram \in Nodes /\ l # Home /\ l # Dram
      /\ inbox[l] \in Seq(Message)
  BY NetworkAssumption DEF Inboxes, Nodes, Received
<1>2. inbox'[Home] = inbox[Home] /\ inbox'[Dram] = inbox[Dram]
  BY <1>1
<1>3. PopBox(inbox[l], inbox'[l], Home, LlcMsg(l).addr, LlcMsg(l).type)
  BY <1>1, TailBox DEF LlcMsg
<1>4. ASSUME NEW k \in LLCs, NEW b \in Addrs, ~(k = l /\ b = LlcMsg(l).addr)
      PROVE  SameBox(inbox[k], inbox'[k], Home, b)
  <2>1. CASE k = l
    BY <1>1, <1>4, <2>1, TailBox DEF LlcMsg
  <2>2. CASE k # l
    BY <1>1, <2>2, SameBoxRefl DEF Nodes
  <2> QED
    BY <2>1, <2>2
<1> QED
  BY <1>2, <1>3, <1>4, SameBoxRefl DEF OtherBoxes

LEMMA CacheSends ==
  ASSUME inbox \in Inboxes, NEW l \in LLCs, NEW a \in Addrs, NEW m \in Message,
         m.from = l, m.addr = a, m.type \in HomeTypes, HomeBox, inbox' = Send(inbox, Home, m)
  PROVE  /\ PushBox(inbox[Home], inbox'[Home], l, a, m.type)
         /\ SameBox(inbox[l], inbox'[l], Home, a)
         /\ OtherBoxes(l, a) /\ HomeBox'
<1>1. /\ inbox'[Home] = Append(inbox[Home], m)
      /\ \A n \in Nodes : n # Home => inbox'[n] = inbox[n]
      /\ l \in Nodes /\ Home \in Nodes /\ Dram \in Nodes /\ Dram # Home
      /\ inbox[Home] \in Seq(Message)
      /\ \A k \in LLCs : k # Home /\ k # Dram /\ k \in Nodes
  BY NetworkAssumption DEF Inboxes, Nodes, Send
<1>2. PushBox(inbox[Home], inbox'[Home], l, a, m.type)
  BY <1>1, AppendBox
<1>3. ASSUME NEW k \in LLCs \union {Dram}, NEW b \in Addrs, ~(k = l /\ b = a)
      PROVE  SameBox(inbox[Home], inbox'[Home], k, b)
  BY <1>1, <1>3, AppendBox
<1>4. ASSUME NEW k \in LLCs \union {Dram}, NEW b \in Addrs
      PROVE  SameBox(inbox[k], inbox'[k], Home, b)
  BY <1>1, SameBoxRefl
<1>5. HomeBox'
  BY <1>1 DEF HomeBox
<1> QED
  BY <1>1, <1>2, <1>3, <1>4, <1>5 DEF OtherBoxes

LEMMA CacheAnswers ==
  ASSUME inbox \in Inboxes, NEW l \in LLCs, inbox[l] # <<>>, Head(inbox[l]).from = Home,
         NEW m \in Message, m.from = l, m.addr = LlcMsg(l).addr, m.addr \in Addrs,
         m.type \in HomeTypes, HomeBox,
         inbox' = Send(Received(l), Home, m)
  PROVE  /\ PopBox(inbox[l], inbox'[l], Home, LlcMsg(l).addr, LlcMsg(l).type)
         /\ PushBox(inbox[Home], inbox'[Home], l, LlcMsg(l).addr, m.type)
         /\ OtherBoxes(l, LlcMsg(l).addr) /\ HomeBox'
<1>1. /\ inbox'[l] = Tail(inbox[l]) /\ inbox'[Home] = Append(inbox[Home], m)
      /\ \A n \in Nodes : n # l /\ n # Home => inbox'[n] = inbox[n]
      /\ l \in Nodes /\ Home \in Nodes /\ Dram \in Nodes /\ l # Home /\ l # Dram /\ Home # Dram
      /\ inbox[l] \in Seq(Message) /\ inbox[Home] \in Seq(Message)
      /\ \A k \in LLCs : k # Home /\ k # Dram /\ k \in Nodes
  BY NetworkAssumption DEF Inboxes, Nodes, Received, Send
<1>2. PopBox(inbox[l], inbox'[l], Home, LlcMsg(l).addr, LlcMsg(l).type)
  BY <1>1, TailBox DEF LlcMsg
<1>3. PushBox(inbox[Home], inbox'[Home], l, LlcMsg(l).addr, m.type)
  BY <1>1, AppendBox
<1>4. ASSUME NEW k \in LLCs, NEW b \in Addrs, ~(k = l /\ b = LlcMsg(l).addr)
      PROVE  SameBox(inbox[k], inbox'[k], Home, b)
  <2>1. CASE k = l
    BY <1>1, <1>4, <2>1, TailBox DEF LlcMsg
  <2>2. CASE k # l
    BY <1>1, <2>2, SameBoxRefl
  <2> QED
    BY <2>1, <2>2
<1>5. ASSUME NEW k \in LLCs \union {Dram}, NEW b \in Addrs, ~(k = l /\ b = LlcMsg(l).addr)
      PROVE  SameBox(inbox[Home], inbox'[Home], k, b)
  BY <1>1, <1>5, AppendBox
<1>6. \A b \in Addrs : SameBox(inbox[Dram], inbox'[Dram], Home, b)
  BY <1>1, SameBoxRefl
<1>7. HomeBox'
  BY <1>1 DEF HomeBox
<1> QED
  BY <1>1, <1>2, <1>3, <1>4, <1>5, <1>6, <1>7 DEF OtherBoxes
-----------------------------------------------------------------------------
(* The steps of a cache.                                                   *)

\* Sets of types, and the order of two messages.
LEMMA HasMono ==
  ASSUME NEW s, NEW f, NEW a
  PROVE  /\ \A T, U : T \subseteq U /\ Has(s, T, f, a) => Has(s, U, f, a)
         /\ \A T, U : Prec(s, T, U, f, a) => Has(s, T, f, a) /\ Has(s, U, f, a)
         /\ \A T, U, V, W : T \subseteq V /\ U \subseteq W /\ Prec(s, T, U, f, a) => Prec(s, V, W, f, a)
         /\ \A T, U, V : Prec3(s, T, U, V, f, a) =>
              Prec(s, T, U, f, a) /\ Prec(s, U, V, f, a) /\ Prec(s, T, V, f, a)
<1>1. \A T, U : T \subseteq U /\ Has(s, T, f, a) => Has(s, U, f, a)
  BY DEF Has, Is
<1>2. \A T, U : Prec(s, T, U, f, a) => Has(s, T, f, a) /\ Has(s, U, f, a)
  BY DEF Has, Prec
<1>3. \A T, U, V, W : T \subseteq V /\ U \subseteq W /\ Prec(s, T, U, f, a) => Prec(s, V, W, f, a)
  BY DEF Prec, Is
<1>4. ASSUME NEW T, NEW U, NEW V, Prec3(s, T, U, V, f, a)
      PROVE  Prec(s, T, U, f, a) /\ Prec(s, U, V, f, a) /\ Prec(s, T, V, f, a)
  <2>1. PICK i \in 1 .. Len(s), j \in 1 .. Len(s), k \in 1 .. Len(s) :
          i < j /\ j < k /\ Is(s[i], T, f, a) /\ Is(s[j], U, f, a) /\ Is(s[k], V, f, a)
    BY <1>4 DEF Prec3
  <2>2. i < k
    BY <2>1
  <2> QED
    BY <2>1, <2>2 DEF Prec
<1> QED
  BY <1>1, <1>2, <1>3, <1>4

LEMMA HasSplit ==
  ASSUME NEW s, NEW f, NEW a
  PROVE  /\ Has(s, Grants, f, a) <=> Has(s, {"EX_REP"}, f, a) \/ Has(s, {"SH_REP"}, f, a)
         /\ Has(s, RepTypes, f, a) <=> Has(s, Grants, f, a) \/ Has(s, {"UPGRADE_REP"}, f, a)
         /\ Has(s, Leaves, f, a) <=> Has(s, {"INV_REP"}, f, a) \/ Has(s, {"FLUSH_REP"}, f, a)
         /\ Has(s, Asks, f, a) <=> Has(s, {"EX_REQ"}, f, a) \/ Has(s, {"SH_REQ"}, f, a)
         /\ Has(s, ReqTypes, f, a) <=> Has(s, Asks, f, a) \/ Has(s, {"UPGRADE_REQ"}, f, a)
         /\ Has(s, {"EX_REQ", "UPGRADE_REQ"}, f, a) <=>
              Has(s, {"EX_REQ"}, f, a) \/ Has(s, {"UPGRADE_REQ"}, f, a)
  BY DEF Has, Is, Grants, RepTypes, Leaves, Asks, ReqTypes

LEMMA QueueSplit ==
  ASSUME NEW l, NEW a
  PROVE  /\ InQueue(l, a, ReqTypes) <=> InQueue(l, a, Asks) \/ InQueue(l, a, {"UPGRADE_REQ"})
         /\ InQueue(l, a, {"EX_REQ", "UPGRADE_REQ"}) => InQueue(l, a, ReqTypes)
  BY DEF InQueue, Asks, ReqTypes

\* The directory's part of the view.
LEMMA DirectorySame ==
  ASSUME NEW a, dir'[a] = dir[a], queue'[a] = queue[a], Busy(a)' <=> Busy(a)
  PROVE  /\ Queued(a)' <=> Queued(a)
         /\ Front(a)' = Front(a)
         /\ Waits(a)' <=> Waits(a)
         /\ \A l : Fetching(l, a)' <=> Fetching(l, a)
         /\ \A l : Recalled(l, a)' <=> Recalled(l, a)
         /\ \A l, T : InQueue(l, a, T)' <=> InQueue(l, a, T)
  BY DEF Queued, Front, Waits, Fetching, Recalled, InQueue

\* HandleDataRep: the line arrives.
LEMMA DataRepLine ==
  ASSUME NEW l \in LLCs, NEW a \in Addrs, LineInv(l, a), NEW t \in Grants,
         PopBox(inbox[l], inbox'[l], Home, a, t), SameBox(inbox[Home], inbox'[Home], l, a),
         dir'[a] = dir[a], queue'[a] = queue[a], Busy(a)' <=> Busy(a),
         cstate'[l][a] = InsertedAs(t), waiters'[l][a] = waiters[l][a],
         net'[l] = [phase |-> "loop", addr |-> a]
  PROVE  LineInv(l, a)'
<1>1. /\ \A T : ToHome(l, a, T)' <=> ToHome(l, a, T)
      /\ \A T : Asking(l, a, T)' <=> Asking(l, a, T)
      /\ Leaving(l, a)' <=> Leaving(l, a)
  BY DirectorySame DEF SameBox, ToHome, Asking, Leaving
<1>2. /\ ToCache(l, a, {t}) /\ Granted(l, a) /\ ToCache(l, a, RepTypes)
      /\ ~ToCache(l, a, RepTypes)' /\ ~Granted(l, a)' /\ ~ToCache(l, a, {"UPGRADE_REP"})'
      /\ ~ToCache(l, a, {"EX_REP"})' /\ ~ToCache(l, a, {"SH_REP"})'
  BY HasSplit DEF PopBox, ToCache, Granted, Grants, RepTypes, LineInv, AskOnce
<1>3. /\ ~Held(l, a) /\ ~Leaving(l, a) /\ ~Fetching(l, a) /\ ~Asking(l, a, ReqTypes)
      /\ Held(l, a)' /\ InLoop(l, a)' /\ waiters[l][a] # <<>>
      /\ cstate'[l][a] = IF t = "EX_REP" THEN "E" ELSE "S"
  BY <1>2 DEF LineInv, OneToken, AskOnce, AskWaits, Held, InLoop, InsertedAs, Grants
<1>4. /\ \A T, U : ~(Prec(inbox'[l], Grants, T, Home, a)) /\ ~Prec3(inbox'[l], Grants, T, U, Home, a)
      /\ \A T : Live(l, a, T)' => Live(l, a, T)
  BY <1>2, HasMono DEF PopBox, Live, ToCache, Granted
<1>5. ~Asking(l, a, Asks) /\ ~Asking(l, a, {"UPGRADE_REQ"}) /\ ~Asking(l, a, {"EX_REQ", "UPGRADE_REQ"})
  BY <1>3, HasSplit, QueueSplit DEF Asking, ToHome
<1>6. OneToken(l, a)' /\ Tokens(l, a)' /\ OwnerOnly(l, a)'
  BY <1>1, <1>2, <1>3, DirectorySame DEF LineInv, OneToken, Tokens, OwnerOnly, SameBox, Grants
<1>7. RecallInv(l, a)' /\ RecallFlush(l, a)' /\ Copying(l, a)'
  BY <1>1, <1>4, DirectorySame DEF LineInv, RecallInv, RecallFlush, Copying
<1>8. CopyOnce(l, a)' /\ Upgraded(l, a)'
  <2>1. ~ToHome(l, a, {"WB_REP"})
    BY <1>3 DEF LineInv, CopyOnce, Held
  <2>2. ~Prec(inbox'[l], {"WB_REQ"}, {"WB_REQ"}, Home, a)
    BY DEF PopBox, LineInv, CopyOnce
  <2> QED
    BY <1>1, <1>2, <1>4, <2>1, <2>2 DEF LineInv, CopyOnce, Upgraded, SameBox
<1>9. AskOnce(l, a)' /\ AskMiss(l, a)' /\ AskUpgrade(l, a)' /\ AskWaits(l, a)'
  <2>1. ~Prec(inbox'[l], RepTypes, RepTypes, Home, a)
    BY <1>2, HasMono DEF ToCache
  <2> QED
    BY <1>1, <1>2, <1>3, <1>5, <2>1, DirectorySame
       DEF LineInv, AskOnce, AskMiss, AskUpgrade, AskWaits, SameBox
<1>10. UpgradeAsked(l, a)' /\ LoopLine(l, a)' /\ SharedReply(l, a)' /\ SharedCopy(l, a)' /\ LeftShared(l, a)'
  BY <1>1, <1>2, <1>3 DEF LineInv, UpgradeAsked, LoopLine, SharedReply, SharedCopy, LeftShared, Owned, Grants
<1>11. WritersWait(l, a)' /\ WriterNow(l, a)'
  BY <1>1, <1>2, <1>3, <1>5 DEF LineInv, WritersWait, WriterNow
<1> QED
  BY <1>6, <1>7, <1>8, <1>9, <1>10, <1>11 DEF LineInv
\* HandleUpgradeRep: the upgrade is there.
LEMMA UpgradeRepLine ==
  ASSUME NEW l \in LLCs, NEW a \in Addrs, LineInv(l, a),
         PopBox(inbox[l], inbox'[l], Home, a, "UPGRADE_REP"), SameBox(inbox[Home], inbox'[Home], l, a),
         dir'[a] = dir[a], queue'[a] = queue[a], Busy(a)' <=> Busy(a),
         cstate'[l][a] = "M", waiters'[l][a] = waiters[l][a],
         net'[l] = [phase |-> "loop", addr |-> a]
  PROVE  LineInv(l, a)'
<1>1. /\ \A T : ToHome(l, a, T)' <=> ToHome(l, a, T)
      /\ \A T : Asking(l, a, T)' <=> Asking(l, a, T)
      /\ Leaving(l, a)' <=> Leaving(l, a)
  BY DirectorySame DEF SameBox, ToHome, Asking, Leaving
<1>2. /\ ToCache(l, a, {"UPGRADE_REP"}) /\ ToCache(l, a, RepTypes)
      /\ ~ToCache(l, a, RepTypes)' /\ ~Granted(l, a)' /\ ~ToCache(l, a, {"UPGRADE_REP"})'
      /\ ~ToCache(l, a, {"EX_REP"})' /\ ~ToCache(l, a, {"SH_REP"})'
  BY HasSplit DEF PopBox, ToCache, Granted, RepTypes, LineInv, AskOnce
<1>3. /\ cstate[l][a] = "SU" /\ dir[a].state \in Owned /\ ~ToHome(l, a, {"WB_REP"})
      /\ Held(l, a) /\ Held(l, a)' /\ ~Granted(l, a) /\ ~Asking(l, a, ReqTypes)
      /\ InLoop(l, a)' /\ waiters[l][a] # <<>>
  BY <1>2 DEF LineInv, OneToken, Upgraded, AskOnce, AskWaits, Held, InLoop
<1>4. /\ \A T, U : ~(Prec(inbox'[l], Grants, T, Home, a)) /\ ~Prec3(inbox'[l], Grants, T, U, Home, a)
      /\ \A T : Live(l, a, T)' => Live(l, a, T)
  BY <1>2, <1>3, HasMono DEF PopBox, Live, ToCache, Granted
<1>5. ~Asking(l, a, Asks) /\ ~Asking(l, a, {"UPGRADE_REQ"}) /\ ~Asking(l, a, {"EX_REQ", "UPGRADE_REQ"})
  BY <1>3, HasSplit, QueueSplit DEF Asking, ToHome
<1>6. OneToken(l, a)' /\ Tokens(l, a)' /\ OwnerOnly(l, a)'
  BY <1>1, <1>2, <1>3, DirectorySame DEF LineInv, OneToken, Tokens, OwnerOnly, SameBox
<1>7. RecallInv(l, a)' /\ RecallFlush(l, a)' /\ Copying(l, a)'
  BY <1>1, <1>4, DirectorySame DEF LineInv, RecallInv, RecallFlush, Copying
<1>8. CopyOnce(l, a)' /\ Upgraded(l, a)'
  <2>1. ~Prec(inbox'[l], {"WB_REQ"}, {"WB_REQ"}, Home, a)
    BY <1>3 DEF PopBox, LineInv, CopyOnce
  <2> QED
    BY <1>1, <1>2, <1>3, <1>4, <2>1 DEF LineInv, CopyOnce, Upgraded, SameBox
<1>9. AskOnce(l, a)' /\ AskMiss(l, a)' /\ AskUpgrade(l, a)' /\ AskWaits(l, a)'
  <2>1. ~Prec(inbox'[l], RepTypes, RepTypes, Home, a)
    BY <1>2, HasMono DEF ToCache
  <2> QED
    BY <1>1, <1>2, <1>3, <1>5, <2>1, DirectorySame
       DEF LineInv, AskOnce, AskMiss, AskUpgrade, AskWaits, SameBox
<1>10. UpgradeAsked(l, a)' /\ LoopLine(l, a)' /\ SharedReply(l, a)' /\ SharedCopy(l, a)' /\ LeftShared(l, a)'
  BY <1>1, <1>2, <1>3 DEF LineInv, UpgradeAsked, LoopLine, SharedReply, SharedCopy, LeftShared, Owned
<1>11. WritersWait(l, a)' /\ WriterNow(l, a)'
  BY <1>1, <1>2, <1>3, <1>5 DEF WritersWait, WriterNow
<1> QED
  BY <1>6, <1>7, <1>8, <1>9, <1>10, <1>11 DEF LineInv

\* A copy is given up, on request or by an eviction: z is the message that says so.
GivesUp(l, a, z) ==
  /\ z = "FLUSH_REP" /\ dir[a].state = "SHARED" =>
       Waits(a) /\ Front(a).type = "UPGRADE_REQ" /\ Front(a).from \notin dir[a].sharers
  /\ z = "FLUSH_REP" => ~ToHome(l, a, {"WB_REP"})
  /\ z = "INV_REP" /\ dir[a].state = "MODIFIED" => ToHome(l, a, {"WB_REP"})
  /\ Asking(l, a, {"UPGRADE_REQ"}) => Recalled(l, a)
LEMMA GiveUpLine ==
  ASSUME NEW l \in LLCs, NEW a \in Addrs, LineInv(l, a), NEW z \in Leaves,
         Held(l, a), GivesUp(l, a, z),
         \A T : ToCache(l, a, T)' => ToCache(l, a, T),
         ~ToCache(l, a, {"UPGRADE_REP"})',
         PushBox(inbox[Home], inbox'[Home], l, a, z),
         dir'[a] = dir[a], queue'[a] = queue[a], Busy(a)' <=> Busy(a),
         cstate'[l][a] = "I", waiters'[l][a] = waiters[l][a], net[l] = NetIdle, net'[l] = NetIdle
  PROVE  LineInv(l, a)'
<1>1. /\ \A T : ToHome(l, a, T)' <=> ToHome(l, a, T) \/ z \in T
      /\ \A T : z \notin T => (Asking(l, a, T)' <=> Asking(l, a, T))
      /\ Leaving(l, a)'
  BY DirectorySame DEF PushBox, ToHome, Asking, Leaving
<1>2. /\ ~Held(l, a)' /\ ~Granted(l, a) /\ ~Leaving(l, a) /\ ~Fetching(l, a) /\ ~InLoop(l, a)'
      /\ ~ToCache(l, a, Grants) /\ ~ToCache(l, a, Grants)' /\ ~Granted(l, a)' /\ ~InLoop(l, a)
      /\ ~ToCache(l, a, RepTypes)' /\ ~ToCache(l, a, {"EX_REP"})' /\ ~ToCache(l, a, {"SH_REP"})'
  BY HasSplit DEF LineInv, OneToken, Held, Granted, InLoop, NetIdle, ToCache
<1>3. /\ \A T, U : ~(Prec(inbox'[l], Grants, T, Home, a)) /\ ~Prec3(inbox'[l], Grants, T, U, Home, a)
      /\ \A T : ~Live(l, a, T)'
  BY <1>2, HasMono DEF Live, ToCache
<1>4. /\ z \notin Asks /\ z \notin ReqTypes /\ z \notin {"UPGRADE_REQ"} /\ z \notin {"WB_REP"}
      /\ z \notin {"EX_REQ", "UPGRADE_REQ"}
  BY DEF Leaves, Asks, ReqTypes
<1>5. ~Asking(l, a, Asks)
  BY DEF LineInv, AskMiss
<1>6. OneToken(l, a)' /\ Tokens(l, a)' /\ OwnerOnly(l, a)'
  BY <1>1, <1>2, DirectorySame DEF LineInv, OneToken, Tokens, OwnerOnly, PushBox, Leaving, ToHome, Held
<1>7. RecallInv(l, a)' /\ RecallFlush(l, a)' /\ Copying(l, a)'
  BY <1>1, <1>3, <1>4, DirectorySame DEF LineInv, RecallInv, RecallFlush, Copying, GivesUp
<1>8. CopyOnce(l, a)' /\ Upgraded(l, a)'
  <2>1. /\ ~Prec(inbox'[Home], {"WB_REP"}, {"WB_REP"}, l, a)
        /\ ~Prec(inbox'[Home], Leaves, {"WB_REP"}, l, a)
    BY <1>4 DEF LineInv, CopyOnce, PushBox
  <2>2. ~(ToHome(l, a, {"WB_REP"})' /\ ToHome(l, a, {"FLUSH_REP"})')
    BY <1>1 DEF LineInv, CopyOnce, GivesUp, Leaves
  <2> QED
    BY <1>1, <1>2, <1>3, <2>1, <2>2 DEF CopyOnce, Upgraded
<1>9. AskOnce(l, a)'
  <2>1. ~Prec(inbox'[l], RepTypes, RepTypes, Home, a)
    BY <1>2, HasMono DEF ToCache
  <2> QED
    BY <1>1, <1>2, <1>4, <2>1, DirectorySame DEF LineInv, AskOnce, PushBox
<1>10. AskMiss(l, a)' /\ AskUpgrade(l, a)' /\ AskWaits(l, a)'
  BY <1>1, <1>2, <1>4, <1>5, DirectorySame
     DEF LineInv, AskMiss, AskUpgrade, AskWaits, PushBox, Asking, ToHome, GivesUp
<1>11. UpgradeAsked(l, a)' /\ LoopLine(l, a)' /\ SharedReply(l, a)' /\ SharedCopy(l, a)' /\ LeftShared(l, a)'
  BY <1>1, <1>2, DirectorySame
     DEF LineInv, UpgradeAsked, LoopLine, SharedReply, SharedCopy, LeftShared, GivesUp, Leaves
<1>12. WritersWait(l, a)' /\ WriterNow(l, a)'
  BY <1>1, <1>2, <1>4 DEF LineInv, WritersWait, WriterNow
<1> QED
  BY <1>6, <1>7, <1>8, <1>9, <1>10, <1>11, <1>12 DEF LineInv

\* HandleWbReq: a copy stays, not to be written any more.
LEMMA WriteBackLine ==
  ASSUME NEW l \in LLCs, NEW a \in Addrs, LineInv(l, a), Held(l, a),
         PopBox(inbox[l], inbox'[l], Home, a, "WB_REQ"), PushBox(inbox[Home], inbox'[Home], l, a, "WB_REP"),
         dir'[a] = dir[a], queue'[a] = queue[a], Busy(a)' <=> Busy(a),
         cstate'[l][a] = IF cstate[l][a] = "SU" THEN "SU" ELSE "S",
         waiters'[l][a] = waiters[l][a], net[l] = NetIdle, net'[l] = NetIdle
  PROVE  LineInv(l, a)'
<1>1. /\ \A T : ToHome(l, a, T)' <=> ToHome(l, a, T) \/ "WB_REP" \in T
      /\ \A T : ToHome(l, a, T) => ToHome(l, a, T)'
      /\ \A T : "WB_REP" \notin T => (Asking(l, a, T)' <=> Asking(l, a, T))
      /\ \A T : ToCache(l, a, T)' => ToCache(l, a, T)
  BY DirectorySame DEF PushBox, PopBox, ToHome, ToCache, Asking
<1>2. /\ Held(l, a)' /\ ~Granted(l, a) /\ ~Granted(l, a)' /\ ~Leaving(l, a) /\ ~Fetching(l, a)
      /\ ~InLoop(l, a)' /\ ~InLoop(l, a) /\ ~ToCache(l, a, Grants)
      /\ ~ToCache(l, a, {"EX_REP"})' /\ ~ToCache(l, a, {"SH_REP"})'
  BY <1>1, HasSplit DEF LineInv, OneToken, Held, Granted, InLoop, NetIdle, ToCache
<1>3. /\ \A T, U : ~(Prec(inbox'[l], Grants, T, Home, a)) /\ ~Prec3(inbox'[l], Grants, T, U, Home, a)
      /\ \A T : Live(l, a, T)' => Live(l, a, T)
      /\ Live(l, a, {"WB_REQ"})
  BY <1>1, <1>2, HasMono DEF PopBox, Live, ToCache, Granted
<1>4. /\ ~ToHome(l, a, {"WB_REP"})
      /\ Waits(a) /\ Front(a).type = "SH_REQ"
      /\ dir[a].state \in Owned \/ (dir[a].state = "SHARED" /\ Front(a).forwardingFrom = l)
      /\ ~ToCache(l, a, {"WB_REQ"})' /\ ~Prec(inbox'[l], {"WB_REQ"}, {"WB_REQ"}, Home, a)
      /\ ~Live(l, a, {"WB_REQ"})'
  BY <1>2, <1>3 DEF LineInv, Copying, CopyOnce, PopBox, ToCache, Live
<1>5. ~ToCache(l, a, {"UPGRADE_REP"})' /\ (ToCache(l, a, {"UPGRADE_REP"}) => FALSE)
  BY <1>1 DEF LineInv, Upgraded, PopBox, ToCache, Recalls
<1>6. Leaving(l, a)' <=> Leaving(l, a)
  BY <1>1 DEF Leaving, Leaves
<1>7. OneToken(l, a)' /\ Tokens(l, a)' /\ OwnerOnly(l, a)'
  BY <1>1, <1>2, <1>6, DirectorySame DEF LineInv, OneToken, Tokens, OwnerOnly, PushBox, Leaves, Held
<1>8. RecallInv(l, a)' /\ RecallFlush(l, a)' /\ Copying(l, a)'
  BY <1>1, <1>3, <1>4, DirectorySame DEF LineInv, RecallInv, RecallFlush, Copying
<1>9. CopyOnce(l, a)' /\ Upgraded(l, a)'
  <2>1. /\ ~Prec(inbox'[Home], {"WB_REP"}, {"WB_REP"}, l, a)
        /\ ~Prec(inbox'[Home], Leaves, {"WB_REP"}, l, a)
    BY <1>2, <1>4 DEF LineInv, CopyOnce, PushBox, ToHome, Leaving
  <2>2. ~ToHome(l, a, {"FLUSH_REP"})'
    BY <1>1, <1>2, HasSplit DEF Leaving, ToHome
  <2> QED
    BY <1>3, <1>4, <1>5, <2>1, <2>2 DEF CopyOnce, Upgraded
<1>10. AskOnce(l, a)'
  BY <1>1, DirectorySame DEF LineInv, AskOnce, PushBox, PopBox, ReqTypes
<1>11. AskMiss(l, a)' /\ AskUpgrade(l, a)' /\ AskWaits(l, a)'
  BY <1>1, <1>2, <1>6, DirectorySame
     DEF LineInv, AskMiss, AskUpgrade, AskWaits, PushBox, Asks, Leaves, ReqTypes, Held
<1>12. UpgradeAsked(l, a)' /\ LoopLine(l, a)' /\ SharedReply(l, a)' /\ SharedCopy(l, a)' /\ LeftShared(l, a)'
  BY <1>1, <1>2, <1>5 DEF LineInv, UpgradeAsked, LoopLine, SharedReply, SharedCopy, LeftShared
<1>13. WritersWait(l, a)' /\ WriterNow(l, a)'
  BY <1>1, <1>2 DEF LineInv, WritersWait, WriterNow
<1> QED
  BY <1>7, <1>8, <1>9, <1>10, <1>11, <1>12, <1>13 DEF LineInv

\* A request of the directory that comes too late.
LEMMA StaleLine ==
  ASSUME NEW l \in LLCs, NEW a \in Addrs, LineInv(l, a), ~Held(l, a), NEW y,
         PopBox(inbox[l], inbox'[l], Home, a, y), SameBox(inbox[Home], inbox'[Home], l, a),
         y \notin RepTypes,
         dir'[a] = dir[a], queue'[a] = queue[a], Busy(a)' <=> Busy(a),
         cstate'[l][a] = cstate[l][a], waiters'[l][a] = waiters[l][a], net'[l] = net[l]
  PROVE  LineInv(l, a)'
<1>1. /\ \A T : ToHome(l, a, T)' <=> ToHome(l, a, T)
      /\ \A T : Asking(l, a, T)' <=> Asking(l, a, T)
      /\ Leaving(l, a)' <=> Leaving(l, a)
      /\ \A T : ToCache(l, a, T)' => ToCache(l, a, T)
      /\ ~Held(l, a)'
      /\ InLoop(l, a)' <=> InLoop(l, a)
  BY DirectorySame DEF SameBox, PopBox, ToHome, ToCache, Asking, Leaving, Held, InLoop
<1>2. /\ Granted(l, a)' <=> Granted(l, a)
      /\ ToCache(l, a, {"EX_REP"})' <=> ToCache(l, a, {"EX_REP"})
      /\ ToCache(l, a, {"SH_REP"})' <=> ToCache(l, a, {"SH_REP"})
      /\ ToCache(l, a, RepTypes)' <=> ToCache(l, a, RepTypes)
      /\ ~ToCache(l, a, {"UPGRADE_REP"})'
  BY DEF PopBox, ToCache, Granted, Grants, RepTypes, LineInv, Upgraded, Held
<1>3. \A T : Live(l, a, T)' => Live(l, a, T)
  BY <1>1 DEF PopBox, Live
<1>4. OneToken(l, a)' /\ Tokens(l, a)' /\ OwnerOnly(l, a)'
  BY <1>1, <1>2, DirectorySame DEF LineInv, OneToken, Tokens, OwnerOnly, SameBox, Held
<1>5. RecallInv(l, a)' /\ RecallFlush(l, a)' /\ Copying(l, a)'
  BY <1>1, <1>3, DirectorySame DEF LineInv, RecallInv, RecallFlush, Copying
<1>6. CopyOnce(l, a)' /\ Upgraded(l, a)'
  BY <1>1, <1>2, <1>3 DEF LineInv, CopyOnce, Upgraded, SameBox, PopBox
<1>7. AskOnce(l, a)' /\ AskMiss(l, a)' /\ AskUpgrade(l, a)' /\ AskWaits(l, a)'
  BY <1>1, <1>2, DirectorySame
     DEF LineInv, AskOnce, AskMiss, AskUpgrade, AskWaits, SameBox, PopBox
<1>8. UpgradeAsked(l, a)' /\ LoopLine(l, a)' /\ SharedReply(l, a)' /\ SharedCopy(l, a)' /\ LeftShared(l, a)'
  BY <1>1, <1>2 DEF LineInv, UpgradeAsked, LoopLine, SharedReply, SharedCopy, LeftShared, Held
<1>9. WritersWait(l, a)' /\ WriterNow(l, a)'
  BY <1>1, <1>2 DEF LineInv, WritersWait, WriterNow
<1> QED
  BY <1>4, <1>5, <1>6, <1>7, <1>8, <1>9 DEF LineInv
\* A request for the line is sent.
LEMMA AskLine ==
  ASSUME NEW l \in LLCs, NEW a \in Addrs, LineInv(l, a), NEW y \in ReqTypes,
         PushBox(inbox[Home], inbox'[Home], l, a, y), SameBox(inbox[l], inbox'[l], Home, a),
         ~Asking(l, a, ReqTypes), ~ToCache(l, a, RepTypes),
         dir'[a] = dir[a], queue'[a] = queue[a], Busy(a)' <=> Busy(a),
         cstate[l][a] = IF y = "UPGRADE_REQ" THEN "S" ELSE "I",
         cstate'[l][a] = IF y = "UPGRADE_REQ" THEN "SU" ELSE "I",
         waiters'[l][a] # <<>>, y # "SH_REQ" => waiters'[l][a][1].exclusive, ~InLoop(l, a)'
  PROVE  LineInv(l, a)'
<1>1. /\ \A T : ToHome(l, a, T)' <=> ToHome(l, a, T) \/ y \in T
      /\ \A T : ToCache(l, a, T)' <=> ToCache(l, a, T)
      /\ \A T : Asking(l, a, T)' <=> Asking(l, a, T) \/ y \in T
      /\ \A T : ToHome(l, a, T) => ToHome(l, a, T)'
  BY DirectorySame DEF PushBox, SameBox, ToHome, ToCache, Asking
<1>2. y \notin Leaves /\ y \notin {"WB_REP"} /\ y \notin {"FLUSH_REP"} /\ y \notin {"INV_REP"}
  BY DEF ReqTypes, Leaves
<1>3. /\ Leaving(l, a)' <=> Leaving(l, a)
      /\ Held(l, a)' <=> Held(l, a)
      /\ Granted(l, a)' <=> Granted(l, a)
      /\ \A T : Live(l, a, T)' <=> Live(l, a, T)
  BY <1>1, <1>2 DEF Leaving, Held, Granted, Live, SameBox
<1>4. ~Asking(l, a, Asks) /\ ~Asking(l, a, {"UPGRADE_REQ"}) /\ ~Asking(l, a, {"EX_REQ", "UPGRADE_REQ"})
  BY HasSplit, QueueSplit DEF Asking, ToHome
<1>5. ~ToCache(l, a, Grants) /\ ~ToCache(l, a, {"UPGRADE_REP"}) /\ ~ToCache(l, a, {"EX_REP"})
  BY HasSplit DEF ToCache
<1>6. OneToken(l, a)' /\ Tokens(l, a)' /\ OwnerOnly(l, a)'
  BY <1>1, <1>2, <1>3, DirectorySame DEF LineInv, OneToken, Tokens, OwnerOnly, PushBox
<1>7. RecallInv(l, a)' /\ RecallFlush(l, a)' /\ Copying(l, a)'
  BY <1>1, <1>2, <1>3, DirectorySame DEF LineInv, RecallInv, RecallFlush, Copying
<1>8. CopyOnce(l, a)' /\ Upgraded(l, a)'
  <2>1. /\ ~Prec(inbox'[Home], {"WB_REP"}, {"WB_REP"}, l, a)
        /\ ~Prec(inbox'[Home], Leaves, {"WB_REP"}, l, a)
    BY <1>2 DEF LineInv, CopyOnce, PushBox
  <2>2. ToHome(l, a, {"WB_REP"})' => cstate'[l][a] \in {"S", "SU"} \/ Leaving(l, a)'
    BY <1>1, <1>2, <1>3 DEF LineInv, CopyOnce
  <2>3. /\ Held(l, a)' => ~Prec(inbox'[l], {"WB_REQ"}, {"WB_REQ"}, Home, a)
        /\ ~Prec3(inbox'[l], Grants, {"WB_REQ"}, {"WB_REQ"}, Home, a)
        /\ ~(Live(l, a, {"WB_REQ"})' /\ ToHome(l, a, {"WB_REP"})')
    BY <1>1, <1>2, <1>3 DEF LineInv, CopyOnce, SameBox
  <2>4. ~(ToHome(l, a, {"WB_REP"})' /\ ToHome(l, a, {"FLUSH_REP"})')
    BY <1>1, <1>2 DEF LineInv, CopyOnce
  <2> QED
    BY <1>1, <1>5, <2>1, <2>2, <2>3, <2>4 DEF CopyOnce, Upgraded
<1>9. AskOnce(l, a)'
  BY <1>1, DirectorySame DEF LineInv, AskOnce, PushBox, SameBox, Asking, ToHome
<1>10. AskMiss(l, a)' /\ AskUpgrade(l, a)' /\ AskWaits(l, a)'
  BY <1>1, <1>2, <1>3, <1>4, DirectorySame
     DEF LineInv, OneToken, AskMiss, AskUpgrade, AskWaits, PushBox, Asks, Held
<1>11. UpgradeAsked(l, a)' /\ LoopLine(l, a)'
  BY <1>1 DEF LineInv, UpgradeAsked, LoopLine
<1>12. SharedReply(l, a)' /\ SharedCopy(l, a)' /\ LeftShared(l, a)'
  BY <1>1, <1>2 DEF LineInv, SharedReply, SharedCopy, LeftShared
<1>13. WritersWait(l, a)' /\ WriterNow(l, a)'
  BY <1>1, <1>4, <1>5 DEF WritersWait, WriterNow, ReqTypes
<1> QED
  BY <1>6, <1>7, <1>8, <1>9, <1>10, <1>11, <1>12, <1>13 DEF LineInv

\* A line is written by the cache that owns it, or only the waiters and the
\* thread that wakes them move.
LEMMA LoopFrame ==
  ASSUME NEW l \in LLCs, NEW a \in Addrs, LineInv(l, a), inbox' = inbox,
         dir'[a] = dir[a], queue'[a] = queue[a], Busy(a)' <=> Busy(a),
         \/ cstate'[l][a] = cstate[l][a]
         \/ cstate[l][a] \in {"E", "M"} /\ cstate'[l][a] = "M",
         AskWaits(l, a)', LoopLine(l, a)', WritersWait(l, a)', WriterNow(l, a)'
  PROVE  LineInv(l, a)'
<1>1. /\ \A T : ToHome(l, a, T)' <=> ToHome(l, a, T)
      /\ \A T : ToCache(l, a, T)' <=> ToCache(l, a, T)
      /\ \A T : Asking(l, a, T)' <=> Asking(l, a, T)
  BY DirectorySame DEF ToHome, ToCache, Asking
<1>2. /\ Leaving(l, a)' <=> Leaving(l, a)
      /\ Held(l, a)' <=> Held(l, a)
      /\ Granted(l, a)' <=> Granted(l, a)
      /\ \A T : Live(l, a, T)' <=> Live(l, a, T)
  BY <1>1 DEF Leaving, Held, Granted, Live
<1>3. OneToken(l, a)' /\ Tokens(l, a)' /\ OwnerOnly(l, a)'
  BY <1>1, <1>2, DirectorySame DEF LineInv, OneToken, Tokens, OwnerOnly
<1>4. RecallInv(l, a)' /\ RecallFlush(l, a)' /\ Copying(l, a)'
  BY <1>1, <1>2, DirectorySame DEF LineInv, RecallInv, RecallFlush, Copying
<1>5. CopyOnce(l, a)' /\ Upgraded(l, a)'
  BY <1>1, <1>2 DEF LineInv, CopyOnce, Upgraded
<1>6. AskOnce(l, a)' /\ AskMiss(l, a)' /\ AskUpgrade(l, a)' /\ UpgradeAsked(l, a)'
  BY <1>1, <1>2, DirectorySame DEF LineInv, AskOnce, AskMiss, AskUpgrade, UpgradeAsked
<1>7. SharedReply(l, a)' /\ SharedCopy(l, a)' /\ LeftShared(l, a)'
  BY <1>1, <1>2 DEF LineInv, SharedReply, SharedCopy, LeftShared
<1> QED
  BY <1>3, <1>4, <1>5, <1>6, <1>7 DEF LineInv

\* The line as its cache sees it in a state of the invariant.
LEMMA LineFacts ==
  ASSUME CInv, NEW l \in LLCs, NEW a \in Addrs
  PROVE  /\ LineInv(l, a) /\ inbox \in Inboxes /\ HomeBox
         /\ cstate \in [LLCs -> [Addrs -> CStates]] /\ cdata \in [LLCs -> [Addrs -> Data]]
         /\ waiters \in [LLCs -> [Addrs -> Seq(Waiter)]] /\ net \in [LLCs -> Net]
         /\ (net[l].phase = "served" => waiters[l][net[l].addr] # <<>>)
  BY DEF CInv, TInv, TypeOK, NetworkTypeOK, CacheTypeOK, HandlersHaveWork, Inboxes

\* A message at the head of a cache's box comes from the directory.
LEMMA CacheMessage ==
  ASSUME CInv, NEW l \in LLCs, NEW T \in SUBSET (RepTypes \union Recalls), Gets(l, T)
  PROVE  /\ LlcMsg(l).addr \in Addrs /\ Head(inbox[l]).from = Home
         /\ inbox[l] # <<>> /\ net[l] = NetIdle /\ LlcMsg(l).type \in T
<1>1. LlcMsg(l) \in Message
  BY LineFacts, ReceivedType, NetworkAssumption DEF Gets, LlcMsg, CInv, TInv, TypeOK, NetworkTypeOK,
     Inboxes, Nodes, Pending
<1> QED
  BY <1>1, MessageFields DEF Gets, Pending, Message, LlcMsg, RepTypes, Recalls,
     CacheToHome, CacheToHomeData, HomeToAny, HomeToAnyData, ReqTypes
LEMMA DirectoryIdle ==
  ASSUME UNCHANGED dirVars, NEW a
  PROVE  dir'[a] = dir[a] /\ queue'[a] = queue[a] /\ (Busy(a)' <=> Busy(a))
  BY DEF dirVars, Busy

\* A step of cache l touches line a alone.
LEMMA OneLine ==
  ASSUME CInv, NEW l \in LLCs, NEW a \in Addrs,
         cstate' = cstate \/ \E s : cstate' = [cstate EXCEPT ![l][a] = s],
         waiters' = waiters \/ \E s : waiters' = [waiters EXCEPT ![l][a] = s],
         \/ net' = net
         \/ /\ net[l] = NetIdle \/ (net[l].phase \in {"loop", "served"} /\ net[l].addr = a)
            /\ \E x \in {NetIdle, [phase |-> "loop", addr |-> a], [phase |-> "served", addr |-> a]} :
                 net' = [net EXCEPT ![l] = x]
  PROVE  OnlyLine(l, a)
<1>1. /\ cstate \in [LLCs -> [Addrs -> CStates]]
      /\ waiters \in [LLCs -> [Addrs -> Seq(Waiter)]] /\ net \in [LLCs -> Net]
  BY LineFacts
<1>2. /\ \A k \in LLCs : k # l => cstate'[k] = cstate[k]
      /\ \A b \in Addrs : b # a => cstate'[l][b] = cstate[l][b]
  BY <1>1
<1>3. /\ \A k \in LLCs : k # l => waiters'[k] = waiters[k]
      /\ \A b \in Addrs : b # a => waiters'[l][b] = waiters[l][b]
  BY <1>1
<1>4. CASE net' = net
  BY <1>2, <1>3, <1>4 DEF InLoop, OnlyLine
<1>5. ASSUME NEW x \in {NetIdle, [phase |-> "loop", addr |-> a], [phase |-> "served", addr |-> a]},
             net[l] = NetIdle \/ (net[l].phase \in {"loop", "served"} /\ net[l].addr = a),
             net' = [net EXCEPT ![l] = x]
      PROVE  OnlyLine(l, a)
  <2>1. net'[l] = x /\ \A k \in LLCs : k # l => net'[k] = net[k]
    BY <1>1, <1>5
  <2>2. ASSUME NEW b \in Addrs, b # a
        PROVE  ~InLoop(l, b) /\ net[l] # [phase |-> "loop", addr |-> b]
    BY <1>5, <2>2 DEF InLoop, NetIdle
  <2>3. ASSUME NEW b \in Addrs, b # a
        PROVE  ~InLoop(l, b)' /\ net'[l] # [phase |-> "loop", addr |-> b]
    BY <1>5, <2>1, <2>3 DEF InLoop, NetIdle
  <2> QED
    BY <1>2, <1>3, <2>1, <2>2, <2>3 DEF OnlyLine
<1> QED
  BY <1>4, <1>5

\* The replies of the directory.
LEMMA ReplyCInv ==
  ASSUME CInv, TInv', NEW l \in LLCs, UNCHANGED dirVars, HandleDataRep(l) \/ HandleUpgradeRep(l)
  PROVE  CInv'
<1> PICK a, t : a = LlcMsg(l).addr /\ t = LlcMsg(l).type
  OBVIOUS
<1> DEFINE s == IF t = "UPGRADE_REP" THEN "M" ELSE InsertedAs(t)
<1>1. /\ a \in Addrs /\ Head(inbox[l]).from = Home /\ inbox[l] # <<>> /\ net[l] = NetIdle
      /\ (HandleDataRep(l) /\ t \in Grants) \/ (HandleUpgradeRep(l) /\ t = "UPGRADE_REP")
  BY CacheMessage DEF HandleDataRep, HandleUpgradeRep, RepTypes, Grants
<1>2. /\ inbox' = Received(l) /\ waiters' = waiters
      /\ cstate' = [cstate EXCEPT ![l][a] = s]
      /\ net' = [net EXCEPT ![l] = [phase |-> "loop", addr |-> a]]
  <2>1. CASE HandleDataRep(l) /\ t \in Grants
    BY <2>1 DEF HandleDataRep, SetLine, Grants
  <2>2. CASE HandleUpgradeRep(l) /\ t = "UPGRADE_REP"
    BY <2>2 DEF HandleUpgradeRep, SetLine
  <2> QED
    BY <1>1, <2>1, <2>2
<1>3. LineInv(l, a) /\ inbox \in Inboxes /\ HomeBox
  BY <1>1, LineFacts
<1>4. /\ PopBox(inbox[l], inbox'[l], Home, a, t) /\ SameBox(inbox[Home], inbox'[Home], l, a)
      /\ OtherBoxes(l, a) /\ HomeBox'
  BY <1>1, <1>2, <1>3, CacheTakes DEF HomeBox
<1>5. cstate'[l][a] = s /\ waiters'[l][a] = waiters[l][a] /\ net'[l] = [phase |-> "loop", addr |-> a]
  BY <1>1, <1>2, LineFacts
<1>6. t \in Grants \/ t = "UPGRADE_REP"
  BY <1>1
<1> HIDE DEF s
<1>7. LineInv(l, a)'
  <2>1. dir'[a] = dir[a] /\ queue'[a] = queue[a] /\ (Busy(a)' <=> Busy(a))
    BY DirectoryIdle
  <2>2. CASE t \in Grants
    <3>1. s = InsertedAs(t)
      BY <2>2 DEF Grants, s
    <3> QED
      BY <1>1, <1>3, <1>4, <1>5, <2>1, <2>2, <3>1, DataRepLine
  <2>3. CASE t = "UPGRADE_REP"
    BY <1>1, <1>3, <1>4, <1>5, <2>1, <2>3, UpgradeRepLine DEF s
  <2> QED
    BY <1>6, <2>2, <2>3
<1>8. OnlyLine(l, a)
  BY <1>1, <1>2, OneLine
<1> QED
  BY <1>1, <1>4, <1>7, <1>8, CacheActs

\* The invariant after a step of cache l about line a.
LEMMA CacheStep ==
  ASSUME CInv, TInv', NEW l \in LLCs, NEW a \in Addrs, UNCHANGED dirVars,
         OtherBoxes(l, a), HomeBox', OnlyLine(l, a),
         dir'[a] = dir[a] /\ queue'[a] = queue[a] /\ (Busy(a)' <=> Busy(a)) => LineInv(l, a)'
  PROVE  CInv'
<1>1. dir'[a] = dir[a] /\ queue'[a] = queue[a] /\ (Busy(a)' <=> Busy(a))
  BY DirectoryIdle
<1> QED
  BY <1>1, CacheActs

\* What an invalidation or a flush finds at a copy.
LEMMA RecallFinds ==
  ASSUME NEW l \in LLCs, NEW a \in Addrs, LineInv(l, a), Held(l, a), NEW y,
         PopBox(inbox[l], inbox'[l], Home, a, y),
         y = "FLUSH_REQ" \/ (y = "INV_REQ" /\ cstate[l][a] # "M")
  PROVE  /\ GivesUp(l, a, IF y = "FLUSH_REQ" THEN "FLUSH_REP" ELSE "INV_REP")
         /\ \A T : ToCache(l, a, T)' => ToCache(l, a, T)
         /\ ~ToCache(l, a, {"UPGRADE_REP"})'
<1>1. ToCache(l, a, {y}) /\ \A T : ToCache(l, a, T)' => ToCache(l, a, T)
  BY DEF PopBox, ToCache
<1>2. Live(l, a, {y})
  BY <1>1 DEF Live
<1>3. ~ToCache(l, a, {"UPGRADE_REP"})'
  BY <1>1 DEF PopBox, ToCache, LineInv, Upgraded, Recalls
<1>4. CASE y = "FLUSH_REQ"
  BY <1>1, <1>2, <1>3, <1>4 DEF LineInv, RecallFlush, Recalled, Copying, GivesUp
<1>5. CASE y = "INV_REQ"
  BY <1>1, <1>2, <1>3, <1>5 DEF LineInv, RecallInv, GivesUp
<1> QED
  BY <1>4, <1>5

\* The invalidations and the flushes.
LEMMA RecallCInv ==
  ASSUME CInv, TInv', NEW l \in LLCs, UNCHANGED dirVars, HandleInvReq(l) \/ HandleFlushReq(l)
  PROVE  CInv'
<1> PICK a, y : a = LlcMsg(l).addr /\ y = LlcMsg(l).type
  OBVIOUS
<1>1. /\ a \in Addrs /\ Head(inbox[l]).from = Home /\ inbox[l] # <<>> /\ net[l] = NetIdle
      /\ (HandleInvReq(l) /\ y = "INV_REQ") \/ (HandleFlushReq(l) /\ y = "FLUSH_REQ")
  BY CacheMessage DEF HandleInvReq, HandleFlushReq, Recalls
<1>2. /\ LineInv(l, a) /\ inbox \in Inboxes /\ HomeBox
      /\ cdata[l][a] \in Data /\ cstate \in [LLCs -> [Addrs -> CStates]]
  BY <1>1, LineFacts
<1>3. waiters' = waiters /\ net' = net
  BY <1>1 DEF HandleInvReq, HandleFlushReq
<1> DEFINE z == IF y = "FLUSH_REQ" THEN "FLUSH_REP" ELSE "INV_REP"
           d == IF y = "FLUSH_REQ" THEN cdata[l][a] ELSE NoData
<1>4. CASE Held(l, a)
  <2>1. /\ cstate' = [cstate EXCEPT ![l][a] = "I"]
        /\ inbox' = Send(Received(l), Home, Msg(z, l, a, d))
        /\ y = "INV_REQ" => cstate[l][a] # "M"
    <3>1. CASE HandleInvReq(l) /\ y = "INV_REQ"
      BY <1>4, <3>1 DEF HandleInvReq, Answer, SetLine, InvAssertion, Held
    <3>2. CASE HandleFlushReq(l) /\ y = "FLUSH_REQ"
      BY <1>4, <3>2 DEF HandleFlushReq, Answer, SetLine, Held
    <3> QED
      BY <1>1, <3>1, <3>2
  <2>2. PICK m : m = Msg(z, l, a, d)
    OBVIOUS
  <2>3. m \in Message /\ m.from = l /\ m.addr = a /\ m.type = z /\ z \in HomeTypes /\ z \in Leaves
    <3>1. (z = "INV_REP" /\ d = NoData) \/ (z = "FLUSH_REP" /\ d \in Data)
      <4>1. CASE y = "FLUSH_REQ"
        BY <1>2, <4>1
      <4>2. CASE y # "FLUSH_REQ"
        BY <4>2
      <4> QED
        BY <4>1, <4>2
    <3>2. m \in Message
      BY <1>1, <2>2, <3>1, MsgType DEF CacheToHome, CacheToHomeData
    <3> QED
      BY <2>2, <3>1, <3>2 DEF Msg, HomeTypes, CacheToHome, CacheToHomeData, Leaves
  <2>4. PICK zz : zz = z
    OBVIOUS
  <2>5. /\ PopBox(inbox[l], inbox'[l], Home, a, y) /\ PushBox(inbox[Home], inbox'[Home], l, a, zz)
        /\ OtherBoxes(l, a) /\ HomeBox'
    BY <1>1, <1>2, <2>1, <2>2, <2>3, <2>4, CacheAnswers
  <2>6. /\ GivesUp(l, a, zz)
        /\ \A T : ToCache(l, a, T)' => ToCache(l, a, T)
        /\ ~ToCache(l, a, {"UPGRADE_REP"})'
    BY <1>1, <1>2, <1>4, <2>1, <2>4, <2>5, RecallFinds
  <2>7. cstate'[l][a] = "I" /\ waiters'[l][a] = waiters[l][a] /\ net'[l] = NetIdle
    BY <1>1, <1>2, <1>3, <2>1
  <2>8. OnlyLine(l, a)
    BY <1>1, <1>3, <2>1, OneLine
  <2>9. zz \in Leaves
    BY <2>3, <2>4
  <2>10. dir'[a] = dir[a] /\ queue'[a] = queue[a] /\ (Busy(a)' <=> Busy(a)) => LineInv(l, a)'
    BY <1>1, <1>2, <1>4, <2>5, <2>6, <2>7, <2>9, GiveUpLine
  <2> QED
    BY <1>1, <2>5, <2>8, <2>10, CacheStep
<1>5. CASE ~Held(l, a)
  <2>1. inbox' = Received(l) /\ cstate' = cstate
    BY <1>1, <1>5 DEF HandleInvReq, HandleFlushReq, Held
  <2>2. /\ PopBox(inbox[l], inbox'[l], Home, a, y) /\ SameBox(inbox[Home], inbox'[Home], l, a)
        /\ OtherBoxes(l, a) /\ HomeBox'
    BY <1>1, <1>2, <2>1, CacheTakes DEF HomeBox
  <2>3. OnlyLine(l, a)
    BY <1>1, <1>3, <2>1, OneLine
  <2>4. y \notin RepTypes
    BY <1>1 DEF RepTypes
  <2>5. dir'[a] = dir[a] /\ queue'[a] = queue[a] /\ (Busy(a)' <=> Busy(a)) => LineInv(l, a)'
    BY <1>1, <1>2, <1>3, <1>5, <2>1, <2>2, <2>4, StaleLine
  <2> QED
    BY <1>1, <2>2, <2>3, <2>5, CacheStep
<1> QED
  BY <1>4, <1>5

\* The write-backs.
LEMMA WriteBackCInv ==
  ASSUME CInv, TInv', NEW l \in LLCs, UNCHANGED dirVars, HandleWbReq(l)
  PROVE  CInv'
<1> PICK a, y : a = LlcMsg(l).addr /\ y = LlcMsg(l).type
  OBVIOUS
<1>1. /\ a \in Addrs /\ Head(inbox[l]).from = Home /\ inbox[l] # <<>> /\ net[l] = NetIdle
      /\ y = "WB_REQ"
  BY CacheMessage DEF HandleWbReq, Recalls
<1>2. /\ LineInv(l, a) /\ inbox \in Inboxes /\ HomeBox
      /\ cdata[l][a] \in Data /\ cstate \in [LLCs -> [Addrs -> CStates]]
  BY <1>1, LineFacts
<1>3. waiters' = waiters /\ net' = net
  BY DEF HandleWbReq
<1>4. CASE Held(l, a)
  <2>1. PICK d \in Data : inbox' = Send(Received(l), Home, Msg("WB_REP", l, a, d))
    <3>1. Garbage \in Data
      BY NetworkAssumption DEF Data, Garbage
    <3> QED
      BY <1>2, <1>4, <3>1 DEF HandleWbReq, Answer, Held
  <2>2. \/ cstate' = [cstate EXCEPT ![l][a] = "S"] /\ cstate[l][a] # "SU"
        \/ cstate' = cstate /\ cstate[l][a] = "SU"
    BY <1>4 DEF HandleWbReq, Held
  <2>3. PICK m : m = Msg("WB_REP", l, a, d)
    OBVIOUS
  <2>4. m \in Message /\ m.from = l /\ m.addr = a /\ m.type = "WB_REP" /\ m.type \in HomeTypes
    <3>1. m \in Message
      BY <1>1, <2>1, <2>3, MsgType DEF CacheToHomeData
    <3> QED
      BY <2>3, <3>1 DEF Msg, HomeTypes, CacheToHomeData
  <2>5. /\ PopBox(inbox[l], inbox'[l], Home, a, "WB_REQ") /\ PushBox(inbox[Home], inbox'[Home], l, a, "WB_REP")
        /\ OtherBoxes(l, a) /\ HomeBox'
    BY <1>1, <1>2, <2>1, <2>3, <2>4, CacheAnswers
  <2>6. /\ cstate'[l][a] = IF cstate[l][a] = "SU" THEN "SU" ELSE "S"
        /\ waiters'[l][a] = waiters[l][a] /\ net'[l] = NetIdle
    BY <1>1, <1>2, <1>3, <2>2
  <2>7. OnlyLine(l, a)
    BY <1>1, <1>3, <2>2, OneLine
  <2>8. dir'[a] = dir[a] /\ queue'[a] = queue[a] /\ (Busy(a)' <=> Busy(a)) => LineInv(l, a)'
    BY <1>1, <1>2, <1>4, <2>5, <2>6, WriteBackLine
  <2> QED
    BY <1>1, <2>5, <2>7, <2>8, CacheStep
<1>5. CASE ~Held(l, a)
  <2>1. inbox' = Received(l) /\ cstate' = cstate
    BY <1>1, <1>5 DEF HandleWbReq, Held
  <2>2. /\ PopBox(inbox[l], inbox'[l], Home, a, y) /\ SameBox(inbox[Home], inbox'[Home], l, a)
        /\ OtherBoxes(l, a) /\ HomeBox'
    BY <1>1, <1>2, <2>1, CacheTakes DEF HomeBox
  <2>3. OnlyLine(l, a)
    BY <1>1, <1>3, <2>1, OneLine
  <2>4. y \notin RepTypes
    BY <1>1 DEF RepTypes
  <2>5. dir'[a] = dir[a] /\ queue'[a] = queue[a] /\ (Busy(a)' <=> Busy(a)) => LineInv(l, a)'
    BY <1>1, <1>2, <1>3, <1>5, <2>1, <2>2, <2>4, StaleLine
  <2> QED
    BY <1>1, <2>2, <2>3, <2>5, CacheStep
<1> QED
  BY <1>4, <1>5

\* An eviction.
LEMMA EvictCInv ==
  ASSUME CInv, TInv', NEW l \in LLCs, NEW a \in Addrs, EvictStep(l, a)
  PROVE  CInv'
<1>1. /\ LineInv(l, a) /\ inbox \in Inboxes /\ HomeBox
      /\ cdata[l][a] \in Data /\ cstate \in [LLCs -> [Addrs -> CStates]]
  BY LineFacts
<1>2. /\ net[l] = NetIdle /\ cstate[l][a] \in {"S", "E", "M"}
      /\ cstate' = [cstate EXCEPT ![l][a] = "I"] /\ waiters' = waiters /\ net' = net
      /\ UNCHANGED dirVars
  BY DEF EvictStep, Evict, Replaceable, SetLine
<1> PICK z, d : /\ (z = "FLUSH_REP" /\ d = cdata[l][a] /\ cstate[l][a] = "M")
                   \/ (z = "INV_REP" /\ d = NoData /\ cstate[l][a] # "M")
                /\ inbox' = Send(inbox, Home, Msg(z, l, a, d))
  BY DEF EvictStep, Evict
<1> PICK m : m = Msg(z, l, a, d)
  OBVIOUS
<1>3. m \in Message /\ m.from = l /\ m.addr = a /\ m.type = z /\ z \in HomeTypes /\ z \in Leaves
  <2>1. m \in Message
    BY <1>1, MsgType DEF CacheToHome, CacheToHomeData
  <2> QED
    BY <2>1 DEF Msg, HomeTypes, CacheToHome, CacheToHomeData, Leaves
<1>4. /\ PushBox(inbox[Home], inbox'[Home], l, a, z) /\ SameBox(inbox[l], inbox'[l], Home, a)
      /\ OtherBoxes(l, a) /\ HomeBox'
  BY <1>1, <1>3, CacheSends
<1>5. /\ cstate'[l][a] = "I" /\ waiters'[l][a] = waiters[l][a] /\ net'[l] = NetIdle
      /\ \A T : ToCache(l, a, T)' => ToCache(l, a, T)
      /\ ~ToCache(l, a, {"UPGRADE_REP"})' /\ Held(l, a)
  BY <1>1, <1>2, <1>4 DEF SameBox, ToCache, LineInv, Upgraded, Held
<1>6. GivesUp(l, a, z)
  <2>1. z = "FLUSH_REP" => dir[a].state # "SHARED"
    BY <1>1 DEF LineInv, OwnerOnly, Owned
  <2>2. z = "INV_REP" /\ dir[a].state = "MODIFIED" => ToHome(l, a, {"WB_REP"})
    BY <1>1, <1>2 DEF LineInv, SharedCopy, WriterNow, Owned, NetIdle
  <2>3. ~Asking(l, a, {"UPGRADE_REQ"})
    BY <1>1, <1>2 DEF LineInv, AskUpgrade
  <2>4. z = "FLUSH_REP" => ~ToHome(l, a, {"WB_REP"})
    BY <1>1, <1>5 DEF LineInv, CopyOnce, OneToken
  <2> QED
    BY <2>1, <2>2, <2>3, <2>4 DEF GivesUp
<1>7. OnlyLine(l, a)
  BY <1>2, OneLine
<1>8. dir'[a] = dir[a] /\ queue'[a] = queue[a] /\ (Busy(a)' <=> Busy(a)) => LineInv(l, a)'
  BY <1>1, <1>2, <1>3, <1>4, <1>5, <1>6, GiveUpLine
<1> QED
  BY <1>2, <1>4, <1>7, <1>8, CacheStep

\* A request is sent to the directory.
LEMMA AskCInv ==
  ASSUME CInv, TInv', NEW l \in LLCs, NEW a \in Addrs, UNCHANGED dirVars, NEW y \in ReqTypes,
         ~Asking(l, a, ReqTypes), ~ToCache(l, a, RepTypes),
         cstate[l][a] = IF y = "UPGRADE_REQ" THEN "S" ELSE "I",
         cstate' = IF y = "UPGRADE_REQ" THEN [cstate EXCEPT ![l][a] = "SU"] ELSE cstate,
         inbox' = Send(inbox, Home, Msg(y, l, a, NoData)),
         waiters'[l][a] # <<>>, y # "SH_REQ" => waiters'[l][a][1].exclusive,
         ~InLoop(l, a)', OnlyLine(l, a)
  PROVE  CInv'
<1>1. LineInv(l, a) /\ inbox \in Inboxes /\ HomeBox /\ cstate \in [LLCs -> [Addrs -> CStates]]
  BY LineFacts
<1> PICK m : m = Msg(y, l, a, NoData)
  OBVIOUS
<1>2. m \in Message /\ m.from = l /\ m.addr = a /\ m.type = y /\ y \in HomeTypes
  <2>1. m \in Message
    BY MsgType DEF CacheToHome
  <2> QED
    BY <2>1 DEF Msg, HomeTypes, CacheToHome
<1>3. /\ PushBox(inbox[Home], inbox'[Home], l, a, y) /\ SameBox(inbox[l], inbox'[l], Home, a)
      /\ OtherBoxes(l, a) /\ HomeBox'
  BY <1>1, <1>2, CacheSends
<1>4. cstate'[l][a] = IF y = "UPGRADE_REQ" THEN "SU" ELSE "I"
  BY <1>1
<1>5. dir'[a] = dir[a] /\ queue'[a] = queue[a] /\ (Busy(a)' <=> Busy(a)) => LineInv(l, a)'
  BY <1>1, <1>3, <1>4, AskLine
<1> QED
  BY <1>3, <1>5, CacheStep

\* A step that sends and receives nothing.
LEMMA LocalCInv ==
  ASSUME CInv, TInv', NEW l \in LLCs, NEW a \in Addrs, UNCHANGED dirVars, inbox' = inbox,
         \/ cstate' = cstate
         \/ cstate[l][a] \in {"E", "M"} /\ cstate' = [cstate EXCEPT ![l][a] = "M"],
         OnlyLine(l, a),
         AskWaits(l, a)', LoopLine(l, a)', WritersWait(l, a)', WriterNow(l, a)'
  PROVE  CInv'
<1>1. LineInv(l, a) /\ HomeBox /\ cstate \in [LLCs -> [Addrs -> CStates]]
  BY LineFacts
<1>2. OtherBoxes(l, a) /\ HomeBox'
  BY <1>1, SameBoxRefl DEF OtherBoxes, HomeBox
<1>3. \/ cstate'[l][a] = cstate[l][a]
      \/ cstate[l][a] \in {"E", "M"} /\ cstate'[l][a] = "M"
  BY <1>1
<1>4. dir'[a] = dir[a] /\ queue'[a] = queue[a] /\ (Busy(a)' <=> Busy(a)) => LineInv(l, a)'
  BY <1>1, <1>3, LoopFrame
<1> QED
  BY <1>2, <1>4, CacheStep

\* The network thread that wakes the waiters of line a is at no other line.
LEMMA LoopCInv ==
  ASSUME CInv, TInv', NEW l \in LLCs, UNCHANGED dirVars,
         LoopEnds(l) \/ LoopUpgrades(l) \/ LoopWakes(l) \/ LoopDequeues(l)
  PROVE  CInv'
<1> PICK a : a = net[l].addr
  OBVIOUS
<1>1. a \in Addrs /\ net[l].phase \in {"loop", "served"} /\ net[l] \in Net /\ InLoop(l, a)
  <2>1. net[l] \in Net /\ net[l].phase \in {"loop", "served"}
    BY DEF LoopEnds, LoopUpgrades, LoopWakes, LoopDequeues, CInv, TInv, TypeOK, CacheTypeOK
  <2> QED
    BY <2>1, NetFields DEF InLoop
<1>2. /\ LineInv(l, a)
      /\ cstate \in [LLCs -> [Addrs -> CStates]]
      /\ waiters \in [LLCs -> [Addrs -> Seq(Waiter)]] /\ net \in [LLCs -> Net]
  BY <1>1, LineFacts
<1>3. /\ ~Asking(l, a, ReqTypes) /\ ~ToCache(l, a, RepTypes) /\ ~ToCache(l, a, {"EX_REP"})
      /\ ~Asking(l, a, {"EX_REQ", "UPGRADE_REQ"})
      /\ cstate[l][a] \in {"S", "E", "M"}
  <2>1. ~Asking(l, a, ReqTypes) /\ ~ToCache(l, a, RepTypes) /\ cstate[l][a] \in {"S", "E", "M"}
    BY <1>1, <1>2 DEF LineInv, AskWaits, LoopLine
  <2> QED
    BY <2>1, HasSplit, QueueSplit DEF ToCache, Asking, ToHome
\* Nothing is sent: only the copy, the waiters and the thread move.
<1>4. ASSUME inbox' = inbox
      PROVE  /\ ~Asking(l, a, ReqTypes)' /\ ~ToCache(l, a, RepTypes)' /\ ~ToCache(l, a, {"EX_REP"})'
             /\ ~Asking(l, a, {"EX_REQ", "UPGRADE_REQ"})' /\ AskWaits(l, a)'
             /\ dir'[a] = dir[a]
  <2>1. dir'[a] = dir[a] /\ queue'[a] = queue[a] /\ (Busy(a)' <=> Busy(a))
    BY DirectoryIdle
  <2>2. ~Asking(l, a, ReqTypes)' /\ ~ToCache(l, a, RepTypes)'
    BY <1>3, <1>4, <2>1, DirectorySame DEF Asking, ToHome, ToCache
  <2>3. ~Asking(l, a, {"EX_REQ", "UPGRADE_REQ"})' /\ ~ToCache(l, a, {"EX_REP"})'
    BY <1>3, <1>4, <2>1, DirectorySame DEF Asking, ToHome, ToCache
  <2> QED
    BY <2>1, <2>2, <2>3 DEF AskWaits
<1>5. CASE LoopEnds(l)
  <2>1. /\ waiters[l][a] = <<>> /\ cstate' = cstate /\ waiters' = waiters /\ inbox' = inbox
        /\ net' = [net EXCEPT ![l] = NetIdle]
    BY <1>5 DEF LoopEnds
  <2>2. net'[l] = NetIdle
    BY <1>2, <2>1
  <2>3. ~(dir[a].state = "MODIFIED" /\ cstate[l][a] = "E")
    BY <1>2, <2>1 DEF LineInv, WritersWait
  <2>4. LoopLine(l, a)' /\ WritersWait(l, a)' /\ WriterNow(l, a)'
    BY <1>4, <2>1, <2>2, <2>3 DEF LoopLine, WritersWait, WriterNow, InLoop, NetIdle
  <2>5. OnlyLine(l, a)
    BY <1>1, <2>1, OneLine
  <2> QED
    BY <1>1, <1>4, <2>1, <2>4, <2>5, LocalCInv
<1>6. CASE LoopUpgrades(l)
  <2>1. /\ waiters[l][a] # <<>> /\ waiters[l][a][1].exclusive /\ cstate[l][a] = "S"
        /\ cstate' = [cstate EXCEPT ![l][a] = "SU"] /\ waiters' = waiters
        /\ inbox' = Send(inbox, Home, Msg("UPGRADE_REQ", l, a, NoData))
        /\ net' = [net EXCEPT ![l] = NetIdle]
    BY <1>6 DEF LoopUpgrades
  <2>2. ~InLoop(l, a)'
    BY <1>2, <2>1 DEF InLoop, NetIdle
  <2>3. OnlyLine(l, a)
    BY <1>1, <2>1, OneLine
  <2>4. "UPGRADE_REQ" \in ReqTypes
    BY DEF ReqTypes
  <2> QED
    BY <1>1, <1>3, <2>1, <2>2, <2>3, <2>4, AskCInv
<1>7. CASE LoopWakes(l)
  <2>1. /\ net[l].phase = "loop" /\ Permitted(l, a, waiters[l][a][1].exclusive)
        /\ Access(l, a, waiters[l][a][1].exclusive)
        /\ waiters' = waiters /\ inbox' = inbox
        /\ net' = [net EXCEPT ![l] = [phase |-> "served", addr |-> a]]
    BY <1>7 DEF LoopWakes, WakeAssertion
  <2>2. \/ cstate' = cstate /\ ~waiters[l][a][1].exclusive
        \/ cstate[l][a] \in {"E", "M"} /\ cstate' = [cstate EXCEPT ![l][a] = "M"]
    BY <2>1 DEF Access, Permitted, CanWrite, Writable, SetLine
  <2>3. net'[l] = [phase |-> "served", addr |-> a]
    BY <1>2, <2>1
  <2>4. (cstate'[l][a] = cstate[l][a] /\ ~waiters[l][a][1].exclusive) \/ cstate'[l][a] = "M"
    BY <1>1, <1>2, <2>2
  <2>5. ~(dir[a].state = "MODIFIED" /\ cstate'[l][a] = "E")
    BY <1>2, <2>4 DEF LineInv, WritersWait
  <2>6. LoopLine(l, a)' /\ WritersWait(l, a)' /\ WriterNow(l, a)'
    BY <1>3, <1>4, <2>1, <2>3, <2>4, <2>5 DEF LoopLine, WritersWait, WriterNow
  <2>7. OnlyLine(l, a)
    <3>1. cstate' = cstate \/ \E s : cstate' = [cstate EXCEPT ![l][a] = s]
      BY <2>2
    <3> QED
      BY <1>1, <2>1, <3>1, OneLine
  <2> QED
    BY <1>1, <1>4, <2>1, <2>2, <2>6, <2>7, LocalCInv
<1>8. CASE LoopDequeues(l)
  <2>1. /\ net[l].phase = "served" /\ cstate' = cstate /\ inbox' = inbox
        /\ waiters' = [waiters EXCEPT ![l][a] = Tail(@)]
        /\ net' = [net EXCEPT ![l] = [phase |-> "loop", addr |-> a]]
    BY <1>8 DEF LoopDequeues
  <2>2. net'[l] = [phase |-> "loop", addr |-> a]
    BY <1>2, <2>1
  <2>3. ~(dir[a].state = "MODIFIED" /\ cstate[l][a] = "E")
    BY <1>2, <2>1 DEF LineInv, WriterNow
  <2>4. LoopLine(l, a)' /\ WritersWait(l, a)' /\ WriterNow(l, a)'
    BY <1>3, <1>4, <2>1, <2>2, <2>3 DEF LoopLine, WritersWait, WriterNow
  <2>5. OnlyLine(l, a)
    BY <1>1, <2>1, OneLine
  <2> QED
    BY <1>1, <1>4, <2>1, <2>4, <2>5, LocalCInv
<1> QED
  BY <1>5, <1>6, <1>7, <1>8

\* A core's access.
LEMMA CoreCInv ==
  ASSUME CInv, TInv', NEW c \in Cores, NEW a \in Addrs, CoreStep(c, a)
  PROVE  CInv'
<1> PICK l : l = LlcOf[c]
  OBVIOUS
<1>1. /\ l \in LLCs /\ UNCHANGED dirVars /\ net[l].phase # "loop" /\ net' = net
      /\ LineInv(l, a) /\ cstate \in [LLCs -> [Addrs -> CStates]]
      /\ waiters \in [LLCs -> [Addrs -> Seq(Waiter)]] /\ net \in [LLCs -> Net]
      /\ net[l].phase = "served" => waiters[l][net[l].addr] # <<>>
  <2>1. l \in LLCs
    BY CoresAssumption
  <2> QED
    BY <2>1, LineFacts DEF CoreStep, Hit, Miss, StackLockFree
<1>2. dir'[a] = dir[a] /\ queue'[a] = queue[a] /\ (Busy(a)' <=> Busy(a))
  BY <1>1, DirectoryIdle
\* Only the copy or the waiters move.
<1>3. ASSUME inbox' = inbox
      PROVE  /\ \A T : Asking(l, a, T)' <=> Asking(l, a, T)
             /\ \A T : ToCache(l, a, T)' <=> ToCache(l, a, T)
             /\ InLoop(l, a)' <=> InLoop(l, a)
  BY <1>1, <1>2, <1>3, DirectorySame DEF Asking, ToHome, ToCache, InLoop
<1>4. CASE Hit(c, a)
  <2>1. PICK x \in BOOLEAN : Permitted(l, a, x) /\ Access(l, a, x)
    BY <1>4 DEF Hit
  <2>2. \/ cstate' = cstate
        \/ cstate[l][a] \in {"E", "M"} /\ cstate' = [cstate EXCEPT ![l][a] = "M"]
    BY <2>1 DEF Access, Permitted, CanWrite, Writable, SetLine
  <2>3. waiters' = waiters /\ inbox' = inbox
    BY <1>4 DEF Hit
  <2>4. cstate'[l][a] = cstate[l][a] \/ (cstate'[l][a] = "M" /\ cstate[l][a] \in {"E", "M"})
    BY <1>1, <2>2
  <2>5. AskWaits(l, a)' /\ LoopLine(l, a)'
    BY <1>1, <1>3, <2>3, <2>4 DEF LineInv, AskWaits, LoopLine
  <2>6. WritersWait(l, a)' /\ WriterNow(l, a)'
    BY <1>1, <1>2, <1>3, <2>3, <2>4 DEF LineInv, WritersWait, WriterNow
  <2>7. OnlyLine(l, a)
    <3>1. cstate' = cstate \/ \E s : cstate' = [cstate EXCEPT ![l][a] = s]
      BY <2>2
    <3> QED
      BY <1>1, <2>3, <3>1, OneLine
  <2> QED
    BY <1>1, <2>2, <2>3, <2>5, <2>6, <2>7, LocalCInv
<1>5. CASE Miss(c, a)
  <2> DEFINE type(x) == CASE x /\ cstate[l][a] = "S" -> "UPGRADE_REQ"
                          [] x /\ ~(x /\ cstate[l][a] = "S") -> "EX_REQ"
                          [] OTHER -> "SH_REQ"
  <2>1. PICK x \in BOOLEAN :
          /\ ~Permitted(l, a, x)
          /\ waiters' = [waiters EXCEPT ![l][a] = Append(@, [core |-> c, exclusive |-> x])]
          /\ inbox' = IF waiters[l][a] = <<>> THEN Send(inbox, Home, Msg(type(x), l, a, NoData))
                      ELSE inbox
          /\ cstate' = IF waiters[l][a] = <<>> /\ x /\ cstate[l][a] = "S"
                       THEN [cstate EXCEPT ![l][a] = "SU"] ELSE cstate
    BY <1>5 DEF Miss, FirstWaiter
  <2> PICK w, y : w = [core |-> c, exclusive |-> x] /\ y = type(x)
    OBVIOUS
  <2>2. waiters'[l][a] = Append(waiters[l][a], w) /\ waiters[l][a] \in Seq(Waiter) /\ w \in Waiter
    <3>1. w \in Waiter
      BY Zenon DEF Waiter
    <3> QED
      BY <1>1, <2>1, <3>1
  <2>3. /\ waiters'[l][a] # <<>>
        /\ waiters[l][a] # <<>> => waiters'[l][a][1] = waiters[l][a][1]
        /\ waiters[l][a] = <<>> => waiters'[l][a][1] = w
    BY <2>2
  <2>4. OnlyLine(l, a)
    BY <1>1, <2>1, OneLine
  <2>5. CASE waiters[l][a] # <<>>
    <3>1. inbox' = inbox /\ cstate' = cstate
      BY <2>1, <2>5
    <3>2. AskWaits(l, a)' /\ LoopLine(l, a)'
      BY <1>1, <1>3, <2>3, <3>1 DEF LineInv, AskWaits, LoopLine
    <3>3. WritersWait(l, a)' /\ WriterNow(l, a)'
      BY <1>1, <1>2, <1>3, <2>3, <2>5, <3>1 DEF LineInv, WritersWait, WriterNow
    <3> QED
      BY <1>1, <2>4, <3>1, <3>2, <3>3, LocalCInv
  <2>6. CASE waiters[l][a] = <<>>
    <3>1. ~Asking(l, a, ReqTypes) /\ ~ToCache(l, a, RepTypes)
      BY <1>1, <2>6 DEF LineInv, AskWaits
    <3>2. ~InLoop(l, a) /\ ~InLoop(l, a)'
      BY <1>1, <2>6 DEF InLoop
    <3>3. cstate[l][a] # "SU"
      BY <1>1, <3>1, HasSplit, QueueSplit DEF LineInv, UpgradeAsked, Asking, ToHome, ToCache
    <3>4. cstate[l][a] \in CStates
      BY <1>1
    <3>5. /\ y \in ReqTypes /\ cstate[l][a] = IF y = "UPGRADE_REQ" THEN "S" ELSE "I"
          /\ y # "SH_REQ" => x
          /\ y = "UPGRADE_REQ" <=> x /\ cstate[l][a] = "S"
      BY <2>1, <3>3, <3>4
         DEF CStates, ReqTypes, Permitted, CanRead, CanWrite, Readable, Writable
    <3>6. /\ inbox' = Send(inbox, Home, Msg(y, l, a, NoData))
          /\ cstate' = IF y = "UPGRADE_REQ" THEN [cstate EXCEPT ![l][a] = "SU"] ELSE cstate
      BY <2>1, <2>6, <3>5
    <3>7. y # "SH_REQ" => waiters'[l][a][1].exclusive
      BY <2>3, <2>6, <3>5
    <3> QED
      BY <1>1, <2>3, <2>4, <3>1, <3>2, <3>5, <3>6, <3>7, AskCInv
  <2> QED
    BY <2>5, <2>6
<1> QED
  BY <1>4, <1>5 DEF CoreStep

-----------------------------------------------------------------------------
(* The steps of the directory.                                             *)

\* The front request waits for nothing of l.
Settled(l, a) ==
  /\ \A T \in {{"INV_REQ"}, {"FLUSH_REQ"}, {"WB_REQ"}} : ~Live(l, a, T)
  /\ ~ToHome(l, a, {"WB_REP"})
  /\ ToHome(l, a, {"FLUSH_REP"}) => dir[a].state # "SHARED"
  /\ Asking(l, a, {"UPGRADE_REQ"}) => ~Leaving(l, a)
\* What the front request waits for is still to come.
StillWaits(a) ==
  Waits(a) => /\ Waits(a)' /\ Front(a)'.type = Front(a).type /\ Front(a)'.from = Front(a).from
              /\ Front(a)'.forwardingFrom = Front(a).forwardingFrom
              /\ Front(a).from \notin dir[a].sharers => Front(a).from \notin dir'[a].sharers
\* A cache has no two requests in the queue.
Once(l, a) ==
  \A i, j \in 1 .. Len(queue[a]) : queue[a][i].from = l /\ queue[a][j].from = l => i = j

LEMMA WaitsForNothing ==
  ASSUME NEW l \in LLCs, NEW a \in Addrs, LineInv(l, a), ~Waits(a)
  PROVE  Settled(l, a)
  BY DEF LineInv, RecallInv, RecallFlush, Copying, AskUpgrade, Recalled, Settled

\* No token, nothing about the line.
LEMMA NoToken ==
  ASSUME NEW l \in LLCs, NEW a \in Addrs, LineInv(l, a), l \notin dir[a].sharers
  PROVE  /\ ~Held(l, a) /\ cstate[l][a] = "I" /\ ~Granted(l, a) /\ ~Leaving(l, a) /\ ~Fetching(l, a)
         /\ \A T : ~Live(l, a, T)
         /\ ~ToHome(l, a, {"WB_REP"}) /\ ~ToHome(l, a, {"FLUSH_REP"}) /\ ~ToHome(l, a, {"INV_REP"})
         /\ ~ToCache(l, a, {"EX_REP"}) /\ ~ToCache(l, a, {"SH_REP"}) /\ ~ToCache(l, a, {"UPGRADE_REP"})
<1>1. ~Held(l, a) /\ cstate[l][a] = "I" /\ ~Granted(l, a) /\ ~Leaving(l, a) /\ ~Fetching(l, a)
  BY DEF LineInv, Tokens, Held
<1>2. /\ ~ToHome(l, a, {"FLUSH_REP"}) /\ ~ToHome(l, a, {"INV_REP"})
      /\ ~ToCache(l, a, {"EX_REP"}) /\ ~ToCache(l, a, {"SH_REP"})
  BY <1>1, HasSplit DEF Granted, Leaving, ToCache, ToHome
<1>3. \A T : ~Live(l, a, T)
  BY <1>1, HasMono DEF Live, Granted, ToCache
<1>4. ~ToHome(l, a, {"WB_REP"}) /\ ~ToCache(l, a, {"UPGRADE_REP"})
  BY <1>1 DEF LineInv, CopyOnce, Upgraded
<1> QED
  BY <1>1, <1>2, <1>3, <1>4

\* A cache the step of the directory does not concern.
LEMMA BystanderLine ==
  ASSUME NEW l \in LLCs, NEW a \in Addrs, LineInv(l, a), UNCHANGED llcVars,
         Settled(l, a) \/ StillWaits(a),
         SameBox(inbox[l], inbox'[l], Home, a), SameBox(inbox[Home], inbox'[Home], l, a),
         \A T : InQueue(l, a, T)' <=> InQueue(l, a, T), Once(l, a)',
         Fetching(l, a) => Fetching(l, a)',
         Fetching(l, a)' => ~Held(l, a) /\ ~Granted(l, a) /\ ~Leaving(l, a),
         l \in dir'[a].sharers <=> l \in dir[a].sharers \/ Fetching(l, a)',
         dir'[a].state = dir[a].state \/ l \notin dir[a].sharers
  PROVE  LineInv(l, a)'
<1>1. /\ \A T : ToCache(l, a, T)' <=> ToCache(l, a, T)
      /\ \A T : ToHome(l, a, T)' <=> ToHome(l, a, T)
      /\ \A T : Asking(l, a, T)' <=> Asking(l, a, T)
      /\ Held(l, a)' <=> Held(l, a)
      /\ Granted(l, a)' <=> Granted(l, a)
      /\ Leaving(l, a)' <=> Leaving(l, a)
      /\ InLoop(l, a)' <=> InLoop(l, a)
      /\ cstate' = cstate /\ waiters' = waiters /\ net' = net
  BY DEF SameBox, ToCache, ToHome, Asking, Held, Granted, Leaving, InLoop, llcVars
<1>2. \A T : Live(l, a, T)' <=> Live(l, a, T)
  BY <1>1 DEF Live, SameBox
<1>3. OneToken(l, a)' /\ Tokens(l, a)'
  BY <1>1 DEF LineInv, OneToken, Tokens, SameBox
<1>4. CopyOnce(l, a)'
  BY <1>1, <1>2 DEF LineInv, CopyOnce, SameBox
<1>5. AskOnce(l, a)' /\ AskMiss(l, a)' /\ AskWaits(l, a)' /\ UpgradeAsked(l, a)' /\ LoopLine(l, a)'
  <2>1. AskOnce(l, a)'
    BY <1>1 DEF LineInv, AskOnce, Once, SameBox
  <2>2. AskMiss(l, a)'
    BY <1>1 DEF LineInv, AskMiss, SameBox
  <2> QED
    BY <1>1, <2>1, <2>2 DEF LineInv, AskWaits, UpgradeAsked, LoopLine
<1>6. CASE l \notin dir[a].sharers
  <2>1. /\ cstate[l][a] = "I" /\ \A T : ~Live(l, a, T)
        /\ ~ToHome(l, a, {"WB_REP"}) /\ ~ToHome(l, a, {"FLUSH_REP"}) /\ ~ToHome(l, a, {"INV_REP"})
        /\ ~ToCache(l, a, {"EX_REP"}) /\ ~ToCache(l, a, {"SH_REP"}) /\ ~ToCache(l, a, {"UPGRADE_REP"})
        /\ ~Leaving(l, a)
    BY <1>6, NoToken
  <2>2. OwnerOnly(l, a)' /\ RecallInv(l, a)' /\ RecallFlush(l, a)' /\ Copying(l, a)' /\ Upgraded(l, a)'
    BY <1>1, <1>2, <2>1 DEF OwnerOnly, RecallInv, RecallFlush, Copying, Upgraded
  <2>3. AskUpgrade(l, a)' /\ SharedReply(l, a)' /\ SharedCopy(l, a)' /\ LeftShared(l, a)'
    BY <1>1, <1>2, <2>1 DEF AskUpgrade, SharedReply, SharedCopy, LeftShared
  <2>4. WritersWait(l, a)' /\ WriterNow(l, a)'
    BY <1>1, <2>1 DEF LineInv, WritersWait, WriterNow
  <2> QED
    BY <1>3, <1>4, <1>5, <2>2, <2>3, <2>4 DEF LineInv
<1>7. CASE dir'[a].state = dir[a].state
  <2>1. OwnerOnly(l, a)' /\ SharedReply(l, a)' /\ SharedCopy(l, a)' /\ LeftShared(l, a)'
    BY <1>1, <1>7 DEF LineInv, OwnerOnly, SharedReply, SharedCopy, LeftShared
  <2>2. WritersWait(l, a)' /\ WriterNow(l, a)'
    BY <1>1, <1>7 DEF LineInv, WritersWait, WriterNow
  <2>3. Upgraded(l, a)'
    BY <1>1, <1>7 DEF LineInv, Upgraded, SameBox
  <2>4. RecallInv(l, a)' /\ RecallFlush(l, a)' /\ Copying(l, a)' /\ AskUpgrade(l, a)'
    <3>1. CASE Settled(l, a)
      BY <1>1, <1>2, <1>7, <3>1 DEF LineInv, Settled, RecallInv, RecallFlush, Copying, AskUpgrade
    <3>2. CASE StillWaits(a)
      <4>1. Recalled(l, a) => Recalled(l, a)'
        BY <3>2 DEF StillWaits, Recalled
      <4>2. RecallInv(l, a)' /\ AskUpgrade(l, a)'
        BY <1>1, <1>2, <1>7, <4>1 DEF LineInv, RecallInv, AskUpgrade
      <4>3. RecallFlush(l, a)'
        BY <1>1, <1>2, <1>7, <3>2, <4>1 DEF LineInv, RecallFlush, StillWaits
      <4>4. Copying(l, a)'
        BY <1>1, <1>2, <1>7, <3>2 DEF LineInv, Copying, StillWaits
      <4> QED
        BY <4>2, <4>3, <4>4
    <3> QED
      BY <3>1, <3>2
  <2> QED
    BY <1>3, <1>4, <1>5, <2>1, <2>2, <2>3, <2>4 DEF LineInv
<1> QED
  BY <1>6, <1>7

\* A cache that is sent an invalidation, a flush or a write-back request.
LEMMA RecalledLine ==
  ASSUME NEW l \in LLCs, NEW a \in Addrs, LineInv(l, a), UNCHANGED llcVars, Settled(l, a),
         NEW y \in Recalls,
         PushBox(inbox[l], inbox'[l], Home, a, y), SameBox(inbox[Home], inbox'[Home], l, a),
         \A T : InQueue(l, a, T)' <=> InQueue(l, a, T), Once(l, a)',
         Fetching(l, a) => Fetching(l, a)',
         Fetching(l, a)' => ~Held(l, a) /\ ~Granted(l, a) /\ ~Leaving(l, a),
         l \in dir'[a].sharers <=> l \in dir[a].sharers \/ Fetching(l, a)',
         dir'[a].state = dir[a].state,
         y = "INV_REQ" => Recalled(l, a)' /\ dir[a].state = "SHARED",
         y = "FLUSH_REQ" => /\ Recalled(l, a)'
                            /\ dir[a].state = "SHARED" =>
                                 Waits(a)' /\ Front(a)'.type = "UPGRADE_REQ" /\ Front(a)'.from \notin dir'[a].sharers,
         y = "WB_REQ" => /\ Waits(a)' /\ Front(a)'.type = "SH_REQ"
                         /\ dir[a].state \in Owned \/ (dir[a].state = "SHARED" /\ Front(a)'.forwardingFrom = l)
  PROVE  LineInv(l, a)'
<1>1. /\ \A T : ToCache(l, a, T)' <=> ToCache(l, a, T) \/ y \in T
      /\ \A T : ToHome(l, a, T)' <=> ToHome(l, a, T)
      /\ \A T : Asking(l, a, T)' <=> Asking(l, a, T)
      /\ Held(l, a)' <=> Held(l, a)
      /\ Leaving(l, a)' <=> Leaving(l, a)
      /\ InLoop(l, a)' <=> InLoop(l, a)
      /\ cstate' = cstate /\ waiters' = waiters /\ net' = net
  BY DEF PushBox, SameBox, ToCache, ToHome, Asking, Held, Leaving, InLoop, llcVars
<1>2. /\ Granted(l, a)' <=> Granted(l, a)
      /\ ToCache(l, a, {"EX_REP"})' <=> ToCache(l, a, {"EX_REP"})
      /\ ToCache(l, a, {"SH_REP"})' <=> ToCache(l, a, {"SH_REP"})
      /\ ToCache(l, a, {"UPGRADE_REP"})' <=> ToCache(l, a, {"UPGRADE_REP"})
      /\ ToCache(l, a, RepTypes)' <=> ToCache(l, a, RepTypes)
  BY <1>1 DEF Granted, Grants, RepTypes, Recalls
<1>3. \A T : Live(l, a, T)' => Live(l, a, T) \/ (y \in T /\ (Held(l, a) \/ Granted(l, a)))
  BY <1>1 DEF Live, Granted, ToCache, PushBox
<1>4. /\ ~Live(l, a, {"INV_REQ"}) /\ ~Live(l, a, {"FLUSH_REQ"}) /\ ~Live(l, a, {"WB_REQ"})
      /\ ~ToHome(l, a, {"WB_REP"})
  BY DEF Settled
<1>5. OneToken(l, a)' /\ Tokens(l, a)'
  BY <1>1, <1>2 DEF LineInv, OneToken, Tokens, SameBox
<1>6. CopyOnce(l, a)'
  <2>1. /\ Held(l, a)' => ~Prec(inbox'[l], {"WB_REQ"}, {"WB_REQ"}, Home, a)
        /\ ~Prec3(inbox'[l], Grants, {"WB_REQ"}, {"WB_REQ"}, Home, a)
    BY <1>1, <1>4 DEF LineInv, CopyOnce, PushBox, Live, ToCache
  <2> QED
    BY <1>1, <1>4, <2>1 DEF LineInv, CopyOnce, SameBox
<1>7. Upgraded(l, a)'
  BY <1>1, <1>2 DEF LineInv, Upgraded, PushBox, Recalls
<1>8. AskOnce(l, a)' /\ AskMiss(l, a)'
  <2>1. ~Prec(inbox'[l], RepTypes, RepTypes, Home, a)
    BY DEF LineInv, AskOnce, PushBox, Recalls, RepTypes
  <2>2. AskOnce(l, a)'
    BY <1>1, <1>2, <2>1 DEF LineInv, AskOnce, Once, SameBox
  <2>3. AskMiss(l, a)'
    BY <1>1 DEF LineInv, AskMiss, SameBox
  <2> QED
    BY <2>2, <2>3
<1>9. AskWaits(l, a)' /\ UpgradeAsked(l, a)' /\ LoopLine(l, a)' /\ AskUpgrade(l, a)'
  BY <1>1, <1>2 DEF LineInv, AskWaits, UpgradeAsked, LoopLine, AskUpgrade, Settled
<1>10. OwnerOnly(l, a)' /\ SharedReply(l, a)' /\ SharedCopy(l, a)' /\ LeftShared(l, a)'
  BY <1>1, <1>2 DEF LineInv, OwnerOnly, SharedReply, SharedCopy, LeftShared
<1>11. WritersWait(l, a)' /\ WriterNow(l, a)'
  BY <1>1, <1>2 DEF LineInv, WritersWait, WriterNow
<1>12. RecallInv(l, a)' /\ RecallFlush(l, a)' /\ Copying(l, a)'
  <2>1. RecallInv(l, a)'
    BY <1>3, <1>4 DEF RecallInv, Recalls
  <2>2. RecallFlush(l, a)'
    BY <1>1, <1>3, <1>4 DEF RecallFlush, Settled, Recalls
  <2>3. Copying(l, a)'
    BY <1>1, <1>3, <1>4 DEF Copying, Recalls
  <2> QED
    BY <2>1, <2>2, <2>3
<1> QED
  BY <1>5, <1>6, <1>7, <1>8, <1>9, <1>10, <1>11, <1>12 DEF LineInv

\* A cache that is sent the line it has asked for.
LEMMA GrantedLine ==
  ASSUME NEW l \in LLCs, NEW a \in Addrs, LineInv(l, a), UNCHANGED llcVars, Settled(l, a),
         NEW y \in Grants,
         PushBox(inbox[l], inbox'[l], Home, a, y), SameBox(inbox[Home], inbox'[Home], l, a),
         InQueue(l, a, ReqTypes), \A T : ~InQueue(l, a, T)', Once(l, a)', ~Fetching(l, a)',
         l \in dir'[a].sharers,
         dir'[a].state = dir[a].state \/ l \notin dir[a].sharers,
         ~Held(l, a), ~Granted(l, a), ~Leaving(l, a),
         y = "EX_REP" => dir'[a].state \in Owned, y = "SH_REP" => dir'[a].state = "SHARED",
         dir'[a].state = "MODIFIED" => InQueue(l, a, {"EX_REQ", "UPGRADE_REQ"})
  PROVE  LineInv(l, a)'
<1>1. /\ \A T : ToCache(l, a, T)' <=> ToCache(l, a, T) \/ y \in T
      /\ \A T : ToHome(l, a, T)' <=> ToHome(l, a, T)
      /\ \A T : Asking(l, a, T)' => ToHome(l, a, T)
      /\ Held(l, a)' <=> Held(l, a)
      /\ Leaving(l, a)' <=> Leaving(l, a)
      /\ InLoop(l, a)' <=> InLoop(l, a)
      /\ cstate' = cstate /\ waiters' = waiters /\ net' = net
  BY DEF PushBox, SameBox, ToCache, ToHome, Asking, Held, Leaving, InLoop, llcVars
<1>2. /\ cstate[l][a] = "I" /\ Asking(l, a, ReqTypes) /\ ~ToCache(l, a, RepTypes)
      /\ ~ToHome(l, a, ReqTypes)
      /\ waiters[l][a] # <<>> /\ ~InLoop(l, a) /\ ~Asking(l, a, ReqTypes)'
  BY <1>1 DEF LineInv, AskOnce, AskWaits, Asking, Held
<1>3. /\ ~ToCache(l, a, {"UPGRADE_REP"}) /\ ~ToCache(l, a, {"UPGRADE_REP"})' /\ Granted(l, a)'
      /\ ~ToHome(l, a, Asks) /\ ~ToHome(l, a, {"UPGRADE_REQ"}) /\ ~ToHome(l, a, {"EX_REQ", "UPGRADE_REQ"})
      /\ ~ToCache(l, a, {"EX_REP"}) /\ ~ToCache(l, a, {"SH_REP"}) /\ ~ToCache(l, a, Grants)
      /\ ToCache(l, a, {"EX_REP"})' <=> y = "EX_REP"
      /\ ToCache(l, a, {"SH_REP"})' <=> y = "SH_REP"
  BY <1>1, <1>2, HasSplit DEF ToCache, ToHome, Granted, Grants
<1>4. /\ \A T : ~Prec(inbox[l], Grants, T, Home, a) /\ ~Prec(inbox[l], RepTypes, T, Home, a)
      /\ \A T, U : ~Prec3(inbox[l], Grants, T, U, Home, a)
  BY <1>2, <1>3, HasMono DEF ToCache
<1>5. \A T : ~Live(l, a, T)'
  BY <1>1, <1>3, <1>4 DEF Live, PushBox, ToCache
<1>6. ~ToHome(l, a, {"WB_REP"}) /\ ~ToHome(l, a, {"FLUSH_REP"}) /\ ~ToHome(l, a, {"INV_REP"})
  BY HasSplit DEF Settled, Leaving, ToHome
<1>7. OneToken(l, a)' /\ Tokens(l, a)'
  BY <1>1, <1>3 DEF LineInv, OneToken, Tokens, SameBox
<1>8. RecallInv(l, a)' /\ RecallFlush(l, a)' /\ Copying(l, a)' /\ Upgraded(l, a)'
  BY <1>1, <1>3, <1>5, <1>6 DEF RecallInv, RecallFlush, Copying, Upgraded
<1>9. CopyOnce(l, a)'
  <2>1. ~Prec3(inbox'[l], Grants, {"WB_REQ"}, {"WB_REQ"}, Home, a)
    BY <1>4 DEF PushBox
  <2> QED
    BY <1>1, <1>5, <1>6, <2>1 DEF LineInv, CopyOnce, SameBox
<1>10. AskOnce(l, a)'
  <2>1. ~Prec(inbox'[l], RepTypes, RepTypes, Home, a)
    BY <1>2, <1>4 DEF PushBox, ToCache
  <2> QED
    BY <1>1, <1>2, <2>1 DEF LineInv, AskOnce, Once, SameBox
<1>11. AskMiss(l, a)' /\ AskUpgrade(l, a)' /\ AskWaits(l, a)' /\ UpgradeAsked(l, a)' /\ LoopLine(l, a)'
  BY <1>1, <1>2, <1>3 DEF LineInv, AskMiss, AskUpgrade, AskWaits, UpgradeAsked, LoopLine, SameBox
<1>12. OwnerOnly(l, a)' /\ SharedReply(l, a)' /\ SharedCopy(l, a)' /\ LeftShared(l, a)'
  BY <1>1, <1>2, <1>3, <1>6 DEF OwnerOnly, SharedReply, SharedCopy, LeftShared
<1>13. WritersWait(l, a)' /\ WriterNow(l, a)'
  BY <1>1, <1>2, <1>3 DEF LineInv, WritersWait, WriterNow, Asking
<1> QED
  BY <1>7, <1>8, <1>9, <1>10, <1>11, <1>12, <1>13 DEF LineInv

\* A cache whose upgrade is granted.
LEMMA UpgradedLine ==
  ASSUME NEW l \in LLCs, NEW a \in Addrs, LineInv(l, a), UNCHANGED llcVars, Settled(l, a),
         PushBox(inbox[l], inbox'[l], Home, a, "UPGRADE_REP"), SameBox(inbox[Home], inbox'[Home], l, a),
         InQueue(l, a, {"UPGRADE_REQ"}), \A T : ~InQueue(l, a, T)', Once(l, a)',
         ~Fetching(l, a), ~Fetching(l, a)',
         l \in dir[a].sharers, l \in dir'[a].sharers, dir'[a].state \in Owned
  PROVE  LineInv(l, a)'
<1>1. /\ \A T : ToCache(l, a, T)' <=> ToCache(l, a, T) \/ "UPGRADE_REP" \in T
      /\ \A T : ToHome(l, a, T)' <=> ToHome(l, a, T)
      /\ \A T : Asking(l, a, T)' => ToHome(l, a, T)
      /\ Held(l, a)' <=> Held(l, a)
      /\ Leaving(l, a)' <=> Leaving(l, a)
      /\ InLoop(l, a)' <=> InLoop(l, a)
      /\ cstate' = cstate /\ waiters' = waiters /\ net' = net
  BY DEF PushBox, SameBox, ToCache, ToHome, Asking, Held, Leaving, InLoop, llcVars
<1>2. /\ InQueue(l, a, ReqTypes) /\ Asking(l, a, ReqTypes) /\ Asking(l, a, {"UPGRADE_REQ"})
      /\ ~ToCache(l, a, RepTypes) /\ ~ToHome(l, a, ReqTypes)
      /\ waiters[l][a] # <<>> /\ ~InLoop(l, a) /\ ~Asking(l, a, ReqTypes)'
  <2>1. InQueue(l, a, ReqTypes)
    BY QueueSplit
  <2> QED
    BY <1>1, <2>1 DEF LineInv, AskOnce, AskWaits, Asking
<1>3. /\ ~ToCache(l, a, {"UPGRADE_REP"}) /\ ~Granted(l, a) /\ ~Granted(l, a)'
      /\ ~ToHome(l, a, Asks) /\ ~ToHome(l, a, {"UPGRADE_REQ"}) /\ ~ToHome(l, a, {"EX_REQ", "UPGRADE_REQ"})
      /\ ~ToCache(l, a, {"EX_REP"})' /\ ~ToCache(l, a, {"SH_REP"})' /\ ~ToCache(l, a, Grants)
  BY <1>1, <1>2, HasSplit DEF ToCache, ToHome, Granted, Grants
\* It still has its copy.
<1>4. Held(l, a) /\ cstate[l][a] = "SU" /\ ~Leaving(l, a)
  BY <1>2, <1>3 DEF LineInv, Tokens, AskUpgrade, Settled, Held
<1>5. /\ ~ToCache(l, a, {"INV_REQ"}) /\ ~ToCache(l, a, {"FLUSH_REQ"}) /\ ~ToCache(l, a, {"WB_REQ"})
      /\ ~ToCache(l, a, Recalls)
  <2>1. ~ToCache(l, a, {"INV_REQ"}) /\ ~ToCache(l, a, {"FLUSH_REQ"}) /\ ~ToCache(l, a, {"WB_REQ"})
    BY <1>4 DEF Settled, Live
  <2> QED
    BY <2>1 DEF ToCache, Has, Is, Recalls
<1>6. \A T \in {{"INV_REQ"}, {"FLUSH_REQ"}, {"WB_REQ"}} : ~Live(l, a, T)'
  BY <1>1, <1>3, <1>4, <1>5, HasMono DEF Live, PushBox, ToCache
<1>7. ~ToHome(l, a, {"WB_REP"}) /\ ~ToHome(l, a, {"FLUSH_REP"}) /\ ~ToHome(l, a, {"INV_REP"})
  BY <1>4, HasSplit DEF Settled, Leaving, ToHome
<1>8. OneToken(l, a)' /\ Tokens(l, a)'
  BY <1>1, <1>3, <1>4 DEF LineInv, OneToken, Tokens, SameBox
<1>9. RecallInv(l, a)' /\ RecallFlush(l, a)' /\ Copying(l, a)'
  BY <1>1, <1>6, <1>7 DEF RecallInv, RecallFlush, Copying
<1>10. Upgraded(l, a)'
  <2>1. ~Prec(inbox'[l], Recalls, {"UPGRADE_REP"}, Home, a)
    BY <1>3, <1>5, HasMono DEF PushBox, ToCache
  <2> QED
    BY <1>1, <1>4, <1>7, <2>1 DEF Upgraded
<1>11. CopyOnce(l, a)'
  <2>1. /\ ~Prec3(inbox'[l], Grants, {"WB_REQ"}, {"WB_REQ"}, Home, a)
        /\ ~Prec(inbox'[l], {"WB_REQ"}, {"WB_REQ"}, Home, a)
    BY <1>4 DEF LineInv, CopyOnce, PushBox
  <2> QED
    BY <1>1, <1>6, <1>7, <2>1 DEF LineInv, CopyOnce, SameBox
<1>12. AskOnce(l, a)'
  <2>1. ~Prec(inbox'[l], RepTypes, RepTypes, Home, a)
    BY <1>2, HasMono DEF PushBox, ToCache
  <2> QED
    BY <1>1, <1>2, <2>1 DEF LineInv, AskOnce, Once, SameBox
<1>13. AskMiss(l, a)' /\ AskUpgrade(l, a)' /\ AskWaits(l, a)' /\ UpgradeAsked(l, a)' /\ LoopLine(l, a)'
  BY <1>1, <1>2, <1>3, <1>4 DEF LineInv, AskMiss, AskUpgrade, AskWaits, UpgradeAsked, LoopLine, SameBox
<1>14. OwnerOnly(l, a)' /\ SharedReply(l, a)' /\ SharedCopy(l, a)' /\ LeftShared(l, a)'
  BY <1>1, <1>3, <1>4, <1>7 DEF OwnerOnly, SharedReply, SharedCopy, LeftShared
<1>15. WritersWait(l, a)' /\ WriterNow(l, a)'
  BY <1>1, <1>3, <1>4 DEF WritersWait, WriterNow, Asking
<1> QED
  BY <1>8, <1>9, <1>10, <1>11, <1>12, <1>13, <1>14, <1>15 DEF LineInv

\* A cache whose copy has arrived back at the directory.
LEMMA LeaverLine ==
  ASSUME NEW l \in LLCs, NEW a \in Addrs, LineInv(l, a), UNCHANGED llcVars,
         NEW z \in Leaves,
         SameBox(inbox[l], inbox'[l], Home, a), PopBox(inbox[Home], inbox'[Home], l, a, z),
         \A T : InQueue(l, a, T)' <=> InQueue(l, a, T), Once(l, a)',
         Fetching(l, a)' <=> Fetching(l, a), l \notin dir'[a].sharers
  PROVE  LineInv(l, a)'
<1>1. /\ \A T : ToCache(l, a, T)' <=> ToCache(l, a, T)
      /\ \A T : ToHome(l, a, T) <=> ToHome(l, a, T)' \/ z \in T
      /\ \A T : ToHome(l, a, T)' => ToHome(l, a, T)
      /\ \A T : z \notin T => (Asking(l, a, T)' <=> Asking(l, a, T))
      /\ Held(l, a)' <=> Held(l, a)
      /\ Granted(l, a)' <=> Granted(l, a)
      /\ InLoop(l, a)' <=> InLoop(l, a)
      /\ cstate' = cstate /\ waiters' = waiters /\ net' = net
  BY DEF PopBox, SameBox, ToCache, ToHome, Asking, Held, Granted, InLoop, llcVars
<1>2. z \notin ReqTypes /\ z \notin Asks /\ z # "UPGRADE_REQ" /\ z \notin {"EX_REQ", "UPGRADE_REQ"}
  BY DEF Leaves, ReqTypes, Asks
<1>3. /\ Leaving(l, a) /\ ~Leaving(l, a)' /\ ~Held(l, a) /\ cstate[l][a] = "I"
      /\ ~Granted(l, a) /\ ~Fetching(l, a)
      /\ ~ToHome(l, a, {"WB_REP"})' /\ ~ToHome(l, a, {"FLUSH_REP"})' /\ ~ToHome(l, a, {"INV_REP"})'
  <2>1. Leaving(l, a)
    BY <1>1 DEF Leaving
  <2>2. ~Leaving(l, a)' /\ ~ToHome(l, a, {"WB_REP"})'
    BY DEF PopBox, Leaving, ToHome, LineInv, OneToken, CopyOnce
  <2>3. ~ToHome(l, a, {"FLUSH_REP"})' /\ ~ToHome(l, a, {"INV_REP"})'
    BY <2>2, HasSplit DEF Leaving, ToHome
  <2> QED
    BY <2>1, <2>2, <2>3 DEF LineInv, OneToken, Held
<1>4. /\ ~ToCache(l, a, {"EX_REP"}) /\ ~ToCache(l, a, {"SH_REP"}) /\ ~ToCache(l, a, {"UPGRADE_REP"})
      /\ \A T : ~Live(l, a, T)' /\ ~Live(l, a, T)
  <2>1. \A T : ~Live(l, a, T)
    BY <1>3, HasMono DEF Live, Granted, ToCache
  <2>2. \A T : Live(l, a, T)' <=> Live(l, a, T)
    BY <1>1 DEF Live, SameBox
  <2> QED
    BY <1>3, <2>1, <2>2, HasSplit DEF Granted, ToCache, LineInv, Upgraded
<1>5. OneToken(l, a)' /\ Tokens(l, a)' /\ OwnerOnly(l, a)'
  <2>1. ~Prec(inbox'[Home], Leaves, Leaves, l, a)
    BY DEF PopBox, LineInv, OneToken
  <2> QED
    BY <1>1, <1>3, <1>4, <2>1 DEF OneToken, Tokens, OwnerOnly
<1>6. RecallInv(l, a)' /\ RecallFlush(l, a)' /\ Copying(l, a)' /\ Upgraded(l, a)'
  BY <1>1, <1>3, <1>4 DEF RecallInv, RecallFlush, Copying, Upgraded
<1>7. CopyOnce(l, a)'
  <2>1. /\ ~Prec(inbox'[Home], {"WB_REP"}, {"WB_REP"}, l, a)
        /\ ~Prec(inbox'[Home], Leaves, {"WB_REP"}, l, a)
        /\ ~Prec3(inbox'[l], Grants, {"WB_REQ"}, {"WB_REQ"}, Home, a)
    BY DEF PopBox, SameBox, LineInv, CopyOnce
  <2> QED
    BY <1>1, <1>3, <2>1 DEF CopyOnce
<1>8. AskOnce(l, a)'
  <2>1. ~Prec(inbox'[Home], ReqTypes, ReqTypes, l, a)
    BY DEF PopBox, LineInv, AskOnce
  <2> QED
    BY <1>1, <1>2, <2>1 DEF LineInv, AskOnce, Once, SameBox
<1>9. AskMiss(l, a)'
  <2>1. ~Prec(inbox'[Home], Asks, Leaves, l, a)
    BY DEF PopBox, LineInv, AskMiss
  <2> QED
    BY <1>1, <1>2, <1>3, <2>1 DEF AskMiss
<1>10. AskUpgrade(l, a)' /\ AskWaits(l, a)' /\ UpgradeAsked(l, a)' /\ LoopLine(l, a)'
  BY <1>1, <1>2, <1>3 DEF LineInv, AskUpgrade, AskWaits, UpgradeAsked, LoopLine
<1>11. SharedReply(l, a)' /\ SharedCopy(l, a)' /\ LeftShared(l, a)' /\ WritersWait(l, a)' /\ WriterNow(l, a)'
  BY <1>1, <1>2, <1>3, <1>4 DEF LineInv, SharedReply, SharedCopy, LeftShared, WritersWait, WriterNow
<1> QED
  BY <1>5, <1>6, <1>7, <1>8, <1>9, <1>10, <1>11 DEF LineInv

\* A cache whose write-back has arrived.
LEMMA CopiedLine ==
  ASSUME NEW l \in LLCs, NEW a \in Addrs, LineInv(l, a), UNCHANGED llcVars,
         SameBox(inbox[l], inbox'[l], Home, a), PopBox(inbox[Home], inbox'[Home], l, a, "WB_REP"),
         \A T : InQueue(l, a, T)' <=> InQueue(l, a, T), Once(l, a)',
         Fetching(l, a)' <=> Fetching(l, a), l \in dir'[a].sharers <=> l \in dir[a].sharers,
         dir'[a].state = "SHARED"
  PROVE  LineInv(l, a)'
<1>1. /\ \A T : ToCache(l, a, T)' <=> ToCache(l, a, T)
      /\ \A T : ToHome(l, a, T) <=> ToHome(l, a, T)' \/ "WB_REP" \in T
      /\ \A T : ToHome(l, a, T)' => ToHome(l, a, T)
      /\ \A T : "WB_REP" \notin T => (Asking(l, a, T)' <=> Asking(l, a, T))
      /\ Held(l, a)' <=> Held(l, a)
      /\ Granted(l, a)' <=> Granted(l, a)
      /\ InLoop(l, a)' <=> InLoop(l, a)
      /\ cstate' = cstate /\ waiters' = waiters /\ net' = net
  BY DEF PopBox, SameBox, ToCache, ToHome, Asking, Held, Granted, InLoop, llcVars
<1>2. /\ ToHome(l, a, {"WB_REP"}) /\ ~ToHome(l, a, {"WB_REP"})'
      /\ ~ToHome(l, a, {"FLUSH_REP"})' /\ (Leaving(l, a)' <=> Leaving(l, a))
      /\ cstate[l][a] \in {"S", "SU"} \/ Leaving(l, a)
  <2>1. ToHome(l, a, {"WB_REP"}) /\ ~ToHome(l, a, {"WB_REP"})'
    BY <1>1 DEF PopBox, ToHome, LineInv, CopyOnce
  <2>2. Leaving(l, a)' <=> Leaving(l, a)
    BY <1>1 DEF Leaving, Leaves
  <2> QED
    BY <1>1, <2>1, <2>2 DEF LineInv, CopyOnce
<1>3. /\ Waits(a) /\ Front(a).type = "SH_REQ"
      /\ ~Recalled(l, a) /\ ~Live(l, a, {"WB_REQ"})
  BY <1>2 DEF LineInv, Copying, CopyOnce, Recalled
<1>4. \A T \in {{"INV_REQ"}, {"FLUSH_REQ"}, {"WB_REQ"}} : ~Live(l, a, T) /\ ~Live(l, a, T)'
  <2>1. \A T : Live(l, a, T)' <=> Live(l, a, T)
    BY <1>1 DEF Live, SameBox
  <2> QED
    BY <1>3, <2>1 DEF LineInv, RecallInv, RecallFlush
<1>5. /\ cstate[l][a] \notin {"E", "M"} /\ ~ToCache(l, a, {"EX_REP"})
      /\ ~ToCache(l, a, {"UPGRADE_REP"})
      /\ Asking(l, a, {"UPGRADE_REQ"}) => ~Leaving(l, a)
  BY <1>2, <1>3, HasSplit DEF LineInv, OneToken, Held, Granted, ToCache, Upgraded, AskUpgrade
<1>6. OneToken(l, a)' /\ Tokens(l, a)' /\ OwnerOnly(l, a)'
  <2>1. ~Prec(inbox'[Home], Leaves, Leaves, l, a)
    BY DEF PopBox, LineInv, OneToken
  <2> QED
    BY <1>1, <1>2, <1>5, <2>1 DEF LineInv, OneToken, Tokens, OwnerOnly
<1>7. RecallInv(l, a)' /\ RecallFlush(l, a)' /\ Copying(l, a)' /\ Upgraded(l, a)'
  BY <1>1, <1>2, <1>4, <1>5 DEF RecallInv, RecallFlush, Copying, Upgraded
<1>8. CopyOnce(l, a)'
  <2>1. /\ ~Prec(inbox'[Home], {"WB_REP"}, {"WB_REP"}, l, a)
        /\ ~Prec(inbox'[Home], Leaves, {"WB_REP"}, l, a)
        /\ ~Prec3(inbox'[l], Grants, {"WB_REQ"}, {"WB_REQ"}, Home, a)
        /\ Held(l, a)' => ~Prec(inbox'[l], {"WB_REQ"}, {"WB_REQ"}, Home, a)
    BY <1>1 DEF PopBox, SameBox, LineInv, CopyOnce
  <2> QED
    BY <1>1, <1>2, <2>1 DEF CopyOnce
<1>9. AskOnce(l, a)' /\ AskMiss(l, a)'
  <2>1. ~Prec(inbox'[Home], ReqTypes, ReqTypes, l, a) /\ ~Prec(inbox'[Home], Asks, Leaves, l, a)
    BY DEF PopBox, LineInv, AskOnce, AskMiss
  <2>2. "WB_REP" \notin ReqTypes /\ "WB_REP" \notin Asks
    BY DEF ReqTypes, Asks
  <2>3. AskOnce(l, a)'
    BY <1>1, <2>1, <2>2 DEF LineInv, AskOnce, Once, SameBox
  <2>4. AskMiss(l, a)'
    BY <1>1, <1>2, <2>1, <2>2 DEF LineInv, AskMiss
  <2> QED
    BY <2>3, <2>4
<1>10. AskUpgrade(l, a)' /\ AskWaits(l, a)' /\ UpgradeAsked(l, a)' /\ LoopLine(l, a)'
  <2>1. "WB_REP" \notin ReqTypes
    BY DEF ReqTypes
  <2> QED
    BY <1>1, <1>2, <1>5, <2>1 DEF LineInv, AskUpgrade, AskWaits, UpgradeAsked, LoopLine
<1>11. SharedReply(l, a)' /\ SharedCopy(l, a)' /\ LeftShared(l, a)' /\ WritersWait(l, a)' /\ WriterNow(l, a)'
  BY <1>1, <1>2, <1>5 DEF LineInv, SharedReply, SharedCopy, LeftShared, WritersWait, WriterNow, Owned
<1> QED
  BY <1>6, <1>7, <1>8, <1>9, <1>10, <1>11 DEF LineInv

\* A cache whose request joins the queue of the line.
LEMMA QueuedLine ==
  ASSUME NEW l \in LLCs, NEW a \in Addrs, LineInv(l, a), UNCHANGED llcVars, NEW y \in ReqTypes,
         Settled(l, a) \/ StillWaits(a),
         SameBox(inbox[l], inbox'[l], Home, a), PopBox(inbox[Home], inbox'[Home], l, a, y),
         \A T : InQueue(l, a, T)' <=> InQueue(l, a, T) \/ y \in T, Once(l, a)',
         Fetching(l, a)' <=> Fetching(l, a), dir' = dir
  PROVE  LineInv(l, a)'
<1>1. /\ \A T : ToCache(l, a, T)' <=> ToCache(l, a, T)
      /\ \A T : ToHome(l, a, T) <=> ToHome(l, a, T)' \/ y \in T
      /\ \A T : ToHome(l, a, T)' => ToHome(l, a, T)
      /\ \A T : Asking(l, a, T)' <=> Asking(l, a, T)
      /\ Held(l, a)' <=> Held(l, a)
      /\ Granted(l, a)' <=> Granted(l, a)
      /\ InLoop(l, a)' <=> InLoop(l, a)
      /\ cstate' = cstate /\ waiters' = waiters /\ net' = net /\ dir' = dir
  BY DEF PopBox, SameBox, ToCache, ToHome, Asking, Held, Granted, InLoop, llcVars
<1>2. y \notin Leaves /\ y \notin {"WB_REP"} /\ y \notin {"FLUSH_REP"} /\ y \notin {"INV_REP"}
  BY DEF Leaves, ReqTypes
<1>3. /\ Leaving(l, a)' <=> Leaving(l, a)
      /\ ToHome(l, a, {"WB_REP"})' <=> ToHome(l, a, {"WB_REP"})
      /\ ToHome(l, a, {"FLUSH_REP"})' <=> ToHome(l, a, {"FLUSH_REP"})
      /\ ToHome(l, a, {"INV_REP"})' <=> ToHome(l, a, {"INV_REP"})
      /\ \A T : Live(l, a, T)' <=> Live(l, a, T)
  BY <1>1, <1>2 DEF Leaving, Live, SameBox
<1>4. OneToken(l, a)' /\ Tokens(l, a)' /\ OwnerOnly(l, a)'
  <2>1. ~Prec(inbox'[Home], Leaves, Leaves, l, a)
    BY DEF PopBox, LineInv, OneToken
  <2> QED
    BY <1>1, <1>3, <2>1 DEF LineInv, OneToken, Tokens, OwnerOnly
<1>5. CopyOnce(l, a)'
  <2>1. /\ ~Prec(inbox'[Home], {"WB_REP"}, {"WB_REP"}, l, a)
        /\ ~Prec(inbox'[Home], Leaves, {"WB_REP"}, l, a)
        /\ ~Prec3(inbox'[l], Grants, {"WB_REQ"}, {"WB_REQ"}, Home, a)
        /\ Held(l, a)' => ~Prec(inbox'[l], {"WB_REQ"}, {"WB_REQ"}, Home, a)
    BY <1>1 DEF PopBox, SameBox, LineInv, CopyOnce
  <2> QED
    BY <1>1, <1>3, <2>1 DEF LineInv, CopyOnce
<1>6. AskOnce(l, a)'
  <2>1. ~Prec(inbox'[Home], ReqTypes, ReqTypes, l, a) /\ ~ToHome(l, a, ReqTypes)'
    BY DEF PopBox, LineInv, AskOnce, ToHome
  <2> QED
    BY <1>1, <2>1 DEF LineInv, AskOnce, Once, SameBox
<1>7. AskMiss(l, a)'
  <2>1. ~Prec(inbox'[Home], Asks, Leaves, l, a) /\ (y \in Asks => ~Leaving(l, a)')
    BY DEF PopBox, LineInv, AskMiss, Leaving, ToHome
  <2> QED
    BY <1>1, <1>3, <2>1 DEF LineInv, AskMiss
<1>8. AskWaits(l, a)' /\ UpgradeAsked(l, a)' /\ LoopLine(l, a)'
  BY <1>1 DEF LineInv, AskWaits, UpgradeAsked, LoopLine
<1>9. SharedReply(l, a)' /\ SharedCopy(l, a)' /\ LeftShared(l, a)' /\ WritersWait(l, a)' /\ WriterNow(l, a)'
  BY <1>1, <1>3 DEF LineInv, SharedReply, SharedCopy, LeftShared, WritersWait, WriterNow
<1>10. Upgraded(l, a)'
  BY <1>1, <1>3 DEF LineInv, Upgraded, SameBox
<1>11. RecallInv(l, a)' /\ RecallFlush(l, a)' /\ Copying(l, a)' /\ AskUpgrade(l, a)'
  <2>1. CASE Settled(l, a)
    BY <1>1, <1>3, <2>1 DEF LineInv, Settled, RecallInv, RecallFlush, Copying, AskUpgrade
  <2>2. CASE StillWaits(a)
    <3>1. Recalled(l, a) => Recalled(l, a)'
      BY <2>2 DEF StillWaits, Recalled
    <3>2. RecallInv(l, a)' /\ AskUpgrade(l, a)'
      BY <1>1, <1>3, <3>1 DEF LineInv, RecallInv, AskUpgrade
    <3>3. RecallFlush(l, a)'
      BY <1>1, <1>3, <2>2, <3>1 DEF LineInv, RecallFlush, StillWaits
    <3>4. Copying(l, a)'
      BY <1>1, <1>3, <2>2 DEF LineInv, Copying, StillWaits
    <3> QED
      BY <3>2, <3>3, <3>4
  <2> QED
    BY <2>1, <2>2
<1> QED
  BY <1>4, <1>5, <1>6, <1>7, <1>8, <1>9, <1>10, <1>11 DEF LineInv

\* What a step of the directory leaves alone: line a, seen from every cache and
\* from the DRAM controller.
LineApart(a) ==
  /\ dir'[a] = dir[a] /\ queue'[a] = queue[a] /\ (Busy(a)' <=> Busy(a)) /\ (Busy(a) => work'.data = work.data)
  /\ dir[a].state # "UNCACHED" /\ HasEntry(a) => HasEntry(a)'
  /\ Queued(a) /\ a \in replaced => a \in replaced'
  /\ \A l \in LLCs \union {Dram} :
       SameBox(inbox[l], inbox'[l], Home, a) /\ SameBox(inbox[Home], inbox'[Home], l, a)

LEMMA HomeActs ==
  ASSUME CInv, TInv', UNCHANGED llcVars, HomeBox', NEW A,
         \A a \in Addrs : a \notin A => LineApart(a),
         \A a \in Addrs : a \in A => EntryInv(a)' /\ \A l \in LLCs : LineInv(l, a)'
  PROVE  CInv'
<1>1. ASSUME NEW a \in Addrs, a \notin A PROVE EntryInv(a)'
  <2>1. EntryInv(a) /\ LineApart(a)
    BY <1>1 DEF CInv
  <2> QED
    BY <2>1, EntryFrame DEF LineApart
<1>2. ASSUME NEW a \in Addrs, a \notin A, NEW l \in LLCs PROVE LineInv(l, a)'
  <2>1. LineInv(l, a) /\ LineApart(a)
    BY <1>2 DEF CInv
  <2>2. /\ cstate'[l][a] = cstate[l][a] /\ waiters'[l][a] = waiters[l][a]
        /\ InLoop(l, a)' <=> InLoop(l, a)
        /\ net'[l] = net[l]
    BY DEF llcVars, InLoop
  <2> QED
    BY <2>1, <2>2, LineFrame DEF LineApart
<1> QED
  BY <1>1, <1>2 DEF CInv

\* The front request is done.
LEMMA QueueTail ==
  ASSUME queue \in Queues, NEW a \in Addrs, Queued(a), QueueFresh(a), queue'[a] = Tail(queue[a])
  PROVE  /\ \A l : l # Front(a).from =>
              /\ \A T : InQueue(l, a, T)' <=> InQueue(l, a, T)
              /\ Once(l, a) => Once(l, a)'
         /\ \A l : l = Front(a).from /\ Once(l, a) => Once(l, a)' /\ \A T : ~InQueue(l, a, T)'
         /\ QueueFresh(a)'
         /\ Queued(a)' => /\ ~Front(a)'.waitForData /\ Front(a)'.forwardingFrom = None
                          /\ Front(a)'.type # "NULLIFY_REQ"
<1> DEFINE s == queue[a]
           t == queue'[a]
           n == Len(t)
<1>1. /\ n \in Nat /\ Len(s) = n + 1 /\ Front(a) = s[1] /\ t \in Seq(Request)
      /\ \A i \in 1 .. n : t[i] = s[i + 1]
      /\ Queued(a)' => n # 0 /\ Front(a)' = t[1]
  BY DEF Queues, Queued, Front
<1> HIDE DEF s, t, n
<1>2. \A l, T : InQueue(l, a, T) <=> \E i \in 1 .. (n + 1) : s[i].from = l /\ s[i].type \in T
  BY <1>1 DEF InQueue, s
<1>3. \A l, T : InQueue(l, a, T)' <=> \E i \in 1 .. n : t[i].from = l /\ t[i].type \in T
  BY <1>1 DEF InQueue, t, n
<1>4. \A l : Once(l, a) <=> \A i, j \in 1 .. (n + 1) : s[i].from = l /\ s[j].from = l => i = j
  BY <1>1 DEF Once, s
<1>5. \A l : Once(l, a)' <=> \A i, j \in 1 .. n : t[i].from = l /\ t[j].from = l => i = j
  BY <1>1 DEF Once, t, n
<1>6. /\ \A i \in 1 .. n : i + 1 \in 1 .. (n + 1) /\ i + 1 # 1
      /\ \A i \in 1 .. (n + 1) : i # 1 => i - 1 \in 1 .. n /\ t[i - 1] = s[i]
      /\ 1 \in 1 .. (n + 1)
  <2>1. ASSUME NEW i \in 1 .. (n + 1), i # 1 PROVE i - 1 \in 1 .. n /\ t[i - 1] = s[i]
    <3>1. i - 1 \in 1 .. n /\ (i - 1) + 1 = i
      BY <1>1, <2>1
    <3> QED
      BY <1>1, <3>1
  <2> QED
    BY <1>1, <2>1
<1>7. ASSUME NEW l, Once(l, a) PROVE Once(l, a)'
  <2>1. ASSUME NEW i \in 1 .. n, NEW j \in 1 .. n, t[i].from = l, t[j].from = l PROVE i = j
    <3>1. i + 1 = j + 1
      BY <1>1, <1>4, <1>6, <1>7, <2>1
    <3> QED
      BY <1>1, <3>1
  <2> QED
    BY <1>5, <2>1
<1>8. ASSUME NEW l, l # Front(a).from, NEW T PROVE InQueue(l, a, T)' <=> InQueue(l, a, T)
  <2>1. ASSUME NEW i \in 1 .. (n + 1), s[i].from = l, s[i].type \in T PROVE InQueue(l, a, T)'
    <3>1. i # 1
      BY <1>1, <1>8, <2>1
    <3>2. i - 1 \in 1 .. n /\ t[i - 1] = s[i]
      BY <1>6, <3>1
    <3> QED
      BY <1>3, <2>1, <3>2
  <2>2. ASSUME NEW i \in 1 .. n, t[i].from = l, t[i].type \in T PROVE InQueue(l, a, T)
    <3>1. i + 1 \in 1 .. (n + 1) /\ s[i + 1] = t[i]
      BY <1>1, <1>6
    <3> QED
      BY <1>2, <2>2, <3>1
  <2> QED
    BY <1>2, <1>3, <2>1, <2>2
<1>9. ASSUME NEW l, l = Front(a).from, Once(l, a), NEW T PROVE ~InQueue(l, a, T)'
  <2>1. ASSUME NEW i \in 1 .. n, t[i].from = l PROVE FALSE
    <3>1. i + 1 \in 1 .. (n + 1) /\ i + 1 # 1 /\ 1 \in 1 .. (n + 1)
      BY <1>6
    <3>2. s[i + 1].from = l /\ s[1].from = l
      BY <1>1, <1>9, <2>1
    <3> QED
      BY <1>4, <1>9, <3>1, <3>2
  <2> QED
    BY <1>3, <2>1
<1>10. \A i \in 1 .. n : ~t[i].waitForData /\ t[i].forwardingFrom = None /\ t[i].type # "NULLIFY_REQ"
  <2>1. ASSUME NEW i \in 1 .. n
        PROVE  ~t[i].waitForData /\ t[i].forwardingFrom = None /\ t[i].type # "NULLIFY_REQ"
    <3>1. i + 1 \in 2 .. (n + 1) /\ t[i] = s[i + 1]
      BY <1>1
    <3> QED
      BY <1>1, <3>1 DEF QueueFresh, s
  <2> QED
    BY <2>1
<1>11. QueueFresh(a)'
  <2>1. \A i \in 2 .. n : i \in 1 .. n
    BY <1>1
  <2> QED
    BY <1>10, <2>1 DEF QueueFresh, t, n
<1>12. Queued(a)' => 1 \in 1 .. n
  BY <1>1
<1> QED
  BY <1>1, <1>7, <1>8, <1>9, <1>10, <1>11, <1>12

\* The front request is marked.
LEMMA QueueMark ==
  ASSUME queue \in Queues, NEW a \in Addrs, Queued(a), QueueFresh(a), NEW r,
         queue'[a] = [queue[a] EXCEPT ![1] = r], r.type = Front(a).type, r.from = Front(a).from
  PROVE  /\ \A l, T : InQueue(l, a, T)' <=> InQueue(l, a, T)
         /\ \A l : Once(l, a)' <=> Once(l, a)
         /\ QueueFresh(a)' /\ Queued(a)' /\ Front(a)' = r
<1> DEFINE s == queue[a]
           t == queue'[a]
           n == Len(s)
<1>1. /\ n \in Nat /\ n # 0 /\ Len(t) = n /\ Front(a) = s[1] /\ t[1] = r /\ t # <<>> /\ Head(t) = t[1]
      /\ \A i \in 1 .. n : i # 1 => t[i] = s[i]
  BY DEF Queues, Queued, Front
<1> HIDE DEF s, t, n
<1>2. \A i \in 1 .. n : t[i].type = s[i].type /\ t[i].from = s[i].from
  BY <1>1
<1>3. \A l, T : InQueue(l, a, T)' <=> InQueue(l, a, T)
  BY <1>1, <1>2 DEF InQueue, s, t, n
<1>4. \A l : Once(l, a)' <=> Once(l, a)
  <2>1. \A l : Once(l, a) <=> \A i, j \in 1 .. n : s[i].from = l /\ s[j].from = l => i = j
    BY DEF Once, s, n
  <2>2. \A l : Once(l, a)' <=> \A i, j \in 1 .. n : t[i].from = l /\ t[j].from = l => i = j
    BY <1>1 DEF Once, t
  <2> QED
    BY <1>2, <2>1, <2>2
<1>5. QueueFresh(a)'
  <2>1. \A i \in 2 .. n : i \in 1 .. n /\ i # 1
    BY <1>1
  <2> QED
    BY <1>1, <2>1 DEF QueueFresh, s, t, n
<1> QED
  BY <1>1, <1>3, <1>4, <1>5 DEF Queued, Front, t

\* A request joins the queue.
LEMMA QueueAppend ==
  ASSUME queue \in Queues, NEW a \in Addrs, QueueFresh(a), NEW y, NEW f,
         queue'[a] = Append(queue[a], NewRequest(y, f)),
         y # "NULLIFY_REQ" \/ ~Queued(a)
  PROVE  /\ \A l, T : InQueue(l, a, T)' <=> InQueue(l, a, T) \/ (l = f /\ y \in T)
         /\ \A l : Once(l, a) /\ (l = f => \A T : ~InQueue(l, a, T)) => Once(l, a)'
         /\ QueueFresh(a)' /\ Queued(a)'
         /\ Front(a)' = IF Queued(a) THEN Front(a) ELSE NewRequest(y, f)
<1> DEFINE s == queue[a]
           t == queue'[a]
           n == Len(s)
           r == NewRequest(y, f)
<1>1. /\ n \in Nat /\ Len(t) = n + 1 /\ t[n + 1] = r /\ t # <<>> /\ Head(t) = t[1]
      /\ \A i \in 1 .. n : t[i] = s[i]
      /\ Queued(a) <=> n # 0
      /\ Queued(a) => Front(a) = s[1]
  BY DEF Queues, Queued, Front
<1>2. r.type = y /\ r.from = f /\ ~r.waitForData /\ r.forwardingFrom = None
  BY DEF NewRequest
<1> HIDE DEF s, t, n, r
<1>3. \A i \in 1 .. (n + 1) : i \in 1 .. n \/ i = n + 1
  BY <1>1
<1>4. n + 1 \in 1 .. (n + 1) /\ \A i \in 1 .. n : i \in 1 .. (n + 1)
  BY <1>1
<1>5. ASSUME NEW l, NEW T PROVE InQueue(l, a, T)' <=> InQueue(l, a, T) \/ (l = f /\ y \in T)
  BY <1>1, <1>2, <1>3, <1>4 DEF InQueue, s, t, n
<1>6. ASSUME NEW l, Once(l, a), l = f => \A T : ~InQueue(l, a, T)
      PROVE  Once(l, a)'
  <2>1. ASSUME l = f, NEW i \in 1 .. n PROVE s[i].from # l
    <3>1. ~InQueue(l, a, {s[i].type})
      BY <1>6, <2>1
    <3> QED
      BY <2>1, <3>1 DEF InQueue, s, n
  <2>2. ASSUME NEW i \in 1 .. (n + 1), NEW j \in 1 .. (n + 1), t[i].from = l, t[j].from = l
        PROVE  i = j
    BY <1>1, <1>2, <1>3, <1>6, <2>1, <2>2 DEF Once, s, n
  <2> QED
    BY <1>1, <2>2 DEF Once, t
<1>7. QueueFresh(a)'
  <2>1. \A i \in 2 .. (n + 1) : i \in 2 .. n \/ (i = n + 1 /\ n # 0)
    BY <1>1
  <2>2. \A i \in 2 .. n : i \in 1 .. n
    BY <1>1
  <2> QED
    BY <1>1, <1>2, <2>1, <2>2 DEF QueueFresh, s, t, n
<1>8. Front(a)' = IF Queued(a) THEN Front(a) ELSE r
  <2>1. n # 0 => 1 \in 1 .. n
    BY <1>1
  <2>2. n = 0 => n + 1 = 1
    BY <1>1
  <2> QED
    BY <1>1, <2>1, <2>2 DEF Front, t
<1> QED
  BY <1>1, <1>5, <1>6, <1>7, <1>8 DEF Queued, t, r

\* The directory has put a message of type y about line a into the boxes of S,
\* and nothing else: s are the boxes before, t after.
Sent(s, t, S, y, a) ==
  /\ t[Home] = s[Home]
  /\ \A n \in LLCs \union {Dram}, b \in Addrs :
       IF n \in S /\ b = a THEN PushBox(s[n], t[n], Home, b, y) ELSE SameBox(s[n], t[n], Home, b)

LEMMA SendSent ==
  ASSUME NEW boxes \in Inboxes, NEW n \in LLCs \union {Dram}, NEW a \in Addrs, NEW m \in Message,
         m.from = Home, m.addr = a
  PROVE  Sent(boxes, Send(boxes, n, m), {n}, m.type, a)
<1> DEFINE t == Send(boxes, n, m)
<1>1. /\ t[n] = Append(boxes[n], m) /\ boxes[n] \in Seq(Message)
      /\ \A k \in Nodes : k # n => t[k] = boxes[k]
      /\ n \in Nodes /\ Home \in Nodes /\ Home # n /\ \A k \in LLCs \union {Dram} : k \in Nodes
  BY NetworkAssumption DEF Send, Inboxes, Nodes
<1> HIDE DEF t
<1>2. ASSUME NEW k \in LLCs \union {Dram}, NEW b \in Addrs
      PROVE  IF k \in {n} /\ b = a THEN PushBox(boxes[k], t[k], Home, b, m.type)
             ELSE SameBox(boxes[k], t[k], Home, b)
  <2>1. CASE k = n
    BY <1>1, <2>1, AppendBox
  <2>2. CASE k # n
    BY <1>1, <2>2, SameBoxRefl
  <2> QED
    BY <2>1, <2>2
<1> QED
  BY <1>1, <1>2 DEF Sent, t

LEMMA SendAllSent ==
  ASSUME NEW boxes \in Inboxes, NEW S, S \subseteq LLCs, NEW a \in Addrs, NEW m \in Message,
         m.from = Home, m.addr = a
  PROVE  Sent(boxes, SendAll(boxes, S, m), S, m.type, a)
<1> DEFINE t == SendAll(boxes, S, m)
<1>1. /\ \A k \in Nodes : t[k] = IF k \in S THEN Append(boxes[k], m) ELSE boxes[k]
      /\ \A k \in Nodes : boxes[k] \in Seq(Message)
      /\ Home \in Nodes /\ Home \notin S /\ \A k \in LLCs \union {Dram} : k \in Nodes
  BY NetworkAssumption DEF SendAll, Inboxes, Nodes
<1> HIDE DEF t
<1>2. ASSUME NEW k \in LLCs \union {Dram}, NEW b \in Addrs
      PROVE  IF k \in S /\ b = a THEN PushBox(boxes[k], t[k], Home, b, m.type)
             ELSE SameBox(boxes[k], t[k], Home, b)
  <2>1. CASE k \in S
    BY <1>1, <2>1, AppendBox
  <2>2. CASE k \notin S
    BY <1>1, <2>2, SameBoxRefl
  <2> QED
    BY <2>1, <2>2
<1> QED
  BY <1>1, <1>2 DEF Sent, t

\* One change of a box after the other.
LEMMA BoxTrans ==
  ASSUME NEW s, NEW t, NEW u, NEW f, NEW a, NEW y
  PROVE  /\ SameBox(s, t, f, a) /\ SameBox(t, u, f, a) => SameBox(s, u, f, a)
         /\ SameBox(s, t, f, a) /\ PushBox(t, u, f, a, y) => PushBox(s, u, f, a, y)
         /\ PushBox(s, t, f, a, y) /\ SameBox(t, u, f, a) => PushBox(s, u, f, a, y)
<1>1. SameBox(s, t, f, a) /\ SameBox(t, u, f, a) => SameBox(s, u, f, a)
  BY DEF SameBox
<1>2. SameBox(s, t, f, a) /\ PushBox(t, u, f, a, y) => PushBox(s, u, f, a, y)
  BY DEF SameBox, PushBox
<1>3. PushBox(s, t, f, a, y) /\ SameBox(t, u, f, a) => PushBox(s, u, f, a, y)
  BY DEF SameBox, PushBox
<1> QED
  BY <1>1, <1>2, <1>3

\* The directory takes the message at the head of its box.
LEMMA HomeTakes ==
  ASSUME inbox \in Inboxes, Pending(Home), HomeBox
  PROVE  /\ Received(Home) \in Inboxes /\ HomeMsg \in Message
         /\ HomeMsg.type \in HomeTypes /\ HomeMsg.addr \in Addrs
         /\ PopBox(inbox[Home], Received(Home)[Home], HomeMsg.from, HomeMsg.addr, HomeMsg.type)
         /\ \A f, a : ~(HomeMsg.from = f /\ HomeMsg.addr = a) =>
              SameBox(inbox[Home], Received(Home)[Home], f, a)
         /\ \A n \in LLCs \union {Dram} : Received(Home)[n] = inbox[n]
         /\ \A i \in 1 .. Len(Received(Home)[Home]) : Received(Home)[Home][i].type \in HomeTypes
<1> DEFINE s == inbox[Home]
<1>1. Home \in Nodes /\ s \in Seq(Message) /\ s # <<>> /\ Home \notin LLCs \union {Dram}
  BY NetworkAssumption DEF Nodes, Inboxes, Pending
<1>2. /\ HomeMsg = Head(s) /\ HomeMsg \in Message /\ Received(Home) \in Inboxes
      /\ Received(Home)[Home] = Tail(s)
      /\ \A n \in LLCs \union {Dram} : Received(Home)[n] = inbox[n]
  BY <1>1, ReceivedType DEF HomeMsg, Received, Inboxes, Nodes
<1>3. /\ PopBox(s, Tail(s), HomeMsg.from, HomeMsg.addr, HomeMsg.type)
      /\ \A f, a : ~(HomeMsg.from = f /\ HomeMsg.addr = a) => SameBox(s, Tail(s), f, a)
  BY <1>1, <1>2, TailBox
<1>4. /\ HomeMsg.type \in HomeTypes
      /\ \A i \in 1 .. Len(Tail(s)) : Tail(s)[i].type \in HomeTypes
  <2>1. /\ Len(s) \in Nat /\ Len(Tail(s)) = Len(s) - 1 /\ Len(s) > 0 /\ Head(s) = s[1]
        /\ \A i \in 1 .. Len(Tail(s)) : Tail(s)[i] = s[i + 1]
    BY <1>1
  <2>2. 1 \in 1 .. Len(s) /\ \A i \in 1 .. Len(Tail(s)) : i + 1 \in 1 .. Len(s)
    BY <2>1
  <2> QED
    BY <1>2, <2>1, <2>2 DEF HomeBox
<1> QED
  BY <1>2, <1>3, <1>4, MessageFields

-----------------------------------------------------------------------------
(* The directory processes the request at the front of line a's queue.     *)

\* The request is one of a cache; e is its entry, boxes and q the inboxes and
\* queues after room was made for the entry.
Taken(a, e, boxes, q) ==
  /\ Busy(a) /\ Front(a).type \in ReqTypes
  /\ boxes \in Inboxes /\ boxes[Home] = inbox[Home]
  /\ \A n \in LLCs \union {Dram} : SameBox(inbox[n], boxes[n], Home, a)
  /\ q \in Queues /\ q[a] = queue[a]
  /\ e \in Entry /\ e.state = dir[a].state /\ e.sharers = dir[a].sharers
  /\ e.state # "UNCACHED" => e = dir[a]

\* What happens to the line, and to the other ones.
LineKept(a) == EntryInv(a)' /\ \A l \in LLCs : LineInv(l, a)'
OthersKept(a, boxes, q) ==
  /\ inbox'[Home] = boxes[Home] /\ (work'.busy => work'.addr = a)
  /\ \A b \in Addrs : b # a =>
       /\ dir'[b] = dir[b] /\ queue'[b] = q[b]
       /\ \A n \in LLCs \union {Dram} : SameBox(boxes[n], inbox'[n], Home, b)

LEMMA FrontFacts ==
  ASSUME CInv, NEW a \in Addrs, Queued(a)
  PROVE  /\ queue \in Queues /\ queue[a] \in Seq(Request) /\ queue[a] # <<>>
         /\ Front(a) \in Request /\ queue[a][1] = Front(a) /\ 1 \in 1 .. Len(queue[a])
         /\ (Front(a).type \in ReqTypes => Front(a).from \in LLCs /\ Front(a).type # "NULLIFY_REQ")
         /\ (Front(a).type \notin ReqTypes => Front(a).type = "NULLIFY_REQ" /\ Front(a).from = None)
<1>1. queue \in Queues /\ queue[a] \in Seq(Request) /\ queue[a] # <<>>
  BY DEF CInv, TInv, TypeOK, DirectoryTypeOK, Queues, Queued
<1>2. Front(a) \in Request /\ queue[a][1] = Front(a) /\ 1 \in 1 .. Len(queue[a])
  BY <1>1 DEF Front
<1> QED
  BY <1>1, <1>2 DEF Request, ReqTypes

LEMMA RequesterFacts ==
  ASSUME CInv, NEW a \in Addrs, Busy(a), Front(a).type \in ReqTypes
  PROVE  /\ Queued(a) /\ ~Waits(a) /\ Front(a).from \in LLCs
         /\ EntryInv(a) /\ \A l \in LLCs : LineInv(l, a) /\ Settled(l, a)
         /\ ~Front(a).waitForData /\ dir[a] \in Entry
         /\ InQueue(Front(a).from, a, {Front(a).type}) /\ InQueue(Front(a).from, a, ReqTypes)
         /\ \A l : Fetching(l, a) <=> l = Front(a).from /\ Front(a).forwardingFrom # None
         /\ (Front(a).forwardingFrom # None => Front(a).type = "SH_REQ" /\ dir[a].state = "SHARED")
         /\ (Front(a).type \in Asks \/ Front(a).from \notin dir[a].sharers =>
               ~Held(Front(a).from, a) /\ ~Granted(Front(a).from, a) /\ ~Leaving(Front(a).from, a))
         /\ (Front(a).type \in Asks /\ Front(a).from \in dir[a].sharers => Front(a).forwardingFrom # None)
<1>1. Queued(a) /\ dir[a] \in Entry
  BY DEF CInv, TInv, TypeOK, DirectoryTypeOK, HandlersHaveWork, Busy, Queued
<1>2. ~Waits(a)
  BY DEF Waits
<1>3. Front(a).from \in LLCs /\ queue[a][1] = Front(a) /\ 1 \in 1 .. Len(queue[a])
  BY <1>1, FrontFacts
<1>4. EntryInv(a) /\ \A l \in LLCs : LineInv(l, a)
  BY DEF CInv
<1>5. \A l \in LLCs : Settled(l, a)
  BY <1>2, <1>4, WaitsForNothing
<1>6. ~Front(a).waitForData
  BY <1>4 DEF EntryInv, BusyFront
<1>7. InQueue(Front(a).from, a, {Front(a).type}) /\ InQueue(Front(a).from, a, ReqTypes)
  BY <1>3 DEF InQueue
<1>8. \A l : Fetching(l, a) <=> l = Front(a).from /\ Front(a).forwardingFrom # None
  BY <1>1, <1>6 DEF Fetching
<1>9. Front(a).forwardingFrom # None => Front(a).type = "SH_REQ" /\ dir[a].state = "SHARED"
  BY <1>1, <1>4 DEF EntryInv, FrontState
<1>10. Front(a).type \in Asks =>
         ~Held(Front(a).from, a) /\ ~Granted(Front(a).from, a) /\ ~Leaving(Front(a).from, a)
  <2> DEFINE r == Front(a).from
  <2>1. Front(a).type \in Asks => InQueue(r, a, Asks)
    BY <1>3 DEF InQueue
  <2>2. ~ToCache(r, a, RepTypes) /\ (Front(a).type \in Asks => ~Held(r, a) /\ ~Leaving(r, a))
    BY <1>3, <1>4, <1>7, <2>1 DEF LineInv, AskOnce, AskMiss, Asking
  <2>3. ~Granted(r, a)
    BY <2>2, HasSplit DEF Granted, ToCache
  <2> QED
    BY <2>2, <2>3
<1>11. Front(a).from \notin dir[a].sharers =>
         ~Held(Front(a).from, a) /\ ~Granted(Front(a).from, a) /\ ~Leaving(Front(a).from, a)
  BY <1>3, <1>4 DEF LineInv, Tokens
<1>12. Front(a).type \in Asks /\ Front(a).from \in dir[a].sharers => Front(a).forwardingFrom # None
  BY <1>3, <1>4, <1>8, <1>10 DEF LineInv, Tokens
<1> QED
  BY <1>1, <1>2, <1>3, <1>4, <1>5, <1>6, <1>7, <1>8, <1>9, <1>10, <1>11, <1>12

\* The read of the DRAM controller is over when the line is not waiting for it.
LEMMA DramStill ==
  ASSUME NEW a, DramOnce(a), Queued(a) => ~Front(a).waitForData,
         SameBox(inbox[Dram], inbox'[Dram], Home, a), SameBox(inbox[Home], inbox'[Home], Dram, a)
  PROVE  DramOnce(a)'
<1>1. ~Reading(a) /\ ~ReadDone(a)
  BY DEF DramOnce
<1>2. ~Reading(a)' /\ ~ReadDone(a)'
  BY <1>1 DEF Reading, ReadDone, SameBox
<1> QED
  BY <1>2 DEF DramOnce, SameBox

\* A recall of the copy of l is due for the request at the front; it is sent.
Due(l, a, y) ==
  /\ y \in {"INV_REQ", "FLUSH_REQ"} => Front(a).type \in {"EX_REQ", "UPGRADE_REQ"} /\ Front(a).from # l
  /\ y = "INV_REQ" => dir[a].state = "SHARED"
  /\ y = "FLUSH_REQ" /\ dir[a].state = "SHARED" =>
       Front(a).type = "UPGRADE_REQ" /\ Front(a).from \notin dir[a].sharers
  /\ y = "WB_REQ" => Front(a).type = "SH_REQ" /\ dir[a].state \in Owned
Told(l, a, y) == PushBox(inbox[l], inbox'[l], Home, a, y) /\ Due(l, a, y)

\* Copies are in the way of the request: they are recalled and it waits.
LEMMA RecallsKept ==
  ASSUME CInv, TInv', UNCHANGED llcVars, NEW a \in Addrs, HasEntry(a)',
         Busy(a), Front(a).type \in ReqTypes,
         dir'[a] = dir[a], queue'[a] = queue[a], ~Busy(a)',
         dir[a].state = "SHARED" => work.data = NoData,
         inbox'[Home] = inbox[Home], SameBox(inbox[Dram], inbox'[Dram], Home, a),
         \A l \in LLCs : SameBox(inbox[l], inbox'[l], Home, a) \/ \E y \in Recalls : Told(l, a, y)
  PROVE  LineKept(a)
<1> USE RequesterFacts
<1>1. /\ Queued(a)' /\ Front(a)' = Front(a) /\ Waits(a)'
      /\ \A l, T : InQueue(l, a, T)' <=> InQueue(l, a, T)
      /\ \A l : Fetching(l, a)' <=> Fetching(l, a)
  BY DEF Queued, Front, Waits, Fetching, InQueue
<1>2. \A l \in LLCs : SameBox(inbox[Home], inbox'[Home], l, a)
  BY SameBoxRefl
<1>3. ASSUME NEW l \in LLCs PROVE LineInv(l, a)'
  <2>1. LineInv(l, a) /\ Settled(l, a) /\ Once(l, a)' /\ SameBox(inbox[Home], inbox'[Home], l, a)
    <3>1. LineInv(l, a) /\ Settled(l, a)
      OBVIOUS
    <3>2. Once(l, a)
      BY <3>1 DEF LineInv, AskOnce, Once
    <3> QED
      BY <1>2, <3>1, <3>2 DEF Once
  <2>2. /\ Fetching(l, a)' => ~Held(l, a) /\ ~Granted(l, a) /\ ~Leaving(l, a)
        /\ l \in dir'[a].sharers <=> l \in dir[a].sharers \/ Fetching(l, a)'
    BY <1>1, <2>1 DEF LineInv, OneToken, Tokens
  <2>3. CASE SameBox(inbox[l], inbox'[l], Home, a)
    BY <1>1, <2>1, <2>2, <2>3, BystanderLine
  <2>4. ASSUME NEW y \in Recalls, Told(l, a, y) PROVE LineInv(l, a)'
    <3>1. y \in {"INV_REQ", "FLUSH_REQ"} => Recalled(l, a)'
      BY <1>1, <2>4 DEF Told, Due, Recalled
    <3>2. /\ PushBox(inbox[l], inbox'[l], Home, a, y)
          /\ y = "INV_REQ" => Recalled(l, a)' /\ dir[a].state = "SHARED"
          /\ y = "FLUSH_REQ" => /\ Recalled(l, a)'
                                /\ dir[a].state = "SHARED" =>
                                     Waits(a)' /\ Front(a)'.type = "UPGRADE_REQ" /\ Front(a)'.from \notin dir'[a].sharers
          /\ y = "WB_REQ" => Waits(a)' /\ Front(a)'.type = "SH_REQ" /\ dir[a].state \in Owned
      BY <1>1, <2>4, <3>1 DEF Told, Due
    <3> QED
      BY <1>1, <2>1, <2>2, <3>2, RecalledLine
  <2> QED
    BY <2>3, <2>4
<1>4. EntryInv(a)'
  <2>1. EntryShape(a)' /\ FrontState(a)' /\ QueueFresh(a)' /\ BusyFront(a)'
    BY <1>1 DEF EntryInv, EntryShape, FrontState, QueueFresh, BusyFront, ReqTypes
  <2>2. DramOnce(a)'
    BY DramStill, SameBoxRefl DEF EntryInv
  <2>3. ForwarderKnown(a)'
    BY DEF EntryInv, ForwarderKnown
  <2> QED
    BY <2>1, <2>2, <2>3 DEF EntryInv
<1> QED
  BY <1>3, <1>4 DEF LineKept

\* The requester becomes a sharer.
SharerAdded(a) ==
  /\ dir'[a].sharers = dir[a].sharers \union {Front(a).from}
  /\ dir'[a].state = dir[a].state \/ dir[a].sharers = {}
HoldsNothing(l, a) == ~Held(l, a) /\ ~Granted(l, a) /\ ~Leaving(l, a)

\* The line has to be fetched, from the forwarder or from DRAM: the request
\* remembers from where and waits.
LEMMA FetchKept ==
  ASSUME CInv, UNCHANGED llcVars, NEW a \in Addrs, Busy(a), Front(a).type \in ReqTypes,
         SharerAdded(a), HoldsNothing(Front(a).from, a), ~Busy(a)',
         NEW m, queue'[a] = [queue[a] EXCEPT ![1] = m], m.type = Front(a).type, m.from = Front(a).from,
         m.waitForData \/ m.forwardingFrom # None,
         inbox'[Home] = inbox[Home],
         \A l \in LLCs :
           \/ SameBox(inbox[l], inbox'[l], Home, a)
           \/ /\ PushBox(inbox[l], inbox'[l], Home, a, "WB_REQ")
              /\ ~m.waitForData /\ m.forwardingFrom = l /\ m.type = "SH_REQ" /\ dir[a].state = "SHARED"
  PROVE  \A l \in LLCs : LineInv(l, a)'
<1> USE RequesterFacts
<1> DEFINE r == Front(a).from
<1>1. /\ \A l, T : InQueue(l, a, T)' <=> InQueue(l, a, T)
      /\ \A l : Once(l, a)' <=> Once(l, a)
      /\ Queued(a)' /\ Front(a)' = m
  <2>1. QueueFresh(a) /\ queue \in Queues
    BY FrontFacts DEF EntryInv
  <2> QED
    BY <2>1, QueueMark
<1>2. \A l : Fetching(l, a)' <=> l = r
  BY <1>1 DEF Fetching
<1>3. SUFFICES ASSUME NEW l \in LLCs PROVE LineInv(l, a)'
  OBVIOUS
<1>4. LineInv(l, a) /\ Settled(l, a) /\ Once(l, a)' /\ SameBox(inbox[Home], inbox'[Home], l, a)
  <2>1. LineInv(l, a) /\ Settled(l, a)
    OBVIOUS
  <2>2. AskOnce(l, a)
    BY <2>1 DEF LineInv
  <2>3. Once(l, a)'
    BY <1>1, <2>2 DEF AskOnce, Once
  <2> QED
    BY <2>1, <2>3, SameBoxRefl
<1>5. /\ Fetching(l, a) => Fetching(l, a)'
      /\ Fetching(l, a)' => ~Held(l, a) /\ ~Granted(l, a) /\ ~Leaving(l, a)
      /\ l \in dir'[a].sharers <=> l \in dir[a].sharers \/ Fetching(l, a)'
      /\ dir'[a].state = dir[a].state \/ l \notin dir[a].sharers
  BY <1>2 DEF SharerAdded, HoldsNothing
<1>6. CASE SameBox(inbox[l], inbox'[l], Home, a)
  BY <1>1, <1>4, <1>5, <1>6, BystanderLine
<1>7. CASE /\ PushBox(inbox[l], inbox'[l], Home, a, "WB_REQ")
           /\ ~m.waitForData /\ m.forwardingFrom = l /\ m.type = "SH_REQ" /\ dir[a].state = "SHARED"
  <2>1. Waits(a)' /\ Front(a)'.type = "SH_REQ" /\ Front(a)'.forwardingFrom = l
    BY <1>1, <1>7 DEF Waits
  <2>2. "WB_REQ" \in Recalls /\ "WB_REQ" # "INV_REQ" /\ "WB_REQ" # "FLUSH_REQ"
    BY DEF Recalls
  <2>3. dir'[a].state = dir[a].state
    <3>1. EntryShape(a)
      BY DEF EntryInv
    <3> QED
      BY <1>7, <3>1 DEF SharerAdded, EntryShape
  <2> QED
    BY <1>1, <1>4, <1>5, <1>7, <2>1, <2>2, <2>3, RecalledLine
<1> QED
  BY <1>6, <1>7

\* The line is sent to the requester, whose request is done.
LEMMA GrantKept ==
  ASSUME CInv, UNCHANGED llcVars, NEW a \in Addrs, Queued(a), Front(a).type \in ReqTypes,
         SharerAdded(a), HoldsNothing(Front(a).from, a),
         \A l \in LLCs : Settled(l, a) /\ (Fetching(l, a) => l = Front(a).from),
         queue'[a] = Tail(queue[a]), NEW y \in Grants,
         \A l \in LLCs : SameBox(inbox[Home], inbox'[Home], l, a),
         \A l \in LLCs : IF l = Front(a).from THEN PushBox(inbox[l], inbox'[l], Home, a, y)
                         ELSE SameBox(inbox[l], inbox'[l], Home, a),
         y = "EX_REP" => dir'[a].state \in Owned, y = "SH_REP" => dir'[a].state = "SHARED",
         dir'[a].state = "MODIFIED" => Front(a).type \in {"EX_REQ", "UPGRADE_REQ"}
  PROVE  \A l \in LLCs : LineInv(l, a)'
<1> DEFINE r == Front(a).from
<1>0. /\ queue \in Queues /\ QueueFresh(a) /\ r \in LLCs
      /\ InQueue(r, a, ReqTypes) /\ InQueue(r, a, {Front(a).type})
  BY FrontFacts DEF InQueue, CInv, EntryInv
<1>1. /\ \A l : l # r => (\A T : InQueue(l, a, T)' <=> InQueue(l, a, T)) /\ (Once(l, a) => Once(l, a)')
      /\ \A l : l = r /\ Once(l, a) => Once(l, a)' /\ \A T : ~InQueue(l, a, T)'
      /\ Queued(a)' => ~Front(a)'.waitForData /\ Front(a)'.forwardingFrom = None
  BY <1>0, QueueTail
<1>2. \A l : ~Fetching(l, a)'
  BY <1>1 DEF Fetching
<1>3. SUFFICES ASSUME NEW l \in LLCs PROVE LineInv(l, a)'
  OBVIOUS
<1>4. LineInv(l, a) /\ Settled(l, a) /\ Once(l, a) /\ SameBox(inbox[Home], inbox'[Home], l, a)
  BY DEF CInv, LineInv, AskOnce, Once
<1>5. CASE l # r
  <2>1. /\ Fetching(l, a) => Fetching(l, a)'
        /\ Fetching(l, a)' => ~Held(l, a) /\ ~Granted(l, a) /\ ~Leaving(l, a)
        /\ l \in dir'[a].sharers <=> l \in dir[a].sharers \/ Fetching(l, a)'
        /\ dir'[a].state = dir[a].state \/ l \notin dir[a].sharers
    BY <1>2, <1>5 DEF SharerAdded
  <2>2. (\A T : InQueue(l, a, T)' <=> InQueue(l, a, T)) /\ Once(l, a)'
    BY <1>1, <1>4, <1>5
  <2> QED
    BY <1>4, <1>5, <2>1, <2>2, BystanderLine
<1>6. CASE l = r
  <2>1. dir'[a].state = "MODIFIED" => InQueue(l, a, {"EX_REQ", "UPGRADE_REQ"})
    <3>1. ASSUME NEW t \in {"EX_REQ", "UPGRADE_REQ"}, InQueue(l, a, {t})
          PROVE  InQueue(l, a, {"EX_REQ", "UPGRADE_REQ"})
      BY <3>1 DEF InQueue
    <3> QED
      BY <1>0, <1>6, <3>1
  <2>2. /\ ~Fetching(l, a)' /\ l \in dir'[a].sharers
        /\ dir'[a].state = dir[a].state \/ l \notin dir[a].sharers
        /\ ~Held(l, a) /\ ~Granted(l, a) /\ ~Leaving(l, a)
    BY <1>2, <1>6 DEF SharerAdded, HoldsNothing
  <2>3. (\A T : ~InQueue(l, a, T)') /\ Once(l, a)' /\ InQueue(l, a, ReqTypes)
    BY <1>0, <1>1, <1>4, <1>6
  <2> QED
    BY <1>4, <1>6, <2>1, <2>2, <2>3, GrantedLine
<1> QED
  BY <1>5, <1>6

\* The requester has the only copy left and may write it.
LEMMA UpgradeKept ==
  ASSUME CInv, UNCHANGED llcVars, NEW a \in Addrs, Busy(a), Front(a).type = "UPGRADE_REQ",
         dir[a].sharers = {Front(a).from}, dir'[a].sharers = dir[a].sharers, dir'[a].state = "MODIFIED",
         queue'[a] = Tail(queue[a]), inbox'[Home] = inbox[Home],
         \A l \in LLCs : IF l = Front(a).from THEN PushBox(inbox[l], inbox'[l], Home, a, "UPGRADE_REP")
                         ELSE SameBox(inbox[l], inbox'[l], Home, a)
  PROVE  \A l \in LLCs : LineInv(l, a)'
<1> DEFINE r == Front(a).from
<1>0. /\ Queued(a) /\ queue \in Queues /\ QueueFresh(a) /\ r \in LLCs
      /\ InQueue(r, a, {"UPGRADE_REQ"}) /\ \A l : ~Fetching(l, a)
      /\ \A l \in LLCs : Settled(l, a)
  BY RequesterFacts, FrontFacts DEF EntryInv, ReqTypes
<1>1. /\ \A l : l # r => (\A T : InQueue(l, a, T)' <=> InQueue(l, a, T)) /\ (Once(l, a) => Once(l, a)')
      /\ \A l : l = r /\ Once(l, a) => Once(l, a)' /\ \A T : ~InQueue(l, a, T)'
      /\ Queued(a)' => ~Front(a)'.waitForData /\ Front(a)'.forwardingFrom = None
  BY <1>0, QueueTail
<1>2. \A l : ~Fetching(l, a)'
  BY <1>1 DEF Fetching
<1>3. SUFFICES ASSUME NEW l \in LLCs PROVE LineInv(l, a)'
  OBVIOUS
<1>4. LineInv(l, a) /\ Settled(l, a) /\ Once(l, a) /\ SameBox(inbox[Home], inbox'[Home], l, a)
  BY <1>0, SameBoxRefl DEF CInv, LineInv, AskOnce, Once
<1>5. CASE l # r
  <2>1. /\ Fetching(l, a) => Fetching(l, a)'
        /\ Fetching(l, a)' => ~Held(l, a) /\ ~Granted(l, a) /\ ~Leaving(l, a)
        /\ l \in dir'[a].sharers <=> l \in dir[a].sharers \/ Fetching(l, a)'
        /\ dir'[a].state = dir[a].state \/ l \notin dir[a].sharers
    BY <1>0, <1>2, <1>5
  <2>2. (\A T : InQueue(l, a, T)' <=> InQueue(l, a, T)) /\ Once(l, a)'
    BY <1>1, <1>4, <1>5
  <2> QED
    BY <1>4, <1>5, <2>1, <2>2, BystanderLine
<1>6. CASE l = r
  <2>1. (\A T : ~InQueue(l, a, T)') /\ Once(l, a)' /\ InQueue(l, a, {"UPGRADE_REQ"})
    BY <1>0, <1>1, <1>4, <1>6
  <2>2. ~Fetching(l, a) /\ ~Fetching(l, a)' /\ l \in dir[a].sharers /\ l \in dir'[a].sharers
        /\ dir'[a].state \in Owned
    BY <1>0, <1>2, <1>6 DEF Owned
  <2>3. PushBox(inbox[l], inbox'[l], Home, a, "UPGRADE_REP")
    BY <1>6
  <2> QED
    BY <1>4, <2>1, <2>2, <2>3, UpgradedLine
<1> QED
  BY <1>5, <1>6

\* The entry of the line, when the front request is done.
LEMMA DoneEntry ==
  ASSUME CInv, TInv', NEW a \in Addrs, Queued(a), queue'[a] = Tail(queue[a]), DramOnce(a)',
         dir'[a].state = "UNCACHED" <=> dir'[a].sharers = {},
         dir'[a].state \in Owned => dir'[a].sharers = {dir'[a].owner},
         dir'[a].state # "UNCACHED" => HasEntry(a)',
         Busy(a)' => work'.data = NoData,
         Protocol = "MESIF" /\ dir'[a].state = "SHARED" => dir'[a].forwarder # Uninit
  PROVE  EntryInv(a)'
<1>1. queue \in Queues /\ QueueFresh(a)
  BY FrontFacts DEF CInv, EntryInv
<1>2. /\ QueueFresh(a)'
      /\ Queued(a)' => /\ ~Front(a)'.waitForData /\ Front(a)'.forwardingFrom = None
                       /\ Front(a)'.type # "NULLIFY_REQ"
  BY <1>1, QueueTail
<1>3. EntryShape(a)' /\ FrontState(a)' /\ ForwarderKnown(a)'
  BY <1>2 DEF EntryShape, FrontState, ForwarderKnown
<1>4. Busy(a)' => Queued(a)'
  BY DEF TInv, HandlersHaveWork, Busy, Queued
<1> QED
  BY <1>2, <1>3, <1>4 DEF EntryInv, BusyFront

\* The messages of the directory, one or several at a time.
LEMMA DirectorySends ==
  ASSUME NEW boxes \in Inboxes, NEW a \in Addrs, NEW y, NEW d,
         \/ y \in HomeToAny /\ d = NoData
         \/ y \in HomeToAnyData /\ d \in Data
  PROVE  /\ \A n \in LLCs \union {Dram} : Sent(boxes, Send(boxes, n, Msg(y, Home, a, d)), {n}, y, a)
         /\ \A S \in SUBSET LLCs : Sent(boxes, SendAll(boxes, S, Msg(y, Home, a, d)), S, y, a)
<1>1. Msg(y, Home, a, d) \in Message
  BY MsgType
<1>2. Msg(y, Home, a, d).from = Home /\ Msg(y, Home, a, d).addr = a /\ Msg(y, Home, a, d).type = y
  BY DEF Msg
<1>3. \A n \in LLCs \union {Dram} : Sent(boxes, Send(boxes, n, Msg(y, Home, a, d)), {n}, y, a)
  BY <1>1, <1>2, SendSent
<1>4. \A S \in SUBSET LLCs : Sent(boxes, SendAll(boxes, S, Msg(y, Home, a, d)), S, y, a)
  BY <1>1, <1>2, SendAllSent
<1> QED
  BY <1>3, <1>4

LEMMA SentLast ==
  ASSUME NEW a \in Addrs, NEW e, NEW boxes, NEW q, Taken(a, e, boxes, q), NEW S, NEW y,
         Sent(boxes, inbox', S, y, a)
  PROVE  /\ inbox'[Home] = inbox[Home] /\ inbox'[Home] = boxes[Home]
         /\ \A n \in LLCs \union {Dram} : IF n \in S THEN PushBox(inbox[n], inbox'[n], Home, a, y)
                                          ELSE SameBox(inbox[n], inbox'[n], Home, a)
         /\ \A b \in Addrs : b # a =>
              \A n \in LLCs \union {Dram} : SameBox(boxes[n], inbox'[n], Home, b)
<1>1. inbox'[Home] = inbox[Home] /\ inbox'[Home] = boxes[Home]
  BY DEF Sent, Taken
<1>2. ASSUME NEW n \in LLCs \union {Dram}
      PROVE  IF n \in S THEN PushBox(inbox[n], inbox'[n], Home, a, y)
             ELSE SameBox(inbox[n], inbox'[n], Home, a)
  <2>1. SameBox(inbox[n], boxes[n], Home, a)
    BY DEF Taken
  <2>2. IF n \in S THEN PushBox(boxes[n], inbox'[n], Home, a, y)
        ELSE SameBox(boxes[n], inbox'[n], Home, a)
    BY DEF Sent
  <2> QED
    BY <2>1, <2>2, BoxTrans
<1>3. \A b \in Addrs : b # a => \A n \in LLCs \union {Dram} : SameBox(boxes[n], inbox'[n], Home, b)
  BY DEF Sent
<1> QED
  BY <1>1, <1>2, <1>3

\* What an entry and a queue become.
LEMMA TakenFacts ==
  ASSUME CInv, NEW a \in Addrs, NEW e, NEW boxes, NEW q, Taken(a, e, boxes, q)
  PROVE  /\ Busy(a) /\ Front(a).type \in ReqTypes /\ Queued(a) /\ Front(a).from \in LLCs
         /\ boxes \in Inboxes /\ e \in Entry /\ dir[a] \in Entry
         /\ e.state = dir[a].state /\ e.sharers = dir[a].sharers /\ (e.state # "UNCACHED" => e = dir[a])
         /\ q[a] = queue[a] /\ q[a][1] = Front(a) /\ EntryInv(a)
         /\ (\A x : dir' = [dir EXCEPT ![a] = x] =>
               dir'[a] = x /\ \A b \in Addrs : b # a => dir'[b] = dir[b])
         /\ (\A x : queue' = [q EXCEPT ![a] = x] =>
               queue'[a] = x /\ \A b \in Addrs : b # a => queue'[b] = q[b])
         /\ (Wait(q) => queue'[a] = queue[a] /\ ~Busy(a)' /\ ~work'.busy /\ queue' = q)
         /\ (Complete(q, a) => /\ queue'[a] = Tail(queue[a]) /\ (Busy(a)' => work'.data = NoData)
                               /\ work'.busy => work'.addr = a
                               /\ \A b \in Addrs : b # a => queue'[b] = q[b])
<1>1. /\ Busy(a) /\ Front(a).type \in ReqTypes /\ boxes \in Inboxes /\ e \in Entry
      /\ e.state = dir[a].state /\ e.sharers = dir[a].sharers /\ (e.state # "UNCACHED" => e = dir[a])
      /\ q[a] = queue[a] /\ q \in [Addrs -> Seq(Request)]
  BY DEF Taken, Queues
<1>2. /\ Queued(a) /\ Front(a).from \in LLCs /\ dir[a] \in Entry /\ EntryInv(a)
      /\ queue[a][1] = Front(a) /\ dir \in [Addrs -> Entry]
  BY <1>1, RequesterFacts, FrontFacts, DirectoryFacts DEF CInv
<1>3. \A x : dir' = [dir EXCEPT ![a] = x] => dir'[a] = x /\ \A b \in Addrs : b # a => dir'[b] = dir[b]
  BY <1>2
<1>4. \A x : queue' = [q EXCEPT ![a] = x] => queue'[a] = x /\ \A b \in Addrs : b # a => queue'[b] = q[b]
  BY <1>1
<1>5. Wait(q) => queue'[a] = queue[a] /\ ~Busy(a)' /\ ~work'.busy /\ queue' = q
  BY <1>1 DEF Wait, Busy, Idle
<1>6. Complete(q, a) => /\ queue'[a] = Tail(queue[a]) /\ (Busy(a)' => work'.data = NoData)
                        /\ work'.busy => work'.addr = a
                        /\ \A b \in Addrs : b # a => queue'[b] = q[b]
  BY <1>1, <1>4 DEF Complete, Busy, Idle, Process
<1> QED
  BY <1>1, <1>2, <1>3, <1>4, <1>5, <1>6

LEMMA MarkedQueue ==
  ASSUME NEW a \in Addrs, NEW q \in Queues, q[a] = queue[a], queue[a][1] = Front(a)
  PROVE  /\ \A f : Wait([q EXCEPT ![a][1].forwardingFrom = f]) =>
              /\ queue'[a] = [queue[a] EXCEPT ![1] = [Front(a) EXCEPT !.forwardingFrom = f]]
              /\ ~work'.busy /\ \A b \in Addrs : b # a => queue'[b] = q[b]
         /\ Wait([q EXCEPT ![a][1].waitForData = TRUE]) =>
              /\ queue'[a] = [queue[a] EXCEPT ![1] = [Front(a) EXCEPT !.waitForData = TRUE]]
              /\ ~work'.busy /\ \A b \in Addrs : b # a => queue'[b] = q[b]
<1>1. q \in [Addrs -> Seq(Request)]
  BY DEF Queues
<1>2. ASSUME NEW f, Wait([q EXCEPT ![a][1].forwardingFrom = f])
      PROVE  /\ queue'[a] = [queue[a] EXCEPT ![1] = [Front(a) EXCEPT !.forwardingFrom = f]]
             /\ ~work'.busy /\ \A b \in Addrs : b # a => queue'[b] = q[b]
  BY <1>1, <1>2 DEF Wait, Idle
<1>3. ASSUME Wait([q EXCEPT ![a][1].waitForData = TRUE])
      PROVE  /\ queue'[a] = [queue[a] EXCEPT ![1] = [Front(a) EXCEPT !.waitForData = TRUE]]
             /\ ~work'.busy /\ \A b \in Addrs : b # a => queue'[b] = q[b]
  BY <1>1, <1>3 DEF Wait, Idle
<1> QED
  BY <1>2, <1>3

\* retrieveDataAndSendToL2Cache(), with x the entry as the handler leaves it.
LEMMA RetrieveKept ==
  ASSUME CInv, TInv', UNCHANGED llcVars, NEW a \in Addrs, HasEntry(a)',
         NEW e, NEW boxes, NEW q, Taken(a, e, boxes, q),
         NEW x \in Entry, NEW y \in Grants, NEW d \in Data \union {NoData},
         Retrieve(a, x, boxes, q, y, d), d = NoData => work.data = NoData,
         x.sharers = dir[a].sharers \union {Front(a).from},
         x.state = dir[a].state \/ dir[a].sharers = {},
         x.state # "UNCACHED", x.state \in Owned => x.sharers = {x.owner},
         HoldsNothing(Front(a).from, a),
         y = "EX_REP" => x.state \in Owned, y = "SH_REP" => x.state = "SHARED",
         IF x.state = "MODIFIED" THEN Front(a).type \in {"EX_REQ", "UPGRADE_REQ"}
         ELSE Front(a).type = "SH_REQ",
         x.state = "SHARED" => Protocol = "MSI" \/ (dir[a].state = "SHARED" /\ x.forwarder = dir[a].forwarder)
  PROVE  LineKept(a) /\ OthersKept(a, boxes, q)
<1> DEFINE r == Front(a).from
<1>0. /\ Busy(a) /\ Front(a).type \in ReqTypes /\ Queued(a) /\ r \in LLCs /\ Front(a) \in Request
      /\ boxes \in Inboxes /\ dir[a] \in Entry /\ q \in Queues
      /\ q[a] = queue[a] /\ queue[a][1] = Front(a) /\ queue \in Queues /\ QueueFresh(a)
      /\ (\A z : dir' = [dir EXCEPT ![a] = z] =>
            dir'[a] = z /\ \A b \in Addrs : b # a => dir'[b] = dir[b])
      /\ (Complete(q, a) => /\ queue'[a] = Tail(queue[a]) /\ (Busy(a)' => work'.data = NoData)
                            /\ work'.busy => work'.addr = a
                            /\ \A b \in Addrs : b # a => queue'[b] = q[b])
  <2>1. QueueFresh(a) /\ q \in Queues
    BY DEF CInv, EntryInv, Taken
  <2> QED
    BY <2>1, TakenFacts, FrontFacts
<1>1. /\ EntryInv(a) /\ ~Front(a).waitForData /\ \A l \in LLCs : SameBox(inbox[Home], inbox[Home], l, a)
      /\ SameBox(inbox[Home], inbox[Home], Dram, a)
      /\ \A l \in LLCs : Settled(l, a) /\ (Fetching(l, a) => l = r)
  BY <1>0, RequesterFacts, SameBoxRefl
<1>2. x.sharers # {} /\ r \in LLCs \union {Dram} /\ r # Dram /\ Dram \notin LLCs
  BY <1>0, NetworkAssumption
<1>3. CASE /\ d # NoData
           /\ dir' = [dir EXCEPT ![a] = [x EXCEPT !.forwarder = r]]
           /\ inbox' = Send(boxes, r, Msg(y, Home, a, d))
           /\ Complete(q, a)
  <2>1. Sent(boxes, inbox', {r}, y, a)
    BY <1>0, <1>2, <1>3, DirectorySends DEF Grants, HomeToAnyData
  <2>2. /\ inbox'[Home] = inbox[Home] /\ inbox'[Home] = boxes[Home]
        /\ \A n \in LLCs \union {Dram} : IF n = r THEN PushBox(inbox[n], inbox'[n], Home, a, y)
                                         ELSE SameBox(inbox[n], inbox'[n], Home, a)
        /\ \A b \in Addrs : b # a => \A n \in LLCs \union {Dram} : SameBox(boxes[n], inbox'[n], Home, b)
    BY <2>1, SentLast
  <2>3. /\ dir'[a].sharers = x.sharers /\ dir'[a].state = x.state /\ dir'[a].owner = x.owner
        /\ dir'[a].forwarder = r /\ \A b \in Addrs : b # a => dir'[b] = dir[b]
    <3>1. dir'[a] = [x EXCEPT !.forwarder = r] /\ \A b \in Addrs : b # a => dir'[b] = dir[b]
      BY <1>0, <1>3
    <3> QED
      BY <3>1 DEF Entry
  <2>4. /\ queue'[a] = Tail(queue[a]) /\ (Busy(a)' => work'.data = NoData)
        /\ (work'.busy => work'.addr = a) /\ \A b \in Addrs : b # a => queue'[b] = q[b]
    BY <1>0, <1>3
  <2>5. SharerAdded(a)
    BY <2>3 DEF SharerAdded
  <2>6. \A l \in LLCs : LineInv(l, a)'
    BY <1>0, <1>1, <2>2, <2>3, <2>4, <2>5, GrantKept
  <2>7. DramOnce(a)'
    BY <1>1, <1>2, <2>2, DramStill DEF EntryInv
  <2>8. EntryInv(a)'
    BY <1>0, <1>2, <2>3, <2>4, <2>7, DoneEntry, NetworkAssumption DEF Uninit, Owned
  <2> QED
    BY <2>2, <2>3, <2>4, <2>6, <2>8 DEF LineKept, OthersKept
<1>4. CASE /\ d = NoData
           /\ Protocol = "MESIF" /\ q[a][1].forwardingFrom = None
           /\ x.state = "SHARED" /\ x.forwarder # None /\ x.forwarder # Uninit
           /\ dir' = [dir EXCEPT ![a] = x]
           /\ inbox' = Send(boxes, x.forwarder, Msg("WB_REQ", Home, a, NoData))
           /\ Wait([q EXCEPT ![a][1].forwardingFrom = x.forwarder])
  <2> DEFINE f == x.forwarder
             m == [Front(a) EXCEPT !.forwardingFrom = f]
  <2>1. f \in LLCs
    BY <1>4 DEF Entry
  <2>2. Sent(boxes, inbox', {f}, "WB_REQ", a)
    BY <1>0, <1>4, <2>1, DirectorySends DEF HomeToAny
  <2>3. /\ inbox'[Home] = inbox[Home] /\ inbox'[Home] = boxes[Home]
        /\ \A n \in LLCs \union {Dram} : IF n = f THEN PushBox(inbox[n], inbox'[n], Home, a, "WB_REQ")
                                         ELSE SameBox(inbox[n], inbox'[n], Home, a)
        /\ \A b \in Addrs : b # a => \A n \in LLCs \union {Dram} : SameBox(boxes[n], inbox'[n], Home, b)
    BY <2>2, SentLast
  <2>4. dir'[a] = x /\ \A b \in Addrs : b # a => dir'[b] = dir[b]
    BY <1>0, <1>4
  <2>5. /\ m.type = Front(a).type /\ m.from = r /\ m.forwardingFrom = f /\ m.waitForData = Front(a).waitForData
    BY <1>0 DEF Request
  <2>6. queue'[a] = [queue[a] EXCEPT ![1] = m] /\ ~work'.busy /\ \A b \in Addrs : b # a => queue'[b] = q[b]
    <3>1. q \in Queues /\ q[a] = queue[a] /\ queue[a][1] = Front(a)
      BY <1>0
    <3>2. Wait([q EXCEPT ![a][1].forwardingFrom = x.forwarder])
      BY <1>4
    <3>3. \A g : Wait([q EXCEPT ![a][1].forwardingFrom = g]) =>
            /\ queue'[a] = [queue[a] EXCEPT ![1] = [Front(a) EXCEPT !.forwardingFrom = g]]
            /\ ~work'.busy /\ \A b \in Addrs : b # a => queue'[b] = q[b]
      BY <3>1, MarkedQueue
    <3> QED
      BY <3>2, <3>3, Zenon
  <2>7. ~Busy(a)' /\ SharerAdded(a) /\ f # None
    BY <1>0, <2>1, <2>4, <2>6, NetworkAssumption DEF Busy, SharerAdded
  <2>8. dir[a].state = "SHARED" /\ Front(a).type = "SH_REQ"
    BY <1>4
  <2> HIDE DEF m
  <2>9. \A l \in LLCs : LineInv(l, a)'
    BY <1>0, <1>1, <2>3, <2>5, <2>6, <2>7, <2>8, FetchKept
  <2>10. Queued(a)' /\ Front(a)' = m /\ QueueFresh(a)'
    BY <1>0, <2>5, <2>6, QueueMark
  <2>11. DramOnce(a)'
    BY <1>1, <2>1, <2>3, DramStill, NetworkAssumption DEF EntryInv
  <2>12. EntryShape(a)' /\ FrontState(a)' /\ BusyFront(a)' /\ ForwarderKnown(a)'
    BY <1>1, <1>2, <1>4, <2>4, <2>5, <2>7, <2>8, <2>10
       DEF EntryShape, FrontState, BusyFront, ForwarderKnown
  <2> QED
    BY <2>3, <2>4, <2>6, <2>9, <2>10, <2>11, <2>12 DEF LineKept, OthersKept, EntryInv
<1>5. CASE /\ d = NoData
           /\ dir' = [dir EXCEPT ![a] = x]
           /\ inbox' = Send(boxes, Dram, Msg("DRAM_READ_REQ", Home, a, NoData))
           /\ Wait([q EXCEPT ![a][1].waitForData = TRUE])
  <2> DEFINE m == [Front(a) EXCEPT !.waitForData = TRUE]
  <2>2. Sent(boxes, inbox', {Dram}, "DRAM_READ_REQ", a)
    BY <1>0, <1>5, DirectorySends DEF HomeToAny
  <2>3. /\ inbox'[Home] = inbox[Home] /\ inbox'[Home] = boxes[Home]
        /\ \A n \in LLCs \union {Dram} : IF n = Dram THEN PushBox(inbox[n], inbox'[n], Home, a, "DRAM_READ_REQ")
                                         ELSE SameBox(inbox[n], inbox'[n], Home, a)
        /\ \A b \in Addrs : b # a => \A n \in LLCs \union {Dram} : SameBox(boxes[n], inbox'[n], Home, b)
    BY <2>2, SentLast
  <2>4. dir'[a] = x /\ \A b \in Addrs : b # a => dir'[b] = dir[b]
    BY <1>0, <1>5
  <2>5. /\ m.type = Front(a).type /\ m.from = r /\ m.forwardingFrom = Front(a).forwardingFrom /\ m.waitForData
    BY <1>0 DEF Request
  <2>6. queue'[a] = [queue[a] EXCEPT ![1] = m] /\ ~work'.busy /\ \A b \in Addrs : b # a => queue'[b] = q[b]
    BY <1>0, <1>5, MarkedQueue
  <2>7. ~Busy(a)' /\ SharerAdded(a)
    BY <2>4, <2>6 DEF Busy, SharerAdded
  <2> HIDE DEF m
  <2>9. \A l \in LLCs : LineInv(l, a)'
    BY <1>0, <1>1, <1>2, <2>3, <2>5, <2>6, <2>7, FetchKept
  <2>10. Queued(a)' /\ Front(a)' = m /\ QueueFresh(a)'
    BY <1>0, <2>5, <2>6, QueueMark
  <2>11. DramOnce(a)'
    <3>1. ~Reading(a) /\ ~ReadDone(a)
      BY <1>1 DEF EntryInv, DramOnce
    <3>2. PushBox(inbox[Dram], inbox'[Dram], Home, a, "DRAM_READ_REQ")
      BY <2>3
    <3> QED
      BY <1>1, <2>3, <2>5, <2>10, <3>1, <3>2 DEF EntryInv, DramOnce, Reading, ReadDone, PushBox
  <2>12. FrontState(a)'
    <3>1. Front(a).forwardingFrom # None => Front(a).type = "SH_REQ" /\ dir[a].state = "SHARED"
      BY <1>0, RequesterFacts
    <3>2. x.state \in {"SHARED", "EXCLUSIVE", "MODIFIED"}
      BY DEF Entry, DStates
    <3>3. dir[a].state = "SHARED" => x.state = "SHARED"
      BY <1>1 DEF EntryInv, EntryShape
    <3>4. m.type # "NULLIFY_REQ"
      BY <1>0, <2>5 DEF ReqTypes
    <3> QED
      BY <2>4, <2>5, <2>10, <3>1, <3>2, <3>3, <3>4 DEF FrontState
  <2>13. EntryShape(a)' /\ BusyFront(a)'
    BY <1>1, <1>2, <2>4, <2>7 DEF EntryShape, BusyFront
  <2>14. ForwarderKnown(a)'
    BY <1>1, <1>5, <2>4 DEF EntryInv, ForwarderKnown
  <2> QED
    BY <2>3, <2>4, <2>6, <2>9, <2>10, <2>11, <2>12, <2>13, <2>14 DEF LineKept, OthersKept, EntryInv
<1> QED
  <2>1. q[a][1].from = r
    BY <1>0
  <2> QED
    BY <1>3, <1>4, <1>5, <2>1 DEF Retrieve

\* The request handlers that recall copies and wait for them.
LEMMA RecallsTaken ==
  ASSUME CInv, TInv', UNCHANGED llcVars, NEW a \in Addrs, HasEntry(a)',
         NEW e, NEW boxes, NEW q, Taken(a, e, boxes, q),
         NEW S \in SUBSET LLCs, NEW y \in Recalls, Sent(boxes, inbox', S, y, a),
         Wait(q), dir' = [dir EXCEPT ![a] = e], e.state # "UNCACHED",
         dir[a].state = "SHARED" => work.data = NoData, \A l \in S : Due(l, a, y)
  PROVE  LineKept(a) /\ OthersKept(a, boxes, q)
<1>1. /\ Busy(a) /\ Front(a).type \in ReqTypes /\ dir'[a] = dir[a] /\ \A b \in Addrs : b # a => dir'[b] = dir[b]
      /\ queue'[a] = queue[a] /\ ~Busy(a)' /\ ~work'.busy /\ queue' = q
  BY TakenFacts
<1>2. /\ inbox'[Home] = inbox[Home] /\ inbox'[Home] = boxes[Home]
      /\ \A n \in LLCs \union {Dram} : IF n \in S THEN PushBox(inbox[n], inbox'[n], Home, a, y)
                                       ELSE SameBox(inbox[n], inbox'[n], Home, a)
      /\ \A b \in Addrs : b # a => \A n \in LLCs \union {Dram} : SameBox(boxes[n], inbox'[n], Home, b)
  BY SentLast
<1>3. SameBox(inbox[Dram], inbox'[Dram], Home, a)
  BY <1>2, NetworkAssumption
<1>4. \A l \in LLCs : SameBox(inbox[l], inbox'[l], Home, a) \/ \E z \in Recalls : Told(l, a, z)
  BY <1>2 DEF Told
<1>5. LineKept(a)
  BY <1>1, <1>2, <1>3, <1>4, RecallsKept
<1> QED
  BY <1>1, <1>2, <1>5 DEF OthersKept

\* An upgrade of a line the requester has lost: one sharer is flushed, the others
\* are invalidated.
LEMMA FlushTaken ==
  ASSUME CInv, TInv', UNCHANGED llcVars, NEW a \in Addrs, HasEntry(a)',
         NEW e, NEW boxes, NEW q, Taken(a, e, boxes, q),
         NEW s \in LLCs, NEW S \in SUBSET LLCs, s \notin S,
         NEW between, Sent(boxes, between, {s}, "FLUSH_REQ", a), Sent(between, inbox', S, "INV_REQ", a),
         Wait(q), dir' = [dir EXCEPT ![a] = e], e.state # "UNCACHED",
         dir[a].state = "SHARED" => work.data = NoData,
         Due(s, a, "FLUSH_REQ"), \A l \in S : Due(l, a, "INV_REQ")
  PROVE  LineKept(a) /\ OthersKept(a, boxes, q)
<1>1. /\ Busy(a) /\ Front(a).type \in ReqTypes /\ dir'[a] = dir[a] /\ \A b \in Addrs : b # a => dir'[b] = dir[b]
      /\ queue'[a] = queue[a] /\ ~Busy(a)' /\ ~work'.busy /\ queue' = q
  BY TakenFacts
<1>2. inbox'[Home] = inbox[Home] /\ inbox'[Home] = boxes[Home]
  BY DEF Sent, Taken
<1>3. ASSUME NEW n \in LLCs \union {Dram}
      PROVE  \/ SameBox(inbox[n], inbox'[n], Home, a) /\ n # s /\ n \notin S
             \/ PushBox(inbox[n], inbox'[n], Home, a, "FLUSH_REQ") /\ n = s
             \/ PushBox(inbox[n], inbox'[n], Home, a, "INV_REQ") /\ n \in S
  <2>1. SameBox(inbox[n], boxes[n], Home, a)
    BY DEF Taken
  <2>2. IF n = s THEN PushBox(boxes[n], between[n], Home, a, "FLUSH_REQ")
        ELSE SameBox(boxes[n], between[n], Home, a)
    BY DEF Sent
  <2>3. IF n \in S THEN PushBox(between[n], inbox'[n], Home, a, "INV_REQ")
        ELSE SameBox(between[n], inbox'[n], Home, a)
    BY DEF Sent
  <2>4. IF n = s THEN PushBox(inbox[n], between[n], Home, a, "FLUSH_REQ")
        ELSE SameBox(inbox[n], between[n], Home, a)
    BY <2>1, <2>2, BoxTrans
  <2> QED
    BY <2>3, <2>4, BoxTrans
<1>4. ASSUME NEW n \in LLCs \union {Dram}, NEW b \in Addrs, b # a
      PROVE  SameBox(boxes[n], inbox'[n], Home, b)
  <2>1. SameBox(boxes[n], between[n], Home, b) /\ SameBox(between[n], inbox'[n], Home, b)
    BY <1>4 DEF Sent
  <2> QED
    BY <2>1, BoxTrans
<1>5. SameBox(inbox[Dram], inbox'[Dram], Home, a)
  BY <1>3, NetworkAssumption
<1>6. \A l \in LLCs : SameBox(inbox[l], inbox'[l], Home, a) \/ \E z \in Recalls : Told(l, a, z)
  <2>1. "FLUSH_REQ" \in Recalls /\ "INV_REQ" \in Recalls
    BY DEF Recalls
  <2> QED
    BY <1>3, <2>1 DEF Told
<1>7. LineKept(a)
  BY <1>1, <1>2, <1>5, <1>6, RecallsKept
<1> QED
  BY <1>1, <1>2, <1>4, <1>7 DEF OthersKept

\* A full-map entry has room for every cache.
LEMMA RoomForAll ==
  ASSUME FullMap, NEW e \in Entry, NEW r \in LLCs, r \notin e.sharers
  PROVE  CanAddSharer(e)
<1>1. e.sharers \subseteq LLCs /\ e.sharers # LLCs /\ IsFiniteSet(LLCs) /\ MaxHwSharers \in Nat
  BY NetworkAssumption, DirectoryAssumption DEF Entry
<1>2. /\ IsFiniteSet(e.sharers) /\ Cardinality(e.sharers) <= Cardinality(LLCs)
      /\ Cardinality(e.sharers) # Cardinality(LLCs)
  BY <1>1, FS_Subset
<1>3. Cardinality(e.sharers) \in Nat /\ Cardinality(LLCs) \in Nat
  BY <1>1, <1>2, FS_CardinalityType
<1> QED
  BY <1>1, <1>2, <1>3 DEF CanAddSharer, FullMap

\* The entry of the line the front request is for.
LEMMA TakenEntry ==
  ASSUME CInv, NEW a \in Addrs, NEW e, NEW boxes, NEW q, Taken(a, e, boxes, q)
  PROVE  /\ e \in Entry /\ e.state \in DStates /\ e.sharers \subseteq LLCs
         /\ (e.state \in Owned => e.sharers = {e.owner} /\ e.owner \in LLCs /\ dir[a].state \in Owned)
         /\ (e.state # "UNCACHED" => e = dir[a])
         /\ (Front(a).type = "EX_REQ" => Front(a).from \notin e.sharers)
         /\ (work.data # NoData => e.state = "UNCACHED" \/ (e.state = "SHARED" /\ Front(a).type = "SH_REQ"))
         /\ (Front(a).type \in Asks \/ Front(a).from \notin e.sharers => HoldsNothing(Front(a).from, a))
<1>1. /\ e \in Entry /\ EntryInv(a) /\ e.sharers = dir[a].sharers /\ e.state = dir[a].state
      /\ (e.state # "UNCACHED" => e = dir[a]) /\ Busy(a) /\ Front(a).type \in ReqTypes
  BY TakenFacts
<1>2. e.state \in DStates /\ e.sharers \subseteq LLCs
  BY <1>1 DEF Entry
<1>3. e.state \in Owned => e.sharers = {e.owner} /\ e.owner \in LLCs /\ dir[a].state \in Owned
  BY <1>1, <1>2 DEF EntryInv, EntryShape, Owned
<1>4. /\ Front(a).type = "EX_REQ" => Front(a).from \notin e.sharers
      /\ Front(a).type \in Asks \/ Front(a).from \notin e.sharers => HoldsNothing(Front(a).from, a)
  BY <1>1, RequesterFacts DEF Asks, HoldsNothing
<1>5. work.data # NoData => e.state = "UNCACHED" \/ (e.state = "SHARED" /\ Front(a).type = "SH_REQ")
  BY <1>1 DEF EntryInv, BusyFront
<1> QED
  BY <1>1, <1>2, <1>3, <1>4, <1>5

\* Messages that recall copies.
LEMMA RecallSends ==
  ASSUME NEW boxes \in Inboxes, NEW a \in Addrs, NEW y \in Recalls
  PROVE  /\ \A n \in LLCs : Sent(boxes, Send(boxes, n, Msg(y, Home, a, NoData)), {n}, y, a)
         /\ \A S \in SUBSET LLCs : Sent(boxes, SendAll(boxes, S, Msg(y, Home, a, NoData)), S, y, a)
<1>1. y \in HomeToAny
  BY DEF Recalls, HomeToAny
<1> QED
  BY <1>1, DirectorySends

\* processExReqFromL2Cache()
LEMMA ProcessExKept ==
  ASSUME CInv, TInv', UNCHANGED llcVars, NEW a \in Addrs, HasEntry(a)',
         NEW e, NEW boxes, NEW q, Taken(a, e, boxes, q),
         Front(a).type = "EX_REQ", ProcessExReq(a, e, boxes, q, work.data)
  PROVE  LineKept(a) /\ OthersKept(a, boxes, q)
<1> DEFINE r == Front(a).from
<1>1. /\ e \in Entry /\ e.state \in DStates /\ e.sharers \subseteq LLCs
      /\ (e.state \in Owned => e.sharers = {e.owner} /\ e.owner \in LLCs)
      /\ (e.state # "UNCACHED" => e = dir[a])
      /\ r \notin e.sharers /\ HoldsNothing(r, a)
  BY TakenEntry
<1>2. /\ boxes \in Inboxes /\ q[a][1] = Front(a) /\ r \in LLCs /\ dir[a].sharers = e.sharers
      /\ dir[a].state = e.state /\ work.data \in Data \union {NoData}
  BY TakenFacts, WorkFields, DirectoryFacts DEF CInv, Busy
<1>3. CASE /\ e.state \in {"EXCLUSIVE", "MODIFIED"} /\ work.data = NoData
           /\ inbox' = Send(boxes, e.owner, Msg("FLUSH_REQ", Home, a, NoData))
           /\ Wait(q) /\ dir' = [dir EXCEPT ![a] = e]
  <2>1. "FLUSH_REQ" \in Recalls /\ {e.owner} \in SUBSET LLCs /\ e.state # "UNCACHED"
    BY <1>1, <1>3 DEF Recalls, Owned
  <2>2. Sent(boxes, inbox', {e.owner}, "FLUSH_REQ", a)
    BY <1>1, <1>2, <1>3, <2>1, RecallSends
  <2>3. \A l \in {e.owner} : Due(l, a, "FLUSH_REQ")
    BY <1>1, <1>2, <1>3 DEF Due, Owned
  <2> QED
    BY <1>3, <2>1, <2>2, <2>3, RecallsTaken
<1>4. CASE /\ e.state = "SHARED" /\ work.data = NoData
           /\ Invalidate(a, e.sharers, boxes, q) /\ dir' = [dir EXCEPT ![a] = e]
  <2>1. "INV_REQ" \in Recalls /\ e.sharers \in SUBSET LLCs
    BY <1>1 DEF Recalls
  <2>2. Sent(boxes, inbox', e.sharers, "INV_REQ", a) /\ Wait(q)
    BY <1>2, <1>4, <2>1, RecallSends DEF Invalidate
  <2>3. \A l \in e.sharers : Due(l, a, "INV_REQ")
    BY <1>1, <1>2, <1>4 DEF Due
  <2> QED
    BY <1>4, <2>1, <2>2, <2>3, RecallsTaken
<1>5. CASE /\ e.state = "UNCACHED" /\ e.sharers = {}
           /\ Retrieve(a, [e EXCEPT !.state = "MODIFIED", !.sharers = {r}, !.owner = r],
                       boxes, q, "EX_REP", work.data)
  <2> DEFINE x == [e EXCEPT !.state = "MODIFIED", !.sharers = {r}, !.owner = r]
  <2>1. x \in Entry /\ x.state = "MODIFIED" /\ x.sharers = {r} /\ x.owner = r
    BY <1>1, <1>2 DEF Entry, DStates
  <2>2. "EX_REP" \in Grants /\ Retrieve(a, x, boxes, q, "EX_REP", work.data)
    BY <1>5 DEF Grants
  <2> HIDE DEF x
  <2>3. /\ x.sharers = dir[a].sharers \union {r} /\ dir[a].sharers = {} /\ x.state \in Owned
    BY <1>2, <1>5, <2>1 DEF Owned
  <2> QED
    BY <1>1, <1>2, <2>1, <2>2, <2>3, RetrieveKept
<1> QED
  BY <1>2, <1>3, <1>4, <1>5 DEF ProcessExReq

\* processShReqFromL2Cache()
LEMMA ProcessShKept ==
  ASSUME CInv, TInv', FullMap, UNCHANGED llcVars, NEW a \in Addrs, HasEntry(a)',
         NEW e, NEW boxes, NEW q, Taken(a, e, boxes, q),
         Front(a).type = "SH_REQ", ProcessShReq(a, e, boxes, q, work.data)
  PROVE  LineKept(a) /\ OthersKept(a, boxes, q)
<1> DEFINE r == Front(a).from
<1>1. /\ e \in Entry /\ e.state \in DStates /\ e.sharers \subseteq LLCs
      /\ (e.state \in Owned => e.sharers = {e.owner} /\ e.owner \in LLCs /\ dir[a].state \in Owned)
      /\ (e.state # "UNCACHED" => e = dir[a])
      /\ HoldsNothing(r, a)
  BY TakenEntry DEF Asks
<1>2. /\ boxes \in Inboxes /\ q[a][1] = Front(a) /\ r \in LLCs /\ dir[a].sharers = e.sharers
      /\ dir[a].state = e.state /\ work.data \in Data \union {NoData}
  BY TakenFacts, WorkFields, DirectoryFacts DEF CInv, Busy
<1>3. CASE /\ e.state \in {"EXCLUSIVE", "MODIFIED"} /\ work.data = NoData
           /\ inbox' = Send(boxes, e.owner, Msg("WB_REQ", Home, a, NoData))
           /\ Wait(q) /\ dir' = [dir EXCEPT ![a] = e]
  <2>1. "WB_REQ" \in Recalls /\ {e.owner} \in SUBSET LLCs /\ e.state # "UNCACHED"
    BY <1>1, <1>3 DEF Recalls, Owned
  <2>2. Sent(boxes, inbox', {e.owner}, "WB_REQ", a)
    BY <1>1, <1>2, <1>3, <2>1, RecallSends
  <2>3. \A l \in {e.owner} : Due(l, a, "WB_REQ")
    BY <1>1, <1>2, <1>3 DEF Due, Owned
  <2> QED
    BY <1>3, <2>1, <2>2, <2>3, RecallsTaken
<1>4. ~(e.state = "SHARED" /\ r \notin e.sharers /\ ~CanAddSharer(e))
  BY <1>1, <1>2, RoomForAll
<1>5. CASE /\ e.state = "SHARED"
           /\ Retrieve(a, [e EXCEPT !.sharers = @ \union {r}], boxes, q, "SH_REP", work.data)
  <2> DEFINE x == [e EXCEPT !.sharers = @ \union {r}]
  <2>1. x \in Entry /\ x.state = "SHARED" /\ x.sharers = e.sharers \union {r} /\ x.forwarder = e.forwarder
    BY <1>1, <1>2, <1>5 DEF Entry, DStates
  <2>2. "SH_REP" \in Grants /\ Retrieve(a, x, boxes, q, "SH_REP", work.data)
    BY <1>5 DEF Grants
  <2> HIDE DEF x
  <2>3. /\ x.sharers = dir[a].sharers \union {r} /\ dir[a].state = "SHARED" /\ x.forwarder = dir[a].forwarder
        /\ x.state \notin Owned
    BY <1>1, <1>2, <1>5, <2>1 DEF Owned
  <2> QED
    BY <1>1, <1>2, <2>1, <2>2, <2>3, RetrieveKept
<1>6. CASE /\ e.state = "UNCACHED" /\ e.sharers = {}
           /\ LET shared == Protocol = "MSI"
              IN  Retrieve(a, [e EXCEPT !.sharers = {r}, !.owner = r,
                                 !.state = IF shared THEN "SHARED" ELSE "EXCLUSIVE"],
                           boxes, q, IF shared THEN "SH_REP" ELSE "EX_REP", work.data)
  <2> DEFINE s == IF Protocol = "MSI" THEN "SHARED" ELSE "EXCLUSIVE"
             y == IF Protocol = "MSI" THEN "SH_REP" ELSE "EX_REP"
             x == [e EXCEPT !.sharers = {r}, !.owner = r, !.state = s]
  <2>1. x \in Entry /\ x.state = s /\ x.sharers = {r} /\ x.owner = r
    BY <1>1, <1>2 DEF Entry, DStates
  <2>2. y \in Grants /\ Retrieve(a, x, boxes, q, y, work.data)
    BY <1>6 DEF Grants
  <2>3. /\ x.state = "SHARED" => Protocol = "MSI" /\ y = "SH_REP"
        /\ x.state = "SHARED" \/ (x.state = "EXCLUSIVE" /\ y = "EX_REP")
    BY <2>1
  <2> HIDE DEF x, y, s
  <2>4. /\ x.sharers = dir[a].sharers \union {r} /\ dir[a].sharers = {}
        /\ x.state = "EXCLUSIVE" => x.state \in Owned
        /\ x.state # "MODIFIED" /\ x.state # "UNCACHED"
    BY <1>2, <1>6, <2>1, <2>3 DEF Owned
  <2>5. /\ x.state \in Owned => x.sharers = {x.owner}
        /\ y = "EX_REP" => x.state \in Owned
        /\ y = "SH_REP" => x.state = "SHARED"
    BY <2>1, <2>3, <2>4
  <2> QED
    BY <1>1, <1>2, <2>2, <2>1, <2>3, <2>4, <2>5, RetrieveKept
<1> QED
  BY <1>2, <1>3, <1>4, <1>5, <1>6 DEF ProcessShReq

\* processUpgradeReqFromL2Cache()
LEMMA ProcessUpgradeKept ==
  ASSUME CInv, TInv', UNCHANGED llcVars, NEW a \in Addrs, HasEntry(a)',
         NEW e, NEW boxes, NEW q, Taken(a, e, boxes, q),
         Front(a).type = "UPGRADE_REQ", ProcessUpgradeReq(a, e, boxes, q, work.data)
  PROVE  LineKept(a) /\ OthersKept(a, boxes, q)
<1> DEFINE r == Front(a).from
<1>1. /\ e \in Entry /\ e.state \in DStates /\ e.sharers \subseteq LLCs
      /\ (e.state \in Owned => e.sharers = {e.owner} /\ e.owner \in LLCs)
      /\ (e.state # "UNCACHED" => e = dir[a])
      /\ (r \notin e.sharers => HoldsNothing(r, a))
      /\ (work.data # NoData => e.state = "UNCACHED")
  BY TakenEntry
<1>2. /\ boxes \in Inboxes /\ q[a][1] = Front(a) /\ r \in LLCs /\ dir[a].sharers = e.sharers
      /\ dir[a].state = e.state /\ work.data \in Data \union {NoData}
      /\ Front(a).data \in Data \union {NoData}
  BY TakenFacts, FrontFacts, RequestFields, WorkFields, DirectoryFacts DEF CInv, Busy
<1>3. dir[a].state = "SHARED" => work.data = NoData
  BY <1>1, <1>2
<1>4. CASE /\ \/ e.state \in {"EXCLUSIVE", "MODIFIED"} /\ r \in e.sharers /\ e.owner = r
              \/ e.state = "SHARED" /\ e.sharers = {r}
           /\ dir' = [dir EXCEPT ![a] = [e EXCEPT !.owner = r, !.state = "MODIFIED"]]
           /\ inbox' = Send(boxes, r, Msg("UPGRADE_REP", Home, a, NoData))
           /\ Complete(q, a)
  <2>1. dir'[a] = [e EXCEPT !.owner = r, !.state = "MODIFIED"] /\ \A b \in Addrs : b # a => dir'[b] = dir[b]
    BY <1>4, TakenFacts
  <2>2. dir'[a].sharers = e.sharers /\ dir'[a].state = "MODIFIED" /\ dir'[a].owner = r
    BY <1>1, <2>1 DEF Entry
  <2>3. e.sharers = {r}
    BY <1>1, <1>4 DEF Owned
  <2>4. Sent(boxes, inbox', {r}, "UPGRADE_REP", a)
    BY <1>2, <1>4, DirectorySends DEF HomeToAny
  <2>5. /\ inbox'[Home] = inbox[Home] /\ inbox'[Home] = boxes[Home]
        /\ \A n \in LLCs \union {Dram} : IF n \in {r} THEN PushBox(inbox[n], inbox'[n], Home, a, "UPGRADE_REP")
                                         ELSE SameBox(inbox[n], inbox'[n], Home, a)
        /\ \A b \in Addrs : b # a => \A n \in LLCs \union {Dram} : SameBox(boxes[n], inbox'[n], Home, b)
    BY <2>4, SentLast
  <2>6. /\ queue'[a] = Tail(queue[a]) /\ (Busy(a)' => work'.data = NoData)
        /\ (work'.busy => work'.addr = a) /\ \A b \in Addrs : b # a => queue'[b] = q[b]
        /\ Busy(a) /\ Queued(a) /\ EntryInv(a)
    BY <1>4, TakenFacts
  <2>7. \A l \in LLCs : LineInv(l, a)'
    BY <1>2, <2>2, <2>3, <2>5, <2>6, UpgradeKept
  <2>8. DramOnce(a)'
    <3>1. SameBox(inbox[Dram], inbox'[Dram], Home, a) /\ SameBox(inbox[Home], inbox'[Home], Dram, a)
      BY <1>2, <2>5, SameBoxRefl, NetworkAssumption
    <3> QED
      BY <2>6, <3>1, DramStill DEF EntryInv, BusyFront
  <2>9. EntryInv(a)'
    BY <2>2, <2>3, <2>6, <2>8, DoneEntry
  <2> QED
    BY <2>1, <2>5, <2>6, <2>7, <2>9 DEF LineKept, OthersKept
<1>5. CASE /\ e.state \in {"EXCLUSIVE", "MODIFIED"} /\ r \notin e.sharers
           /\ inbox' = Send(boxes, e.owner, Msg("FLUSH_REQ", Home, a, NoData))
           /\ Wait(q) /\ dir' = [dir EXCEPT ![a] = e]
  <2>1. "FLUSH_REQ" \in Recalls /\ {e.owner} \in SUBSET LLCs /\ e.state # "UNCACHED"
    BY <1>1, <1>5 DEF Recalls, Owned
  <2>2. Sent(boxes, inbox', {e.owner}, "FLUSH_REQ", a)
    BY <1>1, <1>2, <1>5, <2>1, RecallSends
  <2>3. \A l \in {e.owner} : Due(l, a, "FLUSH_REQ")
    BY <1>1, <1>2, <1>5 DEF Due, Owned
  <2> QED
    BY <1>3, <1>5, <2>1, <2>2, <2>3, RecallsTaken
<1>6. CASE /\ e.state = "SHARED" /\ Invalidate(a, e.sharers \ {r}, boxes, q)
           /\ dir' = [dir EXCEPT ![a] = e]
  <2>1. "INV_REQ" \in Recalls /\ e.sharers \ {r} \in SUBSET LLCs
    BY <1>1 DEF Recalls
  <2>2. Sent(boxes, inbox', e.sharers \ {r}, "INV_REQ", a) /\ Wait(q)
    BY <1>2, <1>6, <2>1, RecallSends DEF Invalidate
  <2>3. \A l \in e.sharers \ {r} : Due(l, a, "INV_REQ")
    BY <1>1, <1>2, <1>6 DEF Due
  <2> QED
    BY <1>3, <1>6, <2>1, <2>2, <2>3, RecallsTaken
<1>7. ASSUME e.state = "SHARED", r \notin e.sharers, dir' = [dir EXCEPT ![a] = e], NEW s \in e.sharers,
             Invalidate(a, e.sharers \ {s}, Send(boxes, s, Msg("FLUSH_REQ", Home, a, NoData)), q)
      PROVE  LineKept(a) /\ OthersKept(a, boxes, q)
  <2> DEFINE between == Send(boxes, s, Msg("FLUSH_REQ", Home, a, NoData))
             S == e.sharers \ {s}
  <2>1. "FLUSH_REQ" \in Recalls /\ "INV_REQ" \in Recalls /\ s \in LLCs /\ S \in SUBSET LLCs /\ s \notin S
    BY <1>1 DEF Recalls
  <2>2. Sent(boxes, between, {s}, "FLUSH_REQ", a)
    BY <1>2, <2>1, RecallSends
  <2>3. between \in Inboxes
    BY <1>2, MsgType, SendType DEF HomeToAny
  <2>4. inbox' = SendAll(between, S, Msg("INV_REQ", Home, a, NoData)) /\ Wait(q)
    BY <1>7 DEF Invalidate
  <2> HIDE DEF between
  <2>5. Sent(between, inbox', S, "INV_REQ", a)
    BY <2>1, <2>3, <2>4, RecallSends
  <2>6. Due(s, a, "FLUSH_REQ") /\ \A l \in S : Due(l, a, "INV_REQ")
    BY <1>2, <1>7 DEF Due
  <2> QED
    BY <1>3, <1>7, <2>1, <2>2, <2>4, <2>5, <2>6, FlushTaken
<1>8. CASE /\ e.state = "UNCACHED" /\ e.sharers = {}
           /\ Retrieve(a, [e EXCEPT !.state = "MODIFIED", !.sharers = {r}, !.owner = r],
                       boxes, q, "EX_REP", IF work.data # NoData THEN work.data ELSE Front(a).data)
  <2> DEFINE x == [e EXCEPT !.state = "MODIFIED", !.sharers = {r}, !.owner = r]
             d == IF work.data # NoData THEN work.data ELSE Front(a).data
  <2>1. x \in Entry /\ x.state = "MODIFIED" /\ x.sharers = {r} /\ x.owner = r
    BY <1>1, <1>2 DEF Entry, DStates
  <2>2. "EX_REP" \in Grants /\ Retrieve(a, x, boxes, q, "EX_REP", d)
    BY <1>8 DEF Grants
  <2>3. d \in Data \union {NoData} /\ (d = NoData => work.data = NoData)
    BY <1>2
  <2> HIDE DEF x, d
  <2>4. /\ x.sharers = dir[a].sharers \union {r} /\ dir[a].sharers = {} /\ x.state \in Owned
        /\ HoldsNothing(r, a)
    BY <1>1, <1>2, <1>8, <2>1 DEF Owned
  <2> QED
    BY <1>2, <2>1, <2>2, <2>3, <2>4, RetrieveKept
<1> QED
  BY <1>2, <1>4, <1>5, <1>6, <1>7, <1>8 DEF ProcessUpgradeReq

LEMMA ProcessReqKept ==
  ASSUME CInv, TInv', FullMap, UNCHANGED llcVars, NEW a \in Addrs, HasEntry(a)',
         NEW e, NEW boxes, NEW q, Taken(a, e, boxes, q), ProcessReq(a, e, boxes, q, work.data)
  PROVE  LineKept(a) /\ OthersKept(a, boxes, q)
<1>1. q[a][1] = Front(a)
  BY TakenFacts
<1> QED
  BY <1>1, ProcessExKept, ProcessShKept, ProcessUpgradeKept DEF ProcessReq

\* A line that is neither processed nor replaced.
LEMMA OthersApart ==
  ASSUME NEW a \in Addrs, NEW b \in Addrs, b # a, Busy(a), NEW boxes, NEW q,
         OthersKept(a, boxes, q), q[b] = queue[b], boxes[Home] = inbox[Home],
         \A n \in LLCs \union {Dram} : SameBox(inbox[n], boxes[n], Home, b),
         dir[b].state # "UNCACHED" /\ HasEntry(b) => HasEntry(b)',
         b \in replaced => b \in replaced'
  PROVE  LineApart(b)
<1>1. dir'[b] = dir[b] /\ queue'[b] = queue[b] /\ ~Busy(b) /\ ~Busy(b)'
  BY DEF OthersKept, Busy
<1>2. ASSUME NEW n \in LLCs \union {Dram}
      PROVE  SameBox(inbox[n], inbox'[n], Home, b) /\ SameBox(inbox[Home], inbox'[Home], n, b)
  <2>1. SameBox(boxes[n], inbox'[n], Home, b) /\ inbox'[Home] = inbox[Home]
    BY DEF OthersKept
  <2> QED
    BY <2>1, BoxTrans, SameBoxRefl
<1> QED
  BY <1>1, <1>2 DEF LineApart

\* A step of the directory that concerns one line, or two.
LEMMA TwoLines ==
  ASSUME CInv, TInv', UNCHANGED llcVars, HomeBox', NEW a \in Addrs, NEW v \in Addrs,
         LineKept(a), LineKept(v), \A b \in Addrs : b \notin {a, v} => LineApart(b)
  PROVE  CInv'
<1>1. \A b \in Addrs : b \in {a, v} => EntryInv(b)' /\ \A l \in LLCs : LineInv(l, b)'
  <2>1. ASSUME NEW b \in Addrs, b \in {a, v} PROVE EntryInv(b)' /\ \A l \in LLCs : LineInv(l, b)'
    <3>1. b = a \/ b = v
      BY <2>1
    <3> QED
      BY <3>1 DEF LineKept
  <2> QED
    BY <2>1
<1> QED
  BY <1>1, HomeActs

LEMMA OneLineOnly ==
  ASSUME CInv, TInv', UNCHANGED llcVars, HomeBox', NEW a \in Addrs,
         LineKept(a), \A b \in Addrs : b # a => LineApart(b)
  PROVE  CInv'
  BY TwoLines

\* The directory handles a request of a line that has an entry.
LEMMA ProcessWithEntryCInv ==
  ASSUME CInv, TInv', FullMap, UNCHANGED llcVars, ProcessWithEntry
  PROVE  CInv'
<1>1. work.addr \in Addrs
  BY WorkFields, DirectoryFacts DEF ProcessWithEntry, CInv
<1>2. PICK a \in Addrs : a = work.addr
  BY <1>1
<1>3. /\ Busy(a) /\ HasEntry(a) /\ Front(a).type # "NULLIFY_REQ"
      /\ ProcessReq(a, dir[a], inbox, queue, work.data)
      /\ \A b \in Addrs : (HasEntry(b) => HasEntry(b)') /\ (b \in replaced => b \in replaced')
  BY <1>2 DEF ProcessWithEntry, Busy, HasEntry
<1>4. Queued(a) /\ inbox \in Inboxes /\ queue \in Queues /\ dir[a] \in Entry
  BY <1>3, DirectoryFacts DEF CInv, Busy, Queued
<1>5. Taken(a, dir[a], inbox, queue)
  BY <1>3, <1>4, FrontFacts, SameBoxRefl DEF Taken
<1>6. LineKept(a) /\ OthersKept(a, inbox, queue)
  BY <1>3, <1>5, ProcessReqKept
<1>7. \A b \in Addrs : b # a => LineApart(b)
  BY <1>3, <1>6, OthersApart, SameBoxRefl
<1>8. HomeBox'
  BY <1>6 DEF OthersKept, CInv, HomeBox
<1> QED
  BY <1>6, <1>7, <1>8, OneLineOnly

\* A request of a line that gets the entry of another.
LEMMA NewEntryTaken ==
  ASSUME CInv, NEW a \in Addrs, Busy(a), ~HasEntry(a), Front(a).type \in ReqTypes,
         NEW boxes \in Inboxes, boxes[Home] = inbox[Home],
         \A n \in LLCs \union {Dram} : SameBox(inbox[n], boxes[n], Home, a),
         NEW q \in Queues, q[a] = queue[a]
  PROVE  Taken(a, NewEntry, boxes, q)
<1>1. dir[a].state = "UNCACHED" /\ dir[a].sharers = {} /\ NewEntry \in Entry
  BY DirectoryFacts DEF CInv, EntryInv, EntryShape
<1> QED
  BY <1>1 DEF Taken, NewEntry

LEMMA ProcessEvictUncachedCInv ==
  ASSUME CInv, TInv', FullMap, UNCHANGED llcVars, ProcessEvictUncached
  PROVE  CInv'
<1>1. work.addr \in Addrs /\ inbox \in Inboxes /\ queue \in Queues
  BY WorkFields, DirectoryFacts DEF ProcessEvictUncached, CInv
<1>2. PICK a \in Addrs : a = work.addr
  BY <1>1
<1>3. PICK v \in cached : dir[v].state = "UNCACHED" /\ cached' = (cached \ {v}) \union {a}
  BY <1>2 DEF ProcessEvictUncached, Candidates
<1>4. /\ Busy(a) /\ ~HasEntry(a) /\ HasEntry(a)' /\ ProcessReq(a, NewEntry, inbox, queue, work.data)
      /\ \A b \in Addrs : /\ dir[b].state # "UNCACHED" /\ HasEntry(b) => HasEntry(b)'
                          /\ b \in replaced => b \in replaced'
  BY <1>2, <1>3 DEF ProcessEvictUncached, Busy, HasEntry
<1>5. Queued(a)
  BY <1>4, DirectoryFacts DEF CInv, Busy, Queued
<1>6. Front(a).type \in ReqTypes
  BY <1>4, <1>5, FrontFacts DEF ProcessReq, ReqTypes
<1>7. Taken(a, NewEntry, inbox, queue)
  BY <1>1, <1>4, <1>6, SameBoxRefl, NewEntryTaken
<1>8. LineKept(a) /\ OthersKept(a, inbox, queue)
  BY <1>4, <1>7, ProcessReqKept
<1>9. \A b \in Addrs : b # a => LineApart(b)
  BY <1>4, <1>8, OthersApart, SameBoxRefl
<1>10. HomeBox'
  BY <1>8 DEF OthersKept, CInv, HomeBox
<1> QED
  BY <1>8, <1>9, <1>10, OneLineOnly

\* The entry that is replaced: its copies are recalled for a NULLIFY_REQ.
LEMMA VictimKept ==
  ASSUME CInv, TInv', UNCHANGED llcVars, NEW v \in Addrs, ~Queued(v), dir[v].state # "UNCACHED",
         dir'[v] = dir[v], ~Busy(v)', v \in replaced',
         queue'[v] = Append(queue[v], NewRequest("NULLIFY_REQ", None)),
         inbox'[Home] = inbox[Home], SameBox(inbox[Dram], inbox'[Dram], Home, v),
         \A l \in LLCs : IF l \in NullifyRecipients(v)
                         THEN PushBox(inbox[l], inbox'[l], Home, v, NullifyMsg(v).type)
                         ELSE SameBox(inbox[l], inbox'[l], Home, v)
  PROVE  LineKept(v)
<1>1. EntryInv(v) /\ queue \in Queues /\ QueueFresh(v) /\ ~Waits(v) /\ ~Busy(v)
  BY DirectoryFacts DEF CInv, EntryInv, Waits, Queued, Busy
<1>2. /\ \A l \in LLCs : \A T : InQueue(l, v, T)' <=> InQueue(l, v, T)
      /\ \A l \in LLCs : Once(l, v) => Once(l, v)'
      /\ QueueFresh(v)' /\ Queued(v)' /\ Front(v)' = NewRequest("NULLIFY_REQ", None)
  BY <1>1, QueueAppend, NetworkAssumption
<1>3. /\ Front(v)'.type = "NULLIFY_REQ" /\ Front(v)'.from = None /\ ~Front(v)'.waitForData
      /\ Front(v)'.forwardingFrom = None
  BY <1>2 DEF NewRequest
<1>4. Waits(v)' /\ \A l \in LLCs : Recalled(l, v)' /\ ~Fetching(l, v) /\ ~Fetching(l, v)'
  BY <1>2, <1>3, NetworkAssumption DEF Waits, Recalled, Fetching
<1>5. NullifyMsg(v).type = IF dir[v].state = "SHARED" THEN "INV_REQ" ELSE "FLUSH_REQ"
  BY DEF NullifyMsg, Msg
<1>6. ASSUME NEW l \in LLCs PROVE LineInv(l, v)'
  <2>1. LineInv(l, v) /\ Settled(l, v) /\ SameBox(inbox[Home], inbox'[Home], l, v)
    BY <1>1, WaitsForNothing, SameBoxRefl DEF CInv
  <2>2. Once(l, v)' /\ \A T : InQueue(l, v, T)' <=> InQueue(l, v, T)
    <3>1. Once(l, v)
      BY <2>1 DEF LineInv, AskOnce, Once
    <3> QED
      BY <1>2, <3>1
  <2>3. CASE l \notin NullifyRecipients(v)
    BY <1>4, <2>1, <2>2, <2>3, BystanderLine
  <2>4. CASE l \in NullifyRecipients(v)
    <3> DEFINE y == NullifyMsg(v).type
    <3>1. PushBox(inbox[l], inbox'[l], Home, v, y)
      BY <2>4
    <3>2. y \in Recalls /\ y # "WB_REQ" /\ (y = "INV_REQ" => dir[v].state = "SHARED")
          /\ (y = "FLUSH_REQ" => dir[v].state # "SHARED")
      BY <1>5 DEF Recalls
    <3> HIDE DEF y
    <3> QED
      BY <1>4, <2>1, <2>2, <3>1, <3>2, RecalledLine
  <2> QED
    BY <2>3, <2>4
<1>7. EntryInv(v)'
  <2>1. EntryShape(v)' /\ FrontState(v)' /\ BusyFront(v)' /\ ForwarderKnown(v)'
    BY <1>1, <1>2, <1>3 DEF EntryInv, EntryShape, FrontState, BusyFront, ForwarderKnown, HasEntry
  <2>2. DramOnce(v)'
    BY <1>1, SameBoxRefl, DramStill DEF EntryInv
  <2> QED
    BY <1>2, <2>1, <2>2 DEF EntryInv
<1> QED
  BY <1>6, <1>7 DEF LineKept

LEMMA ProcessEvictCachedCInv ==
  ASSUME CInv, TInv', FullMap, UNCHANGED llcVars, ProcessEvictCached
  PROVE  CInv'
<1>1. work.addr \in Addrs /\ inbox \in Inboxes /\ queue \in Queues /\ cached \subseteq Addrs
  BY WorkFields, DirectoryFacts DEF ProcessEvictCached, CInv
<1>2. PICK a \in Addrs : a = work.addr
  BY <1>1
<1>3. PICK v \in Candidates :
        /\ dir[v].state # "UNCACHED"
        /\ cached' = (cached \ {v}) \union {a} /\ replaced' = replaced \union {v}
        /\ ProcessReq(a, NewEntry, SendAll(inbox, NullifyRecipients(v), NullifyMsg(v)),
             [queue EXCEPT ![v] = Append(@, NewRequest("NULLIFY_REQ", None))], work.data)
  BY <1>2 DEF ProcessEvictCached
<1> DEFINE S == NullifyRecipients(v)
           boxes == SendAll(inbox, S, NullifyMsg(v))
           q == [queue EXCEPT ![v] = Append(@, NewRequest("NULLIFY_REQ", None))]
<1>4. /\ Busy(a) /\ ~HasEntry(a) /\ HasEntry(a)' /\ v \in cached /\ v \in Addrs /\ v # a
      /\ ~Queued(v) /\ v \in replaced'
      /\ \A b \in Addrs : (HasEntry(b) => HasEntry(b)') /\ (b \in replaced => b \in replaced')
  BY <1>1, <1>2, <1>3 DEF ProcessEvictCached, Candidates, Busy, HasEntry, Queued
<1>5. S \subseteq LLCs /\ dir[v] \in Entry
  <2>1. dir[v] \in Entry /\ EntryShape(v)
    BY <1>4, DirectoryFacts DEF CInv, EntryInv
  <2>2. dir[v].sharers \subseteq LLCs /\ dir[v].state \in DStates
    BY <2>1 DEF Entry
  <2> QED
    BY <1>3, <2>1, <2>2 DEF NullifyRecipients, EntryShape, DStates, Owned
<1>6. Sent(inbox, boxes, S, NullifyMsg(v).type, v)
  <2>1. NullifyMsg(v) \in Message /\ NullifyMsg(v).from = Home /\ NullifyMsg(v).addr = v
    BY <1>4, MsgType DEF NullifyMsg, Msg, HomeToAny
  <2> QED
    BY <1>1, <1>4, <1>5, <2>1, SendAllSent
<1>7. boxes \in Inboxes
  <2>1. NullifyMsg(v) \in Message
    BY <1>4, MsgType DEF NullifyMsg, HomeToAny
  <2> QED
    BY <1>1, <2>1, SendAllType
<1>8. q \in Queues /\ q[v] = Append(queue[v], NewRequest("NULLIFY_REQ", None))
      /\ \A b \in Addrs : b # v => q[b] = queue[b]
  <2>1. NewRequest("NULLIFY_REQ", None) \in Request
    BY DEF NewRequest, Request, NoData
  <2> QED
    BY <1>1, <1>4, <2>1 DEF Queues
<1>9. boxes[Home] = inbox[Home]
      /\ \A n \in LLCs \union {Dram}, b \in Addrs : b # v => SameBox(inbox[n], boxes[n], Home, b)
  BY <1>6 DEF Sent
<1>10. ProcessReq(a, NewEntry, boxes, q, work.data)
  BY <1>3
<1> HIDE DEF S, boxes, q
<1>11. Front(a).type \in ReqTypes
  <2>1. Queued(a) /\ q[a] = queue[a]
    BY <1>4, <1>8, DirectoryFacts DEF CInv, Busy, Queued
  <2> QED
    BY <1>10, <2>1, FrontFacts DEF ProcessReq, ReqTypes
<1>12. Taken(a, NewEntry, boxes, q)
  BY <1>4, <1>7, <1>8, <1>9, <1>11, NewEntryTaken
<1>13. LineKept(a) /\ OthersKept(a, boxes, q)
  BY <1>4, <1>10, <1>12, ProcessReqKept
<1>14. LineKept(v)
  <2>1. /\ dir'[v] = dir[v] /\ queue'[v] = q[v] /\ ~Busy(v)' /\ inbox'[Home] = inbox[Home]
        /\ \A n \in LLCs \union {Dram} : SameBox(boxes[n], inbox'[n], Home, v)
    BY <1>4, <1>9, <1>13 DEF OthersKept, Busy
  <2>2. \A n \in LLCs \union {Dram} : IF n \in S THEN PushBox(inbox[n], boxes[n], Home, v, NullifyMsg(v).type)
                                      ELSE SameBox(inbox[n], boxes[n], Home, v)
    BY <1>4, <1>6 DEF Sent
  <2>3. \A n \in LLCs \union {Dram} : IF n \in S THEN PushBox(inbox[n], inbox'[n], Home, v, NullifyMsg(v).type)
                                      ELSE SameBox(inbox[n], inbox'[n], Home, v)
    BY <2>1, <2>2, BoxTrans
  <2>4. SameBox(inbox[Dram], inbox'[Dram], Home, v)
    BY <1>5, <2>3, NetworkAssumption
  <2> QED
    BY <1>3, <1>4, <1>8, <2>1, <2>3, <2>4, VictimKept DEF S
<1>15. \A b \in Addrs : b \notin {a, v} => LineApart(b)
  BY <1>4, <1>8, <1>9, <1>13, OthersApart
<1>16. HomeBox'
  BY <1>9, <1>13 DEF OthersKept, CInv, HomeBox
<1> QED
  BY <1>4, <1>13, <1>14, <1>15, <1>16, TwoLines

\* A replaced entry is deleted.
LEMMA ProcessNullifyCInv ==
  ASSUME CInv, TInv', UNCHANGED llcVars, ProcessNullify
  PROVE  CInv'
<1>1. work.addr \in Addrs /\ inbox \in Inboxes /\ queue \in Queues /\ dir \in [Addrs -> Entry]
  BY WorkFields, DirectoryFacts DEF ProcessNullify, CInv
<1>2. PICK a \in Addrs : a = work.addr
  BY <1>1
<1>3. /\ Busy(a) /\ Front(a).type = "NULLIFY_REQ" /\ dir[a].state = "UNCACHED"
      /\ replaced' = replaced \ {a} /\ dir' = [dir EXCEPT ![a] = NewEntry] /\ Complete(queue, a)
      /\ cached' = cached /\ inbox' = inbox
  BY <1>2 DEF ProcessNullify, Busy
<1>4. Queued(a) /\ EntryInv(a) /\ dir[a].sharers = {}
  BY <1>3, DirectoryFacts DEF CInv, Busy, Queued, EntryInv, EntryShape
<1>5. /\ dir'[a] = NewEntry /\ queue'[a] = Tail(queue[a]) /\ (Busy(a)' => work'.data = NoData)
      /\ (work'.busy => work'.addr = a)
      /\ \A b \in Addrs : b # a => dir'[b] = dir[b] /\ queue'[b] = queue[b]
  BY <1>1, <1>3 DEF Complete, Busy, Idle, Process, Queues
<1>6. Front(a).from = None /\ QueueFresh(a)
  BY <1>3, <1>4, FrontFacts DEF ReqTypes, EntryInv
<1>7. /\ \A l \in LLCs : (\A T : InQueue(l, a, T)' <=> InQueue(l, a, T)) /\ (Once(l, a) => Once(l, a)')
      /\ Queued(a)' => ~Front(a)'.waitForData /\ Front(a)'.forwardingFrom = None
  BY <1>1, <1>4, <1>5, <1>6, QueueTail, NetworkAssumption
<1>8. ASSUME NEW l \in LLCs PROVE LineInv(l, a)'
  <2>1. LineInv(l, a) /\ Settled(l, a) /\ ~Fetching(l, a) /\ ~Fetching(l, a)'
    <3>1. LineInv(l, a) /\ ~Waits(a)
      BY <1>3 DEF CInv, Waits
    <3> QED
      BY <1>4, <1>7, <3>1, WaitsForNothing, NoToken DEF Fetching
  <2>2. SameBox(inbox[l], inbox'[l], Home, a) /\ SameBox(inbox[Home], inbox'[Home], l, a)
    BY <1>3, SameBoxRefl
  <2>3. Once(l, a)' /\ \A T : InQueue(l, a, T)' <=> InQueue(l, a, T)
    <3>1. Once(l, a)
      BY <2>1 DEF LineInv, AskOnce, Once
    <3> QED
      BY <1>7, <3>1
  <2>4. dir'[a].sharers = dir[a].sharers /\ dir'[a].state = dir[a].state
    BY <1>3, <1>4, <1>5 DEF NewEntry
  <2> QED
    BY <2>1, <2>2, <2>3, <2>4, BystanderLine
<1>9. EntryInv(a)'
  <2>1. DramOnce(a)'
    BY <1>3, <1>4, SameBoxRefl, DramStill DEF EntryInv, BusyFront
  <2> QED
    BY <1>4, <1>5, <2>1, DoneEntry DEF NewEntry, Owned
<1>10. \A b \in Addrs : b # a => LineApart(b)
  BY <1>3, <1>5, SameBoxRefl DEF LineApart, Busy, HasEntry
<1>11. HomeBox'
  BY <1>3 DEF CInv, HomeBox
<1> QED
  BY <1>8, <1>9, <1>10, <1>11, OneLineOnly DEF LineKept

-----------------------------------------------------------------------------
(* The directory handles a message.                                        *)

\* The message at the head of the directory's box, of type y, by s, about a.
Handled(s, a, y) ==
  /\ ~work.busy /\ Pending(Home)
  /\ HomeMsg.type = y /\ HomeMsg.from = s /\ HomeMsg.addr = a
  /\ inbox'[Home] = Received(Home)[Home]

LEMMA HandledFacts ==
  ASSUME CInv, NEW s, NEW a, NEW y, Handled(s, a, y)
  PROVE  /\ a \in Addrs /\ PopBox(inbox[Home], inbox'[Home], s, a, y)
         /\ \A f, b : ~(f = s /\ b = a) => SameBox(inbox[Home], inbox'[Home], f, b)
         /\ HomeBox' /\ Received(Home) \in Inboxes /\ HomeMsg \in Message
         /\ \A n \in LLCs \union {Dram} : Received(Home)[n] = inbox[n]
         /\ (y # "DRAM_READ_REP" => s \in LLCs) /\ (y = "DRAM_READ_REP" => s = Dram)
         /\ Has(inbox[Home], {y}, s, a) /\ ~Busy(a)
<1>1. inbox \in Inboxes /\ Pending(Home) /\ HomeBox /\ ~work.busy
      /\ inbox'[Home] = Received(Home)[Home] /\ HomeMsg.type = y /\ HomeMsg.from = s /\ HomeMsg.addr = a
  BY DirectoryFacts DEF CInv, Handled
<1>2. /\ Received(Home) \in Inboxes /\ HomeMsg \in Message
      /\ HomeMsg.type \in HomeTypes /\ HomeMsg.addr \in Addrs
      /\ PopBox(inbox[Home], Received(Home)[Home], HomeMsg.from, HomeMsg.addr, HomeMsg.type)
      /\ \A f, b : ~(HomeMsg.from = f /\ HomeMsg.addr = b) =>
           SameBox(inbox[Home], Received(Home)[Home], f, b)
      /\ \A n \in LLCs \union {Dram} : Received(Home)[n] = inbox[n]
      /\ \A i \in 1 .. Len(Received(Home)[Home]) : Received(Home)[Home][i].type \in HomeTypes
  BY <1>1, HomeTakes
<1>3. HomeBox'
  BY <1>1, <1>2 DEF HomeBox
<1>4. y # "DRAM_READ_REP" => s \in LLCs
  BY <1>1, <1>2, MessageFields DEF HomeTypes, CacheToHome, CacheToHomeData
<1>5. y = "DRAM_READ_REP" => s = Dram
  BY <1>1, <1>2 DEF Message, CacheToHome, CacheToHomeData, HomeToAny, HomeToAnyData, ReqTypes
<1>6. Has(inbox[Home], {y}, s, a)
  BY <1>1, <1>2 DEF PopBox
<1> QED
  BY <1>1, <1>2, <1>3, <1>4, <1>5, <1>6 DEF Busy

LEMMA HandledApart ==
  ASSUME CInv, NEW s, NEW a, NEW y, Handled(s, a, y), NEW b \in Addrs, b # a,
         \A n \in LLCs \union {Dram} : SameBox(inbox[n], inbox'[n], Home, b),
         dir'[b] = dir[b], queue'[b] = queue[b], work'.busy => work'.addr = a,
         cached \subseteq cached', replaced' = replaced
  PROVE  LineApart(b)
<1>1. \A n : SameBox(inbox[Home], inbox'[Home], n, b)
  BY HandledFacts
<1>2. ~Busy(b) /\ ~Busy(b)'
  BY DEF Handled, Busy
<1> QED
  BY <1>1, <1>2 DEF LineApart, HasEntry

\* The DRAM controller is sent nothing, or a line to write.
LEMMA DramSame ==
  ASSUME NEW a, DramOnce(a), SameBox(inbox[Home], inbox'[Home], Dram, a),
         \/ SameBox(inbox[Dram], inbox'[Dram], Home, a)
         \/ PushBox(inbox[Dram], inbox'[Dram], Home, a, "DRAM_WRITE_REQ"),
         Queued(a)' <=> Queued(a), Queued(a) => Front(a)'.waitForData = Front(a).waitForData
  PROVE  DramOnce(a)'
<1>1. (Reading(a)' <=> Reading(a)) /\ (ReadDone(a)' <=> ReadDone(a))
  BY DEF Reading, ReadDone, SameBox, PushBox
<1>2. /\ ~Prec(inbox'[Dram], {"DRAM_READ_REQ"}, {"DRAM_READ_REQ"}, Home, a)
      /\ ~Prec(inbox'[Home], {"DRAM_READ_REP"}, {"DRAM_READ_REP"}, Dram, a)
  BY DEF DramOnce, SameBox, PushBox
<1> QED
  BY <1>1, <1>2 DEF DramOnce

\* handleMsgFromL2Cache(), a request.
LEMMA HandleReqCInv ==
  ASSUME CInv, TInv', UNCHANGED llcVars, HandleReq
  PROVE  CInv'
<1>1. PICK y \in ReqTypes :
        /\ Handles(y) /\ Lookup(HomeMsg.addr)
        /\ queue' = [queue EXCEPT ![HomeMsg.addr] = Append(@, NewRequest(y, HomeMsg.from))]
        /\ work' = IF queue[HomeMsg.addr] = <<>> THEN Process(HomeMsg.addr, NoData) ELSE Idle
        /\ inbox' = Received(Home) /\ dir' = dir /\ replaced' = replaced
  BY DEF HandleReq
<1>2. PICK a, s : a = HomeMsg.addr /\ s = HomeMsg.from
  OBVIOUS
<1>3. Handled(s, a, y)
  BY <1>1, <1>2 DEF Handled, Handles
<1>4. y # "DRAM_READ_REP" /\ y # "NULLIFY_REQ"
  BY DEF ReqTypes
<1>5. /\ a \in Addrs /\ PopBox(inbox[Home], inbox'[Home], s, a, y)
      /\ \A f, b : ~(f = s /\ b = a) => SameBox(inbox[Home], inbox'[Home], f, b)
      /\ HomeBox' /\ \A n \in LLCs \union {Dram} : inbox'[n] = inbox[n]
      /\ s \in LLCs /\ Has(inbox[Home], {y}, s, a) /\ ~Busy(a)
  BY <1>1, <1>3, <1>4, HandledFacts
<1>6. /\ queue'[a] = Append(queue[a], NewRequest(y, s)) /\ \A b \in Addrs : b # a => queue'[b] = queue[b]
      /\ queue \in Queues /\ EntryInv(a) /\ QueueFresh(a)
      /\ (work'.busy => work'.addr = a) /\ (Busy(a)' => work'.data = NoData /\ ~Queued(a))
      /\ cached \subseteq cached'
  <2>1. queue \in Queues /\ EntryInv(a) /\ QueueFresh(a)
    BY <1>5, DirectoryFacts DEF CInv, EntryInv
  <2>2. work' = IF queue[a] = <<>> THEN Process(a, NoData) ELSE Idle
    BY <1>1, <1>2
  <2>3. /\ (work'.busy => work'.addr = a) /\ (Busy(a)' => work'.data = NoData /\ ~Queued(a))
    BY <2>2 DEF Idle, Process, Busy, Queued
  <2> QED
    BY <1>1, <1>2, <1>5, <2>1, <2>3 DEF Queues, Lookup
<1>7. /\ \A l, T : InQueue(l, a, T)' <=> InQueue(l, a, T) \/ (l = s /\ y \in T)
      /\ \A l : Once(l, a) /\ (l = s => \A T : ~InQueue(l, a, T)) => Once(l, a)'
      /\ QueueFresh(a)' /\ Queued(a)'
      /\ Front(a)' = IF Queued(a) THEN Front(a) ELSE NewRequest(y, s)
  BY <1>4, <1>5, <1>6, QueueAppend
<1>8. \A l : Fetching(l, a)' <=> Fetching(l, a)
  BY <1>7 DEF Fetching, NewRequest
<1>9. \A l \in LLCs : LineInv(l, a) /\ Once(l, a) /\ (Settled(l, a) \/ StillWaits(a))
  <2>1. ASSUME Queued(a) PROVE StillWaits(a)
    BY <1>1, <1>6, <1>7, <2>1 DEF StillWaits, Waits
  <2>2. ~Queued(a) => ~Waits(a)
    BY DEF Waits
  <2> QED
    BY <1>5, <2>1, <2>2, WaitsForNothing DEF CInv, LineInv, AskOnce, Once
<1>10. ASSUME NEW l \in LLCs, l # s PROVE LineInv(l, a)'
  <2>1. SameBox(inbox[l], inbox'[l], Home, a) /\ SameBox(inbox[Home], inbox'[Home], l, a)
    BY <1>5, <1>10, SameBoxRefl
  <2>2. (\A T : InQueue(l, a, T)' <=> InQueue(l, a, T)) /\ Once(l, a)'
    BY <1>7, <1>9, <1>10
  <2>3. /\ Fetching(l, a)' => ~Held(l, a) /\ ~Granted(l, a) /\ ~Leaving(l, a)
        /\ l \in dir'[a].sharers <=> l \in dir[a].sharers \/ Fetching(l, a)'
    BY <1>1, <1>8, <1>9 DEF LineInv, OneToken, Tokens
  <2> QED
    BY <1>1, <1>5, <1>8, <1>9, <2>1, <2>2, <2>3, BystanderLine
<1>11. LineInv(s, a)'
  <2>1. SameBox(inbox[s], inbox'[s], Home, a)
    BY <1>5, SameBoxRefl
  <2>2. \A T : ~InQueue(s, a, T)
    <3>1. ToHome(s, a, ReqTypes)
      BY <1>5, HasMono DEF ToHome
    <3>2. ~InQueue(s, a, ReqTypes)
      BY <1>5, <1>9, <3>1 DEF LineInv, AskOnce
    <3>3. \A i \in 1 .. Len(queue[a]) : queue[a][i].from = s => queue[a][i].type \in ReqTypes
      <4>1. \A i \in 1 .. Len(queue[a]) : queue[a][i] \in Request
        BY <1>5, <1>6 DEF Queues
      <4> QED
        BY <1>5, <4>1, NetworkAssumption DEF Request
    <3> QED
      BY <3>2, <3>3 DEF InQueue
  <2>3. (\A T : InQueue(s, a, T)' <=> InQueue(s, a, T) \/ y \in T) /\ Once(s, a)'
    BY <1>5, <1>7, <1>9, <2>2
  <2> QED
    BY <1>1, <1>5, <1>8, <1>9, <2>1, <2>3, QueuedLine
<1>12. EntryInv(a)'
  <2>1. DramOnce(a)'
    <3>1. /\ SameBox(inbox[Dram], inbox'[Dram], Home, a)
          /\ SameBox(inbox[Home], inbox'[Home], Dram, a)
      BY <1>5, SameBoxRefl, NetworkAssumption
    <3>2. CASE Queued(a)
      BY <1>6, <1>7, <3>1, <3>2, DramSame DEF EntryInv
    <3>3. CASE ~Queued(a)
      BY <1>6, <3>1, <3>3, DramStill DEF EntryInv
    <3> QED
      BY <3>2, <3>3
  <2>2. EntryShape(a)' /\ FrontState(a)'
    BY <1>1, <1>4, <1>6, <1>7 DEF EntryInv, EntryShape, FrontState, HasEntry, NewRequest
  <2>3. BusyFront(a)' /\ ForwarderKnown(a)'
    BY <1>1, <1>4, <1>5, <1>6, <1>7 DEF EntryInv, BusyFront, ForwarderKnown, NewRequest
  <2> QED
    BY <1>7, <2>1, <2>2, <2>3 DEF EntryInv
<1>13. \A b \in Addrs : b # a => LineApart(b)
  <2>1. \A n \in LLCs \union {Dram}, b \in Addrs : SameBox(inbox[n], inbox'[n], Home, b)
    BY <1>5, SameBoxRefl
  <2> QED
    BY <1>1, <1>3, <1>6, <2>1, HandledApart
<1> QED
  BY <1>5, <1>10, <1>11, <1>12, <1>13, OneLineOnly DEF LineKept

LEMMA NobodySettled ==
  ASSUME NEW l \in LLCs, NEW a \in Addrs, LineInv(l, a), l \notin dir[a].sharers
  PROVE  Settled(l, a)
  BY NoToken DEF Settled

\* The front request is woken by the message of a cache that gives its copy up.
Woken(s, a) ==
  /\ Queued(a)
  /\ \/ dir'[a].state = "UNCACHED"
     \/ Front(a).type = "UPGRADE_REQ" /\ dir'[a].sharers \subseteq {Front(a).from}
     \/ Front(a).type = "SH_REQ" /\ ~Front(a).waitForData /\ Front(a).forwardingFrom \in {None, s}

\* Then it waits for nothing else.
LEMMA WokenSettled ==
  ASSUME NEW a \in Addrs, NEW s \in LLCs, NEW l \in LLCs, l # s, LineInv(l, a), EntryInv(a), dir[a] \in Entry,
         Woken(s, a), s \in dir[a].sharers, dir'[a].sharers = dir[a].sharers \ {s},
         dir'[a].state = IF dir[a].sharers = {s} THEN "UNCACHED" ELSE dir[a].state
  PROVE  Settled(l, a)
<1>1. CASE l \notin dir[a].sharers
  BY <1>1, NobodySettled
<1>2. dir[a].state # "UNCACHED" /\ (dir'[a].state = "UNCACHED" => dir[a].sharers = {s})
  BY DEF EntryInv, EntryShape
<1>3. CASE l \in dir[a].sharers
  <2>1. dir[a].sharers # {s} /\ dir[a].state = "SHARED" /\ dir'[a].state # "UNCACHED"
    BY <1>2, <1>3 DEF EntryInv, EntryShape, Owned, Entry, DStates
  <2>2. \/ Front(a).type = "UPGRADE_REQ" /\ Front(a).from = l
        \/ Front(a).type = "SH_REQ" /\ Front(a).forwardingFrom # l
    BY <1>3, <2>1, NetworkAssumption DEF Woken
  <2>3. ~Recalled(l, a)
    BY <2>2 DEF Recalled
  <2>4. ~Live(l, a, {"INV_REQ"}) /\ ~Live(l, a, {"FLUSH_REQ"})
    BY <2>3 DEF LineInv, RecallInv, RecallFlush
  <2>5. ~Live(l, a, {"WB_REQ"}) /\ ~ToHome(l, a, {"WB_REP"})
    BY <2>1, <2>2 DEF LineInv, Copying, Owned
  <2>6. ~ToHome(l, a, {"FLUSH_REP"})
    BY <1>3, <2>1, <2>2 DEF LineInv, RecallFlush
  <2>7. Asking(l, a, {"UPGRADE_REQ"}) => ~Leaving(l, a)
    BY <2>3 DEF LineInv, AskUpgrade
  <2> QED
    BY <2>4, <2>5, <2>6, <2>7 DEF Settled
<1> QED
  BY <1>1, <1>3

\* The front request is left alone, or is given the data that has arrived.
QueueSame(a) ==
  \/ queue'[a] = queue[a]
  \/ Queued(a) /\ \E d : queue'[a] = [queue[a] EXCEPT ![1] = [Front(a) EXCEPT !.data = d]]
FrontSame(a) ==
  /\ \A l, T : InQueue(l, a, T)' <=> InQueue(l, a, T)
  /\ \A l : Once(l, a)' <=> Once(l, a)
  /\ QueueFresh(a)' /\ (Queued(a)' <=> Queued(a))
  /\ Queued(a) => /\ Front(a)'.type = Front(a).type /\ Front(a)'.from = Front(a).from
                  /\ Front(a)'.waitForData = Front(a).waitForData
                  /\ Front(a)'.forwardingFrom = Front(a).forwardingFrom

LEMMA QueueStill ==
  ASSUME CInv, NEW a \in Addrs, QueueSame(a)
  PROVE  FrontSame(a)
<1>1. QueueFresh(a)
  BY DEF CInv, EntryInv
<1>2. CASE queue'[a] = queue[a]
  BY <1>1, <1>2 DEF InQueue, Once, QueueFresh, Queued, Front, FrontSame
<1>3. ASSUME Queued(a), NEW d, queue'[a] = [queue[a] EXCEPT ![1] = [Front(a) EXCEPT !.data = d]]
      PROVE  FrontSame(a)
  <2> DEFINE r == [Front(a) EXCEPT !.data = d]
  <2>1. Front(a) \in Request /\ queue \in Queues
    BY <1>3, FrontFacts
  <2>2. /\ r.type = Front(a).type /\ r.from = Front(a).from
        /\ r.waitForData = Front(a).waitForData /\ r.forwardingFrom = Front(a).forwardingFrom
    BY <2>1 DEF Request
  <2>3. queue'[a] = [queue[a] EXCEPT ![1] = r]
    BY <1>3
  <2> HIDE DEF r
  <2>4. /\ \A l, T : InQueue(l, a, T)' <=> InQueue(l, a, T)
        /\ \A l : Once(l, a)' <=> Once(l, a)
        /\ QueueFresh(a)' /\ Queued(a)' /\ Front(a)' = r
    BY <1>1, <1>3, <2>1, <2>2, <2>3, QueueMark
  <2> QED
    BY <1>3, <2>2, <2>4 DEF FrontSame
<1> QED
  BY <1>2, <1>3 DEF QueueSame

\* s is removed from the entry of the line.
SharerLeft(s, a) ==
  /\ s \in dir[a].sharers /\ dir'[a].sharers = dir[a].sharers \ {s}
  /\ dir'[a].state = IF dir[a].sharers = {s} THEN "UNCACHED" ELSE dir[a].state
  /\ dir'[a].forwarder = None \/ dir'[a].forwarder = dir[a].forwarder

\* The answer of a cache that gives its copy up.
LEMMA LeaverKept ==
  ASSUME CInv, TInv', UNCHANGED llcVars, NEW s, NEW a, NEW y \in Leaves, Handled(s, a, y),
         SharerLeft(s, a), HasEntry(a)', a \in replaced => a \in replaced', QueueSame(a),
         \A n \in LLCs : inbox'[n] = inbox[n],
         \/ SameBox(inbox[Dram], inbox'[Dram], Home, a)
         \/ PushBox(inbox[Dram], inbox'[Dram], Home, a, "DRAM_WRITE_REQ"),
         Busy(a)' => Woken(s, a) /\ (work'.data # NoData => dir'[a].state = "UNCACHED")
                     /\ (Front(a).type = "NULLIFY_REQ" => dir'[a].state = "UNCACHED")
  PROVE  LineKept(a)
<1>1. y # "DRAM_READ_REP"
  BY DEF Leaves
<1>2. /\ a \in Addrs /\ PopBox(inbox[Home], inbox'[Home], s, a, y)
      /\ \A f, b : ~(f = s /\ b = a) => SameBox(inbox[Home], inbox'[Home], f, b)
      /\ s \in LLCs /\ Has(inbox[Home], {y}, s, a) /\ ~Busy(a)
  BY <1>1, HandledFacts
<1>3. EntryInv(a) /\ dir[a] \in Entry /\ \A l \in LLCs : LineInv(l, a)
  BY <1>2, DirectoryFacts DEF CInv
<1>4. /\ \A l, T : InQueue(l, a, T)' <=> InQueue(l, a, T)
      /\ \A l : Once(l, a)' <=> Once(l, a)
      /\ QueueFresh(a)' /\ (Queued(a)' <=> Queued(a))
      /\ Queued(a) => /\ Front(a)'.type = Front(a).type /\ Front(a)'.from = Front(a).from
                      /\ Front(a)'.waitForData = Front(a).waitForData
                      /\ Front(a)'.forwardingFrom = Front(a).forwardingFrom
  BY <1>2, QueueStill DEF FrontSame
<1> USE DEF SharerLeft
<1>5. \A l : Fetching(l, a)' <=> Fetching(l, a)
  BY <1>4 DEF Fetching
<1>6. \A l \in LLCs : Once(l, a)
  BY <1>3 DEF LineInv, AskOnce, Once
<1>7. LineInv(s, a)'
  <2>1. SameBox(inbox[s], inbox'[s], Home, a) /\ s \notin dir'[a].sharers
    BY <1>2, SameBoxRefl
  <2> QED
    BY <1>2, <1>3, <1>4, <1>5, <1>6, <2>1, LeaverLine
<1>8. ASSUME NEW l \in LLCs, l # s PROVE LineInv(l, a)'
  <2>1. Settled(l, a) \/ StillWaits(a)
    <3>1. CASE Busy(a)'
      BY <1>2, <1>3, <1>8, <3>1, WokenSettled
    <3>2. CASE ~Busy(a)'
      BY <1>4, <3>2 DEF StillWaits, Waits
    <3> QED
      BY <3>1, <3>2
  <2>2. SameBox(inbox[l], inbox'[l], Home, a) /\ SameBox(inbox[Home], inbox'[Home], l, a)
    BY <1>2, <1>8, SameBoxRefl
  <2>3. /\ Fetching(l, a)' => ~Held(l, a) /\ ~Granted(l, a) /\ ~Leaving(l, a)
        /\ l \in dir'[a].sharers <=> l \in dir[a].sharers \/ Fetching(l, a)'
        /\ dir'[a].state = dir[a].state \/ l \notin dir[a].sharers
    BY <1>3, <1>5, <1>8 DEF LineInv, OneToken, Tokens
  <2> QED
    BY <1>2, <1>3, <1>4, <1>5, <1>6, <2>1, <2>2, <2>3, BystanderLine
\* Who the line is fetched for is another cache.
<1>9. Queued(a) /\ Front(a).waitForData =>
        Front(a).type = "SH_REQ" /\ dir[a].state = "SHARED" /\ dir'[a].state = "SHARED"
  <2> SUFFICES ASSUME Queued(a), Front(a).waitForData
               PROVE  Front(a).type = "SH_REQ" /\ dir[a].state = "SHARED" /\ dir'[a].state = "SHARED"
    OBVIOUS
  <2>1. Front(a).from \in LLCs /\ Front(a) \in Request
    BY <1>2, FrontFacts DEF Request
  <2>2. PICK f \in LLCs : f = Front(a).from
    BY <2>1
  <2>3. Fetching(f, a) /\ f \in dir[a].sharers
    BY <1>3, <2>2 DEF Fetching, LineInv, Tokens
  <2>4. Leaving(s, a)
    BY <1>2, HasSplit DEF Leaving, ToHome, Leaves
  <2>5. f # s
    BY <1>2, <1>3, <2>3, <2>4 DEF LineInv, OneToken
  <2>6. dir[a].state \notin Owned
    BY <1>3, <2>3, <2>5 DEF EntryInv, EntryShape
  <2>7. dir[a].state = "SHARED" /\ Front(a).type = "SH_REQ"
    BY <1>3, <2>6 DEF EntryInv, FrontState, Owned
  <2> QED
    BY <2>3, <2>5, <2>7
<1>10. EntryInv(a)'
  <2>1. EntryShape(a)'
    BY <1>3 DEF EntryInv, EntryShape, Owned
  <2>2. FrontState(a)'
    <3>1. Queued(a) /\ Front(a).forwardingFrom # None => dir'[a].state = "SHARED" /\ Front(a).type = "SH_REQ"
      <4> SUFFICES ASSUME Queued(a), Front(a).forwardingFrom # None
                   PROVE  dir'[a].state = "SHARED" /\ Front(a).type = "SH_REQ"
        OBVIOUS
      <4>1. Front(a).type = "SH_REQ" /\ dir[a].state = "SHARED"
        BY <1>3 DEF EntryInv, FrontState
      <4>2. PICK f \in LLCs : f = Front(a).from
        BY <1>2, <4>1, FrontFacts DEF ReqTypes
      <4>3. Fetching(f, a) /\ f \in dir[a].sharers
        BY <1>3, <4>2 DEF Fetching, LineInv, Tokens
      <4>4. Leaving(s, a)
        BY <1>2, HasSplit DEF Leaving, ToHome, Leaves
      <4>5. f # s
        BY <1>2, <1>3, <4>3, <4>4 DEF LineInv, OneToken
      <4> QED
        BY <4>1, <4>3, <4>5
    <3>2. Queued(a) /\ Front(a).type = "NULLIFY_REQ" => a \in replaced'
      BY <1>3 DEF EntryInv, FrontState
    <3> QED
      BY <1>4, <1>9, <3>1, <3>2 DEF FrontState
  <2>3. BusyFront(a)'
    BY <1>4, <1>9 DEF BusyFront, Woken
  <2>4. DramOnce(a)'
    <3>1. SameBox(inbox[Home], inbox'[Home], Dram, a) /\ DramOnce(a)
      BY <1>2, <1>3, NetworkAssumption DEF EntryInv
    <3> QED
      BY <1>4, <3>1, DramSame
  <2>5. ForwarderKnown(a)'
    BY <1>2, <1>3, NetworkAssumption DEF EntryInv, ForwarderKnown, Uninit
  <2> QED
    BY <1>4, <2>1, <2>2, <2>3, <2>4, <2>5 DEF EntryInv
<1> QED
  BY <1>7, <1>8, <1>10 DEF LineKept

\* processInvRepFromL2Cache()
LEMMA HandleInvRepCInv ==
  ASSUME CInv, TInv', UNCHANGED llcVars, HandleInvRep
  PROVE  CInv'
<1>1. PICK a, s : a = HomeMsg.addr /\ s = HomeMsg.from
  OBVIOUS
<1> DEFINE e == [Removed(dir[a], s) EXCEPT !.forwarder = IF @ = s THEN None ELSE @]
<1>2. /\ Handles("INV_REP") /\ InvRepAssertions(HomeMsg) /\ dir' = [dir EXCEPT ![a] = e]
      /\ work' = IF WokenByInv(a, e, s) THEN Process(a, NoData) ELSE Idle
      /\ inbox' = Received(Home) /\ cached' = cached /\ replaced' = replaced /\ queue' = queue
  BY <1>1 DEF HandleInvRep
<1>3. Handled(s, a, "INV_REP")
  BY <1>1, <1>2 DEF Handled, Handles
<1>4. /\ a \in Addrs /\ HomeBox' /\ \A n \in LLCs \union {Dram} : inbox'[n] = inbox[n]
  BY <1>2, <1>3, HandledFacts
<1>5. dir \in [Addrs -> Entry] /\ dir[a] \in Entry /\ dir'[a] = e /\ \A b \in Addrs : b # a => dir'[b] = dir[b]
  BY <1>2, <1>4, DirectoryFacts DEF CInv
<1>6. /\ e.sharers = dir[a].sharers \ {s}
      /\ e.state = IF dir[a].sharers = {s} THEN "UNCACHED" ELSE dir[a].state
      /\ e.forwarder = None \/ e.forwarder = dir[a].forwarder
  BY <1>5 DEF Removed, Entry
<1> HIDE DEF e
<1>7. SharerLeft(s, a) /\ HasEntry(a)'
  BY <1>1, <1>2, <1>5, <1>6 DEF SharerLeft, InvRepAssertions, HasEntry
<1>8. (work'.busy => work'.addr = a /\ work'.data = NoData) /\ (Busy(a)' => WokenByInv(a, e, s))
  BY <1>2 DEF Idle, Process, Busy
<1>9. Busy(a)' => Woken(s, a) /\ (Front(a).type = "NULLIFY_REQ" => dir'[a].state = "UNCACHED")
  <2> SUFFICES ASSUME Busy(a)'
               PROVE  Woken(s, a) /\ (Front(a).type = "NULLIFY_REQ" => dir'[a].state = "UNCACHED")
    OBVIOUS
  <2>1. WokenByInv(a, e, s) /\ Queued(a)
    BY <1>8 DEF WokenByInv, Queued
  <2>2. Front(a).type \in ReqTypes \/ Front(a).type = "NULLIFY_REQ"
    BY <1>4, <2>1, FrontFacts
  <2> QED
    BY <1>5, <2>1, <2>2 DEF WokenByInv, Woken, ReqTypes
<1>10. LineKept(a)
  <2>1. "INV_REP" \in Leaves /\ QueueSame(a) /\ SameBox(inbox[Dram], inbox'[Dram], Home, a)
    BY <1>2, <1>4, SameBoxRefl DEF Leaves, QueueSame
  <2>2. Busy(a)' => work'.data = NoData
    BY <1>8 DEF Busy
  <2> QED
    BY <1>2, <1>3, <1>4, <1>7, <1>9, <2>1, <2>2, LeaverKept
<1>11. \A b \in Addrs : b # a => LineApart(b)
  <2>1. \A n \in LLCs \union {Dram}, b \in Addrs : SameBox(inbox[n], inbox'[n], Home, b)
    BY <1>4, SameBoxRefl
  <2> QED
    BY <1>2, <1>3, <1>5, <1>8, <2>1, HandledApart
<1> QED
  BY <1>4, <1>10, <1>11, OneLineOnly

\* processFlushRepFromL2Cache()
LEMMA HandleFlushRepCInv ==
  ASSUME CInv, TInv', UNCHANGED llcVars, HandleFlushRep
  PROVE  CInv'
<1>1. PICK a, s, d : a = HomeMsg.addr /\ s = HomeMsg.from /\ d = HomeMsg.data
  OBVIOUS
<1> DEFINE e == [Removed(dir[a], s) EXCEPT !.owner = None, !.forwarder = None]
           toDram == Send(Received(Home), Dram, Msg("DRAM_WRITE_REQ", Home, a, d))
<1>2. /\ Handles("FLUSH_REP") /\ FlushRepAssertions(HomeMsg) /\ dir' = [dir EXCEPT ![a] = e]
      /\ cached' = cached /\ replaced' = replaced
      /\ \/ ~Queued(a) /\ inbox' = toDram /\ work' = Idle /\ queue' = queue
         \/ /\ Queued(a) /\ Front(a).type = "NULLIFY_REQ"
            /\ inbox' = toDram /\ work' = Process(a, NoData) /\ queue' = queue
         \/ /\ Queued(a) /\ Front(a).type = "SH_REQ"
            /\ inbox' = toDram /\ work' = Process(a, d) /\ queue' = queue
         \/ /\ Queued(a) /\ (Front(a).type = "EX_REQ" \/ (Front(a).type = "UPGRADE_REQ" /\ e.sharers = {}))
            /\ inbox' = Received(Home) /\ work' = Process(a, d) /\ queue' = queue
         \/ /\ Queued(a) /\ \E x \in Freed(d) : queue' = [queue EXCEPT ![a][1].data = x]
            /\ inbox' = Received(Home) /\ work' = work
  BY <1>1 DEF HandleFlushRep, Queued
<1>3. ASSUME inbox' = toDram \/ inbox' = Received(Home)
      PROVE  /\ Handled(s, a, "FLUSH_REP") /\ a \in Addrs /\ s \in LLCs /\ Leaving(s, a)
             /\ ToHome(s, a, {"FLUSH_REP"}) /\ HomeBox'
             /\ \A n \in LLCs : inbox'[n] = inbox[n]
             /\ \/ SameBox(inbox[Dram], inbox'[Dram], Home, a)
                \/ PushBox(inbox[Dram], inbox'[Dram], Home, a, "DRAM_WRITE_REQ")
             /\ \A b \in Addrs : b # a => SameBox(inbox[Dram], inbox'[Dram], Home, b)
  <2>1. inbox \in Inboxes /\ Pending(Home) /\ HomeBox /\ Home # Dram /\ Dram \notin LLCs
    BY <1>2, DirectoryFacts, NetworkAssumption DEF CInv, Handles
  <2>2. /\ Received(Home) \in Inboxes /\ HomeMsg \in Message /\ a \in Addrs
        /\ \A n \in LLCs \union {Dram} : Received(Home)[n] = inbox[n]
    BY <1>1, <2>1, HomeTakes
  <2>3. d \in Data
    BY <1>1, <1>2, <2>2, MessageFields DEF Handles, CacheToHomeData
  <2>4. Sent(Received(Home), toDram, {Dram}, "DRAM_WRITE_REQ", a)
    BY <2>2, <2>3, DirectorySends DEF HomeToAnyData
  <2>5. toDram[Home] = Received(Home)[Home] /\ \A n \in LLCs : toDram[n] = Received(Home)[n]
    BY <2>1, <2>2 DEF Send, Inboxes, Nodes
  <2>6. inbox'[Home] = Received(Home)[Home] /\ \A n \in LLCs : inbox'[n] = inbox[n]
    BY <1>3, <2>2, <2>5
  <2>7. Handled(s, a, "FLUSH_REP")
    BY <1>1, <1>2, <2>6 DEF Handled, Handles
  <2>8. s \in LLCs /\ HomeBox' /\ ToHome(s, a, {"FLUSH_REP"})
    BY <2>7, HandledFacts DEF ToHome
  <2>9. Leaving(s, a)
    BY <2>8, HasSplit DEF Leaving, ToHome
  <2>10. CASE inbox' = Received(Home)
    BY <2>2, <2>6, <2>7, <2>8, <2>9, <2>10, SameBoxRefl
  <2>11. CASE inbox' = toDram
    <3>1. PushBox(inbox[Dram], inbox'[Dram], Home, a, "DRAM_WRITE_REQ")
      BY <2>2, <2>4, <2>11 DEF Sent
    <3>2. \A b \in Addrs : b # a => SameBox(inbox[Dram], inbox'[Dram], Home, b)
      BY <2>2, <2>4, <2>11 DEF Sent
    <3> QED
      BY <2>2, <2>6, <2>7, <2>8, <2>9, <3>1, <3>2
  <2> QED
    BY <1>3, <2>10, <2>11
<1>4. /\ Handled(s, a, "FLUSH_REP") /\ a \in Addrs /\ s \in LLCs /\ Leaving(s, a)
      /\ ToHome(s, a, {"FLUSH_REP"}) /\ HomeBox'
      /\ \A n \in LLCs : inbox'[n] = inbox[n]
      /\ \/ SameBox(inbox[Dram], inbox'[Dram], Home, a)
         \/ PushBox(inbox[Dram], inbox'[Dram], Home, a, "DRAM_WRITE_REQ")
      /\ \A b \in Addrs : b # a => SameBox(inbox[Dram], inbox'[Dram], Home, b)
  BY <1>2, <1>3
<1> HIDE DEF toDram
<1>5. /\ dir \in [Addrs -> Entry] /\ dir[a] \in Entry /\ dir'[a] = e
      /\ (\A b \in Addrs : b # a => dir'[b] = dir[b]) /\ queue \in Queues
  BY <1>2, <1>4, DirectoryFacts DEF CInv
<1>6. /\ e.sharers = dir[a].sharers \ {s} /\ e.forwarder = None
      /\ e.state = IF dir[a].sharers = {s} THEN "UNCACHED" ELSE dir[a].state
  BY <1>5 DEF Removed, Entry
<1> HIDE DEF e
<1>7. SharerLeft(s, a) /\ HasEntry(a)' /\ s \in dir[a].sharers
  BY <1>1, <1>2, <1>5, <1>6 DEF SharerLeft, FlushRepAssertions, HasEntry
<1>8. QueueSame(a) /\ \A b \in Addrs : b # a => queue'[b] = queue[b]
  <2>1. CASE queue' = queue
    BY <2>1 DEF QueueSame
  <2>2. ASSUME Queued(a), NEW x, queue' = [queue EXCEPT ![a][1].data = x]
        PROVE  QueueSame(a) /\ \A b \in Addrs : b # a => queue'[b] = queue[b]
    <3>1. queue[a][1] = Front(a)
      BY <1>4, <2>2, FrontFacts
    <3>2. queue'[a] = [queue[a] EXCEPT ![1] = [queue[a][1] EXCEPT !.data = x]]
          /\ \A b \in Addrs : b # a => queue'[b] = queue[b]
      BY <1>4, <1>5, <2>2 DEF Queues
    <3>3. queue'[a] = [queue[a] EXCEPT ![1] = [Front(a) EXCEPT !.data = x]]
      BY <3>1, <3>2
    <3> QED
      BY <2>2, <3>2, <3>3 DEF QueueSame
  <2> QED
    BY <1>2, <2>1, <2>2
\* Only an upgrade has a SHARED line flushed.
<1>9. Queued(a) /\ Front(a).type # "UPGRADE_REQ" => dir[a].sharers = {s}
  <2>1. RecallFlush(s, a) /\ EntryShape(a)
    BY <1>4 DEF CInv, LineInv, EntryInv
  <2>2. Queued(a) /\ Front(a).type # "UPGRADE_REQ" => dir[a].state # "SHARED"
    BY <1>4, <2>1 DEF RecallFlush
  <2>3. dir[a].state # "UNCACHED" /\ dir[a].state \in DStates
    BY <1>5, <1>7, <2>1 DEF EntryShape, Entry
  <2> QED
    BY <1>7, <2>1, <2>2, <2>3 DEF EntryShape, DStates, Owned
<1>10. (work'.busy => work'.addr = a) /\ (Busy(a)' => Queued(a) /\ dir[a].sharers = {s})
  <2>1. ~work.busy
    BY <1>2 DEF Handles
  <2>2. e.sharers = {} => dir[a].sharers = {s}
    BY <1>6, <1>7
  <2> QED
    BY <1>2, <1>9, <2>1, <2>2 DEF Idle, Process, Busy
<1>11. Busy(a)' => Woken(s, a) /\ dir'[a].state = "UNCACHED"
  BY <1>5, <1>6, <1>10 DEF Woken
<1>12. LineKept(a)
  <2>1. "FLUSH_REP" \in Leaves /\ (a \in replaced => a \in replaced')
    BY <1>2 DEF Leaves
  <2> QED
    BY <1>4, <1>7, <1>8, <1>11, <2>1, LeaverKept
<1>13. \A b \in Addrs : b # a => LineApart(b)
  <2>1. \A n \in LLCs \union {Dram}, b \in Addrs : b # a => SameBox(inbox[n], inbox'[n], Home, b)
    BY <1>4, SameBoxRefl
  <2> QED
    BY <1>2, <1>4, <1>5, <1>8, <1>10, <2>1, HandledApart
<1> QED
  BY <1>4, <1>12, <1>13, OneLineOnly

\* processWbRepFromL2Cache()
LEMMA HandleWbRepCInv ==
  ASSUME CInv, TInv', UNCHANGED llcVars, HandleWbRep
  PROVE  CInv'
<1>1. PICK a, s, d : a = HomeMsg.addr /\ s = HomeMsg.from /\ d = HomeMsg.data
  OBVIOUS
<1>2. /\ Handles("WB_REP") /\ WbRepAssertions(HomeMsg)
      /\ dir' = [dir EXCEPT ![a].owner = None, ![a].state = "SHARED"]
      /\ work' = Process(a, d) /\ inbox' = Received(Home)
      /\ cached' = cached /\ replaced' = replaced /\ queue' = queue
  BY <1>1 DEF HandleWbRep
<1>3. Handled(s, a, "WB_REP")
  BY <1>1, <1>2 DEF Handled, Handles
<1>4. /\ a \in Addrs /\ PopBox(inbox[Home], inbox'[Home], s, a, "WB_REP")
      /\ \A f, b : ~(f = s /\ b = a) => SameBox(inbox[Home], inbox'[Home], f, b)
      /\ HomeBox' /\ \A n \in LLCs \union {Dram} : inbox'[n] = inbox[n]
      /\ s \in LLCs /\ ToHome(s, a, {"WB_REP"}) /\ HomeMsg \in Message
  BY <1>2, <1>3, HandledFacts DEF ToHome
<1>5. /\ dir[a] \in Entry /\ dir'[a].state = "SHARED" /\ dir'[a].sharers = dir[a].sharers
      /\ dir'[a].forwarder = dir[a].forwarder
      /\ \A b \in Addrs : b # a => dir'[b] = dir[b]
  <2>1. dir \in [Addrs -> Entry]
    BY DirectoryFacts DEF CInv
  <2>2. dir[a] \in Entry
    BY <1>4, <2>1
  <2>3. dir' = [dir EXCEPT ![a] = [dir[a] EXCEPT !.owner = None, !.state = "SHARED"]]
    BY <1>2, <1>4, <2>1
  <2> QED
    BY <1>4, <2>1, <2>2, <2>3 DEF Entry
<1>6. d # NoData /\ Busy(a)' /\ work'.data = d /\ work'.addr = a
  <2>1. d \in Data
    BY <1>1, <1>2, <1>4, MessageFields DEF Handles, CacheToHomeData
  <2> QED
    BY <1>2, <2>1, DataNotNull DEF Process, Busy
<1>7. /\ s \in dir[a].sharers /\ HasEntry(a)' /\ Queued(a) /\ Front(a).type = "SH_REQ"
  BY <1>1, <1>2 DEF WbRepAssertions, HasEntry, Queued
<1>8. /\ EntryInv(a) /\ \A l \in LLCs : LineInv(l, a)
      /\ QueueFresh(a) /\ \A l \in LLCs : Once(l, a)
  BY <1>4 DEF CInv, EntryInv, LineInv, AskOnce, Once
<1>9. /\ (\A l, T : InQueue(l, a, T)' <=> InQueue(l, a, T)) /\ (\A l : Once(l, a)' <=> Once(l, a))
      /\ QueueFresh(a)' /\ Queued(a)' /\ Front(a)' = Front(a)
      /\ \A l : Fetching(l, a)' <=> Fetching(l, a)
  BY <1>2, <1>7, <1>8 DEF InQueue, Once, QueueFresh, Queued, Front, Fetching
<1>10. /\ Waits(a) /\ ~Front(a).waitForData
       /\ dir[a].state \in Owned \/ (dir[a].state = "SHARED" /\ Front(a).forwardingFrom = s)
  BY <1>4, <1>8 DEF LineInv, Copying, Waits
<1>11. ASSUME NEW l \in LLCs, l # s PROVE Settled(l, a) /\ (dir'[a].state = dir[a].state \/ l \notin dir[a].sharers)
  <2>1. CASE dir[a].state \in Owned
    <3>1. dir[a].sharers = {dir[a].owner}
      BY <1>8, <2>1 DEF EntryInv, EntryShape
    <3>2. l \notin dir[a].sharers
      BY <1>7, <1>11, <3>1
    <3> QED
      BY <1>4, <1>8, <3>2, NobodySettled
  <2>2. CASE dir[a].state = "SHARED" /\ Front(a).forwardingFrom = s
    <3>1. ~Recalled(l, a)
      BY <1>7 DEF Recalled
    <3>2. LineInv(l, a) /\ Front(a).forwardingFrom # l /\ dir[a].state \notin Owned
      BY <1>8, <1>11, <2>2 DEF Owned
    <3>3. ~Live(l, a, {"INV_REQ"}) /\ ~Live(l, a, {"FLUSH_REQ"})
      BY <3>1, <3>2 DEF LineInv, RecallInv, RecallFlush
    <3>4. ~Live(l, a, {"WB_REQ"}) /\ ~ToHome(l, a, {"WB_REP"})
      BY <3>2 DEF LineInv, Copying
    <3>5. ~ToHome(l, a, {"FLUSH_REP"})
      BY <1>7, <2>2, <3>2 DEF LineInv, RecallFlush
    <3>6. Asking(l, a, {"UPGRADE_REQ"}) => ~Leaving(l, a)
      BY <3>1, <3>2 DEF LineInv, AskUpgrade
    <3> QED
      BY <1>5, <2>2, <3>3, <3>4, <3>5, <3>6 DEF Settled
  <2> QED
    BY <1>10, <2>1, <2>2
<1>12. ASSUME NEW l \in LLCs, l # s PROVE LineInv(l, a)'
  <2>1. SameBox(inbox[l], inbox'[l], Home, a) /\ SameBox(inbox[Home], inbox'[Home], l, a)
    BY <1>4, <1>12, SameBoxRefl
  <2>2. (\A T : InQueue(l, a, T)' <=> InQueue(l, a, T)) /\ Once(l, a)'
    BY <1>8, <1>9
  <2>3. /\ Fetching(l, a)' => ~Held(l, a) /\ ~Granted(l, a) /\ ~Leaving(l, a)
        /\ l \in dir'[a].sharers <=> l \in dir[a].sharers \/ Fetching(l, a)'
    BY <1>5, <1>8, <1>9 DEF LineInv, OneToken, Tokens
  <2> QED
    BY <1>4, <1>8, <1>9, <1>11, <1>12, <2>1, <2>2, <2>3, BystanderLine
<1>13. LineInv(s, a)'
  <2>1. SameBox(inbox[s], inbox'[s], Home, a)
    BY <1>4, SameBoxRefl
  <2>2. (\A T : InQueue(s, a, T)' <=> InQueue(s, a, T)) /\ Once(s, a)' /\ LineInv(s, a)
    BY <1>4, <1>8, <1>9
  <2>3. (Fetching(s, a)' <=> Fetching(s, a)) /\ (s \in dir'[a].sharers <=> s \in dir[a].sharers)
    BY <1>5, <1>9
  <2> QED
    BY <1>4, <1>5, <2>1, <2>2, <2>3, CopiedLine
<1>14. EntryInv(a)'
  <2>1. DramOnce(a)'
    <3>1. /\ SameBox(inbox[Dram], inbox'[Dram], Home, a)
          /\ SameBox(inbox[Home], inbox'[Home], Dram, a)
      BY <1>4, SameBoxRefl, NetworkAssumption
    <3> QED
      BY <1>8, <1>10, <3>1, DramStill DEF EntryInv
  <2>2. EntryShape(a)'
    BY <1>5, <1>7 DEF EntryShape, Owned
  <2>3. FrontState(a)' /\ BusyFront(a)' /\ ForwarderKnown(a)'
    BY <1>5, <1>6, <1>7, <1>9, <1>10 DEF FrontState, BusyFront, ForwarderKnown
  <2> QED
    BY <1>9, <2>1, <2>2, <2>3 DEF EntryInv
<1>15. \A b \in Addrs : b # a => LineApart(b)
  <2>1. \A n \in LLCs \union {Dram}, b \in Addrs : SameBox(inbox[n], inbox'[n], Home, b)
    BY <1>4, SameBoxRefl
  <2> QED
    BY <1>2, <1>3, <1>5, <1>6, <2>1, HandledApart
<1> QED
  BY <1>4, <1>12, <1>13, <1>14, <1>15, OneLineOnly DEF LineKept

\* processDRAMReply()
LEMMA HandleDramReplyCInv ==
  ASSUME CInv, TInv', UNCHANGED llcVars, HandleDramReply
  PROVE  CInv'
<1>1. PICK a, y, d : /\ a = HomeMsg.addr /\ d = HomeMsg.data
                     /\ y = IF Front(a).type = "SH_REQ" /\ dir[a].state = "SHARED" THEN "SH_REP" ELSE "EX_REP"
  OBVIOUS
<1> DEFINE r == Front(a).from
<1>2. /\ Handles("DRAM_READ_REP") /\ DramReplyAssertions(HomeMsg)
      /\ inbox' = Send(Received(Home), r, Msg(y, Home, a, d))
      /\ Complete(queue, a) /\ dir' = dir /\ cached' = cached /\ replaced' = replaced
  BY <1>1 DEF HandleDramReply
<1>3. inbox \in Inboxes /\ Pending(Home) /\ HomeBox /\ Home # Dram /\ Dram \notin LLCs /\ queue \in Queues
  BY <1>2, DirectoryFacts, NetworkAssumption DEF CInv, Handles
<1>4. /\ Received(Home) \in Inboxes /\ HomeMsg \in Message /\ a \in Addrs
      /\ \A n \in LLCs \union {Dram} : Received(Home)[n] = inbox[n]
  BY <1>1, <1>3, HomeTakes
<1>5. d \in Data /\ y \in Grants /\ y \in HomeToAnyData
  BY <1>1, <1>2, <1>4, MessageFields DEF Handles, Grants, HomeToAnyData
<1>6. Queued(a) /\ HasEntry(a) /\ Front(a).type # "NULLIFY_REQ"
  BY <1>1, <1>2 DEF DramReplyAssertions, Queued
<1>7. Front(a).type \in ReqTypes /\ r \in LLCs
  BY <1>4, <1>6, FrontFacts
<1>8. Sent(Received(Home), inbox', {r}, y, a)
  BY <1>2, <1>4, <1>5, <1>7, DirectorySends
<1>9. Handled(HomeMsg.from, a, "DRAM_READ_REP")
  BY <1>1, <1>2, <1>3, <1>8 DEF Handled, Handles, Sent
<1>10. /\ PopBox(inbox[Home], inbox'[Home], Dram, a, "DRAM_READ_REP")
       /\ \A f, b : ~(f = Dram /\ b = a) => SameBox(inbox[Home], inbox'[Home], f, b)
       /\ HomeBox' /\ Has(inbox[Home], {"DRAM_READ_REP"}, Dram, a) /\ Handled(Dram, a, "DRAM_READ_REP")
  <2>1. /\ HomeMsg.from = Dram /\ HomeMsg.addr = a /\ HomeMsg.type = "DRAM_READ_REP"
        /\ inbox'[Home] = Received(Home)[Home] /\ HomeBox'
        /\ Has(inbox[Home], {"DRAM_READ_REP"}, HomeMsg.from, a)
    BY <1>9, HandledFacts DEF Handled
  <2>2. PopBox(inbox[Home], inbox'[Home], Dram, a, "DRAM_READ_REP")
    BY <1>3, <2>1, HomeTakes
  <2>3. \A f, b : ~(f = Dram /\ b = a) => SameBox(inbox[Home], inbox'[Home], f, b)
    BY <1>3, <2>1, HomeTakes
  <2> QED
    BY <1>9, <2>1, <2>2, <2>3
<1>11. \A n \in LLCs \union {Dram}, b \in Addrs :
         IF n \in {r} /\ b = a THEN PushBox(inbox[n], inbox'[n], Home, b, y)
         ELSE SameBox(inbox[n], inbox'[n], Home, b)
  BY <1>4, <1>8 DEF Sent
<1>12. EntryInv(a) /\ \A l \in LLCs : LineInv(l, a)
  BY <1>4 DEF CInv
<1>13. ReadDone(a) /\ Front(a).waitForData /\ ~Reading(a) /\ ~Waits(a)
  BY <1>10, <1>12 DEF ReadDone, EntryInv, DramOnce, Waits
<1>14. /\ queue'[a] = Tail(queue[a]) /\ (\A b \in Addrs : b # a => queue'[b] = queue[b])
       /\ (work'.busy => work'.addr = a /\ work'.data = NoData)
  BY <1>2, <1>3, <1>4 DEF Complete, Queues, Idle, Process
<1>15. \A l \in LLCs : LineInv(l, a)'
  <2>1. Fetching(r, a) /\ \A l : Fetching(l, a) => l = r
    BY <1>6, <1>13 DEF Fetching
  <2>2. HoldsNothing(r, a) /\ r \in dir[a].sharers
    BY <1>7, <1>12, <2>1 DEF LineInv, OneToken, Tokens, HoldsNothing
  <2>3. SharerAdded(a)
    BY <1>2, <2>2 DEF SharerAdded
  <2>4. \A l \in LLCs : Settled(l, a)
    BY <1>4, <1>12, <1>13, WaitsForNothing
  <2>5. IF Front(a).type = "SH_REQ" THEN dir[a].state \in {"SHARED", "EXCLUSIVE"} ELSE dir[a].state = "MODIFIED"
    BY <1>6, <1>12, <1>13 DEF EntryInv, FrontState
  <2>6. /\ y = "EX_REP" => dir'[a].state \in Owned
        /\ y = "SH_REP" => dir'[a].state = "SHARED"
        /\ dir'[a].state = "MODIFIED" => Front(a).type \in {"EX_REQ", "UPGRADE_REQ"}
    BY <1>1, <1>2, <1>7, <2>5 DEF Owned, ReqTypes
  <2>7. \A l \in LLCs : SameBox(inbox[Home], inbox'[Home], l, a)
    BY <1>3, <1>10
  <2>8. \A l \in LLCs : IF l = Front(a).from THEN PushBox(inbox[l], inbox'[l], Home, a, y)
                        ELSE SameBox(inbox[l], inbox'[l], Home, a)
    BY <1>4, <1>11
  <2> QED
    BY <1>4, <1>5, <1>6, <1>7, <1>14, <2>1, <2>2, <2>3, <2>4, <2>6, <2>7, <2>8, GrantKept
<1>16. EntryInv(a)'
  <2>1. DramOnce(a)'
    <3>1. SameBox(inbox[Dram], inbox'[Dram], Home, a)
      BY <1>3, <1>4, <1>7, <1>11
    <3>2. ~Prec(inbox[Home], {"DRAM_READ_REP"}, {"DRAM_READ_REP"}, Dram, a)
      BY <1>12 DEF EntryInv, DramOnce
    <3>3. ~ReadDone(a)'
      BY <1>10, <3>2 DEF ReadDone, PopBox
    <3>4. ~Prec(inbox'[Home], {"DRAM_READ_REP"}, {"DRAM_READ_REP"}, Dram, a)
      BY <1>10, <3>2 DEF PopBox
    <3>5. ~Reading(a)' /\ ~Prec(inbox'[Dram], {"DRAM_READ_REQ"}, {"DRAM_READ_REQ"}, Home, a)
      BY <1>12, <1>13, <3>1 DEF Reading, EntryInv, DramOnce, SameBox
    <3> QED
      BY <3>3, <3>4, <3>5 DEF DramOnce
  <2>2. /\ dir'[a].state = "UNCACHED" <=> dir'[a].sharers = {}
        /\ dir'[a].state \in Owned => dir'[a].sharers = {dir'[a].owner}
        /\ HasEntry(a)'
    BY <1>2, <1>6, <1>12 DEF EntryInv, EntryShape, HasEntry
  <2>3. Protocol = "MESIF" /\ dir'[a].state = "SHARED" => dir'[a].forwarder # Uninit
    BY <1>2, <1>10, <1>12 DEF EntryInv, ForwarderKnown, Handled, Busy
  <2>4. Busy(a)' => work'.data = NoData
    BY <1>14 DEF Busy
  <2> QED
    BY <1>4, <1>6, <1>14, <2>1, <2>2, <2>3, <2>4, DoneEntry
<1>17. \A b \in Addrs : b # a => LineApart(b)
  BY <1>2, <1>10, <1>11, <1>14, HandledApart
<1> QED
  BY <1>4, <1>10, <1>15, <1>16, <1>17, OneLineOnly DEF LineKept

-----------------------------------------------------------------------------
(* The steps of the DRAM controller.                                       *)

\* The message at the head of its box is one of the directory.
LEMMA DramTakes ==
  ASSUME inbox \in Inboxes, Pending(Dram),
         Head(inbox[Dram]).type \in {"DRAM_READ_REQ", "DRAM_WRITE_REQ"}
  PROVE  /\ Head(inbox[Dram]).addr \in Addrs /\ Received(Dram) \in Inboxes
         /\ PopBox(inbox[Dram], Received(Dram)[Dram], Home, Head(inbox[Dram]).addr, Head(inbox[Dram]).type)
         /\ \A b : b # Head(inbox[Dram]).addr => SameBox(inbox[Dram], Received(Dram)[Dram], Home, b)
         /\ \A n \in LLCs \union {Home} : Received(Dram)[n] = inbox[n]
<1> DEFINE s == inbox[Dram]
<1>1. Dram \in Nodes /\ s \in Seq(Message) /\ s # <<>> /\ Dram \notin LLCs \union {Home}
  BY NetworkAssumption DEF Nodes, Inboxes, Pending
<1>2. /\ Head(s) \in Message /\ Received(Dram) \in Inboxes
      /\ Received(Dram)[Dram] = Tail(s)
      /\ \A n \in LLCs \union {Home} : Received(Dram)[n] = inbox[n]
  BY <1>1, ReceivedType DEF Received, Inboxes, Nodes
<1>3. Head(s).addr \in Addrs /\ Head(s).from = Home
  BY <1>2 DEF Message, CacheToHome, CacheToHomeData, HomeToAny, HomeToAnyData, ReqTypes
<1>4. /\ PopBox(s, Tail(s), Home, Head(s).addr, Head(s).type)
      /\ \A b : b # Head(s).addr => SameBox(s, Tail(s), Home, b)
  BY <1>1, <1>3, TailBox
<1> QED
  BY <1>2, <1>3, <1>4

\* The directory keeps waiting for one read of the line.
LEMMA DramLine ==
  ASSUME CInv, TInv', UNCHANGED <<dirVars, llcVars>>, NEW a \in Addrs, DramOnce(a)', HomeBox',
         \A l \in LLCs, b \in Addrs :
           SameBox(inbox[l], inbox'[l], Home, b) /\ SameBox(inbox[Home], inbox'[Home], l, b),
         \A b \in Addrs : b # a =>
           SameBox(inbox[Dram], inbox'[Dram], Home, b) /\ SameBox(inbox[Home], inbox'[Home], Dram, b)
  PROVE  CInv'
<1>1. /\ dir' = dir /\ cached' = cached /\ replaced' = replaced /\ queue' = queue /\ work' = work
      /\ cstate' = cstate /\ waiters' = waiters /\ net' = net /\ UNCHANGED llcVars
  BY DEF dirVars, llcVars
<1>2. EntryInv(a)'
  <2>1. EntryInv(a)
    BY DEF CInv
  <2>2. EntryShape(a)' /\ FrontState(a)' /\ QueueFresh(a)' /\ BusyFront(a)' /\ ForwarderKnown(a)'
    BY <1>1, <2>1 DEF EntryInv, EntryShape, FrontState, QueueFresh, BusyFront, ForwarderKnown,
                      HasEntry, Queued, Front, Busy
  <2> QED
    BY <2>2 DEF EntryInv
<1>3. ASSUME NEW l \in LLCs PROVE LineInv(l, a)'
  <2>1. LineInv(l, a)
    BY DEF CInv
  <2>2. (InLoop(l, a)' <=> InLoop(l, a)) /\ (Busy(a)' <=> Busy(a))
    BY <1>1 DEF InLoop, Busy
  <2> QED
    BY <1>1, <2>1, <2>2, LineFrame
<1>4. \A b \in Addrs : b # a => LineApart(b)
  BY <1>1 DEF LineApart, HasEntry, Busy, Queued
<1> QED
  BY <1>1, <1>2, <1>3, <1>4, OneLineOnly DEF LineKept

\* handleMsgFromTagDirectory(), a read.
LEMMA DramReadCInv ==
  ASSUME CInv, TInv', UNCHANGED <<dirVars, llcVars>>, DramRead
  PROVE  CInv'
<1>1. PICK a, m : a = Head(inbox[Dram]).addr /\ m = Msg("DRAM_READ_REP", Dram, a, dram[a])
  OBVIOUS
<1>2. /\ Pending(Dram) /\ Head(inbox[Dram]).type = "DRAM_READ_REQ"
      /\ inbox' = Send(Received(Dram), Home, m)
  BY <1>1 DEF DramRead
<1>3. inbox \in Inboxes /\ dram \in [Addrs -> Data] /\ HomeBox
  BY DirectoryFacts DEF CInv, TInv, TypeOK, NetworkTypeOK
<1>4. /\ a \in Addrs /\ Received(Dram) \in Inboxes
      /\ PopBox(inbox[Dram], Received(Dram)[Dram], Home, a, "DRAM_READ_REQ")
      /\ \A b : b # a => SameBox(inbox[Dram], Received(Dram)[Dram], Home, b)
      /\ \A n \in LLCs \union {Home} : Received(Dram)[n] = inbox[n]
  BY <1>1, <1>2, <1>3, DramTakes
<1>5. m \in Message /\ m.from = Dram /\ m.addr = a /\ m.type = "DRAM_READ_REP"
  <2>1. dram[a] \in Data
    BY <1>3, <1>4
  <2>2. m.from = Dram /\ m.addr = a /\ m.type = "DRAM_READ_REP"
    BY <1>1 DEF Msg
  <2> QED
    BY <1>1, <1>4, <2>1, <2>2, MsgType
<1>6. /\ inbox'[Home] = Append(inbox[Home], m) /\ inbox[Home] \in Seq(Message)
      /\ inbox'[Dram] = Received(Dram)[Dram]
      /\ \A l \in LLCs : inbox'[l] = inbox[l]
  BY <1>2, <1>3, <1>4, NetworkAssumption DEF Send, Inboxes, Nodes
<1>7. /\ PushBox(inbox[Home], inbox'[Home], Dram, a, "DRAM_READ_REP")
      /\ \A b : b # a => SameBox(inbox[Home], inbox'[Home], Dram, b)
      /\ \A l \in LLCs : \A b : SameBox(inbox[Home], inbox'[Home], l, b)
  BY <1>5, <1>6, AppendBox, NetworkAssumption
<1>8. HomeBox'
  <2>1. m.type \in HomeTypes
    BY <1>5 DEF HomeTypes
  <2>2. ASSUME NEW i \in 1 .. Len(inbox'[Home])
        PROVE  inbox'[Home][i] = m \/ (i \in 1 .. Len(inbox[Home]) /\ inbox'[Home][i] = inbox[Home][i])
    BY <1>5, <1>6
  <2> QED
    BY <1>3, <2>1, <2>2 DEF HomeBox
<1>9. DramOnce(a)'
  <2>1. /\ DramOnce(a) /\ Reading(a)
    BY <1>4 DEF CInv, EntryInv, Reading, PopBox
  <2>2. ~ReadDone(a) /\ Queued(a) /\ Front(a).waitForData
    BY <2>1 DEF DramOnce
  <2>3. Queued(a)' /\ Front(a)'.waitForData
    BY <2>2 DEF Queued, Front, dirVars
  <2>4. ~Reading(a)' /\ ~Prec(inbox'[Dram], {"DRAM_READ_REQ"}, {"DRAM_READ_REQ"}, Home, a)
    BY <1>4, <1>6, <2>1 DEF Reading, DramOnce, PopBox
  <2>5. ~Prec(inbox'[Home], {"DRAM_READ_REP"}, {"DRAM_READ_REP"}, Dram, a)
    BY <1>7, <2>1, <2>2 DEF ReadDone, DramOnce, PushBox
  <2> QED
    BY <2>3, <2>4, <2>5 DEF DramOnce
<1>10. \A l \in LLCs, b \in Addrs : SameBox(inbox[l], inbox'[l], Home, b)
  BY <1>6, SameBoxRefl
<1> QED
  BY <1>4, <1>6, <1>7, <1>8, <1>9, <1>10, DramLine

\* handleMsgFromTagDirectory(), a write.
LEMMA DramWriteCInv ==
  ASSUME CInv, TInv', UNCHANGED <<dirVars, llcVars>>, DramWrite
  PROVE  CInv'
<1>1. PICK a : a = Head(inbox[Dram]).addr
  OBVIOUS
<1>2. /\ Pending(Dram) /\ Head(inbox[Dram]).type = "DRAM_WRITE_REQ" /\ inbox' = Received(Dram)
  BY <1>1 DEF DramWrite
<1>3. inbox \in Inboxes /\ HomeBox
  BY DirectoryFacts DEF CInv
<1>4. /\ a \in Addrs
      /\ PopBox(inbox[Dram], inbox'[Dram], Home, a, "DRAM_WRITE_REQ")
      /\ \A b : b # a => SameBox(inbox[Dram], inbox'[Dram], Home, b)
      /\ \A n \in LLCs \union {Home} : inbox'[n] = inbox[n]
  BY <1>1, <1>2, <1>3, DramTakes
<1>5. HomeBox'
  BY <1>3, <1>4 DEF HomeBox
<1>6. \A l \in LLCs, b \in Addrs :
        SameBox(inbox[l], inbox'[l], Home, b) /\ SameBox(inbox[Home], inbox'[Home], l, b)
  BY <1>4, SameBoxRefl
<1>7. \A b \in Addrs : SameBox(inbox[Home], inbox'[Home], Dram, b)
  BY <1>4, SameBoxRefl
<1>8. DramOnce(a)'
  <2>1. DramOnce(a)
    BY <1>4 DEF CInv, EntryInv
  <2>2. (Queued(a)' <=> Queued(a)) /\ Front(a)' = Front(a)
    BY DEF Queued, Front, dirVars
  <2>3. (Reading(a)' <=> Reading(a)) /\ (ReadDone(a)' <=> ReadDone(a))
    BY <1>4, <1>7 DEF Reading, ReadDone, PopBox, SameBox
  <2>4. /\ ~Prec(inbox'[Dram], {"DRAM_READ_REQ"}, {"DRAM_READ_REQ"}, Home, a)
        /\ ~Prec(inbox'[Home], {"DRAM_READ_REP"}, {"DRAM_READ_REP"}, Dram, a)
    BY <1>4, <1>7, <2>1 DEF DramOnce, PopBox, SameBox
  <2> QED
    BY <2>1, <2>2, <2>3, <2>4 DEF DramOnce
<1> QED
  BY <1>4, <1>5, <1>6, <1>7, <1>8, DramLine

-----------------------------------------------------------------------------
(* The invariant holds, and what follows from it.                          *)

LEMMA InitCInv ==
  ASSUME Init
  PROVE  CInv
<1>1. /\ TInv /\ dir = [a \in Addrs |-> NewEntry] /\ cached = {} /\ replaced = {}
      /\ queue = [a \in Addrs |-> <<>>] /\ work = Idle
      /\ cstate = [l \in LLCs |-> [a \in Addrs |-> "I"]]
      /\ waiters = [l \in LLCs |-> [a \in Addrs |-> <<>>]] /\ net = [l \in LLCs |-> NetIdle]
      /\ inbox = [n \in Nodes |-> <<>>]
  BY InitTInv DEF Init, NetworkInit, DirectoryInit, CacheInit
<1>2. ASSUME NEW n \in Nodes, NEW f, NEW a
      PROVE  /\ \A T : ~Has(inbox[n], T, f, a)
             /\ \A T, U : ~Prec(inbox[n], T, U, f, a)
             /\ \A T, U, V : ~Prec3(inbox[n], T, U, V, f, a)
  BY <1>1, EmptyBox
<1>3. HomeBox
  BY <1>1 DEF HomeBox, Nodes
<1>4. ASSUME NEW a \in Addrs
      PROVE  /\ dir[a].state = "UNCACHED" /\ dir[a].sharers = {}
             /\ queue[a] = <<>> /\ ~Busy(a) /\ ~Queued(a) /\ ~Waits(a)
  BY <1>1 DEF NewEntry, Busy, Idle, Queued, Waits
<1>5. ASSUME NEW a \in Addrs PROVE EntryInv(a)
  <2>1. ~Reading(a) /\ ~ReadDone(a) /\ DramOnce(a)
    BY <1>2 DEF Reading, ReadDone, DramOnce, Nodes
  <2> QED
    BY <1>4, <2>1 DEF EntryInv, EntryShape, FrontState, QueueFresh, BusyFront, ForwarderKnown, Owned
<1>6. ASSUME NEW l \in LLCs, NEW a \in Addrs PROVE LineInv(l, a)
  <2>1. /\ cstate[l][a] = "I" /\ ~Held(l, a) /\ waiters[l][a] = <<>> /\ ~InLoop(l, a)
        /\ net[l] # [phase |-> "loop", addr |-> a]
    BY <1>1 DEF Held, InLoop, NetIdle
  <2>2. /\ \A T : ~ToCache(l, a, T) /\ ~ToHome(l, a, T) /\ ~Live(l, a, T)
        /\ ~Granted(l, a) /\ ~Leaving(l, a)
    BY <1>2 DEF ToCache, ToHome, Live, Granted, Leaving, Nodes
  <2>3. \A T : ~InQueue(l, a, T) /\ ~Asking(l, a, T)
    BY <1>4, <2>2 DEF InQueue, Asking
  <2>4. ~Fetching(l, a) /\ ~Recalled(l, a)
    BY <1>4 DEF Fetching, Recalled
  <2>5. OneToken(l, a) /\ Tokens(l, a) /\ OwnerOnly(l, a)
    BY <1>2, <1>4, <2>1, <2>2, <2>4 DEF OneToken, Tokens, OwnerOnly, Nodes
  <2>6. RecallInv(l, a) /\ RecallFlush(l, a) /\ Copying(l, a) /\ Upgraded(l, a)
    BY <2>2 DEF RecallInv, RecallFlush, Copying, Upgraded
  <2>7. CopyOnce(l, a)
    BY <1>2, <2>1, <2>2 DEF CopyOnce, Nodes, Held
  <2>8. AskOnce(l, a)
    <3>1. \A i, j \in 1 .. Len(queue[a]) : i = j
      BY <1>4
    <3> QED
      BY <1>2, <2>2, <2>3, <3>1 DEF AskOnce, Nodes
  <2>9. AskMiss(l, a) /\ AskUpgrade(l, a) /\ AskWaits(l, a)
    BY <1>2, <2>2, <2>3 DEF AskMiss, AskUpgrade, AskWaits, Nodes
  <2>10. UpgradeAsked(l, a) /\ LoopLine(l, a) /\ SharedReply(l, a) /\ SharedCopy(l, a)
         /\ LeftShared(l, a) /\ WritersWait(l, a) /\ WriterNow(l, a)
    BY <1>4, <2>1, <2>2, <2>3 DEF UpgradeAsked, LoopLine, SharedReply, SharedCopy, LeftShared,
                                  WritersWait, WriterNow
  <2> QED
    BY <2>5, <2>6, <2>7, <2>8, <2>9, <2>10 DEF LineInv
<1> QED
  BY <1>1, <1>3, <1>5, <1>6 DEF CInv

\* A step that changes nothing.
LEMMA StutterCInv ==
  ASSUME CInv, UNCHANGED vars
  PROVE  CInv'
<1>1. TInv'
  BY NextTInv DEF CInv
<1>2. /\ inbox' = inbox /\ dir' = dir /\ cached' = cached /\ replaced' = replaced
      /\ queue' = queue /\ work' = work /\ UNCHANGED llcVars
  BY DEF vars, dirVars
<1>3. HomeBox'
  BY <1>2 DEF CInv, HomeBox
<1>4. \A a \in Addrs : LineApart(a)
  BY <1>2, SameBoxRefl DEF LineApart, HasEntry, Busy
<1> DEFINE A == {}
<1>5. \A a \in Addrs : a \notin A
  OBVIOUS
<1> HIDE DEF A
<1> QED
  BY <1>1, <1>2, <1>3, <1>4, <1>5, HomeActs

\* Every step keeps the invariant.
LEMMA NextCInv ==
  ASSUME FullMap, CInv, [Next]_vars
  PROVE  CInv'
<1>1. TInv'
  BY NextTInv DEF CInv
<1>2. CASE DirectoryStep
  <2>1. UNCHANGED llcVars
    BY <1>2 DEF DirectoryStep
  <2>2. CASE ProcessWithEntry
    BY <1>1, <2>1, <2>2, ProcessWithEntryCInv
  <2>3. CASE ProcessEvictUncached
    BY <1>1, <2>1, <2>3, ProcessEvictUncachedCInv
  <2>4. CASE ProcessEvictCached
    BY <1>1, <2>1, <2>4, ProcessEvictCachedCInv
  <2>5. CASE ProcessNullify
    BY <1>1, <2>1, <2>5, ProcessNullifyCInv
  <2>6. CASE HandleReq
    BY <1>1, <2>1, <2>6, HandleReqCInv
  <2>7. CASE HandleInvRep
    BY <1>1, <2>1, <2>7, HandleInvRepCInv
  <2>8. CASE HandleFlushRep
    BY <1>1, <2>1, <2>8, HandleFlushRepCInv
  <2>9. CASE HandleWbRep
    BY <1>1, <2>1, <2>9, HandleWbRepCInv
  <2>10. CASE HandleDramReply
    BY <1>1, <2>1, <2>10, HandleDramReplyCInv
  <2> QED
    BY <1>2, <2>2, <2>3, <2>4, <2>5, <2>6, <2>7, <2>8, <2>9, <2>10 DEF DirectoryStep
<1>3. CASE DramStep
  <2>1. UNCHANGED <<dirVars, llcVars>>
    BY <1>3 DEF DramStep
  <2>2. CASE DramRead
    BY <1>1, <2>1, <2>2, DramReadCInv
  <2>3. CASE DramWrite
    BY <1>1, <2>1, <2>3, DramWriteCInv
  <2> QED
    BY <1>3, <2>2, <2>3 DEF DramStep
<1>4. ASSUME NEW l \in LLCs, NetworkThreadStep(l) PROVE CInv'
  <2>1. UNCHANGED dirVars
    BY <1>4 DEF NetworkThreadStep
  <2>2. CASE HandleDataRep(l) \/ HandleUpgradeRep(l)
    BY <1>1, <2>1, <2>2, ReplyCInv
  <2>3. CASE HandleInvReq(l) \/ HandleFlushReq(l)
    BY <1>1, <2>1, <2>3, RecallCInv
  <2>4. CASE HandleWbReq(l)
    BY <1>1, <2>1, <2>4, WriteBackCInv
  <2>5. CASE LoopEnds(l) \/ LoopUpgrades(l) \/ LoopWakes(l) \/ LoopDequeues(l)
    BY <1>1, <2>1, <2>5, LoopCInv
  <2> QED
    BY <1>4, <2>2, <2>3, <2>4, <2>5 DEF NetworkThreadStep
<1>5. ASSUME NEW c \in Cores, NEW a \in Addrs, CoreStep(c, a) PROVE CInv'
  BY <1>1, <1>5, CoreCInv
<1>6. ASSUME NEW l \in LLCs, NEW a \in Addrs, EvictStep(l, a) PROVE CInv'
  BY <1>1, <1>6, EvictCInv
<1>7. CASE UNCHANGED vars
  BY <1>7, StutterCInv
<1> QED
  BY <1>2, <1>3, <1>4, <1>5, <1>6, <1>7 DEF Next

\* The directory counts every copy, and knows who may write.
LEMMA CopyKnown ==
  ASSUME CInv, NEW a \in Addrs, NEW l \in LLCs, cstate[l][a] # "I"
  PROVE  /\ HasEntry(a) /\ l \in dir[a].sharers
         /\ cstate[l][a] \in {"E", "M"} =>
              /\ dir[a].state \in {"EXCLUSIVE", "MODIFIED"}
              /\ dir[a].owner = l /\ dir[a].sharers = {l}
<1>1. LineInv(l, a) /\ EntryInv(a)
  BY DEF CInv
<1>2. l \in dir[a].sharers
  BY <1>1 DEF LineInv, Tokens, Held
<1>3. HasEntry(a)
  BY <1>1, <1>2 DEF EntryInv, EntryShape
<1>4. cstate[l][a] \in {"E", "M"} => dir[a].state \in Owned
  BY <1>1 DEF LineInv, OwnerOnly
<1>5. dir[a].state \in Owned => dir[a].sharers = {dir[a].owner}
  BY <1>1 DEF EntryInv, EntryShape
<1> QED
  BY <1>2, <1>3, <1>4, <1>5 DEF Owned

LEMMA InvCovers ==
  ASSUME CInv
  PROVE  DirectoryCovers
  BY CopyKnown DEF DirectoryCovers

LEMMA InvSingleWriter ==
  ASSUME CInv
  PROVE  SingleWriter
<1> SUFFICES ASSUME NEW a \in Addrs, NEW l \in LLCs, NEW k \in LLCs, l # k,
                    cstate[l][a] \in {"E", "M"}, cstate[k][a] # "I"
             PROVE  FALSE
  BY DEF SingleWriter
<1>1. dir[a].sharers = {l} /\ k \in dir[a].sharers
  BY CopyKnown
<1> QED
  BY <1>1

\* The assertions of the caches.
LEMMA InvCacheAssertions ==
  ASSUME CInv
  PROVE  CacheAssertions
<1> SUFFICES ASSUME NEW l \in LLCs
             PROVE  /\ net[l] = NetIdle /\ Pending(l) =>
                         /\ LlcMsg(l).type \in RepTypes => RepAssertions(l, LlcMsg(l))
                         /\ LlcMsg(l).type = "INV_REQ" => InvAssertion(l, LlcMsg(l))
                    /\ net[l].phase = "loop" /\ waiters[l][net[l].addr] # <<>> =>
                         WakeAssertion(l, net[l].addr) \/ cstate[l][net[l].addr] = "S"
  BY DEF CacheAssertions
<1>1. ASSUME Pending(l), LlcMsg(l).type \in RepTypes \union {"INV_REQ"}
      PROVE  /\ LlcMsg(l).type \in RepTypes => RepAssertions(l, LlcMsg(l))
             /\ LlcMsg(l).type = "INV_REQ" => InvAssertion(l, LlcMsg(l))
  <2>1. PICK a, t : a = LlcMsg(l).addr /\ t = LlcMsg(l).type
    OBVIOUS
  <2>2. inbox[l] \in Seq(Message) /\ inbox[l] # <<>> /\ LlcMsg(l) = Head(inbox[l])
    BY <1>1, DirectoryFacts DEF CInv, Inboxes, Nodes, Pending, LlcMsg
  <2>3. LlcMsg(l) \in Message
    BY <2>2
  <2>4. LlcMsg(l).from = Home /\ a \in Addrs
    BY <1>1, <2>1, <2>3 DEF Message, RepTypes, CacheToHome, CacheToHomeData, HomeToAny, HomeToAnyData, ReqTypes
  <2>5. ToCache(l, a, {t})
    <3>1. 1 \in 1 .. Len(inbox[l]) /\ inbox[l][1] = LlcMsg(l)
      BY <2>2
    <3> QED
      BY <2>1, <2>4, <3>1 DEF ToCache, Has, Is
  <2>6. LineInv(l, a)
    BY <2>4 DEF CInv
  <2>7. t \in RepTypes => ToCache(l, a, RepTypes) /\ waiters[l][a] # <<>>
    BY <2>5, <2>6, HasMono DEF ToCache, LineInv, AskWaits
  <2>8. t \in Grants => cstate[l][a] = "I"
    BY <2>5, <2>6, HasMono DEF ToCache, Granted, LineInv, OneToken, Held
  <2>9. t = "UPGRADE_REP" => cstate[l][a] = "SU"
    BY <2>5, <2>6 DEF LineInv, Upgraded
  <2>10. t = "INV_REQ" => cstate[l][a] # "M"
    BY <2>5, <2>6 DEF LineInv, RecallInv, Live, Held, OwnerOnly, Owned
  <2> QED
    BY <2>1, <2>7, <2>8, <2>9, <2>10 DEF RepAssertions, InvAssertion, RepTypes, Grants
<1>2. ASSUME net[l].phase = "loop"
      PROVE  WakeAssertion(l, net[l].addr) \/ cstate[l][net[l].addr] = "S"
  <2>1. PICK a : a = net[l].addr
    OBVIOUS
  <2>2. net[l] \in Net
    BY DEF CInv, TInv, TypeOK, CacheTypeOK
  <2>3. a \in Addrs
    BY <1>2, <2>1, <2>2 DEF Net, NetIdle
  <2>4. cstate[l][a] \in {"S", "E", "M"}
    BY <1>2, <2>1, <2>3 DEF CInv, LineInv, LoopLine, InLoop
  <2> QED
    BY <2>1, <2>4 DEF WakeAssertion, Permitted, CanRead, CanWrite, Readable, Writable
<1> QED
  BY <1>1, <1>2

\* The assertions of the directory on the message it is about to handle.
LEMMA LeaverAssertions ==
  ASSUME CInv, NEW s, NEW a, NEW m, m = HomeMsg, Pending(Home), m.from = s, m.addr = a,
         m.type \in Leaves
  PROVE  /\ m.type = "INV_REP" => InvRepAssertions(m)
         /\ m.type = "FLUSH_REP" => FlushRepAssertions(m)
<1>1. /\ m \in Message /\ a \in Addrs
      /\ PopBox(inbox[Home], Received(Home)[Home], s, a, m.type)
  BY DirectoryFacts, HomeTakes DEF CInv
<1>2. s \in LLCs
  BY <1>1, MessageFields DEF Leaves, CacheToHomeData
<1>3. LineInv(s, a) /\ EntryInv(a) /\ dir[a] \in Entry
  BY <1>1, <1>2, DirectoryFacts DEF CInv
<1>4. ToHome(s, a, {m.type}) /\ Leaving(s, a)
  BY <1>1 DEF PopBox, ToHome, Leaving
<1>5. s \in dir[a].sharers
  BY <1>3, <1>4 DEF LineInv, Tokens
<1>6. dir[a].state # "UNCACHED" /\ HasEntry(a) /\ (dir[a].state \in Owned => dir[a].sharers = {s})
  BY <1>3, <1>5 DEF EntryInv, EntryShape
<1>7. m.type = "INV_REP" => dir[a].state # "MODIFIED"
  <2> SUFFICES ASSUME m.type = "INV_REP", dir[a].state = "MODIFIED" PROVE FALSE
    OBVIOUS
  <2>1. ToHome(s, a, {"WB_REP"}) /\ ~Prec(inbox[Home], Leaves, {"WB_REP"}, s, a)
    BY <1>3, <1>4 DEF LineInv, LeftShared, CopyOnce
  <2>2. Has(Received(Home)[Home], {"WB_REP"}, s, a)
    BY <1>1, <2>1 DEF PopBox, ToHome
  <2> QED
    BY <1>1, <2>1, <2>2 DEF PopBox
<1>8. dir[a].state \in {"SHARED", "EXCLUSIVE", "MODIFIED"}
  BY <1>3, <1>6 DEF Entry, DStates
<1> QED
  BY <1>5, <1>6, <1>7, <1>8 DEF InvRepAssertions, FlushRepAssertions, Owned

LEMMA WriterAssertions ==
  ASSUME CInv, NEW s, NEW a, NEW m, m = HomeMsg, Pending(Home), m.from = s, m.addr = a,
         m.type = "WB_REP"
  PROVE  WbRepAssertions(m)
<1>1. /\ m \in Message /\ a \in Addrs
      /\ PopBox(inbox[Home], Received(Home)[Home], s, a, "WB_REP")
  BY DirectoryFacts, HomeTakes DEF CInv
<1>2. s \in LLCs
  BY <1>1, MessageFields DEF CacheToHomeData
<1>3. LineInv(s, a) /\ EntryInv(a)
  BY <1>1, <1>2 DEF CInv
<1>4. ToHome(s, a, {"WB_REP"})
  BY <1>1 DEF PopBox, ToHome
<1>5. Queued(a) /\ Front(a).type = "SH_REQ" /\ s \in dir[a].sharers
  BY <1>3, <1>4 DEF LineInv, Copying, CopyOnce, Tokens, Held, Waits
<1>6. HasEntry(a)
  BY <1>3, <1>5 DEF EntryInv, EntryShape
<1> QED
  BY <1>5, <1>6 DEF WbRepAssertions, Queued

LEMMA DramAssertions ==
  ASSUME CInv, NEW a, NEW m, m = HomeMsg, Pending(Home), m.addr = a, m.type = "DRAM_READ_REP"
  PROVE  DramReplyAssertions(m)
<1>1. /\ m \in Message /\ a \in Addrs
      /\ PopBox(inbox[Home], Received(Home)[Home], m.from, a, "DRAM_READ_REP")
  BY DirectoryFacts, HomeTakes DEF CInv
<1>2. m.from = Dram
  BY <1>1 DEF Message, CacheToHome, CacheToHomeData, HomeToAny, HomeToAnyData, ReqTypes
<1>3. EntryInv(a) /\ ReadDone(a)
  BY <1>1, <1>2 DEF CInv, PopBox, ReadDone
<1>4. Queued(a) /\ Front(a).waitForData
  BY <1>3 DEF EntryInv, DramOnce
<1>5. Front(a).type # "NULLIFY_REQ"
  <2>1. Front(a) \in Request
    BY <1>1, <1>4, FrontFacts
  <2> QED
    BY <1>4, <2>1 DEF Request, ReqTypes
<1>6. IF Front(a).type = "SH_REQ" THEN dir[a].state \in {"SHARED", "EXCLUSIVE"} ELSE dir[a].state = "MODIFIED"
  BY <1>3, <1>4 DEF EntryInv, FrontState
<1>7. HasEntry(a)
  BY <1>3, <1>6 DEF EntryInv, EntryShape
<1> QED
  BY <1>4, <1>5, <1>6, <1>7 DEF DramReplyAssertions, Queued

\* ... and on the request it is about to process.
RequestAssertions(a, d) ==
  LET e == IF HasEntry(a) THEN dir[a] ELSE NewEntry
      f == Front(a)
  IN  /\ queue[a] # <<>>
      /\ e.state \in {"EXCLUSIVE", "MODIFIED"} =>
           /\ d = NoData
           /\ f.type = "SH_REQ" => e.owner # f.from
           /\ f.type = "UPGRADE_REQ" /\ f.from \in e.sharers => e.owner = f.from
      /\ e.state = "SHARED" /\ f.type = "EX_REQ" => d = NoData
      /\ e.state = "UNCACHED" => e.sharers = {}
      /\ Protocol = "MESIF" /\ e.state = "SHARED" /\ d = NoData => e.forwarder # Uninit
      /\ f.type = "NULLIFY_REQ" => a \in replaced /\ e.state = "UNCACHED"

LEMMA InvRequestAssertions ==
  ASSUME CInv, NEW a, NEW d, work.busy, a = work.addr, d = work.data
  PROVE  RequestAssertions(a, d)
<1> DEFINE e == IF HasEntry(a) THEN dir[a] ELSE NewEntry
<1>1. a \in Addrs /\ Busy(a) /\ queue[a] # <<>> /\ Queued(a)
  BY WorkFields, DirectoryFacts DEF CInv, Busy, Queued
<1>2. EntryInv(a)
  BY <1>1 DEF CInv
<1>3. /\ e.state # "UNCACHED" => e = dir[a]
      /\ e.state = "UNCACHED" => e.sharers = {}
      /\ dir[a].state = "UNCACHED" => e.state = "UNCACHED"
  BY <1>2 DEF EntryInv, EntryShape, NewEntry
<1> HIDE DEF e
<1>4. e.state \in Owned => d = NoData /\ e.sharers = {e.owner}
  BY <1>1, <1>2, <1>3 DEF EntryInv, EntryShape, BusyFront, Owned
<1>5. e.state \in Owned /\ Front(a).type = "SH_REQ" => Front(a).from \notin e.sharers
  <2> SUFFICES ASSUME e.state \in Owned, Front(a).type = "SH_REQ", Front(a).from \in e.sharers PROVE FALSE
    OBVIOUS
  <2>1. e = dir[a]
    BY <1>3 DEF Owned
  <2>2. Front(a).type \in ReqTypes /\ Front(a).type \in Asks
    BY DEF ReqTypes, Asks
  <2>3. Front(a).forwardingFrom # None /\ dir[a].state = "SHARED"
    BY <1>1, <2>1, <2>2, RequesterFacts
  <2> QED
    BY <2>1, <2>3 DEF Owned
<1>6. e.state = "SHARED" /\ Front(a).type = "EX_REQ" => d = NoData
  BY <1>1, <1>2, <1>3 DEF EntryInv, BusyFront
<1>7. Protocol = "MESIF" /\ e.state = "SHARED" /\ d = NoData => e.forwarder # Uninit
  BY <1>1, <1>2, <1>3 DEF EntryInv, ForwarderKnown
<1>8. Front(a).type = "NULLIFY_REQ" => a \in replaced /\ e.state = "UNCACHED"
  BY <1>1, <1>2, <1>3 DEF EntryInv, FrontState, BusyFront
<1> QED
  BY <1>1, <1>3, <1>4, <1>5, <1>6, <1>7, <1>8 DEF RequestAssertions, Owned, e

LEMMA InvDirectoryAssertions ==
  ASSUME CInv
  PROVE  DirectoryAssertions
<1>1. ASSUME Pending(Home)
      PROVE  CASE HomeMsg.type = "INV_REP" -> InvRepAssertions(HomeMsg)
               [] HomeMsg.type = "FLUSH_REP" -> FlushRepAssertions(HomeMsg)
               [] HomeMsg.type = "WB_REP" -> WbRepAssertions(HomeMsg)
               [] HomeMsg.type = "DRAM_READ_REP" -> DramReplyAssertions(HomeMsg)
               [] OTHER -> HomeMsg.type \in ReqTypes
  <2>1. PICK m, s, a : m = HomeMsg /\ s = m.from /\ a = m.addr
    OBVIOUS
  <2>2. m.type \in HomeTypes
    BY <1>1, <2>1, DirectoryFacts, HomeTakes DEF CInv
  <2>3. m.type = "INV_REP" => InvRepAssertions(m)
    BY <1>1, <2>1, LeaverAssertions DEF Leaves
  <2>4. m.type = "FLUSH_REP" => FlushRepAssertions(m)
    BY <1>1, <2>1, LeaverAssertions DEF Leaves
  <2>5. m.type = "WB_REP" => WbRepAssertions(m)
    BY <1>1, <2>1, WriterAssertions
  <2>6. m.type = "DRAM_READ_REP" => DramReplyAssertions(m)
    BY <1>1, <2>1, DramAssertions
  <2> QED
    BY <2>1, <2>2, <2>3, <2>4, <2>5, <2>6 DEF HomeTypes, CacheToHome, CacheToHomeData
<1>2. work.busy => RequestAssertions(work.addr, work.data)
  BY InvRequestAssertions
<1>3. \A a \in Addrs : \A i \in 2 .. Len(queue[a]) : queue[a][i].type # "NULLIFY_REQ"
  BY DEF CInv, EntryInv, QueueFresh
<1> QED
  BY <1>1, <1>2, <1>3 DEF DirectoryAssertions, RequestAssertions

-----------------------------------------------------------------------------
(* Coherence.                                                              *)

LEMMA SpecCInv ==
  ASSUME FullMap
  PROVE  Spec => []CInv
<1>1. Init => CInv
  BY InitCInv
<1>2. CInv /\ [Next]_vars => CInv'
  BY NextCInv
<1> QED
  BY <1>1, <1>2, PTL DEF Spec

\* A cache that may write a line is the only one with a copy of it, whatever
\* requests, replies, recalls, evictions and upgrades of the line are under way
\* (updateShmemReq of the caches, processExReqFromL2Cache,
\* processUpgradeReqFromL2Cache and processShReqFromL2Cache of the directory).
THEOREM CoherenceSingleWriter ==
  ASSUME FullMap
  PROVE  Spec => []SingleWriter
<1>1. CInv => SingleWriter
  BY InvSingleWriter
<1> QED
  BY <1>1, SpecCInv, PTL

\* A cache with a copy is a sharer of the line's directory entry, and one that
\* may write is its owner and only sharer (addSharer, removeSharer, setOwner).
THEOREM CoherenceDirectoryCovers ==
  ASSUME FullMap
  PROVE  Spec => []DirectoryCovers
<1>1. CInv => DirectoryCovers
  BY InvCovers
<1> QED
  BY <1>1, SpecCInv, PTL

\* The assertions of the caches never fail: a reply finds a waiter and the line
\* in the state it is for, an invalidation never finds a MODIFIED line, and a
\* waiter that is woken finds its data (handleMsgFromDramDirectory,
\* updateCacheBlock, wakeUpNetworkThread).
THEOREM CoherenceCacheAssertions ==
  ASSUME FullMap
  PROVE  Spec => []CacheAssertions
<1>1. CInv => CacheAssertions
  BY InvCacheAssertions
<1> QED
  BY <1>1, SpecCInv, PTL

\* The assertions of the directory never fail: every answer and every line from
\* DRAM finds the entry, the sharers and the request its handler relies on, and
\* no state "should not be reached" (dram_directory_cntlr.cc).
THEOREM CoherenceDirectoryAssertions ==
  ASSUME FullMap
  PROVE  Spec => []DirectoryAssertions
<1>1. CInv => DirectoryAssertions
  BY InvDirectoryAssertions
<1> QED
  BY <1>1, SpecCInv, PTL
=============================================================================
