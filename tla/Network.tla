-------------------------------- MODULE Network --------------------------------
(***************************************************************************)
(* The simulated interconnect: src/network/network.cc (sending, pulling    *)
(* from the transport, receiving) and its models network_model_magic.cc,   *)
(* _emesh_hop_counter.cc, _emesh_hop_by_hop.cc and _bus.cc.                *)
(*                                                                         *)
(* netSend computes the route of a packet by asking the models of the      *)
(* cores on the way, each under its own lock, and only then puts it in the *)
(* queue of the receiver's transport node (smtransport.cc).  Any number of *)
(* threads send at the same time; every hop is a step.                     *)
(***************************************************************************)
EXTENDS QueueModel

CONSTANTS
  NetConfigs,      \* configurations; the bound on the packets sent, c.packets, is part
                   \* of one, because the larger meshes are checked with fewer packets
  NetTimes,        \* when a packet may be sent
  NetMaxForwards   \* bound: a core that has received as many packets forwards none

VARIABLES
  netCfg,        \* the configuration
  netCtl,        \* where the memory controllers are (computeMemoryControllerPositions)
  netEnabled,    \* m_enabled of the models
  netLinks,      \* the queue model of each port
  netBusy,       \* the calls of netSend in progress: their packets and hopVec
  netNode,       \* m_queue of each transport node
  netQueue,      \* _netQueue of each core
  netWait,       \* the thread of each core that is in netRecv
  netBcast,      \* cores whose _netQueueCond is about to be broadcast
  netStats,      \* counters of each core
  netGot,        \* history: the packets each core has received
  netSent,       \* history: the packets sent
  netMidway      \* history: the models were enabled with packets on the way

netVars == <<netCfg, netCtl, netEnabled, netLinks, netBusy, netNode, netQueue, netWait,
             netBcast, netStats, netGot, netSent, netMidway>>

BROADCAST == -1
Distance1(a, b) == IF a > b THEN a - b ELSE b - a
CeilDiv(a, b) == (a + b - 1) \div b
Sqrt(n) == CHOOSE x \in 0..n : x * x <= n /\ (x + 1) * (x + 1) > n
AllCores(c) == 0..(c.total - 1)
-----------------------------------------------------------------------------
(***************************************************************************)
(* The geometry of the mesh.  A node of the mesh serves c.conc cores; the  *)
(* others than the first of them, and the cores that run no application,   *)
(* are "fake" nodes without links.                                         *)
(***************************************************************************)
computeMeshDimensions(c) ==
  CASE c.model = "emesh_hop_counter" ->
         LET w == Sqrt(c.total) IN <<w, CeilDiv(c.total, w)>>
    [] c.model = "emesh_hop_by_hop" /\ c.size # <<>> -> c.size
    [] c.model = "emesh_hop_by_hop" /\ c.dims = 1 -> <<c.apps \div c.conc, 1>>
    [] OTHER -> LET w == Sqrt(c.apps \div c.conc) IN <<w, CeilDiv(c.apps, c.conc * w)>>

Width(c) == computeMeshDimensions(c)[1]
Height(c) == computeMeshDimensions(c)[2]

computePosition(c, core) == <<(core \div c.conc) % Width(c), (core \div c.conc) \div Width(c)>>

computeCoreId(c, x, y) ==
  (((y + Height(c)) % Height(c)) * Width(c) + ((x + Width(c)) % Width(c))) * c.conc

computeDistance(c, a, b) ==
  LET p == computePosition(c, a)
      q == computePosition(c, b)
      along(i, n) == LET d == Distance1(p[i], q[i])
                     IN  IF c.wrap THEN Earlier(d, n - d) ELSE d
  IN  along(1, Width(c)) + along(2, Height(c))

FakeNode(c, core) ==
  core % c.conc # 0 \/ core >= c.conc * Width(c) * Height(c)

(* Whether a packet at s goes down a dimension of n nodes to reach d: the   *)
(* short way around a torus.                                               *)
MutGoesBack(c, s, d, n) == (s > d) # (c.wrap /\ Distance1(s, d) < (n + 1) \div 2)
GoesBack(c, s, d, n) == (s > d) # (c.wrap /\ Distance1(s, d) > (n + 1) \div 2)

(* Dimension-order routing: first along x, then along y. *)
getNextDest(c, me, dest) ==
  LET s == computePosition(c, me)
      d == computePosition(c, dest)
  IN  IF dest >= c.apps \/ me \div c.conc = dest \div c.conc
      THEN [dir |-> "destination", next |-> dest]
      ELSE IF FakeNode(c, me) THEN [dir |-> "peer", next |-> me - (me % c.conc)]
      ELSE IF GoesBack(c, s[1], d[1], Width(c)) THEN [dir |-> "left", next |-> computeCoreId(c, s[1] - 1, s[2])]
      ELSE IF s[1] # d[1] THEN [dir |-> "right", next |-> computeCoreId(c, s[1] + 1, s[2])]
      ELSE IF GoesBack(c, s[2], d[2], Height(c)) THEN [dir |-> "down", next |-> computeCoreId(c, s[1], s[2] - 1)]
      ELSE IF s[2] # d[2] THEN [dir |-> "up", next |-> computeCoreId(c, s[1], s[2] + 1)]
      ELSE [dir |-> "self", next |-> me]

(* The cores along the perimeter, clockwise, and the controllers evenly    *)
(* spaced among them; the other models space them over all cores.          *)
Perimeter(c) ==
  LET w == Width(c)
      h == Height(c)
      top == [i \in 1..w |-> i - 1]
      right == [i \in 1..(h - 2) |-> i * w + w - 1]
      bottom == [i \in 1..w |-> (h - 1) * w + (w - i)]
      left == [i \in 1..(h - 2) |-> (h - 1 - i) * w]
  IN  IF c.dims > 1 /\ h > 1 THEN top \o right \o bottom \o left ELSE top

MutControllers(c) ==
  [i \in 1..c.controllers |->
     LET p == Perimeter(c)
         spacing == CeilDiv(Len(p), c.controllers)
     IN  IF c.model = "emesh_hop_by_hop"
         THEN c.conc * p[(((i - 1) * spacing + Width(c) \div 2) % Len(p)) + 1]
         ELSE (i - 1) * (c.apps \div c.controllers)]
computeMemoryControllerPositions(c) ==
  [i \in 1..c.controllers |->
     LET p == Perimeter(c)
         spacing == Len(p) \div c.controllers
     IN  IF c.model = "emesh_hop_by_hop"
         THEN c.conc * p[(((i - 1) * spacing + Width(c) \div 2) % Len(p)) + 1]
         ELSE (i - 1) * (c.apps \div c.controllers)]
-----------------------------------------------------------------------------
(***************************************************************************)
(* routePacket.  A route r has the hops found so far, the links and the    *)
(* queueing delay seen by the packet.  c.serial is the time a packet keeps *)
(* a link busy.                                                            *)
(***************************************************************************)
Ports == {"up", "down", "left", "right", "in", "out", "bus"}

Queued(r, link, d) == [r EXCEPT !.wait = d.delay, !.links[link] = d.q]
UseLink(c, r, link, t) ==
  IF ~c.queued THEN [r EXCEPT !.wait = 0]
  ELSE Queued(r, link, computeQueueDelay(c.queue, r.links[link], t, c.serial, 0))

Hop(final, next, t) == [final |-> final, next |-> next, time |-> t]

(* The hop itself takes the link of its direction, unless the models are   *)
(* disabled or the requester runs no application.                          *)
Delayed(r, hop) == [r EXCEPT !.wait = hop + @, !.delay = @ + r.wait]
computeLatency(c, r, me, pkt, dir, t) ==
  IF ~r.on \/ pkt.req >= c.apps THEN [r EXCEPT !.wait = 0]
  ELSE Delayed(UseLink(c, r, <<me, dir>>, t), c.hop)

Along(r, final, next, t) == [r EXCEPT !.hops = Append(@, Hop(final, next, t + r.wait))]
addHop(c, r, me, pkt, dir, final, next, t) ==
  Along(IF dir \in {"up", "down", "left", "right"} THEN computeLatency(c, r, me, pkt, dir, t)
        ELSE [r EXCEPT !.wait = 0], final, next, t)

(* The injection port, which only the sender passes. *)
Inject(c, r, me, pkt, dest) ==
  IF pkt.sender # me \/ dest = me THEN [r EXCEPT !.wait = 0]
  ELSE UseLink(c, r, <<me, "in">>, pkt.time)

Injected(c, in, me, pkt, dest, n) ==
  addHop(c, Delayed(in, 0), me, pkt, n.dir, dest, n.next, pkt.time + in.wait)
Unicast(c, r, me, pkt, dest) ==
  Injected(c, Inject(c, r, me, pkt, dest), me, pkt, dest, getNextDest(c, me, dest))

(* The branches of the broadcast tree; computeCoreId wraps at the edges. *)
Branches(p, s) ==
  SelectSeq(<<[go |-> p[2] >= s[2], dir |-> "up", x |-> p[1], y |-> p[2] + 1],
              [go |-> p[2] <= s[2], dir |-> "down", x |-> p[1], y |-> p[2] - 1],
              [go |-> p[2] = s[2] /\ p[1] >= s[1], dir |-> "right", x |-> p[1] + 1, y |-> p[2]],
              [go |-> p[2] = s[2] /\ p[1] <= s[1], dir |-> "left", x |-> p[1] - 1, y |-> p[2]]>>,
            LAMBDA b : b.go)
TreeFrom(c, in, me, pkt, t) ==
  LET p == computePosition(c, me)
      s == computePosition(c, pkt.sender)
      step(a, b) == addHop(c, a, me, pkt, b.dir, BROADCAST, computeCoreId(c, b.x, b.y), t)
      sent == FoldLeft(step, in, Branches(p, s))
  IN  IF p = s THEN addHop(c, sent, me, pkt, "self", me, me, t) ELSE sent
Injecting(c, in, me, pkt) == TreeFrom(c, in, me, pkt, pkt.time + in.wait)
Tree(c, r, me, pkt) == Injecting(c, Inject(c, r, me, pkt, BROADCAST), me, pkt)

(* A broadcast does not account its delays to the packet. *)
Spread(c, r, me, pkt) ==
  LET all == [i \in 1..c.total |-> i - 1] IN
  CASE FakeNode(c, me) ->
         FoldLeft(LAMBDA a, i : addHop(c, a, me, pkt, "destination", i, i, pkt.time), r, all)
    [] ~FakeNode(c, me) /\ c.tree -> Tree(c, r, me, pkt)
    [] OTHER -> FoldLeft(LAMBDA a, i : Unicast(c, a, me, pkt, i), r, all)

HopByHop(c, r, me, pkt) ==
  CASE pkt.receiver = BROADCAST -> [Spread(c, r, me, pkt) EXCEPT !.delay = r.delay]
    [] pkt.receiver # BROADCAST /\ FakeNode(c, me) ->
         addHop(c, r, me, pkt, "destination", pkt.receiver, pkt.receiver, pkt.time)
    [] OTHER -> Unicast(c, r, me, pkt, pkt.receiver)

Receivers(c, pkt) ==
  IF pkt.receiver = BROADCAST THEN [i \in 1..c.total |-> i - 1] ELSE <<pkt.receiver>>

(* Traffic to, from or for a core that runs no application is not accounted. *)
accountPacket(c, on, pkt) ==
  /\ on
  /\ ~(c.local /\ pkt.sender = pkt.receiver)
  /\ {pkt.req, pkt.sender, pkt.receiver} \subseteq (-1)..(c.apps - 1)

Arriving(c, r, pkt, t) ==
  LET to == Receivers(c, pkt) IN [r EXCEPT !.hops = [i \in DOMAIN to |-> Hop(to[i], to[i], t)]]
OnBus(c, r, pkt) == Arriving(c, Delayed(r, 0), pkt, pkt.time + r.wait + c.serial)
Bus(c, r, pkt) ==
  IF accountPacket(c, r.on, pkt) THEN OnBus(c, UseLink(c, r, <<0, "bus">>, pkt.time), pkt)
  ELSE Arriving(c, r, pkt, pkt.time)

(* A broadcast leaves one packet after the other. *)
HopCounter(c, r, pkt) ==
  LET to == Receivers(c, pkt)
      lat(i) == computeDistance(c, pkt.sender, i) * c.hop + (IF i = pkt.sender THEN 0 ELSE c.serial)
  IN  [r EXCEPT !.hops = [k \in DOMAIN to |->
                            Hop(to[k], to[k], pkt.time + (k - 1) * c.serial + lat(to[k]))]]

Magic(c, r, pkt) == Arriving(c, r, pkt, pkt.time + c.hop)

routePacket(me, pkt) ==
  LET r == [hops |-> <<>>, links |-> netLinks, delay |-> 0, wait |-> 0, on |-> netEnabled]
  IN  CASE netCfg.model = "emesh_hop_by_hop"  -> HopByHop(netCfg, r, me, pkt)
        [] netCfg.model = "bus"               -> Bus(netCfg, r, pkt)
        [] netCfg.model = "emesh_hop_counter" -> HopCounter(netCfg, r, pkt)
        [] netCfg.model = "magic"             -> Magic(netCfg, r, pkt)
-----------------------------------------------------------------------------
NetInit ==
  /\ netCfg \in NetConfigs
  /\ netCtl = computeMemoryControllerPositions(netCfg)
  /\ netEnabled \in BOOLEAN
  /\ netLinks = [l \in AllCores(netCfg) \X Ports |-> NewQueue(netCfg.queue)]
  /\ netBusy = {}
  /\ netNode = [i \in AllCores(netCfg) |-> <<>>]
  /\ netQueue = netNode /\ netGot = netNode
  /\ netWait = [i \in AllCores(netCfg) |-> [st |-> "idle", from |-> {}, timed |-> FALSE]]
  /\ netBcast = {}
  /\ netStats = [i \in AllCores(netCfg) |->
                   [sent |-> 0, received |-> 0, latency |-> 0, contention |-> 0]]
  /\ netSent = <<>> /\ netMidway = FALSE

(* The copies of packet pkt that core me is sending. *)
Sending(me, pkt, r) ==
  [core |-> me, pkt |-> [pkt EXCEPT !.delay = @ + r.delay], start |-> pkt.time, hops |-> r.hops, n |-> 1]

netSend(me, dest, type, req, t) ==
  LET pkt == [id |-> Len(netSent) + 1, time |-> t, start |-> 0, delay |-> 0, type |-> type,
              sender |-> me, receiver |-> dest, req |-> req]
  IN  /\ Len(netSent) < netCfg.packets
      /\ \E r \in {routePacket(me, pkt)} :
            netBusy' = netBusy \cup {Sending(me, pkt, r)} /\ netLinks' = r.links
      /\ netStats' = [netStats EXCEPT ![me].sent = @ + 1]
      /\ netSent' = Append(netSent, pkt)
      /\ UNCHANGED <<netCfg, netCtl, netEnabled, netNode, netQueue, netWait, netBcast, netGot, netMidway>>

(* One turn of the loop over hopVec: the shortcut through the model of the *)
(* next core, or the packet is put in the transport queue.  The buffer     *)
(* with the packet was made before the loop: what the later hops add to    *)
(* the packet's queue_delay is not in it.                                  *)
Shortcut(s) ==
  LET h == Head(s.hops)
  IN  /\ h.final # BROADCAST /\ h.next # h.final
      /\ \E r \in {routePacket(h.next, [s.pkt EXCEPT !.time = h.time, !.receiver = h.final])} :
            /\ netBusy' = (netBusy \ {s}) \cup {[s EXCEPT !.hops = r.hops \o Tail(@), !.n = @ + 1]}
            /\ netLinks' = r.links
      /\ UNCHANGED <<netCfg, netCtl, netEnabled, netNode, netQueue, netWait, netBcast, netStats,
                     netGot, netSent, netMidway>>

TransportSend(s) ==
  LET h   == Head(s.hops)
      pkt == [s.pkt EXCEPT !.time = h.time, !.receiver = h.final,
                           !.start = IF s.core = s.pkt.sender THEN s.start ELSE @]
  IN  /\ h.final = BROADCAST \/ h.next = h.final
      /\ netNode' = [netNode EXCEPT ![h.next] = Append(@, pkt)]
      /\ netBusy' = (netBusy \ {s}) \cup
                    (IF Len(s.hops) = 1 THEN {} ELSE {[s EXCEPT !.hops = Tail(@), !.n = 1]})
      /\ UNCHANGED <<netCfg, netCtl, netEnabled, netLinks, netQueue, netWait, netBcast, netStats,
                     netGot, netSent, netMidway>>

(* Whether the traffic of the requester is counted at core me. *)
Counts(c, on, me, pkt) == on /\ pkt.req < c.apps

(* The statistics of the receiver; in a mesh hop by hop the packet first   *)
(* passes the ejection port.                                               *)
ReceiveMagic(st) == [st EXCEPT !.received = @ + 1]
ReceiveCounter(st, pkt) ==
  [st EXCEPT !.received = @ + 1, !.latency = @ + Minus(pkt.time, pkt.start)]

Ejected(out, serial) == [links |-> out.links, wait |-> out.wait, time |-> out.wait + serial]
Eject(c, links, me, pkt) ==
  IF pkt.sender = me \/ FakeNode(c, me) THEN [links |-> links, wait |-> 0, time |-> 0]
  ELSE Ejected(UseLink(c, [links |-> links, wait |-> 0], <<me, "out">>, pkt.time), c.serial)

MutReceiveMesh(c, me, st, pkt, e) ==
  LET base == Minus(pkt.time, pkt.start)
  IN  [st EXCEPT !.received = @ + 1, !.latency = @ + base + e.time,
                 !.contention = (@ + Minus(base, (computeDistance(c, pkt.sender, me) + 1) * c.hop)
                                   + e.wait) % QmModulus]
ReceiveMesh(c, me, st, pkt, e) ==
  LET base == Minus(pkt.time, pkt.start)
  IN  [st EXCEPT !.received = @ + 1, !.latency = @ + base + e.time,
                 !.contention = (@ + Minus(base, computeDistance(c, pkt.sender, me) * c.hop)
                                   + e.wait) % QmModulus]

MeshReceived(c, me, st, pkt, e) ==
  [pkt |-> [pkt EXCEPT !.time = @ + e.time, !.delay = @ + e.wait],
   links |-> e.links, stats |-> ReceiveMesh(c, me, st, pkt, e)]

processReceivedPacket(me, links, pkt) ==
  LET c  == netCfg
      st == netStats[me]
      same == [pkt |-> pkt, links |-> links, stats |-> st]
  IN  CASE ~Counts(c, netEnabled, me, pkt) \/ c.model = "bus" -> same
        [] Counts(c, netEnabled, me, pkt) /\ c.model = "magic" ->
             [same EXCEPT !.stats = ReceiveMagic(st)]
        [] Counts(c, netEnabled, me, pkt) /\ c.model = "emesh_hop_counter" ->
             [same EXCEPT !.stats = ReceiveCounter(st, pkt)]
        [] Counts(c, netEnabled, me, pkt) /\ c.model = "emesh_hop_by_hop" ->
             IF me >= c.apps THEN same ELSE MeshReceived(c, me, st, pkt, Eject(c, links, me, pkt))

(* _netQueue.push_back under its lock; the wake-up comes later. *)
MutEnqueue(me, pkt) ==
  /\ netQueue' = [netQueue EXCEPT ![me] = Append(@, pkt)]
  /\ netBcast' = IF netQueue[me] = <<>> THEN netBcast \cup {me} ELSE netBcast
Enqueue(me, pkt) ==
  /\ netQueue' = [netQueue EXCEPT ![me] = Append(@, pkt)]
  /\ netBcast' = netBcast \cup {me}

(* netPullFromTransport on core me: a packet for another core, or for all,  *)
(* is first forwarded, from where its copies leave in later steps; one for *)
(* another core goes no further.  Memory packets have a callback, the      *)
(* others are queued.                                                      *)
Accept(me, pkt, got) ==
  /\ netStats' = [netStats EXCEPT ![me] = got.stats]
  /\ netGot' = [netGot EXCEPT ![me] = Append(@, pkt.id)]
  /\ IF pkt.type = "shmem" THEN UNCHANGED <<netQueue, netBcast>> ELSE Enqueue(me, got.pkt)
Pull(me) ==
  LET pkt == Head(netNode[me])
      through == pkt.receiver # me
  IN  /\ netNode[me] # <<>> /\ me \notin netBcast
      /\ through => Len(netGot[me]) < NetMaxForwards
      /\ netNode' = [netNode EXCEPT ![me] = Tail(@)]
      /\ \E r \in {IF through THEN routePacket(me, pkt) ELSE [links |-> netLinks]} :
           /\ netBusy' = IF through THEN netBusy \cup {Sending(me, pkt, r)} ELSE netBusy
           /\ IF through /\ pkt.receiver # BROADCAST
              THEN netLinks' = r.links /\ UNCHANGED <<netStats, netGot, netQueue, netBcast>>
              ELSE \E got \in {processReceivedPacket(me, r.links, pkt)} :
                     netLinks' = got.links /\ Accept(me, pkt, got)
      /\ UNCHANGED <<netCfg, netCtl, netEnabled, netWait, netSent, netMidway>>

(* _netQueueCond.broadcast(), after the lock was released. *)
WakeReceiver(me) ==
  /\ me \in netBcast
  /\ netBcast' = netBcast \ {me}
  /\ netWait' = [netWait EXCEPT ![me].st = IF @ = "waiting" THEN "woken" ELSE @]
  /\ UNCHANGED <<netCfg, netCtl, netEnabled, netLinks, netBusy, netNode, netQueue, netStats, netGot, netSent, netMidway>>
-----------------------------------------------------------------------------
(* netRecv: the earliest packet that matches leaves the queue.  The core's  *)
(* clock is not a part of the state: the assertion on a packet that is     *)
(* 100 ns and more ahead of it, after the packet has left, is not here.    *)
Matching(me, w) == {i \in DOMAIN netQueue[me] : w.from = {} \/ netQueue[me][i].sender \in w.from}

Earliest(me, w) ==
  CHOOSE i \in Matching(me, w) : \A j \in Matching(me, w) :
    \/ netQueue[me][i].time < netQueue[me][j].time
    \/ netQueue[me][i].time = netQueue[me][j].time /\ i <= j

(* What a receiver does when it holds the lock; `retry' says whether it    *)
(* may wait (again): a receiver with a timeout waits once.                 *)
Scan(me, w, retry) ==
  IF Matching(me, w) # {}
  THEN /\ netQueue' = [netQueue EXCEPT ![me] = RemoveAt(@, Earliest(me, w))]
       /\ netWait' = [netWait EXCEPT ![me] = [st |-> "idle", from |-> {}, timed |-> FALSE]]
  ELSE /\ netWait' = [netWait EXCEPT ![me] =
            IF retry THEN [w EXCEPT !.st = "waiting"] ELSE [st |-> "idle", from |-> {}, timed |-> FALSE]]
       /\ UNCHANGED netQueue

netRecv(me) ==
  /\ netWait[me].st = "idle"
  /\ \E from \in {{}, {me}}, timed \in BOOLEAN :
       Scan(me, [st |-> "idle", from |-> from, timed |-> timed], TRUE)
  /\ UNCHANGED <<netCfg, netCtl, netEnabled, netLinks, netBusy, netNode, netBcast, netStats, netGot, netSent, netMidway>>

TimeOut(me) ==
  /\ netWait[me].st = "waiting" /\ netWait[me].timed
  /\ netWait' = [netWait EXCEPT ![me].st = "woken"]
  /\ UNCHANGED <<netCfg, netCtl, netEnabled, netLinks, netBusy, netNode, netQueue, netBcast, netStats, netGot, netSent, netMidway>>

Rescan(me) ==
  /\ netWait[me].st = "woken"
  /\ Scan(me, netWait[me], ~netWait[me].timed)
  /\ UNCHANGED <<netCfg, netCtl, netEnabled, netLinks, netBusy, netNode, netBcast, netStats, netGot, netSent, netMidway>>

(* enableModels, at the start of the region of interest. *)
EnableModels ==
  /\ ~netEnabled /\ netEnabled' = TRUE
  /\ netMidway' = (netBusy # {} \/ \E i \in AllCores(netCfg) : netNode[i] # <<>>)
  /\ UNCHANGED <<netCfg, netCtl, netLinks, netBusy, netNode, netQueue, netWait, netBcast, netStats, netGot, netSent>>

NetNext ==
  \/ \E me \in AllCores(netCfg) :
       \/ \E dest \in AllCores(netCfg), t \in NetTimes, req \in {me, netCfg.total - 1} :
            netSend(me, dest, "shmem", req, t)
       \/ \E dest \in {BROADCAST, me}, t \in NetTimes :
            netCfg.bcast /\ netSend(me, dest, "system", me, t)
       \/ Pull(me) \/ WakeReceiver(me)
       \/ me \in netCfg.receivers /\ netRecv(me)
       \/ TimeOut(me) \/ Rescan(me)
  \/ \E s \in netBusy : Shortcut(s) \/ TransportSend(s)
  \/ EnableModels

NetSpec == NetInit /\ [][NetNext]_netVars
-----------------------------------------------------------------------------
(***************************************************************************)
(* Every hop brings a packet closer to where it goes: along a mesh it      *)
(* takes the hops of the distance, and around a torus of odd size at most  *)
(* one more in each direction, so netSend's loop ends; and when nothing is *)
(* on its way any more, every packet has been received once by each core   *)
(* it was sent to (except through the broadcast tree).                     *)
(***************************************************************************)
Delivered ==
  ~netCfg.tree =>
    /\ \A s \in netBusy :
         LET h    == Head(s.hops)
             away == computeDistance(netCfg, s.core, h.final)
             left == s.n + computeDistance(netCfg, h.next, h.final)
         IN  h.next # h.final => IF netCfg.wrap THEN left <= away + 2 ELSE left = away
    /\ netBusy = {} /\ (\A i \in AllCores(netCfg) : netNode[i] = <<>>) =>
         \A k \in DOMAIN netSent, i \in AllCores(netCfg) :
           Cardinality({j \in DOMAIN netGot[i] : netGot[i][j] = k}) =
             IF netSent[k].receiver \in {i, BROADCAST} THEN 1 ELSE 0

(***************************************************************************)
(* The contention a mesh reports (processReceivedPacket subtracts the time *)
(* of the distance, in unsigned arithmetic) is part of the latency it      *)
(* reports: a packet that travelled under enabled models between real      *)
(* nodes is never faster than the distance.                                *)
(***************************************************************************)
ContentionWithinLatency ==
  netCfg.conc = 1 /\ ~netMidway =>
    \A i \in AllCores(netCfg) : netStats[i].contention <= netStats[i].latency

(***************************************************************************)
(* A thread that sleeps in netRecv has not missed its packet: when one     *)
(* that matches is in the queue, the wake-up is still to come.             *)
(***************************************************************************)
ReceiverWoken ==
  \A i \in AllCores(netCfg) :
    netWait[i].st = "waiting" /\ Matching(i, netWait[i]) # {} => i \in netBcast

(***************************************************************************)
(* No two memory controllers share a core, and each is on the first core   *)
(* of a node (computeMemoryControllerPositions; a mesh one node wide has   *)
(* its nodes on the perimeter twice).                                      *)
(***************************************************************************)
ControllersApart ==
  /\ IsInjective(netCtl) \/ (netCfg.dims = 2 /\ Width(netCfg) = 1)
  /\ \A i \in DOMAIN netCtl : netCtl[i] < netCfg.apps /\ netCtl[i] % netCfg.conc = 0

(***************************************************************************)
(* The on-chip network: routing, its timing, the wake-up of receivers and  *)
(* the placement of the memory controllers.                                *)
(***************************************************************************)
NetworkSound ==
  Delivered /\ ContentionWithinLatency /\ ReceiverWoken /\ ControllersApart
=============================================================================
