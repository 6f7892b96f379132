---------------------------- MODULE ShmemNetwork ----------------------------
(***************************************************************************)
(* The messages of the coherence protocol and the channel they travel on.  *)
(*                                                                         *)
(* A node's inbox is the m_queue of its SmTransport node: netSend() pushes *)
(* a copy of the packet at its tail under the queue's lock, and the node's *)
(* network thread pops the head and runs the handler to completion.  The   *)
(* tag directory and the DRAM controller get an inbox of their own here;   *)
(* when they share a core with a cache the real queue only removes         *)
(* interleavings.                                                          *)
(***************************************************************************)
EXTENDS Integers, Sequences, FiniteSets

CONSTANTS
  LLCs,         \* cores that are master of a last-level cache
  Home,         \* the core that holds the tag directory of Addrs
  Dram,         \* the core that holds their DRAM controller
  None,         \* INVALID_CORE_ID, also used for a NULL data buffer
  Addrs,        \* cache-line addresses, all in one set of the directory
  MaxWrites     \* bound: stores after this many rewrite the last version

ASSUME NetworkAssumption ==
  /\ IsFiniteSet(LLCs) /\ IsFiniteSet(Addrs)
  /\ Home \notin LLCs /\ Dram \notin LLCs /\ Home # Dram
  /\ None \notin LLCs \union {Home, Dram}
  /\ None \notin -1..MaxWrites
  /\ MaxWrites \in Nat

VARIABLES
  inbox,        \* inbox[n]: packets queued for node n, oldest first
  dram,         \* dram[a]: the line's contents in m_data_map
  latest        \* latest[a]: history, the version last stored by any core

Nodes == LLCs \union {Home, Dram}

\* A line's contents are the number of stores that went into them; Garbage is
\* what a buffer holds that was never filled, or was freed.
Garbage == -1
Data    == Garbage..MaxWrites
NoData  == None

ReqTypes == {"EX_REQ", "SH_REQ", "UPGRADE_REQ"}
RepTypes == {"EX_REP", "SH_REP", "UPGRADE_REP"}

\* What travels where, and whether it brings a line along.
CacheToHome == ReqTypes \union {"INV_REP"}
CacheToHomeData == {"FLUSH_REP", "WB_REP"}
HomeToAny == {"UPGRADE_REP", "INV_REQ", "FLUSH_REQ", "WB_REQ", "DRAM_READ_REQ"}
HomeToAnyData == {"EX_REP", "SH_REP", "DRAM_WRITE_REQ"}

Message ==
  [type : CacheToHome, from : LLCs, addr : Addrs, data : {NoData}] \union
  [type : CacheToHomeData, from : LLCs, addr : Addrs, data : Data] \union
  [type : HomeToAny, from : {Home}, addr : Addrs, data : {NoData}] \union
  [type : HomeToAnyData, from : {Home}, addr : Addrs, data : Data] \union
  [type : {"DRAM_READ_REP"}, from : {Dram}, addr : Addrs, data : Data]

Msg(type, from, a, d) == [type |-> type, from |-> from, addr |-> a, data |-> d]

\* sendMsg(): one packet to one receiver, or the same packet to several.
Send(boxes, n, m)   == [boxes EXCEPT ![n] = Append(@, m)]
SendAll(boxes, S, m) ==
  [n \in Nodes |-> IF n \in S THEN Append(boxes[n], m) ELSE boxes[n]]

\* netPullFromTransport(): the head of the queue is handed to the callback.
Pending(n) == inbox[n] # <<>>
Received(n) == [inbox EXCEPT ![n] = Tail(@)]

NetworkInit == /\ inbox = [n \in Nodes |-> <<>>]
               /\ dram = [a \in Addrs |-> 0]
               /\ latest = [a \in Addrs |-> 0]

NetworkTypeOK == /\ inbox \in [Nodes -> Seq(Message)]
                 /\ dram \in [Addrs -> Data]
                 /\ latest \in [Addrs -> 0..MaxWrites]
-----------------------------------------------------------------------------
(***************************************************************************)
(* The DRAM controller's handler, handleMsgFromTagDirectory().             *)
(***************************************************************************)
DramRead ==
  /\ Pending(Dram) /\ Head(inbox[Dram]).type = "DRAM_READ_REQ"
  /\ LET a == Head(inbox[Dram]).addr
     IN  inbox' = Send(Received(Dram), Home,
                       Msg("DRAM_READ_REP", Dram, a, dram[a]))
  /\ UNCHANGED <<dram, latest>>

DramWrite ==
  /\ Pending(Dram) /\ Head(inbox[Dram]).type = "DRAM_WRITE_REQ"
  /\ dram' = [dram EXCEPT ![Head(inbox[Dram]).addr] = Head(inbox[Dram]).data]
  /\ inbox' = Received(Dram)
  /\ UNCHANGED latest
=============================================================================
