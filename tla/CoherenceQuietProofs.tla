------------------------- MODULE CoherenceQuietProofs -------------------------
(***************************************************************************)
(* Nothing is left behind in CoherentMemory: when no message is under way  *)
(* and no handler runs, nobody waits and the directory agrees with the     *)
(* caches (QuietAgreement), for the systems of CoherenceProofs.            *)
(*                                                                         *)
(* Whatever is waited for is owed by somebody (QInv).  A read waits for a  *)
(* copy of the owner or of the forwarder, and that cache has been asked,   *)
(* has answered or has given its copy up; any other request waits for the  *)
(* other copies, of which there is one, and each of their caches has been  *)
(* asked for it or has given it up; a line that is fetched is on its way   *)
(* from DRAM; the entry that was replaced has its request at the front;    *)
(* and a core waits only while its cache asks, is being answered or wakes  *)
(* its waiters.  That a message meets the copy it was sent for is what the *)
(* tokens of CoherenceProofs say.                                          *)
(*                                                                         *)
(* And an entry of the directory can always be given up to a line that     *)
(* needs one (AllocationSucceeds), if the set has a way for every core:    *)
(* each core waits for one line at a time, and some core waits for every   *)
(* line that has a request queued and is not being replaced.               *)
(***************************************************************************)
EXTENDS CoherenceProofs, WellFoundedInduction

-----------------------------------------------------------------------------
(* What a queued request, a waiter or a replaced entry waits for.          *)

\* The answer to a write-back request, or the copy itself, will reach the
\* directory; the copy of l will be given up.
Answering(l, a) == Live(l, a, {"WB_REQ"}) \/ ToHome(l, a, {"WB_REP"}) \/ Leaving(l, a)
Going(l, a) == Live(l, a, {"INV_REQ"}) \/ Live(l, a, {"FLUSH_REQ"}) \/ Leaving(l, a)

\* A waiter is served by a request of its cache, a reply, or the wake-up loop.
WaiterServed(l, a) ==
  waiters[l][a] # <<>> => Asking(l, a, ReqTypes) \/ ToCache(l, a, RepTypes) \/ InLoop(l, a)

ReplacedQueued(a) == a \in replaced => Queued(a) /\ Front(a).type = "NULLIFY_REQ"
FetchUnderWay(a) ==
  Queued(a) /\ ~Busy(a) /\ Front(a).waitForData => Reading(a) \/ ReadDone(a)
\* A read waits for the owner's copy or the forwarder's.
CopyUnderWay(a) ==
  Waits(a) /\ Front(a).type = "SH_REQ" =>
    \E l \in LLCs : /\ Answering(l, a)
                    /\ \/ dir[a].state \in Owned /\ dir[a].owner = l
                       \/ dir[a].state = "SHARED" /\ Front(a).forwardingFrom = l
\* Any other request waits for every copy but its own, of which there is one.
Obstacle(l, a) == l \in dir[a].sharers /\ l # Front(a).from
RecallUnderWay(a) ==
  Waits(a) /\ Front(a).type # "SH_REQ" =>
    /\ \E l \in LLCs : Obstacle(l, a)
    /\ \A l \in LLCs : Obstacle(l, a) => Going(l, a)
ForwarderShares(a) == dir[a].forwarder \in LLCs => dir[a].forwarder \in dir[a].sharers

Awaited(a) ==
  /\ ReplacedQueued(a) /\ FetchUnderWay(a) /\ CopyUnderWay(a) /\ RecallUnderWay(a)
  /\ ForwarderShares(a)
LineAwaited(a) == Awaited(a) /\ \A l \in LLCs : WaiterServed(l, a)
QInv == \A a \in Addrs : LineAwaited(a)

-----------------------------------------------------------------------------
(* What leaves the view of a line alone.                                   *)

\* l's part in what the line's front request waits for.
StillComes(l, a) == (Answering(l, a) => Answering(l, a)') /\ (Going(l, a) => Going(l, a)')
StillServed(l, a) ==
  Asking(l, a, ReqTypes) \/ ToCache(l, a, RepTypes) =>
    Asking(l, a, ReqTypes)' \/ ToCache(l, a, RepTypes)'

LEMMA AwaitedFrame ==
  ASSUME NEW a \in Addrs, Awaited(a), dir'[a] = dir[a], queue'[a] = queue[a], Busy(a)' <=> Busy(a),
         a \in replaced' => a \in replaced, Reading(a) \/ ReadDone(a) => Reading(a)' \/ ReadDone(a)',
         \A l \in LLCs : StillComes(l, a)
  PROVE  Awaited(a)'
<1>1. /\ Queued(a)' <=> Queued(a)
      /\ Front(a)' = Front(a)
      /\ Waits(a)' <=> Waits(a)
  BY DirectorySame
<1>2. ReplacedQueued(a)' /\ FetchUnderWay(a)'
  BY <1>1 DEF Awaited, ReplacedQueued, FetchUnderWay
<1>3. CopyUnderWay(a)'
  BY <1>1 DEF Awaited, CopyUnderWay, StillComes
<1>4. RecallUnderWay(a)'
  BY <1>1 DEF Awaited, RecallUnderWay, Obstacle, StillComes
<1>5. ForwarderShares(a)'
  BY DEF Awaited, ForwarderShares
<1> QED
  BY <1>2, <1>3, <1>4, <1>5 DEF Awaited

LEMMA SameComes ==
  ASSUME NEW l \in LLCs, NEW a \in Addrs,
         SameBox(inbox[l], inbox'[l], Home, a), SameBox(inbox[Home], inbox'[Home], l, a),
         Held(l, a)' <=> Held(l, a)
  PROVE  /\ StillComes(l, a)
         /\ \A T : ToHome(l, a, T)' <=> ToHome(l, a, T)
         /\ \A T : ToCache(l, a, T)' <=> ToCache(l, a, T)
<1>1. /\ \A T : ToHome(l, a, T)' <=> ToHome(l, a, T)
      /\ \A T : ToCache(l, a, T)' <=> ToCache(l, a, T)
      /\ \A T : Prec(inbox'[l], Grants, T, Home, a) <=> Prec(inbox[l], Grants, T, Home, a)
  BY DEF SameBox, ToHome, ToCache
<1>2. \A T : Live(l, a, T)' <=> Live(l, a, T)
  BY <1>1 DEF Live
<1>3. Leaving(l, a)' <=> Leaving(l, a)
  BY <1>1 DEF Leaving
<1> QED
  BY <1>1, <1>2, <1>3 DEF StillComes, Answering, Going

LEMMA ServedFrame ==
  ASSUME NEW l \in LLCs, NEW a \in Addrs, WaiterServed(l, a), StillServed(l, a),
         waiters'[l][a] = waiters[l][a], InLoop(l, a) => InLoop(l, a)'
  PROVE  WaiterServed(l, a)'
  BY DEF WaiterServed, StillServed

\* A message of the directory that reaches a sharer finds the copy, or the copy
\* is given up already.
LEMMA TokenFound ==
  ASSUME NEW l \in LLCs, NEW a \in Addrs, LineInv(l, a), l \in dir[a].sharers, ~Fetching(l, a),
         NEW y, PushBox(inbox[l], inbox'[l], Home, a, y),
         SameBox(inbox[Home], inbox'[Home], l, a), cstate'[l][a] = cstate[l][a]
  PROVE  Live(l, a, {y})' \/ Leaving(l, a)'
<1>1. Held(l, a) \/ Granted(l, a) \/ Leaving(l, a)
  BY DEF LineInv, Tokens
<1>2. CASE Held(l, a)
  BY <1>2 DEF Live, Held, ToCache, PushBox
<1>3. CASE Granted(l, a)
  BY <1>3 DEF Live, Granted, ToCache, PushBox
<1>4. CASE Leaving(l, a)
  BY <1>4 DEF Leaving, ToHome, SameBox
<1> QED
  BY <1>1, <1>2, <1>3, <1>4

-----------------------------------------------------------------------------
(* The steps of a cache.                                                   *)

LEMMA CacheQuiet ==
  ASSUME CInv, QInv, NEW l \in LLCs, NEW a \in Addrs, UNCHANGED dirVars,
         OtherBoxes(l, a), OnlyLine(l, a), StillComes(l, a), WaiterServed(l, a)'
  PROVE  QInv'
<1>1. ASSUME NEW b \in Addrs, NEW k \in LLCs, ~(k = l /\ b = a)
      PROVE  StillComes(k, b) /\ WaiterServed(k, b)'
  <2>1. dir'[b] = dir[b] /\ queue'[b] = queue[b] /\ (Busy(b)' <=> Busy(b))
    BY DirectoryIdle
  <2>2. /\ cstate'[k][b] = cstate[k][b] /\ waiters'[k][b] = waiters[k][b]
        /\ InLoop(k, b)' <=> InLoop(k, b)
    BY <1>1 DEF InLoop, OnlyLine
  <2>3. SameBox(inbox[k], inbox'[k], Home, b) /\ SameBox(inbox[Home], inbox'[Home], k, b)
    BY <1>1 DEF OtherBoxes
  <2>4. Held(k, b)' <=> Held(k, b)
    BY <2>2 DEF Held
  <2>5. /\ StillComes(k, b)
        /\ \A T : ToHome(k, b, T)' <=> ToHome(k, b, T)
        /\ \A T : ToCache(k, b, T)' <=> ToCache(k, b, T)
    BY <2>3, <2>4, SameComes
  <2>6. StillServed(k, b)
    BY <2>1, <2>5, DirectorySame DEF StillServed, Asking
  <2>7. WaiterServed(k, b)
    BY DEF QInv, LineAwaited
  <2> QED
    BY <2>2, <2>5, <2>6, <2>7, ServedFrame
<1>2. ASSUME NEW b \in Addrs PROVE Awaited(b)'
  <2>1. dir'[b] = dir[b] /\ queue'[b] = queue[b] /\ (Busy(b)' <=> Busy(b)) /\ replaced' = replaced
    BY DirectoryIdle DEF dirVars
  <2>2. Reading(b) \/ ReadDone(b) => Reading(b)' \/ ReadDone(b)'
    BY DEF OtherBoxes, SameBox, Reading, ReadDone
  <2>3. \A k \in LLCs : StillComes(k, b)
    BY <1>1
  <2>4. Awaited(b)
    BY DEF QInv, LineAwaited
  <2> QED
    BY <2>1, <2>2, <2>3, <2>4, AwaitedFrame
<1>3. ASSUME NEW b \in Addrs, NEW k \in LLCs PROVE WaiterServed(k, b)'
  BY <1>1
<1> QED
  BY <1>2, <1>3 DEF QInv, LineAwaited

\* The waiters of a line whose messages are all still there.
LEMMA ServedStays ==
  ASSUME CInv, QInv, NEW l \in LLCs, NEW a \in Addrs, UNCHANGED dirVars,
         ToHome(l, a, ReqTypes) => ToHome(l, a, ReqTypes)',
         ToCache(l, a, RepTypes) => ToCache(l, a, RepTypes)',
         waiters' = waiters, net' = net
  PROVE  WaiterServed(l, a)'
<1>1. dir'[a] = dir[a] /\ queue'[a] = queue[a] /\ (Busy(a)' <=> Busy(a))
  BY DirectoryIdle
<1>2. StillServed(l, a)
  BY <1>1, DirectorySame DEF StillServed, Asking
<1>3. WaiterServed(l, a) /\ waiters'[l][a] = waiters[l][a] /\ (InLoop(l, a) => InLoop(l, a)')
  BY DEF QInv, LineAwaited, InLoop
<1> QED
  BY <1>2, <1>3, ServedFrame

\* A copy that is given up answers whatever was asked of it.
LEMMA LeavingComes ==
  ASSUME NEW l \in LLCs, NEW a \in Addrs, NEW z \in Leaves,
         PushBox(inbox[Home], inbox'[Home], l, a, z)
  PROVE  StillComes(l, a) /\ (ToHome(l, a, ReqTypes) => ToHome(l, a, ReqTypes)')
<1>1. Leaving(l, a)'
  BY DEF Leaving, ToHome, PushBox
<1> QED
  BY <1>1 DEF StillComes, Answering, Going, ToHome, PushBox

\* A request of the directory that finds no copy is not one that is waited for.
LEMMA StaleComes ==
  ASSUME NEW l \in LLCs, NEW a \in Addrs, ~Held(l, a), NEW y, y \notin RepTypes,
         PopBox(inbox[l], inbox'[l], Home, a, y), SameBox(inbox[Home], inbox'[Home], l, a)
  PROVE  /\ StillComes(l, a)
         /\ ToHome(l, a, ReqTypes) => ToHome(l, a, ReqTypes)'
         /\ ToCache(l, a, RepTypes) => ToCache(l, a, RepTypes)'
<1>1. \A T : Live(l, a, T) => Live(l, a, T)'
  BY DEF Live, PopBox, Grants, RepTypes
<1> QED
  BY <1>1 DEF StillComes, Answering, Going, Leaving, ToHome, ToCache, SameBox, PopBox

\* The replies of the directory: the network thread turns to the waiters.
LEMMA ReplyQInv ==
  ASSUME CInv, QInv, NEW l \in LLCs, UNCHANGED dirVars, HandleDataRep(l) \/ HandleUpgradeRep(l)
  PROVE  QInv'
<1> PICK a, t : a = LlcMsg(l).addr /\ t = LlcMsg(l).type
  OBVIOUS
<1>1. /\ a \in Addrs /\ Head(inbox[l]).from = Home /\ inbox[l] # <<>> /\ net[l] = NetIdle
      /\ (HandleDataRep(l) /\ t \in Grants) \/ (HandleUpgradeRep(l) /\ t = "UPGRADE_REP")
  BY CacheMessage DEF HandleDataRep, HandleUpgradeRep, RepTypes, Grants
<1>2. PICK s : /\ s # "I" /\ inbox' = Received(l) /\ waiters' = waiters
               /\ cstate' = [cstate EXCEPT ![l][a] = s]
               /\ net' = [net EXCEPT ![l] = [phase |-> "loop", addr |-> a]]
  <2>1. CASE HandleDataRep(l) /\ t \in Grants
    <3>1. InsertedAs(t) # "I"
      BY <2>1 DEF InsertedAs, Grants
    <3> QED
      BY <2>1, <3>1 DEF HandleDataRep, SetLine
  <2>2. CASE HandleUpgradeRep(l) /\ t = "UPGRADE_REP"
    BY <2>2 DEF HandleUpgradeRep, SetLine
  <2> QED
    BY <1>1, <2>1, <2>2
<1>3. /\ LineInv(l, a) /\ inbox \in Inboxes /\ HomeBox
      /\ cstate \in [LLCs -> [Addrs -> CStates]] /\ net \in [LLCs -> Net]
  BY <1>1, LineFacts
<1>4. /\ PopBox(inbox[l], inbox'[l], Home, a, t) /\ SameBox(inbox[Home], inbox'[Home], l, a)
      /\ OtherBoxes(l, a)
  BY <1>1, <1>2, <1>3, CacheTakes
<1>5. OnlyLine(l, a)
  BY <1>1, <1>2, OneLine
<1>6. Held(l, a)' /\ InLoop(l, a)'
  BY <1>1, <1>2, <1>3 DEF Held, InLoop
<1>7. WaiterServed(l, a)'
  BY <1>6 DEF WaiterServed
<1>8. StillComes(l, a)
  <2>1. ASSUME NEW y \in Recalls PROVE Live(l, a, {y}) => Live(l, a, {y})'
    <3>1. y # t
      BY <1>1 DEF Recalls, Grants
    <3> QED
      BY <1>4, <1>6, <3>1, HasMono DEF Live, PopBox, ToCache
  <2> QED
    BY <1>4, <2>1 DEF StillComes, Answering, Going, Leaving, ToHome, SameBox, Recalls
<1> QED
  BY <1>1, <1>4, <1>5, <1>7, <1>8, CacheQuiet

\* The invalidations and the flushes.
LEMMA RecallQInv ==
  ASSUME CInv, QInv, NEW l \in LLCs, UNCHANGED dirVars, HandleInvReq(l) \/ HandleFlushReq(l)
  PROVE  QInv'
<1> PICK a, y : a = LlcMsg(l).addr /\ y = LlcMsg(l).type
  OBVIOUS
<1>1. /\ a \in Addrs /\ Head(inbox[l]).from = Home /\ inbox[l] # <<>> /\ net[l] = NetIdle
      /\ (HandleInvReq(l) /\ y = "INV_REQ") \/ (HandleFlushReq(l) /\ y = "FLUSH_REQ")
  BY CacheMessage DEF HandleInvReq, HandleFlushReq, Recalls
<1>2. /\ LineInv(l, a) /\ inbox \in Inboxes /\ HomeBox
      /\ cdata[l][a] \in Data /\ cstate \in [LLCs -> [Addrs -> CStates]]
  BY <1>1, LineFacts
<1>3. waiters' = waiters /\ net' = net /\ y \notin RepTypes
  BY <1>1 DEF HandleInvReq, HandleFlushReq, RepTypes
<1>4. CASE Held(l, a)
  <2>1. PICK z, d : /\ (z = "INV_REP" /\ d = NoData) \/ (z = "FLUSH_REP" /\ d \in Data)
                    /\ cstate' = [cstate EXCEPT ![l][a] = "I"]
                    /\ inbox' = Send(Received(l), Home, Msg(z, l, a, d))
    <3>1. CASE HandleInvReq(l) /\ y = "INV_REQ"
      BY <1>4, <3>1 DEF HandleInvReq, Answer, SetLine, Held
    <3>2. CASE HandleFlushReq(l) /\ y = "FLUSH_REQ"
      BY <1>2, <1>4, <3>2 DEF HandleFlushReq, Answer, SetLine, Held
    <3> QED
      BY <1>1, <3>1, <3>2
  <2>2. PICK m : m = Msg(z, l, a, d)
    OBVIOUS
  <2>3. m \in Message /\ m.from = l /\ m.addr = a /\ m.type = z /\ z \in HomeTypes /\ z \in Leaves
    <3>1. m \in Message
      BY <1>1, <2>1, <2>2, MsgType DEF CacheToHome, CacheToHomeData
    <3> QED
      BY <2>1, <2>2, <3>1 DEF Msg, HomeTypes, CacheToHome, CacheToHomeData, Leaves
  <2>4. /\ PopBox(inbox[l], inbox'[l], Home, a, y) /\ PushBox(inbox[Home], inbox'[Home], l, a, z)
        /\ OtherBoxes(l, a)
    BY <1>1, <1>2, <2>1, <2>2, <2>3, CacheAnswers
  <2>5. StillComes(l, a) /\ (ToHome(l, a, ReqTypes) => ToHome(l, a, ReqTypes)')
    BY <1>1, <2>3, <2>4, LeavingComes
  <2>6. ToCache(l, a, RepTypes) => ToCache(l, a, RepTypes)'
    BY <1>3, <2>4 DEF ToCache, PopBox
  <2>7. WaiterServed(l, a)'
    BY <1>1, <1>3, <2>5, <2>6, ServedStays
  <2>8. OnlyLine(l, a)
    BY <1>1, <1>3, <2>1, OneLine
  <2> QED
    BY <1>1, <2>4, <2>5, <2>7, <2>8, CacheQuiet
<1>5. CASE ~Held(l, a)
  <2>1. inbox' = Received(l) /\ cstate' = cstate
    BY <1>1, <1>5 DEF HandleInvReq, HandleFlushReq, Held
  <2>2. /\ PopBox(inbox[l], inbox'[l], Home, a, y) /\ SameBox(inbox[Home], inbox'[Home], l, a)
        /\ OtherBoxes(l, a)
    BY <1>1, <1>2, <2>1, CacheTakes
  <2>3. OnlyLine(l, a)
    BY <1>1, <1>3, <2>1, OneLine
  <2>4. StillComes(l, a) /\ WaiterServed(l, a)'
    BY <1>1, <1>3, <1>5, <2>2, StaleComes, ServedStays
  <2> QED
    BY <1>1, <2>2, <2>3, <2>4, CacheQuiet
<1> QED
  BY <1>4, <1>5

\* The write-backs.
LEMMA WriteBackQInv ==
  ASSUME CInv, QInv, NEW l \in LLCs, UNCHANGED dirVars, HandleWbReq(l)
  PROVE  QInv'
<1> PICK a, y : a = LlcMsg(l).addr /\ y = LlcMsg(l).type
  OBVIOUS
<1>1. /\ a \in Addrs /\ Head(inbox[l]).from = Home /\ inbox[l] # <<>> /\ net[l] = NetIdle
      /\ y = "WB_REQ"
  BY CacheMessage DEF HandleWbReq, Recalls
<1>2. /\ LineInv(l, a) /\ inbox \in Inboxes /\ HomeBox
      /\ cdata[l][a] \in Data /\ cstate \in [LLCs -> [Addrs -> CStates]]
  BY <1>1, LineFacts
<1>3. waiters' = waiters /\ net' = net /\ y \notin RepTypes
  BY <1>1 DEF HandleWbReq, RepTypes
<1>4. CASE Held(l, a)
  <2>1. PICK d \in Data : inbox' = Send(Received(l), Home, Msg("WB_REP", l, a, d))
    <3>1. Garbage \in Data
      BY NetworkAssumption DEF Data, Garbage
    <3> QED
      BY <1>2, <1>4, <3>1 DEF HandleWbReq, Answer, Held
  <2>2. cstate' = [cstate EXCEPT ![l][a] = "S"] \/ cstate' = cstate
    BY <1>4 DEF HandleWbReq, Held
  <2>3. PICK m : m = Msg("WB_REP", l, a, d)
    OBVIOUS
  <2>4. m \in Message /\ m.from = l /\ m.addr = a /\ m.type = "WB_REP" /\ m.type \in HomeTypes
    <3>1. m \in Message
      BY <1>1, <2>1, <2>3, MsgType DEF CacheToHomeData
    <3> QED
      BY <2>3, <3>1 DEF Msg, HomeTypes, CacheToHomeData
  <2>5. /\ PopBox(inbox[l], inbox'[l], Home, a, "WB_REQ") /\ PushBox(inbox[Home], inbox'[Home], l, a, "WB_REP")
        /\ OtherBoxes(l, a)
    BY <1>1, <1>2, <2>1, <2>3, <2>4, CacheAnswers
  <2>6. Held(l, a)' /\ ToHome(l, a, {"WB_REP"})'
    BY <1>1, <1>2, <1>4, <2>2, <2>5 DEF Held, ToHome, PushBox
  <2>7. StillComes(l, a)
    <3>1. \A T : "WB_REQ" \notin T /\ Live(l, a, T) => Live(l, a, T)'
      BY <1>4, <2>5, <2>6, HasMono DEF Live, PopBox, ToCache
    <3>2. Leaving(l, a) => Leaving(l, a)'
      BY <2>5 DEF Leaving, ToHome, PushBox
    <3> QED
      BY <2>6, <3>1, <3>2 DEF StillComes, Answering, Going
  <2>8. /\ ToHome(l, a, ReqTypes) => ToHome(l, a, ReqTypes)'
        /\ ToCache(l, a, RepTypes) => ToCache(l, a, RepTypes)'
    BY <1>1, <1>3, <2>5 DEF ToHome, ToCache, PushBox, PopBox
  <2>9. WaiterServed(l, a)' /\ OnlyLine(l, a)
    BY <1>1, <1>3, <2>2, <2>8, ServedStays, OneLine
  <2> QED
    BY <1>1, <2>5, <2>7, <2>9, CacheQuiet
<1>5. CASE ~Held(l, a)
  <2>1. inbox' = Received(l) /\ cstate' = cstate
    BY <1>1, <1>5 DEF HandleWbReq, Held
  <2>2. /\ PopBox(inbox[l], inbox'[l], Home, a, y) /\ SameBox(inbox[Home], inbox'[Home], l, a)
        /\ OtherBoxes(l, a)
    BY <1>1, <1>2, <2>1, CacheTakes
  <2>3. OnlyLine(l, a)
    BY <1>1, <1>3, <2>1, OneLine
  <2>4. StillComes(l, a) /\ WaiterServed(l, a)'
    BY <1>1, <1>3, <1>5, <2>2, StaleComes, ServedStays
  <2> QED
    BY <1>1, <2>2, <2>3, <2>4, CacheQuiet
<1> QED
  BY <1>4, <1>5

\* An eviction.
LEMMA EvictQInv ==
  ASSUME CInv, QInv, NEW l \in LLCs, NEW a \in Addrs, EvictStep(l, a)
  PROVE  QInv'
<1>1. /\ LineInv(l, a) /\ inbox \in Inboxes /\ HomeBox
      /\ cdata[l][a] \in Data /\ cstate \in [LLCs -> [Addrs -> CStates]]
  BY LineFacts
<1>2. /\ net[l] = NetIdle /\ UNCHANGED dirVars
      /\ cstate' = [cstate EXCEPT ![l][a] = "I"] /\ waiters' = waiters /\ net' = net
  BY DEF EvictStep, Evict, Replaceable, SetLine
<1> PICK z, d : /\ (z = "FLUSH_REP" /\ d = cdata[l][a]) \/ (z = "INV_REP" /\ d = NoData)
                /\ inbox' = Send(inbox, Home, Msg(z, l, a, d))
  BY DEF EvictStep, Evict
<1> PICK m : m = Msg(z, l, a, d)
  OBVIOUS
<1>3. m \in Message /\ m.from = l /\ m.addr = a /\ m.type = z /\ z \in HomeTypes /\ z \in Leaves
  <2>1. m \in Message
    BY <1>1, MsgType DEF CacheToHome, CacheToHomeData
  <2> QED
    BY <2>1 DEF Msg, HomeTypes, CacheToHome, CacheToHomeData, Leaves
<1>4. /\ PushBox(inbox[Home], inbox'[Home], l, a, z) /\ SameBox(inbox[l], inbox'[l], Home, a)
      /\ OtherBoxes(l, a)
  BY <1>1, <1>3, CacheSends
<1>5. StillComes(l, a) /\ (ToHome(l, a, ReqTypes) => ToHome(l, a, ReqTypes)')
  BY <1>3, <1>4, LeavingComes
<1>6. ToCache(l, a, RepTypes) => ToCache(l, a, RepTypes)'
  BY <1>4 DEF ToCache, SameBox
<1>7. WaiterServed(l, a)' /\ OnlyLine(l, a)
  BY <1>2, <1>5, <1>6, ServedStays, OneLine
<1> QED
  BY <1>2, <1>4, <1>5, <1>7, CacheQuiet

\* A request is sent to the directory; the copy, if there is one, stays.
LEMMA AskQInv ==
  ASSUME CInv, QInv, NEW l \in LLCs, NEW a \in Addrs, UNCHANGED dirVars, NEW y \in ReqTypes,
         Held(l, a)' <=> Held(l, a), inbox' = Send(inbox, Home, Msg(y, l, a, NoData)),
         OnlyLine(l, a)
  PROVE  QInv'
<1>1. inbox \in Inboxes /\ HomeBox
  BY LineFacts
<1> PICK m : m = Msg(y, l, a, NoData)
  OBVIOUS
<1>2. m \in Message /\ m.from = l /\ m.addr = a /\ m.type = y /\ y \in HomeTypes
  <2>1. m \in Message
    BY MsgType DEF CacheToHome
  <2> QED
    BY <2>1 DEF Msg, HomeTypes, CacheToHome
<1>3. /\ PushBox(inbox[Home], inbox'[Home], l, a, y) /\ SameBox(inbox[l], inbox'[l], Home, a)
      /\ OtherBoxes(l, a)
  BY <1>1, <1>2, CacheSends
<1>4. StillComes(l, a)
  <2>1. \A T : Live(l, a, T)' <=> Live(l, a, T)
    BY <1>3 DEF Live, ToCache, SameBox
  <2> QED
    BY <1>3, <2>1 DEF StillComes, Answering, Going, Leaving, ToHome, PushBox
<1>5. Asking(l, a, ReqTypes)'
  BY <1>3 DEF Asking, ToHome, PushBox
<1>6. WaiterServed(l, a)'
  BY <1>5 DEF WaiterServed
<1> QED
  BY <1>3, <1>4, <1>6, CacheQuiet

\* A step that sends and receives nothing, and takes no copy away.
LEMMA LocalQInv ==
  ASSUME CInv, QInv, NEW l \in LLCs, NEW a \in Addrs, UNCHANGED dirVars, inbox' = inbox,
         Held(l, a) => Held(l, a)', OnlyLine(l, a), WaiterServed(l, a)'
  PROVE  QInv'
<1>1. OtherBoxes(l, a)
  BY SameBoxRefl DEF OtherBoxes
<1>2. StillComes(l, a)
  BY DEF StillComes, Answering, Going, Leaving, Live, ToHome, ToCache
<1> QED
  BY <1>1, <1>2, CacheQuiet

\* The network thread that wakes the waiters of line a is at no other line.
LEMMA LoopQInv ==
  ASSUME CInv, QInv, NEW l \in LLCs, UNCHANGED dirVars,
         LoopEnds(l) \/ LoopUpgrades(l) \/ LoopWakes(l) \/ LoopDequeues(l)
  PROVE  QInv'
<1> PICK a : a = net[l].addr
  OBVIOUS
<1>1. a \in Addrs /\ net[l].phase \in {"loop", "served"} /\ net[l] \in Net
  <2>1. net[l] \in Net /\ net[l].phase \in {"loop", "served"}
    BY DEF LoopEnds, LoopUpgrades, LoopWakes, LoopDequeues, CInv, TInv, TypeOK, CacheTypeOK
  <2> QED
    BY <2>1, NetFields
<1>2. /\ cstate \in [LLCs -> [Addrs -> CStates]]
      /\ waiters \in [LLCs -> [Addrs -> Seq(Waiter)]] /\ net \in [LLCs -> Net]
  BY <1>1, LineFacts
<1>3. CASE LoopEnds(l)
  <2>1. /\ waiters[l][a] = <<>> /\ cstate' = cstate /\ waiters' = waiters /\ inbox' = inbox
        /\ net' = [net EXCEPT ![l] = NetIdle]
    BY <1>3 DEF LoopEnds
  <2>2. WaiterServed(l, a)' /\ (Held(l, a) => Held(l, a)') /\ OnlyLine(l, a)
    BY <1>1, <2>1, OneLine DEF WaiterServed, Held
  <2> QED
    BY <1>1, <2>1, <2>2, LocalQInv
<1>4. CASE LoopUpgrades(l)
  <2>1. /\ cstate[l][a] = "S" /\ cstate' = [cstate EXCEPT ![l][a] = "SU"] /\ waiters' = waiters
        /\ inbox' = Send(inbox, Home, Msg("UPGRADE_REQ", l, a, NoData))
        /\ net' = [net EXCEPT ![l] = NetIdle]
    BY <1>4 DEF LoopUpgrades
  <2>2. OnlyLine(l, a)
    BY <1>1, <2>1, OneLine
  <2>3. "UPGRADE_REQ" \in ReqTypes /\ (Held(l, a)' <=> Held(l, a))
    BY <1>1, <1>2, <2>1 DEF ReqTypes, Held
  <2> QED
    BY <1>1, <2>1, <2>2, <2>3, AskQInv
<1>5. CASE LoopWakes(l)
  <2>1. /\ Access(l, a, waiters[l][a][1].exclusive) /\ waiters' = waiters /\ inbox' = inbox
        /\ net' = [net EXCEPT ![l] = [phase |-> "served", addr |-> a]]
    BY <1>5 DEF LoopWakes
  <2>2. cstate' = cstate \/ cstate' = [cstate EXCEPT ![l][a] = "M"]
    BY <2>1 DEF Access, SetLine
  <2>3. OnlyLine(l, a)
    BY <1>1, <2>1, <2>2, OneLine
  <2>4. InLoop(l, a)' /\ (Held(l, a) => Held(l, a)')
    BY <1>1, <1>2, <2>1, <2>2 DEF InLoop, Held
  <2>5. WaiterServed(l, a)'
    BY <2>4 DEF WaiterServed
  <2> QED
    BY <1>1, <2>1, <2>3, <2>4, <2>5, LocalQInv
<1>6. CASE LoopDequeues(l)
  <2>1. /\ cstate' = cstate /\ inbox' = inbox
        /\ waiters' = [waiters EXCEPT ![l][a] = Tail(@)]
        /\ net' = [net EXCEPT ![l] = [phase |-> "loop", addr |-> a]]
    BY <1>6 DEF LoopDequeues
  <2>2. OnlyLine(l, a)
    BY <1>1, <2>1, OneLine
  <2>3. InLoop(l, a)' /\ (Held(l, a) => Held(l, a)')
    BY <1>1, <1>2, <2>1 DEF InLoop, Held
  <2>4. WaiterServed(l, a)'
    BY <2>3 DEF WaiterServed
  <2> QED
    BY <1>1, <2>1, <2>2, <2>3, <2>4, LocalQInv
<1> QED
  BY <1>3, <1>4, <1>5, <1>6

\* A core's access.
LEMMA CoreQInv ==
  ASSUME CInv, QInv, NEW c \in Cores, NEW a \in Addrs, CoreStep(c, a)
  PROVE  QInv'
<1> PICK l : l = LlcOf[c]
  OBVIOUS
<1>1. /\ l \in LLCs /\ UNCHANGED dirVars /\ net' = net
      /\ cstate \in [LLCs -> [Addrs -> CStates]]
  <2>1. l \in LLCs
    BY CoresAssumption
  <2> QED
    BY <2>1, LineFacts DEF CoreStep, Hit, Miss
<1>2. CASE Hit(c, a)
  <2>1. waiters' = waiters /\ inbox' = inbox
    BY <1>2 DEF Hit
  <2>2. cstate' = cstate \/ cstate' = [cstate EXCEPT ![l][a] = "M"]
    BY <1>2 DEF Hit, Access, SetLine
  <2>3. (Held(l, a) => Held(l, a)') /\ OnlyLine(l, a)
    <3>1. Held(l, a) => Held(l, a)'
      BY <1>1, <2>2 DEF Held
    <3>2. cstate' = cstate \/ \E s : cstate' = [cstate EXCEPT ![l][a] = s]
      BY <2>2
    <3> QED
      BY <1>1, <2>1, <3>1, <3>2, OneLine
  <2>4. WaiterServed(l, a)'
    BY <1>1, <2>1, ServedStays DEF ToHome, ToCache
  <2> QED
    BY <1>1, <2>1, <2>3, <2>4, LocalQInv
<1>3. CASE Miss(c, a)
  <2>1. PICK x \in BOOLEAN, y \in ReqTypes :
          /\ waiters' = [waiters EXCEPT ![l][a] = Append(@, [core |-> c, exclusive |-> x])]
          /\ inbox' = IF waiters[l][a] = <<>> THEN Send(inbox, Home, Msg(y, l, a, NoData))
                      ELSE inbox
          /\ cstate' = IF waiters[l][a] = <<>> /\ x /\ cstate[l][a] = "S"
                       THEN [cstate EXCEPT ![l][a] = "SU"] ELSE cstate
    BY <1>3 DEF Miss, FirstWaiter, ReqTypes
  <2>2. OnlyLine(l, a)
    BY <1>1, <2>1, OneLine
  <2>3. Held(l, a)' <=> Held(l, a)
    BY <1>1, <2>1 DEF Held
  <2>4. CASE waiters[l][a] # <<>>
    <3>1. inbox' = inbox
      BY <2>1, <2>4
    <3>2. Asking(l, a, ReqTypes) \/ ToCache(l, a, RepTypes) \/ InLoop(l, a)
      BY <1>1, <2>4 DEF QInv, LineAwaited, WaiterServed
    <3>3. WaiterServed(l, a)'
      BY <1>1, <3>1, <3>2, DirectoryIdle, DirectorySame DEF WaiterServed, Asking, ToHome, ToCache, InLoop
    <3> QED
      BY <1>1, <2>2, <2>3, <3>1, <3>3, LocalQInv
  <2>5. CASE waiters[l][a] = <<>>
    BY <1>1, <2>1, <2>2, <2>3, <2>5, AskQInv
  <2> QED
    BY <2>4, <2>5
<1> QED
  BY <1>2, <1>3 DEF CoreStep

-----------------------------------------------------------------------------
(* The steps of the directory.                                             *)

\* A step of the directory that concerns the lines of A.
LEMMA HomeQuiet ==
  ASSUME QInv, UNCHANGED llcVars, NEW A,
         \A a \in Addrs : a \notin A => LineApart(a) /\ (a \in replaced' => a \in replaced),
         \A a \in Addrs : a \in A => LineAwaited(a)'
  PROVE  QInv'
<1>1. ASSUME NEW a \in Addrs, a \notin A PROVE LineAwaited(a)'
  <2>1. LineAwaited(a) /\ LineApart(a) /\ (a \in replaced' => a \in replaced)
    BY <1>1 DEF QInv
  <2>2. dir'[a] = dir[a] /\ queue'[a] = queue[a] /\ (Busy(a)' <=> Busy(a))
    BY <2>1 DEF LineApart
  <2>3. \A l \in LLCs : SameBox(inbox[l], inbox'[l], Home, a) /\ SameBox(inbox[Home], inbox'[Home], l, a)
    BY <2>1 DEF LineApart
  <2>4. SameBox(inbox[Dram], inbox'[Dram], Home, a) /\ SameBox(inbox[Home], inbox'[Home], Dram, a)
    BY <2>1 DEF LineApart
  <2>5. cstate' = cstate /\ waiters' = waiters /\ net' = net
    BY DEF llcVars
  <2>6. ASSUME NEW l \in LLCs
        PROVE  /\ StillComes(l, a)
               /\ \A T : ToHome(l, a, T)' <=> ToHome(l, a, T)
               /\ \A T : ToCache(l, a, T)' <=> ToCache(l, a, T)
    BY <2>3, <2>5, SameComes DEF Held
  <2>7. ASSUME NEW l \in LLCs PROVE WaiterServed(l, a)'
    <3>1. StillServed(l, a)
      BY <2>2, <2>6, DirectorySame DEF StillServed, Asking
    <3>2. WaiterServed(l, a) /\ waiters'[l][a] = waiters[l][a] /\ (InLoop(l, a) => InLoop(l, a)')
      BY <2>1, <2>5 DEF LineAwaited, InLoop
    <3> QED
      BY <3>1, <3>2, ServedFrame
  <2>8. Reading(a) \/ ReadDone(a) => Reading(a)' \/ ReadDone(a)'
    BY <2>4 DEF SameBox, Reading, ReadDone
  <2>9. Awaited(a)'
    BY <2>1, <2>2, <2>6, <2>8, AwaitedFrame DEF LineAwaited
  <2> QED
    BY <2>7, <2>9 DEF LineAwaited
<1> QED
  BY <1>1 DEF QInv

LEMMA OneLineQuiet ==
  ASSUME QInv, UNCHANGED llcVars, NEW a \in Addrs, LineAwaited(a)',
         \A b \in Addrs : b # a => LineApart(b) /\ (b \in replaced' => b \in replaced)
  PROVE  QInv'
<1>1. \A b \in Addrs : b \in {a} => LineAwaited(b)'
  OBVIOUS
<1> QED
  BY <1>1, HomeQuiet

\* Nothing the caches wait for is lost by a step of the directory.
LEMMA WaitersStay ==
  ASSUME QInv, UNCHANGED llcVars, NEW a \in Addrs, \A l \in LLCs : StillServed(l, a)
  PROVE  \A l \in LLCs : WaiterServed(l, a)'
<1>1. ASSUME NEW l \in LLCs PROVE WaiterServed(l, a)'
  <2>1. WaiterServed(l, a) /\ waiters'[l][a] = waiters[l][a] /\ (InLoop(l, a) => InLoop(l, a)')
    BY DEF QInv, LineAwaited, llcVars, InLoop
  <2> QED
    BY <2>1, ServedFrame
<1> QED
  BY <1>1

\* The front request of a cache is no replacement.
LEMMA NotReplaced ==
  ASSUME QInv, NEW a \in Addrs, Front(a).type # "NULLIFY_REQ"
  PROVE  a \notin replaced /\ ForwarderShares(a)
  BY DEF QInv, LineAwaited, Awaited, ReplacedQueued

\* processNextReqFromL2Cache() goes on with the requests of the line.
LEMMA NextProcessed ==
  ASSUME NEW a \in Addrs, NEW q \in Queues, q[a] = queue[a], Queued(a), Complete(q, a)
  PROVE  Queued(a)' => Busy(a)'
<1>1. /\ queue'[a] = Tail(queue[a]) /\ queue[a] \in Seq(Request) /\ queue[a] # <<>>
      /\ work' = IF Len(queue[a]) > 1 THEN Process(a, NoData) ELSE Idle
  BY DEF Complete, Queues, Queued
<1>2. Tail(queue[a]) # <<>> => Len(queue[a]) > 1
  BY <1>1
<1> QED
  BY <1>1, <1>2 DEF Process, Busy, Queued

\* The front request is done, and its requester has been sent the reply.
LEMMA DoneQuiet ==
  ASSUME CInv, QInv, UNCHANGED llcVars, NEW a \in Addrs, Queued(a), queue'[a] = Tail(queue[a]),
         Queued(a)' => Busy(a)', a \notin replaced', ForwarderShares(a)',
         NEW r, r = Front(a).from, r \in LLCs => ToCache(r, a, RepTypes)',
         \A l \in LLCs : /\ ToHome(l, a, ReqTypes) => ToHome(l, a, ReqTypes)'
                         /\ ToCache(l, a, RepTypes) => ToCache(l, a, RepTypes)'
  PROVE  LineAwaited(a)'
<1>1. queue \in Queues /\ QueueFresh(a)
  <2>1. queue \in Queues
    BY FrontFacts
  <2> QED
    BY <2>1 DEF CInv, EntryInv
<1>2. \A l : l # Front(a).from => (\A T : InQueue(l, a, T)' <=> InQueue(l, a, T))
  BY <1>1, QueueTail
<1>3. ASSUME NEW l \in LLCs PROVE StillServed(l, a)
  <2>1. CASE l # Front(a).from
    <3>1. InQueue(l, a, ReqTypes) => InQueue(l, a, ReqTypes)'
      BY <1>2, <2>1
    <3>2. /\ ToHome(l, a, ReqTypes) => ToHome(l, a, ReqTypes)'
          /\ ToCache(l, a, RepTypes) => ToCache(l, a, RepTypes)'
      OBVIOUS
    <3> QED
      BY <3>1, <3>2 DEF StillServed, Asking
  <2>2. CASE l = Front(a).from
    <3>1. ToCache(l, a, RepTypes)'
      BY <2>2
    <3> QED
      BY <3>1 DEF StillServed
  <2> QED
    BY <2>1, <2>2
<1>4. \A l \in LLCs : WaiterServed(l, a)'
  BY <1>3, WaitersStay
<1>5. Awaited(a)'
  BY DEF Awaited, ReplacedQueued, FetchUnderWay, CopyUnderWay, RecallUnderWay, Waits
<1> QED
  BY <1>4, <1>5 DEF LineAwaited

\* The front request waits for an owner's copy, or for every copy but its own.
LEMMA RecallsQuiet ==
  ASSUME CInv, QInv, UNCHANGED llcVars, NEW a \in Addrs, Busy(a), Front(a).type \in ReqTypes,
         dir'[a] = dir[a], queue'[a] = queue[a], ~Busy(a)', a \notin replaced',
         inbox'[Home] = inbox[Home],
         \A l \in LLCs : SameBox(inbox[l], inbox'[l], Home, a) \/
                         \E z \in Recalls : PushBox(inbox[l], inbox'[l], Home, a, z),
         Front(a).type = "SH_REQ" =>
           /\ dir[a].state \in Owned
           /\ PushBox(inbox[dir[a].owner], inbox'[dir[a].owner], Home, a, "WB_REQ"),
         Front(a).type # "SH_REQ" =>
           /\ \E l \in LLCs : Obstacle(l, a)
           /\ \A l \in LLCs : Obstacle(l, a) =>
                \E z \in {"INV_REQ", "FLUSH_REQ"} : PushBox(inbox[l], inbox'[l], Home, a, z)
  PROVE  LineAwaited(a)'
<1>1. /\ EntryInv(a) /\ ~Front(a).waitForData /\ dir[a] \in Entry
      /\ \A l \in LLCs : LineInv(l, a)
      /\ \A l : Fetching(l, a) => l = Front(a).from /\ dir[a].state = "SHARED"
  BY RequesterFacts
<1>2. Queued(a)' <=> Queued(a)
  BY DEF Queued
<1>3. Front(a)' = Front(a) /\ \A l, T : InQueue(l, a, T)' <=> InQueue(l, a, T)
  BY DEF Front, InQueue
<1>4. ASSUME NEW l \in LLCs PROVE StillServed(l, a)
  <2>1. ToCache(l, a, RepTypes) => ToCache(l, a, RepTypes)'
    BY DEF ToCache, SameBox, PushBox
  <2> QED
    BY <1>3, <2>1 DEF StillServed, Asking, ToHome
<1>5. \A l \in LLCs : WaiterServed(l, a)'
  BY <1>4, WaitersStay
<1>6. ASSUME NEW l \in LLCs, l \in dir[a].sharers, ~Fetching(l, a), NEW y,
             PushBox(inbox[l], inbox'[l], Home, a, y)
      PROVE  Live(l, a, {y})' \/ Leaving(l, a)'
  <2>1. SameBox(inbox[Home], inbox'[Home], l, a) /\ cstate'[l][a] = cstate[l][a]
    BY SameBoxRefl DEF llcVars
  <2> QED
    BY <1>1, <1>6, <2>1, TokenFound
<1>7. CopyUnderWay(a)'
  <2>1. CASE Front(a).type = "SH_REQ"
    <3>1. dir[a].state \in Owned /\ dir[a].sharers = {dir[a].owner} /\ dir[a].owner \in LLCs
      BY <1>1, <2>1 DEF EntryInv, EntryShape, Entry
    <3>2. ~Fetching(dir[a].owner, a)
      BY <1>1, <3>1 DEF Owned
    <3>3. Answering(dir[a].owner, a)'
      BY <1>6, <2>1, <3>1, <3>2 DEF Answering
    <3> QED
      BY <3>1, <3>3 DEF CopyUnderWay
  <2>2. CASE Front(a).type # "SH_REQ"
    BY <1>3, <2>2 DEF CopyUnderWay
  <2> QED
    BY <2>1, <2>2
<1>8. RecallUnderWay(a)'
  <2>1. CASE Front(a).type # "SH_REQ"
    <3>1. ASSUME NEW l \in LLCs, Obstacle(l, a) PROVE Going(l, a)'
      <4>1. PICK z \in {"INV_REQ", "FLUSH_REQ"} : PushBox(inbox[l], inbox'[l], Home, a, z)
        BY <2>1, <3>1
      <4>2. ~Fetching(l, a) /\ l \in dir[a].sharers
        BY <1>1, <3>1 DEF Obstacle
      <4> QED
        BY <1>6, <4>1, <4>2 DEF Going
    <3>2. \A l : Obstacle(l, a)' <=> Obstacle(l, a)
      BY <1>3 DEF Obstacle
    <3> QED
      BY <2>1, <3>1, <3>2 DEF RecallUnderWay
  <2>2. CASE Front(a).type = "SH_REQ"
    BY <1>3, <2>2 DEF RecallUnderWay
  <2> QED
    BY <2>1, <2>2
<1>9. ReplacedQueued(a)' /\ FetchUnderWay(a)' /\ ForwarderShares(a)'
  <2>1. ForwarderShares(a)
    BY DEF QInv, LineAwaited, Awaited
  <2> QED
    BY <1>1, <1>3, <2>1 DEF ReplacedQueued, FetchUnderWay, ForwarderShares
<1> QED
  BY <1>5, <1>7, <1>8, <1>9 DEF LineAwaited, Awaited

\* What the directory sends adds to the boxes of the caches, and its own is kept.
LEMMA SentKept ==
  ASSUME NEW a \in Addrs, NEW S, NEW y, inbox'[Home] = inbox[Home],
         \A n \in LLCs \union {Dram} : IF n \in S THEN PushBox(inbox[n], inbox'[n], Home, a, y)
                                       ELSE SameBox(inbox[n], inbox'[n], Home, a)
  PROVE  \A l \in LLCs : /\ ToHome(l, a, ReqTypes) => ToHome(l, a, ReqTypes)'
                         /\ ToCache(l, a, RepTypes) => ToCache(l, a, RepTypes)'
  BY DEF ToHome, ToCache, PushBox, SameBox

\* The front request, marked, still stands for its cache.
LEMMA MarkServed ==
  ASSUME CInv, QInv, UNCHANGED llcVars, NEW a \in Addrs, Queued(a), NEW m,
         queue'[a] = [queue[a] EXCEPT ![1] = m], m.type = Front(a).type, m.from = Front(a).from,
         \A l \in LLCs : /\ ToHome(l, a, ReqTypes) => ToHome(l, a, ReqTypes)'
                         /\ ToCache(l, a, RepTypes) => ToCache(l, a, RepTypes)'
  PROVE  /\ \A l \in LLCs : WaiterServed(l, a)'
         /\ Queued(a)' /\ Front(a)' = m
<1>1. queue \in Queues /\ QueueFresh(a)
  <2>1. queue \in Queues
    BY FrontFacts
  <2> QED
    BY <2>1 DEF CInv, EntryInv
<1>2. (\A l, T : InQueue(l, a, T)' <=> InQueue(l, a, T)) /\ Queued(a)' /\ Front(a)' = m
  BY <1>1, QueueMark
<1>3. \A l \in LLCs : StillServed(l, a)
  BY <1>2 DEF StillServed, Asking
<1>4. \A l \in LLCs : WaiterServed(l, a)'
  BY <1>3, WaitersStay
<1> QED
  BY <1>2, <1>4

\* retrieveDataAndSendToL2Cache(): the requester is answered, or the forwarder or
\* the DRAM controller is asked.
LEMMA RetrieveQuiet ==
  ASSUME CInv, QInv, UNCHANGED llcVars, NEW a \in Addrs, a \notin replaced',
         NEW e, NEW boxes, NEW q, Taken(a, e, boxes, q),
         NEW x \in Entry, NEW y \in Grants, NEW d \in Data \union {NoData},
         Retrieve(a, x, boxes, q, y, d), ForwarderShares(a),
         x.sharers = dir[a].sharers \union {Front(a).from},
         x.state = "SHARED" => /\ Front(a).type = "SH_REQ"
                               /\ Protocol = "MSI" \/ x.forwarder = dir[a].forwarder,
         x.forwarder \in LLCs => x.forwarder \in x.sharers
  PROVE  LineAwaited(a)'
<1>r. PICK r \in LLCs : r = Front(a).from
  BY TakenFacts
<1>0. /\ Busy(a) /\ Queued(a) /\ r \in LLCs /\ Front(a) \in Request
      /\ boxes \in Inboxes /\ q \in Queues /\ q[a] = queue[a] /\ queue[a][1] = Front(a)
      /\ (\A z : dir' = [dir EXCEPT ![a] = z] => dir'[a] = z)
      /\ (Complete(q, a) => queue'[a] = Tail(queue[a]))
  <2>1. /\ Busy(a) /\ Queued(a) /\ boxes \in Inboxes /\ q[a] = queue[a]
        /\ (\A z : dir' = [dir EXCEPT ![a] = z] => dir'[a] = z)
        /\ (Complete(q, a) => queue'[a] = Tail(queue[a]))
    BY TakenFacts
  <2>2. Front(a) \in Request /\ queue[a][1] = Front(a)
    BY <2>1, FrontFacts
  <2>3. q \in Queues
    BY DEF Taken
  <2> QED
    BY <1>r, <2>1, <2>2, <2>3
<1>1. /\ ~Front(a).waitForData
      /\ \A l : Fetching(l, a) <=> l = r /\ Front(a).forwardingFrom # None
      /\ \A l \in LLCs : LineInv(l, a)
  BY <1>0, <1>r, RequesterFacts DEF Taken
<1>2. r \in LLCs \union {Dram} /\ r # Dram /\ Dram \notin LLCs
  BY <1>0, NetworkAssumption
<1>3. CASE /\ d # NoData
           /\ dir' = [dir EXCEPT ![a] = [x EXCEPT !.forwarder = r]]
           /\ inbox' = Send(boxes, r, Msg(y, Home, a, d))
           /\ Complete(q, a)
  <2>1. Sent(boxes, inbox', {r}, y, a)
    BY <1>0, <1>2, <1>3, DirectorySends DEF Grants, HomeToAnyData
  <2>2. /\ inbox'[Home] = inbox[Home]
        /\ \A n \in LLCs \union {Dram} : IF n \in {r} THEN PushBox(inbox[n], inbox'[n], Home, a, y)
                                         ELSE SameBox(inbox[n], inbox'[n], Home, a)
    BY <2>1, SentLast
  <2>3. ForwarderShares(a)'
    <3>1. dir'[a] = [x EXCEPT !.forwarder = r]
      BY <1>0, <1>3
    <3> QED
      BY <1>r, <3>1 DEF Entry, ForwarderShares
  <2>4. queue'[a] = Tail(queue[a]) /\ (Queued(a)' => Busy(a)')
    BY <1>0, <1>3, NextProcessed
  <2>5. ToCache(r, a, RepTypes)'
    <3>1. PushBox(inbox[r], inbox'[r], Home, a, y) /\ y \in RepTypes
      BY <1>2, <2>2 DEF Grants, RepTypes
    <3> QED
      BY <3>1 DEF ToCache, PushBox
  <2>6. \A l \in LLCs : /\ ToHome(l, a, ReqTypes) => ToHome(l, a, ReqTypes)'
                        /\ ToCache(l, a, RepTypes) => ToCache(l, a, RepTypes)'
    BY <2>2, SentKept
  <2> QED
    BY <1>0, <1>r, <2>3, <2>4, <2>5, <2>6, DoneQuiet
<1>4. CASE /\ d = NoData
           /\ Protocol = "MESIF" /\ q[a][1].forwardingFrom = None
           /\ x.state = "SHARED" /\ x.forwarder # None /\ x.forwarder # Uninit
           /\ dir' = [dir EXCEPT ![a] = x]
           /\ inbox' = Send(boxes, x.forwarder, Msg("WB_REQ", Home, a, NoData))
           /\ Wait([q EXCEPT ![a][1].forwardingFrom = x.forwarder])
  <2> DEFINE f == x.forwarder
             m == [Front(a) EXCEPT !.forwardingFrom = f]
  <2>1. f \in LLCs
    BY <1>4 DEF Entry
  <2>2. Sent(boxes, inbox', {f}, "WB_REQ", a)
    BY <1>0, <1>4, <2>1, DirectorySends DEF HomeToAny
  <2>3. /\ inbox'[Home] = inbox[Home]
        /\ \A n \in LLCs \union {Dram} : IF n \in {f} THEN PushBox(inbox[n], inbox'[n], Home, a, "WB_REQ")
                                         ELSE SameBox(inbox[n], inbox'[n], Home, a)
    BY <2>2, SentLast
  <2>4. dir'[a] = x
    BY <1>0, <1>4
  <2>5. /\ m.type = Front(a).type /\ m.from = r /\ m.forwardingFrom = f /\ m.waitForData = Front(a).waitForData
    BY <1>0, <1>r DEF Request
  <2>6. queue'[a] = [queue[a] EXCEPT ![1] = m]
    <3>1. q \in Queues /\ q[a] = queue[a] /\ queue[a][1] = Front(a)
      BY <1>0
    <3>2. Wait([q EXCEPT ![a][1].forwardingFrom = x.forwarder])
      BY <1>4
    <3>3. \A g : Wait([q EXCEPT ![a][1].forwardingFrom = g]) =>
            /\ queue'[a] = [queue[a] EXCEPT ![1] = [Front(a) EXCEPT !.forwardingFrom = g]]
            /\ ~work'.busy /\ \A b \in Addrs : b # a => queue'[b] = q[b]
      BY <3>1, MarkedQueue
    <3> QED
      BY <3>2, <3>3, Zenon
  <2>7. f \in dir[a].sharers
    BY <1>4, <2>1 DEF ForwarderShares
  <2>8. ~Fetching(f, a)
    BY <1>0, <1>1, <1>4
  <2> HIDE DEF m
  <2>9. \A l \in LLCs : /\ ToHome(l, a, ReqTypes) => ToHome(l, a, ReqTypes)'
                        /\ ToCache(l, a, RepTypes) => ToCache(l, a, RepTypes)'
    BY <2>3, SentKept
  <2>10. (\A l \in LLCs : WaiterServed(l, a)') /\ Queued(a)' /\ Front(a)' = m
    BY <1>0, <1>r, <2>5, <2>6, <2>9, MarkServed
  <2>11. Live(f, a, {"WB_REQ"})' \/ Leaving(f, a)'
    <3>1. /\ PushBox(inbox[f], inbox'[f], Home, a, "WB_REQ")
          /\ SameBox(inbox[Home], inbox'[Home], f, a) /\ cstate'[f][a] = cstate[f][a]
      BY <2>1, <2>3, SameBoxRefl DEF llcVars
    <3> HIDE DEF f
    <3> QED
      BY <1>1, <2>1, <2>7, <2>8, <3>1, TokenFound
  <2>12. CopyUnderWay(a)'
    <3>1. dir'[a].state = "SHARED" /\ Front(a)'.forwardingFrom = f
      BY <1>4, <2>4, <2>5, <2>10
    <3> HIDE DEF f
    <3>2. Answering(f, a)'
      BY <2>11 DEF Answering
    <3> QED
      BY <2>1, <3>1, <3>2 DEF CopyUnderWay
  <2>13. ReplacedQueued(a)' /\ FetchUnderWay(a)' /\ RecallUnderWay(a)' /\ ForwarderShares(a)'
    BY <1>1, <1>4, <2>4, <2>5, <2>10 DEF ReplacedQueued, FetchUnderWay, RecallUnderWay, ForwarderShares
  <2> QED
    BY <2>10, <2>12, <2>13 DEF LineAwaited, Awaited
<1>5. CASE /\ d = NoData
           /\ dir' = [dir EXCEPT ![a] = x]
           /\ inbox' = Send(boxes, Dram, Msg("DRAM_READ_REQ", Home, a, NoData))
           /\ Wait([q EXCEPT ![a][1].waitForData = TRUE])
  <2> DEFINE m == [Front(a) EXCEPT !.waitForData = TRUE]
  <2>2. Sent(boxes, inbox', {Dram}, "DRAM_READ_REQ", a)
    BY <1>0, <1>5, DirectorySends DEF HomeToAny
  <2>3. /\ inbox'[Home] = inbox[Home]
        /\ \A n \in LLCs \union {Dram} : IF n \in {Dram} THEN PushBox(inbox[n], inbox'[n], Home, a, "DRAM_READ_REQ")
                                         ELSE SameBox(inbox[n], inbox'[n], Home, a)
    BY <2>2, SentLast
  <2>4. dir'[a] = x
    BY <1>0, <1>5
  <2>5. m.type = Front(a).type /\ m.from = r /\ m.waitForData
    BY <1>0, <1>r DEF Request
  <2>6. queue'[a] = [queue[a] EXCEPT ![1] = m]
    BY <1>0, <1>5, MarkedQueue
  <2> HIDE DEF m
  <2>9. \A l \in LLCs : /\ ToHome(l, a, ReqTypes) => ToHome(l, a, ReqTypes)'
                        /\ ToCache(l, a, RepTypes) => ToCache(l, a, RepTypes)'
    BY <2>3, SentKept
  <2>10. (\A l \in LLCs : WaiterServed(l, a)') /\ Queued(a)' /\ Front(a)' = m
    BY <1>0, <1>r, <2>5, <2>6, <2>9, MarkServed
  <2>11. Reading(a)'
    <3>1. PushBox(inbox[Dram], inbox'[Dram], Home, a, "DRAM_READ_REQ")
      BY <2>3
    <3> QED
      BY <3>1 DEF Reading, PushBox
  <2>12. FetchUnderWay(a)' /\ CopyUnderWay(a)' /\ RecallUnderWay(a)'
    BY <2>5, <2>10, <2>11 DEF FetchUnderWay, CopyUnderWay, RecallUnderWay, Waits
  <2>13. ReplacedQueued(a)' /\ ForwarderShares(a)'
    BY <2>4 DEF ReplacedQueued, ForwarderShares
  <2> QED
    BY <2>10, <2>12, <2>13 DEF LineAwaited, Awaited
<1> QED
  <2>1. q[a][1].from = r
    BY <1>0, <1>r
  <2> QED
    BY <1>3, <1>4, <1>5, <2>1 DEF Retrieve

\* Copies are recalled for the front request.
LEMMA RecallsSentQuiet ==
  ASSUME CInv, QInv, UNCHANGED llcVars, NEW a \in Addrs, a \notin replaced',
         NEW e, NEW boxes, NEW q, Taken(a, e, boxes, q),
         NEW S \in SUBSET LLCs, NEW y \in Recalls, Sent(boxes, inbox', S, y, a),
         Wait(q), dir' = [dir EXCEPT ![a] = e], e.state # "UNCACHED",
         Front(a).type = "SH_REQ" => y = "WB_REQ" /\ dir[a].state \in Owned /\ dir[a].owner \in S,
         Front(a).type # "SH_REQ" => /\ y # "WB_REQ"
                                     /\ \E l \in LLCs : Obstacle(l, a)
                                     /\ \A l \in LLCs : Obstacle(l, a) => l \in S
  PROVE  LineAwaited(a)'
<1>1. /\ Busy(a) /\ Front(a).type \in ReqTypes /\ dir'[a] = dir[a]
      /\ queue'[a] = queue[a] /\ ~Busy(a)'
  BY TakenFacts
<1>2. /\ inbox'[Home] = inbox[Home]
      /\ \A l \in LLCs : IF l \in S THEN PushBox(inbox[l], inbox'[l], Home, a, y)
                         ELSE SameBox(inbox[l], inbox'[l], Home, a)
  BY SentLast
<1>3. \A l \in LLCs : SameBox(inbox[l], inbox'[l], Home, a) \/
                      \E z \in Recalls : PushBox(inbox[l], inbox'[l], Home, a, z)
  BY <1>2
<1>4. Front(a).type = "SH_REQ" =>
        /\ dir[a].state \in Owned
        /\ PushBox(inbox[dir[a].owner], inbox'[dir[a].owner], Home, a, "WB_REQ")
  BY <1>2
<1>5. Front(a).type # "SH_REQ" =>
        /\ \E l \in LLCs : Obstacle(l, a)
        /\ \A l \in LLCs : Obstacle(l, a) =>
             \E z \in {"INV_REQ", "FLUSH_REQ"} : PushBox(inbox[l], inbox'[l], Home, a, z)
  <2>1. y # "WB_REQ" => y \in {"INV_REQ", "FLUSH_REQ"}
    BY DEF Recalls
  <2> QED
    BY <1>2, <2>1
<1> QED
  BY <1>1, <1>2, <1>3, <1>4, <1>5, RecallsQuiet

\* One sharer is flushed, the others are invalidated.
LEMMA FlushSentQuiet ==
  ASSUME CInv, QInv, UNCHANGED llcVars, NEW a \in Addrs, a \notin replaced',
         NEW e, NEW boxes, NEW q, Taken(a, e, boxes, q),
         NEW s \in LLCs, NEW S \in SUBSET LLCs, s \notin S,
         NEW between, Sent(boxes, between, {s}, "FLUSH_REQ", a), Sent(between, inbox', S, "INV_REQ", a),
         Wait(q), dir' = [dir EXCEPT ![a] = e], e.state # "UNCACHED",
         Front(a).type # "SH_REQ", \E l \in LLCs : Obstacle(l, a),
         \A l \in LLCs : Obstacle(l, a) => l \in S \/ l = s
  PROVE  LineAwaited(a)'
<1>1. /\ Busy(a) /\ Front(a).type \in ReqTypes /\ dir'[a] = dir[a]
      /\ queue'[a] = queue[a] /\ ~Busy(a)'
  BY TakenFacts
<1>2. inbox'[Home] = inbox[Home]
  BY DEF Sent, Taken
<1>3. ASSUME NEW n \in LLCs
      PROVE  \/ SameBox(inbox[n], inbox'[n], Home, a) /\ n # s /\ n \notin S
             \/ PushBox(inbox[n], inbox'[n], Home, a, "FLUSH_REQ") /\ n = s
             \/ PushBox(inbox[n], inbox'[n], Home, a, "INV_REQ") /\ n \in S
  <2>1. SameBox(inbox[n], boxes[n], Home, a)
    BY DEF Taken
  <2>2. IF n = s THEN PushBox(boxes[n], between[n], Home, a, "FLUSH_REQ")
        ELSE SameBox(boxes[n], between[n], Home, a)
    BY DEF Sent
  <2>3. IF n \in S THEN PushBox(between[n], inbox'[n], Home, a, "INV_REQ")
        ELSE SameBox(between[n], inbox'[n], Home, a)
    BY DEF Sent
  <2>4. IF n = s THEN PushBox(inbox[n], between[n], Home, a, "FLUSH_REQ")
        ELSE SameBox(inbox[n], between[n], Home, a)
    BY <2>1, <2>2, BoxTrans
  <2> QED
    BY <2>3, <2>4, BoxTrans
<1>4. \A l \in LLCs : SameBox(inbox[l], inbox'[l], Home, a) \/
                      \E z \in Recalls : PushBox(inbox[l], inbox'[l], Home, a, z)
  <2>1. "FLUSH_REQ" \in Recalls /\ "INV_REQ" \in Recalls
    BY DEF Recalls
  <2> QED
    BY <1>3, <2>1
<1>5. \A l \in LLCs : Obstacle(l, a) =>
        \E z \in {"INV_REQ", "FLUSH_REQ"} : PushBox(inbox[l], inbox'[l], Home, a, z)
  BY <1>3
<1> QED
  BY <1>1, <1>2, <1>4, <1>5, RecallsQuiet

\* The entry of the line the front request is for.
LEMMA TakenQuiet ==
  ASSUME CInv, QInv, NEW a \in Addrs, NEW e, NEW boxes, NEW q, Taken(a, e, boxes, q)
  PROVE  /\ e \in Entry /\ e.state \in DStates /\ e.sharers \subseteq LLCs /\ dir[a].sharers = e.sharers
         /\ dir[a].state = e.state /\ ForwarderShares(a)
         /\ (e.state # "UNCACHED" => e = dir[a] /\ e.sharers # {})
         /\ (e.state \in Owned => e.sharers = {e.owner} /\ e.owner \in LLCs)
         /\ (Front(a).type = "EX_REQ" => Front(a).from \notin e.sharers)
         /\ boxes \in Inboxes /\ q[a][1] = Front(a) /\ work.data \in Data \union {NoData}
         /\ Front(a).from \in LLCs
<1>1. /\ e \in Entry /\ e.state \in DStates /\ e.sharers \subseteq LLCs
      /\ (e.state \in Owned => e.sharers = {e.owner} /\ e.owner \in LLCs)
      /\ (e.state # "UNCACHED" => e = dir[a])
      /\ (Front(a).type = "EX_REQ" => Front(a).from \notin e.sharers)
  BY TakenEntry
<1>2. /\ boxes \in Inboxes /\ q[a][1] = Front(a) /\ dir[a].sharers = e.sharers
      /\ Front(a).from \in LLCs /\ dir[a].state = e.state /\ work.data \in Data \union {NoData}
  BY TakenFacts, WorkFields, DirectoryFacts DEF CInv, Busy
<1>3. e.state # "UNCACHED" => e.sharers # {}
  BY <1>2 DEF CInv, EntryInv, EntryShape
<1>4. ForwarderShares(a)
  BY DEF QInv, LineAwaited, Awaited
<1> QED
  BY <1>1, <1>2, <1>3, <1>4

\* processExReqFromL2Cache()
LEMMA ProcessExQuiet ==
  ASSUME CInv, QInv, UNCHANGED llcVars, NEW a \in Addrs, a \notin replaced',
         NEW e, NEW boxes, NEW q, Taken(a, e, boxes, q), e.forwarder \in LLCs => e.forwarder \in e.sharers,
         Front(a).type = "EX_REQ", ProcessExReq(a, e, boxes, q, work.data)
  PROVE  LineAwaited(a)'
<1> DEFINE r == Front(a).from
<1>1. /\ e \in Entry /\ e.state \in DStates /\ e.sharers \subseteq LLCs /\ dir[a].sharers = e.sharers
      /\ dir[a].state = e.state /\ ForwarderShares(a)
      /\ (e.state # "UNCACHED" => e = dir[a] /\ e.sharers # {})
      /\ (e.state \in Owned => e.sharers = {e.owner} /\ e.owner \in LLCs)
      /\ r \notin e.sharers /\ r \in LLCs
      /\ boxes \in Inboxes /\ q[a][1] = Front(a) /\ work.data \in Data \union {NoData}
  BY TakenQuiet
<1>2. \A l : Obstacle(l, a) <=> l \in e.sharers
  BY <1>1 DEF Obstacle
<1>3. CASE /\ e.state \in {"EXCLUSIVE", "MODIFIED"}
           /\ inbox' = Send(boxes, e.owner, Msg("FLUSH_REQ", Home, a, NoData))
           /\ Wait(q) /\ dir' = [dir EXCEPT ![a] = e]
  <2>1. "FLUSH_REQ" \in Recalls /\ {e.owner} \in SUBSET LLCs /\ e.state # "UNCACHED"
    BY <1>1, <1>3 DEF Recalls, Owned
  <2>2. Sent(boxes, inbox', {e.owner}, "FLUSH_REQ", a)
    BY <1>1, <1>3, <2>1, RecallSends
  <2>3. (\E l \in LLCs : Obstacle(l, a)) /\ \A l \in LLCs : Obstacle(l, a) => l \in {e.owner}
    BY <1>1, <1>2, <1>3 DEF Owned
  <2> QED
    BY <1>3, <2>1, <2>2, <2>3, RecallsSentQuiet
<1>4. CASE /\ e.state = "SHARED"
           /\ Invalidate(a, e.sharers, boxes, q) /\ dir' = [dir EXCEPT ![a] = e]
  <2>1. "INV_REQ" \in Recalls /\ e.sharers \in SUBSET LLCs
    BY <1>1 DEF Recalls
  <2>2. Sent(boxes, inbox', e.sharers, "INV_REQ", a) /\ Wait(q)
    BY <1>1, <1>4, <2>1, RecallSends DEF Invalidate
  <2>3. (\E l \in LLCs : Obstacle(l, a)) /\ \A l \in LLCs : Obstacle(l, a) => l \in e.sharers
    BY <1>1, <1>2, <1>4
  <2> QED
    BY <1>4, <2>1, <2>2, <2>3, RecallsSentQuiet
<1>5. CASE /\ e.state = "UNCACHED" /\ e.sharers = {}
           /\ Retrieve(a, [e EXCEPT !.state = "MODIFIED", !.sharers = {r}, !.owner = r],
                       boxes, q, "EX_REP", work.data)
  <2> DEFINE x == [e EXCEPT !.state = "MODIFIED", !.sharers = {r}, !.owner = r]
  <2>1. x \in Entry /\ x.state = "MODIFIED" /\ x.sharers = {r} /\ x.forwarder = e.forwarder
    BY <1>1 DEF Entry, DStates
  <2>2. "EX_REP" \in Grants /\ Retrieve(a, x, boxes, q, "EX_REP", work.data)
    BY <1>5 DEF Grants
  <2> HIDE DEF x
  <2>3. x.sharers = dir[a].sharers \union {r} /\ x.forwarder \notin LLCs
    BY <1>1, <1>5, <2>1
  <2>4. /\ x.state = "SHARED" => /\ Front(a).type = "SH_REQ"
                                 /\ Protocol = "MSI" \/ x.forwarder = dir[a].forwarder
        /\ x.forwarder \in LLCs => x.forwarder \in x.sharers
        /\ x.sharers = dir[a].sharers \union {Front(a).from}
        /\ x \in Entry /\ work.data \in Data \union {NoData} /\ ForwarderShares(a)
    BY <1>1, <2>1, <2>3
  <2> QED
    BY <2>2, <2>4, RetrieveQuiet
<1> QED
  BY <1>1, <1>3, <1>4, <1>5 DEF ProcessExReq

\* processShReqFromL2Cache()
LEMMA ProcessShQuiet ==
  ASSUME CInv, QInv, FullMap, UNCHANGED llcVars, NEW a \in Addrs, a \notin replaced',
         NEW e, NEW boxes, NEW q, Taken(a, e, boxes, q), e.forwarder \in LLCs => e.forwarder \in e.sharers,
         Front(a).type = "SH_REQ", ProcessShReq(a, e, boxes, q, work.data)
  PROVE  LineAwaited(a)'
<1> DEFINE r == Front(a).from
<1>1. /\ e \in Entry /\ e.state \in DStates /\ e.sharers \subseteq LLCs /\ dir[a].sharers = e.sharers
      /\ dir[a].state = e.state /\ ForwarderShares(a)
      /\ (e.state # "UNCACHED" => e = dir[a])
      /\ (e.state \in Owned => e.sharers = {e.owner} /\ e.owner \in LLCs)
      /\ boxes \in Inboxes /\ q[a][1] = Front(a) /\ work.data \in Data \union {NoData}
      /\ r \in LLCs
  BY TakenQuiet
<1>3. CASE /\ e.state \in {"EXCLUSIVE", "MODIFIED"}
           /\ inbox' = Send(boxes, e.owner, Msg("WB_REQ", Home, a, NoData))
           /\ Wait(q) /\ dir' = [dir EXCEPT ![a] = e]
  <2>1. "WB_REQ" \in Recalls /\ {e.owner} \in SUBSET LLCs /\ e.state # "UNCACHED"
    BY <1>1, <1>3 DEF Recalls, Owned
  <2>2. Sent(boxes, inbox', {e.owner}, "WB_REQ", a)
    BY <1>1, <1>3, <2>1, RecallSends
  <2>3. dir[a].state \in Owned /\ dir[a].owner \in {e.owner}
    BY <1>1, <1>3, <2>1 DEF Owned
  <2> QED
    BY <1>3, <2>1, <2>2, <2>3, RecallsSentQuiet
<1>4. ~(e.state = "SHARED" /\ r \notin e.sharers /\ ~CanAddSharer(e))
  BY <1>1, RoomForAll
<1>5. CASE /\ e.state = "SHARED"
           /\ Retrieve(a, [e EXCEPT !.sharers = @ \union {r}], boxes, q, "SH_REP", work.data)
  <2> DEFINE x == [e EXCEPT !.sharers = @ \union {r}]
  <2>1. x \in Entry /\ x.sharers = e.sharers \union {r} /\ x.forwarder = e.forwarder
    BY <1>1 DEF Entry
  <2>2. "SH_REP" \in Grants /\ Retrieve(a, x, boxes, q, "SH_REP", work.data)
    BY <1>5 DEF Grants
  <2> HIDE DEF x
  <2>4. /\ x.state = "SHARED" => /\ Front(a).type = "SH_REQ"
                                 /\ Protocol = "MSI" \/ x.forwarder = dir[a].forwarder
        /\ x.forwarder \in LLCs => x.forwarder \in x.sharers
        /\ x.sharers = dir[a].sharers \union {Front(a).from}
        /\ x \in Entry /\ work.data \in Data \union {NoData} /\ ForwarderShares(a)
    BY <1>1, <1>5, <2>1
  <2> QED
    BY <2>2, <2>4, RetrieveQuiet
<1>6. CASE /\ e.state = "UNCACHED" /\ e.sharers = {}
           /\ LET shared == Protocol = "MSI"
              IN  Retrieve(a, [e EXCEPT !.sharers = {r}, !.owner = r,
                                 !.state = IF shared THEN "SHARED" ELSE "EXCLUSIVE"],
                           boxes, q, IF shared THEN "SH_REP" ELSE "EX_REP", work.data)
  <2> DEFINE s == IF Protocol = "MSI" THEN "SHARED" ELSE "EXCLUSIVE"
             y == IF Protocol = "MSI" THEN "SH_REP" ELSE "EX_REP"
             x == [e EXCEPT !.sharers = {r}, !.owner = r, !.state = s]
  <2>1. x \in Entry /\ x.state = s /\ x.sharers = {r} /\ x.forwarder = e.forwarder
    BY <1>1 DEF Entry, DStates
  <2>2. y \in Grants /\ Retrieve(a, x, boxes, q, y, work.data)
    BY <1>6 DEF Grants
  <2>3. x.state = "SHARED" => Protocol = "MSI"
    BY <2>1
  <2> HIDE DEF x, y, s
  <2>4. /\ x.state = "SHARED" => /\ Front(a).type = "SH_REQ"
                                 /\ Protocol = "MSI" \/ x.forwarder = dir[a].forwarder
        /\ x.forwarder \in LLCs => x.forwarder \in x.sharers
        /\ x.sharers = dir[a].sharers \union {Front(a).from}
        /\ x \in Entry /\ work.data \in Data \union {NoData} /\ ForwarderShares(a)
    BY <1>1, <1>6, <2>1, <2>3
  <2> QED
    BY <2>2, <2>4, RetrieveQuiet
<1> QED
  BY <1>1, <1>3, <1>4, <1>5, <1>6 DEF ProcessShReq

\* processUpgradeReqFromL2Cache()
LEMMA ProcessUpgradeQuiet ==
  ASSUME CInv, QInv, UNCHANGED llcVars, NEW a \in Addrs, a \notin replaced',
         NEW e, NEW boxes, NEW q, Taken(a, e, boxes, q), e.forwarder \in LLCs => e.forwarder \in e.sharers,
         Front(a).type = "UPGRADE_REQ", ProcessUpgradeReq(a, e, boxes, q, work.data)
  PROVE  LineAwaited(a)'
<1>r. PICK r \in LLCs : r = Front(a).from
  BY TakenFacts
<1>1. /\ e \in Entry /\ e.state \in DStates /\ e.sharers \subseteq LLCs /\ dir[a].sharers = e.sharers
      /\ dir[a].state = e.state /\ ForwarderShares(a)
      /\ (e.state # "UNCACHED" => e = dir[a] /\ e.sharers # {})
      /\ (e.state \in Owned => e.sharers = {e.owner} /\ e.owner \in LLCs)
      /\ boxes \in Inboxes /\ q[a][1] = Front(a) /\ work.data \in Data \union {NoData}
  BY TakenQuiet
<1>2. \A l : Obstacle(l, a) <=> l \in e.sharers /\ l # r
  BY <1>1, <1>r DEF Obstacle
<1>3. Front(a).type # "SH_REQ" /\ q[a][1].from = r
  BY <1>1, <1>r
<1>4. CASE /\ dir' = [dir EXCEPT ![a] = [e EXCEPT !.owner = r, !.state = "MODIFIED"]]
           /\ inbox' = Send(boxes, r, Msg("UPGRADE_REP", Home, a, NoData))
           /\ Complete(q, a)
  <2>1. dir'[a] = [e EXCEPT !.owner = r, !.state = "MODIFIED"] /\ queue'[a] = Tail(queue[a]) /\ Queued(a)
    BY <1>4, TakenFacts
  <2>2. ForwarderShares(a)'
    <3>1. dir'[a].sharers = e.sharers /\ dir'[a].forwarder = e.forwarder
      BY <1>1, <2>1 DEF Entry
    <3> QED
      BY <3>1 DEF ForwarderShares
  <2>3. Queued(a)' => Busy(a)'
    <3>1. q \in Queues /\ q[a] = queue[a]
      BY DEF Taken
    <3> QED
      BY <1>4, <2>1, <3>1, NextProcessed
  <2>4. Sent(boxes, inbox', {r}, "UPGRADE_REP", a)
    BY <1>1, <1>4, DirectorySends DEF HomeToAny
  <2>5. /\ inbox'[Home] = inbox[Home]
        /\ \A n \in LLCs \union {Dram} : IF n \in {r} THEN PushBox(inbox[n], inbox'[n], Home, a, "UPGRADE_REP")
                                         ELSE SameBox(inbox[n], inbox'[n], Home, a)
    BY <2>4, SentLast
  <2>6. ToCache(r, a, RepTypes)'
    <3>1. PushBox(inbox[r], inbox'[r], Home, a, "UPGRADE_REP") /\ "UPGRADE_REP" \in RepTypes
      BY <2>5 DEF RepTypes
    <3> QED
      BY <3>1 DEF ToCache, PushBox
  <2>7. \A l \in LLCs : /\ ToHome(l, a, ReqTypes) => ToHome(l, a, ReqTypes)'
                        /\ ToCache(l, a, RepTypes) => ToCache(l, a, RepTypes)'
    BY <2>5, SentKept
  <2> QED
    BY <1>r, <2>1, <2>2, <2>3, <2>6, <2>7, DoneQuiet
<1>5. CASE /\ e.state \in {"EXCLUSIVE", "MODIFIED"} /\ r \notin e.sharers
           /\ inbox' = Send(boxes, e.owner, Msg("FLUSH_REQ", Home, a, NoData))
           /\ Wait(q) /\ dir' = [dir EXCEPT ![a] = e]
  <2>1. "FLUSH_REQ" \in Recalls /\ {e.owner} \in SUBSET LLCs /\ e.state # "UNCACHED"
    BY <1>1, <1>5 DEF Recalls, Owned
  <2>2. Sent(boxes, inbox', {e.owner}, "FLUSH_REQ", a)
    BY <1>1, <1>5, <2>1, RecallSends
  <2>3. (\E l \in LLCs : Obstacle(l, a)) /\ \A l \in LLCs : Obstacle(l, a) => l \in {e.owner}
    BY <1>1, <1>2, <1>5 DEF Owned
  <2> QED
    BY <1>3, <1>5, <2>1, <2>2, <2>3, RecallsSentQuiet
<1>6. CASE /\ e.state = "SHARED" /\ e.sharers # {r} /\ r \in e.sharers
           /\ Invalidate(a, e.sharers \ {r}, boxes, q) /\ dir' = [dir EXCEPT ![a] = e]
  <2>1. "INV_REQ" \in Recalls /\ e.sharers \ {r} \in SUBSET LLCs
    BY <1>1 DEF Recalls
  <2>2. Sent(boxes, inbox', e.sharers \ {r}, "INV_REQ", a) /\ Wait(q)
    BY <1>1, <1>6, <2>1, RecallSends DEF Invalidate
  <2>3. (\E l \in LLCs : Obstacle(l, a)) /\ \A l \in LLCs : Obstacle(l, a) => l \in e.sharers \ {r}
    BY <1>1, <1>2, <1>6
  <2> QED
    BY <1>3, <1>6, <2>1, <2>2, <2>3, RecallsSentQuiet
<1>7. ASSUME e.state = "SHARED", r \notin e.sharers, dir' = [dir EXCEPT ![a] = e], NEW s \in e.sharers,
             Invalidate(a, e.sharers \ {s}, Send(boxes, s, Msg("FLUSH_REQ", Home, a, NoData)), q)
      PROVE  LineAwaited(a)'
  <2> DEFINE between == Send(boxes, s, Msg("FLUSH_REQ", Home, a, NoData))
             S == e.sharers \ {s}
  <2>1. "FLUSH_REQ" \in Recalls /\ "INV_REQ" \in Recalls /\ s \in LLCs /\ S \in SUBSET LLCs /\ s \notin S
    BY <1>1 DEF Recalls
  <2>2. Sent(boxes, between, {s}, "FLUSH_REQ", a)
    BY <1>1, <2>1, RecallSends
  <2>3. between \in Inboxes
    BY <1>1, <2>1, MsgType, SendType DEF HomeToAny
  <2>4. inbox' = SendAll(between, S, Msg("INV_REQ", Home, a, NoData)) /\ Wait(q)
    BY <1>7 DEF Invalidate
  <2> HIDE DEF between
  <2>5. Sent(between, inbox', S, "INV_REQ", a)
    BY <2>1, <2>3, <2>4, RecallSends
  <2>6. (\E l \in LLCs : Obstacle(l, a)) /\ \A l \in LLCs : Obstacle(l, a) => l \in S \/ l = s
    BY <1>1, <1>2, <1>7
  <2>7. e.state # "UNCACHED"
    BY <1>7
  <2> HIDE DEF S
  <2> QED
    BY <1>3, <1>7, <2>1, <2>2, <2>4, <2>5, <2>6, <2>7, FlushSentQuiet
<1>8. CASE /\ e.state = "UNCACHED" /\ e.sharers = {}
           /\ Retrieve(a, [e EXCEPT !.state = "MODIFIED", !.sharers = {r}, !.owner = r],
                       boxes, q, "EX_REP", IF work.data # NoData THEN work.data ELSE Front(a).data)
  <2> DEFINE x == [e EXCEPT !.state = "MODIFIED", !.sharers = {r}, !.owner = r]
             d == IF work.data # NoData THEN work.data ELSE Front(a).data
  <2>1. x \in Entry /\ x.state = "MODIFIED" /\ x.sharers = {r} /\ x.forwarder = e.forwarder
    BY <1>1 DEF Entry, DStates
  <2>2. "EX_REP" \in Grants /\ Retrieve(a, x, boxes, q, "EX_REP", d)
    BY <1>8 DEF Grants
  <2>3. d \in Data \union {NoData}
    <3>1. Front(a).data \in Data \union {NoData}
      BY TakenFacts, FrontFacts, RequestFields
    <3> QED
      BY <1>1, <3>1
  <2> HIDE DEF x, d
  <2>4. /\ x.state = "SHARED" => /\ Front(a).type = "SH_REQ"
                                 /\ Protocol = "MSI" \/ x.forwarder = dir[a].forwarder
        /\ x.forwarder \in LLCs => x.forwarder \in x.sharers
        /\ x.sharers = dir[a].sharers \union {Front(a).from}
        /\ x \in Entry /\ ForwarderShares(a)
    BY <1>1, <1>r, <1>8, <2>1
  <2> QED
    BY <2>2, <2>3, <2>4, RetrieveQuiet
<1> QED
  BY <1>1, <1>3, <1>4, <1>5, <1>6, <1>7, <1>8 DEF ProcessUpgradeReq

LEMMA ProcessReqQuiet ==
  ASSUME CInv, QInv, FullMap, UNCHANGED llcVars, NEW a \in Addrs, a \notin replaced',
         NEW e, NEW boxes, NEW q, Taken(a, e, boxes, q), e.forwarder \in LLCs => e.forwarder \in e.sharers,
         ProcessReq(a, e, boxes, q, work.data)
  PROVE  LineAwaited(a)'
<1>1. q[a][1] = Front(a)
  BY TakenFacts
<1> QED
  BY <1>1, ProcessExQuiet, ProcessShQuiet, ProcessUpgradeQuiet DEF ProcessReq

-----------------------------------------------------------------------------
(* The steps of the directory.                                             *)

LEMMA ProcessWithEntryQInv ==
  ASSUME CInv, QInv, TInv', FullMap, UNCHANGED llcVars, ProcessWithEntry
  PROVE  QInv'
<1>1. work.addr \in Addrs
  BY WorkFields, DirectoryFacts DEF ProcessWithEntry, CInv
<1>2. PICK a \in Addrs : a = work.addr
  BY <1>1
<1>3. /\ Busy(a) /\ HasEntry(a) /\ Front(a).type # "NULLIFY_REQ"
      /\ ProcessReq(a, dir[a], inbox, queue, work.data)
      /\ replaced' = replaced /\ \A b \in Addrs : HasEntry(b) => HasEntry(b)'
  BY <1>2 DEF ProcessWithEntry, Busy, HasEntry
<1>4. Queued(a) /\ inbox \in Inboxes /\ queue \in Queues /\ dir[a] \in Entry
  BY <1>3, DirectoryFacts DEF CInv, Busy, Queued
<1>5. Taken(a, dir[a], inbox, queue)
  BY <1>3, <1>4, FrontFacts, SameBoxRefl DEF Taken
<1>6. OthersKept(a, inbox, queue)
  BY <1>3, <1>5, ProcessReqKept
<1>7. \A b \in Addrs : b # a => LineApart(b)
  BY <1>3, <1>6, OthersApart, SameBoxRefl
<1>8. a \notin replaced' /\ (dir[a].forwarder \in LLCs => dir[a].forwarder \in dir[a].sharers)
  BY <1>3, NotReplaced DEF ForwarderShares
<1>9. LineAwaited(a)'
  BY <1>3, <1>5, <1>8, ProcessReqQuiet
<1> QED
  BY <1>3, <1>7, <1>9, OneLineQuiet

LEMMA ProcessEvictUncachedQInv ==
  ASSUME CInv, QInv, TInv', FullMap, UNCHANGED llcVars, ProcessEvictUncached
  PROVE  QInv'
<1>1. work.addr \in Addrs /\ inbox \in Inboxes /\ queue \in Queues
  BY WorkFields, DirectoryFacts DEF ProcessEvictUncached, CInv
<1>2. PICK a \in Addrs : a = work.addr
  BY <1>1
<1>3. PICK v \in cached : dir[v].state = "UNCACHED" /\ cached' = (cached \ {v}) \union {a}
  BY <1>2 DEF ProcessEvictUncached, Candidates
<1>4. /\ Busy(a) /\ ~HasEntry(a) /\ HasEntry(a)' /\ ProcessReq(a, NewEntry, inbox, queue, work.data)
      /\ replaced' = replaced /\ a \notin replaced
      /\ \A b \in Addrs : dir[b].state # "UNCACHED" /\ HasEntry(b) => HasEntry(b)'
  BY <1>2, <1>3 DEF ProcessEvictUncached, Busy, HasEntry
<1>5. Queued(a)
  BY <1>4, DirectoryFacts DEF CInv, Busy, Queued
<1>6. Front(a).type \in ReqTypes
  BY <1>4, <1>5, FrontFacts DEF ProcessReq, ReqTypes
<1>7. Taken(a, NewEntry, inbox, queue)
  BY <1>1, <1>4, <1>6, SameBoxRefl, NewEntryTaken
<1>8. OthersKept(a, inbox, queue)
  BY <1>4, <1>7, ProcessReqKept
<1>9. \A b \in Addrs : b # a => LineApart(b)
  BY <1>4, <1>8, OthersApart, SameBoxRefl
<1>10. NewEntry.forwarder \notin LLCs
  BY NetworkAssumption DEF NewEntry, Uninit
<1>11. LineAwaited(a)'
  BY <1>4, <1>7, <1>10, ProcessReqQuiet
<1> QED
  BY <1>4, <1>9, <1>11, OneLineQuiet

\* The entry that is replaced: its copies are recalled for a NULLIFY_REQ.
LEMMA VictimQuiet ==
  ASSUME CInv, QInv, UNCHANGED llcVars, NEW v \in Addrs, ~Queued(v), dir[v].state # "UNCACHED",
         dir'[v] = dir[v], ~Busy(v)',
         queue'[v] = Append(queue[v], NewRequest("NULLIFY_REQ", None)),
         inbox'[Home] = inbox[Home],
         \A l \in LLCs : IF l \in NullifyRecipients(v)
                         THEN PushBox(inbox[l], inbox'[l], Home, v, NullifyMsg(v).type)
                         ELSE SameBox(inbox[l], inbox'[l], Home, v)
  PROVE  LineAwaited(v)'
<1>1. /\ EntryInv(v) /\ queue \in Queues /\ QueueFresh(v) /\ \A l \in LLCs : LineInv(l, v)
      /\ dir[v] \in Entry
  BY DirectoryFacts DEF CInv, EntryInv
<1>2. /\ \A l \in LLCs : \A T : InQueue(l, v, T) => InQueue(l, v, T)'
      /\ Queued(v)' /\ Front(v)' = NewRequest("NULLIFY_REQ", None)
  BY <1>1, QueueAppend
<1>3. /\ Front(v)'.type = "NULLIFY_REQ" /\ Front(v)'.from = None /\ ~Front(v)'.waitForData
  BY <1>2 DEF NewRequest
<1>4. dir[v].sharers # {} /\ dir[v].sharers \subseteq NullifyRecipients(v) /\ dir[v].sharers \subseteq LLCs
  <2>1. dir[v].state \in DStates /\ dir[v].sharers \subseteq LLCs
    BY <1>1 DEF Entry
  <2> QED
    BY <1>1, <2>1 DEF EntryInv, EntryShape, NullifyRecipients, DStates, Owned
<1>5. NullifyMsg(v).type \in {"INV_REQ", "FLUSH_REQ"}
  BY DEF NullifyMsg, Msg
<1>6. ASSUME NEW l \in LLCs PROVE StillServed(l, v)
  <2>1. /\ ToCache(l, v, RepTypes) => ToCache(l, v, RepTypes)'
        /\ ToHome(l, v, ReqTypes) => ToHome(l, v, ReqTypes)'
    BY DEF ToCache, ToHome, SameBox, PushBox
  <2> QED
    BY <1>2, <2>1 DEF StillServed, Asking
<1>7. \A l \in LLCs : WaiterServed(l, v)'
  BY <1>6, WaitersStay
<1>8. ASSUME NEW l \in LLCs, Obstacle(l, v)' PROVE Going(l, v)'
  <2>1. l \in dir[v].sharers /\ ~Fetching(l, v)
    BY <1>8 DEF Obstacle, Fetching
  <2>2. /\ PushBox(inbox[l], inbox'[l], Home, v, NullifyMsg(v).type)
        /\ SameBox(inbox[Home], inbox'[Home], l, v) /\ cstate'[l][v] = cstate[l][v]
    BY <1>4, <2>1, SameBoxRefl DEF llcVars
  <2>3. PICK y \in {"INV_REQ", "FLUSH_REQ"} : y = NullifyMsg(v).type
    BY <1>5
  <2>4. Live(l, v, {y})' \/ Leaving(l, v)'
    BY <1>1, <2>1, <2>2, <2>3, TokenFound
  <2> QED
    BY <2>4 DEF Going
<1>9. \E l \in LLCs : Obstacle(l, v)'
  BY <1>3, <1>4, NetworkAssumption DEF Obstacle
<1>10. RecallUnderWay(v)'
  BY <1>8, <1>9 DEF RecallUnderWay
<1>11. ReplacedQueued(v)' /\ FetchUnderWay(v)' /\ CopyUnderWay(v)'
  BY <1>2, <1>3 DEF ReplacedQueued, FetchUnderWay, CopyUnderWay
<1>12. ForwarderShares(v)'
  BY DEF QInv, LineAwaited, Awaited, ForwarderShares
<1> QED
  BY <1>7, <1>10, <1>11, <1>12 DEF LineAwaited, Awaited

LEMMA ProcessEvictCachedQInv ==
  ASSUME CInv, QInv, TInv', FullMap, UNCHANGED llcVars, ProcessEvictCached
  PROVE  QInv'
<1>1. work.addr \in Addrs /\ inbox \in Inboxes /\ queue \in Queues /\ cached \subseteq Addrs
  BY WorkFields, DirectoryFacts DEF ProcessEvictCached, CInv
<1>2. PICK a \in Addrs : a = work.addr
  BY <1>1
<1>3. PICK v \in Candidates :
        /\ dir[v].state # "UNCACHED"
        /\ cached' = (cached \ {v}) \union {a} /\ replaced' = replaced \union {v}
        /\ ProcessReq(a, NewEntry, SendAll(inbox, NullifyRecipients(v), NullifyMsg(v)),
             [queue EXCEPT ![v] = Append(@, NewRequest("NULLIFY_REQ", None))], work.data)
  BY <1>2 DEF ProcessEvictCached
<1> DEFINE S == NullifyRecipients(v)
           boxes == SendAll(inbox, S, NullifyMsg(v))
           q == [queue EXCEPT ![v] = Append(@, NewRequest("NULLIFY_REQ", None))]
<1>4. /\ Busy(a) /\ ~HasEntry(a) /\ HasEntry(a)' /\ v \in cached /\ v \in Addrs /\ v # a
      /\ ~Queued(v) /\ v \in replaced' /\ a \notin replaced'
      /\ \A b \in Addrs : (HasEntry(b) => HasEntry(b)') /\ (b \in replaced => b \in replaced')
      /\ \A b \in Addrs : b # v /\ b \in replaced' => b \in replaced
  BY <1>1, <1>2, <1>3 DEF ProcessEvictCached, Candidates, Busy, HasEntry, Queued
<1>5. S \subseteq LLCs /\ dir[v] \in Entry
  <2>1. dir[v] \in Entry /\ EntryShape(v)
    BY <1>4, DirectoryFacts DEF CInv, EntryInv
  <2>2. dir[v].sharers \subseteq LLCs /\ dir[v].state \in DStates
    BY <2>1 DEF Entry
  <2> QED
    BY <1>3, <2>1, <2>2 DEF NullifyRecipients, EntryShape, DStates, Owned
<1>6. boxes \in Inboxes /\ Sent(inbox, boxes, S, NullifyMsg(v).type, v)
  <2>1. NullifyMsg(v) \in Message /\ NullifyMsg(v).from = Home /\ NullifyMsg(v).addr = v
    BY <1>4, MsgType DEF NullifyMsg, Msg, HomeToAny
  <2> QED
    BY <1>1, <1>4, <1>5, <2>1, SendAllSent, SendAllType
<1>8. q \in Queues /\ q[v] = Append(queue[v], NewRequest("NULLIFY_REQ", None))
      /\ \A b \in Addrs : b # v => q[b] = queue[b]
  <2>1. NewRequest("NULLIFY_REQ", None) \in Request
    BY DEF NewRequest, Request, NoData
  <2> QED
    BY <1>1, <1>4, <2>1 DEF Queues
<1>9. boxes[Home] = inbox[Home]
      /\ \A n \in LLCs \union {Dram}, b \in Addrs : b # v => SameBox(inbox[n], boxes[n], Home, b)
  BY <1>6 DEF Sent
<1>10. ProcessReq(a, NewEntry, boxes, q, work.data)
  BY <1>3
<1> HIDE DEF S, boxes, q
<1>11. Front(a).type \in ReqTypes
  <2>1. Queued(a) /\ q[a] = queue[a]
    BY <1>4, <1>8, DirectoryFacts DEF CInv, Busy, Queued
  <2> QED
    BY <1>10, <2>1, FrontFacts DEF ProcessReq, ReqTypes
<1>12. Taken(a, NewEntry, boxes, q)
  BY <1>4, <1>6, <1>8, <1>9, <1>11, NewEntryTaken
<1>13. OthersKept(a, boxes, q)
  BY <1>4, <1>10, <1>12, ProcessReqKept
<1>14. LineAwaited(v)'
  <2>1. /\ dir'[v] = dir[v] /\ queue'[v] = q[v] /\ ~Busy(v)' /\ inbox'[Home] = inbox[Home]
        /\ \A n \in LLCs : SameBox(boxes[n], inbox'[n], Home, v)
    BY <1>4, <1>9, <1>13 DEF OthersKept, Busy
  <2>2. \A n \in LLCs : IF n \in S THEN PushBox(inbox[n], boxes[n], Home, v, NullifyMsg(v).type)
                        ELSE SameBox(inbox[n], boxes[n], Home, v)
    BY <1>4, <1>6 DEF Sent
  <2>3. \A n \in LLCs : IF n \in S THEN PushBox(inbox[n], inbox'[n], Home, v, NullifyMsg(v).type)
                        ELSE SameBox(inbox[n], inbox'[n], Home, v)
    BY <2>1, <2>2, BoxTrans
  <2> QED
    BY <1>3, <1>4, <1>8, <2>1, <2>3, VictimQuiet DEF S
<1>15. \A b \in Addrs : b \notin {a, v} => LineApart(b)
  BY <1>4, <1>8, <1>9, <1>13, OthersApart
<1>16. LineAwaited(a)'
  <2>1. NewEntry.forwarder \notin LLCs
    BY NetworkAssumption DEF NewEntry, Uninit
  <2> QED
    BY <1>4, <1>10, <1>12, <2>1, ProcessReqQuiet
<1>17. \A b \in Addrs : b \in {a, v} => LineAwaited(b)'
  <2>1. ASSUME NEW b \in Addrs, b \in {a, v} PROVE LineAwaited(b)'
    <3>1. b = a \/ b = v
      BY <2>1
    <3> QED
      BY <1>14, <1>16, <3>1
  <2> QED
    BY <2>1
<1> QED
  BY <1>4, <1>15, <1>17, HomeQuiet

\* A replaced entry is deleted.
LEMMA ProcessNullifyQInv ==
  ASSUME CInv, QInv, UNCHANGED llcVars, ProcessNullify
  PROVE  QInv'
<1>1. work.addr \in Addrs /\ inbox \in Inboxes /\ queue \in Queues /\ dir \in [Addrs -> Entry]
  BY WorkFields, DirectoryFacts DEF ProcessNullify, CInv
<1>2. PICK a \in Addrs : a = work.addr
  BY <1>1
<1>3. /\ Busy(a) /\ Front(a).type = "NULLIFY_REQ"
      /\ replaced' = replaced \ {a} /\ dir' = [dir EXCEPT ![a] = NewEntry] /\ Complete(queue, a)
      /\ cached' = cached /\ inbox' = inbox
  BY <1>2 DEF ProcessNullify, Busy
<1>4. Queued(a)
  BY <1>3, DirectoryFacts DEF CInv, Busy, Queued
<1>5. /\ dir'[a] = NewEntry /\ queue'[a] = Tail(queue[a])
      /\ (work'.busy => work'.addr = a)
      /\ \A b \in Addrs : b # a => dir'[b] = dir[b] /\ queue'[b] = queue[b]
  BY <1>1, <1>3 DEF Complete, Busy, Idle, Process, Queues
<1>6. Front(a).from = None
  BY <1>3, <1>4, FrontFacts DEF ReqTypes
<1>7. ForwarderShares(a)'
  BY <1>5, NetworkAssumption DEF ForwarderShares, NewEntry, Uninit
<1>8. Queued(a)' => Busy(a)'
  BY <1>1, <1>3, <1>4, NextProcessed
<1>9. LineAwaited(a)'
  <2>1. a \notin replaced' /\ None \notin LLCs
    BY <1>3, NetworkAssumption
  <2>2. \A l \in LLCs : /\ ToHome(l, a, ReqTypes) => ToHome(l, a, ReqTypes)'
                        /\ ToCache(l, a, RepTypes) => ToCache(l, a, RepTypes)'
    BY <1>3 DEF ToHome, ToCache
  <2> QED
    BY <1>4, <1>5, <1>6, <1>7, <1>8, <2>1, <2>2, DoneQuiet
<1>10. \A b \in Addrs : b # a => LineApart(b) /\ (b \in replaced' => b \in replaced)
  BY <1>3, <1>5, SameBoxRefl DEF LineApart, Busy, HasEntry
<1> QED
  BY <1>9, <1>10, OneLineQuiet

-----------------------------------------------------------------------------
(* The directory handles a message.                                        *)

\* A line whose front request is processed.
LEMMA BusyQuiet ==
  ASSUME NEW a \in Addrs, Busy(a)', ReplacedQueued(a)', ForwarderShares(a)',
         \A l \in LLCs : WaiterServed(l, a)'
  PROVE  LineAwaited(a)'
  BY DEF LineAwaited, Awaited, FetchUnderWay, CopyUnderWay, RecallUnderWay, Waits

\* A message that is neither a request nor an answer to a recall is what is lost.
LEMMA PopComes ==
  ASSUME NEW s, NEW a, NEW y, PopBox(inbox[Home], inbox'[Home], s, a, y)
  PROVE  \A T : y \notin T /\ ToHome(s, a, T) => ToHome(s, a, T)'
  BY DEF PopBox, ToHome

\* handleMsgFromL2Cache(), a request.
LEMMA HandleReqQInv ==
  ASSUME CInv, QInv, UNCHANGED llcVars, HandleReq
  PROVE  QInv'
<1>1. PICK y \in ReqTypes :
        /\ Handles(y) /\ Lookup(HomeMsg.addr)
        /\ queue' = [queue EXCEPT ![HomeMsg.addr] = Append(@, NewRequest(y, HomeMsg.from))]
        /\ work' = IF queue[HomeMsg.addr] = <<>> THEN Process(HomeMsg.addr, NoData) ELSE Idle
        /\ inbox' = Received(Home) /\ dir' = dir /\ replaced' = replaced
  BY DEF HandleReq
<1>2. PICK a, s : a = HomeMsg.addr /\ s = HomeMsg.from
  OBVIOUS
<1>3. Handled(s, a, y)
  BY <1>1, <1>2 DEF Handled, Handles
<1>4. y # "DRAM_READ_REP" /\ y # "NULLIFY_REQ" /\ y # "WB_REP" /\ y \notin Leaves
  BY DEF ReqTypes, Leaves
<1>5. /\ a \in Addrs /\ PopBox(inbox[Home], inbox'[Home], s, a, y)
      /\ \A f, b : ~(f = s /\ b = a) => SameBox(inbox[Home], inbox'[Home], f, b)
      /\ \A n \in LLCs \union {Dram} : inbox'[n] = inbox[n]
      /\ s \in LLCs /\ ~Busy(a)
  BY <1>1, <1>3, <1>4, HandledFacts
<1>6. /\ queue'[a] = Append(queue[a], NewRequest(y, s)) /\ \A b \in Addrs : b # a => queue'[b] = queue[b]
      /\ queue \in Queues /\ QueueFresh(a)
      /\ (work'.busy => work'.addr = a) /\ (Busy(a)' <=> ~Queued(a))
      /\ cached \subseteq cached'
  <2>1. queue \in Queues /\ QueueFresh(a)
    BY <1>5, DirectoryFacts DEF CInv, EntryInv
  <2>2. work' = IF queue[a] = <<>> THEN Process(a, NoData) ELSE Idle
    BY <1>1, <1>2
  <2>3. (work'.busy => work'.addr = a) /\ (Busy(a)' <=> ~Queued(a))
    BY <2>2 DEF Idle, Process, Busy, Queued
  <2> QED
    BY <1>1, <1>2, <1>5, <2>1, <2>3 DEF Queues, Lookup
<1>7. /\ \A l, T : InQueue(l, a, T)' <=> InQueue(l, a, T) \/ (l = s /\ y \in T)
      /\ Queued(a)' /\ (Queued(a) => Front(a)' = Front(a))
  BY <1>4, <1>5, <1>6, QueueAppend
<1>8. \A b \in Addrs : b # a => LineApart(b)
  <2>1. \A n \in LLCs \union {Dram}, b \in Addrs : SameBox(inbox[n], inbox'[n], Home, b)
    BY <1>5, SameBoxRefl
  <2> QED
    BY <1>1, <1>3, <1>6, <2>1, HandledApart
<1>9. ASSUME NEW l \in LLCs PROVE StillComes(l, a) /\ StillServed(l, a)
  <2>1. SameBox(inbox[l], inbox'[l], Home, a) /\ (Held(l, a)' <=> Held(l, a))
    BY <1>5, SameBoxRefl DEF Held, llcVars
  <2>2. CASE l # s
    <3>1. StillComes(l, a) /\ (\A T : ToHome(l, a, T)' <=> ToHome(l, a, T))
          /\ \A T : ToCache(l, a, T)' <=> ToCache(l, a, T)
      BY <1>5, <2>1, <2>2, SameComes
    <3> QED
      BY <1>7, <3>1 DEF StillServed, Asking
  <2>3. CASE l = s
    <3>1. InQueue(l, a, ReqTypes)'
      BY <1>7, <2>3
    <3>2. /\ ToHome(l, a, {"WB_REP"}) => ToHome(l, a, {"WB_REP"})'
          /\ Leaving(l, a) => Leaving(l, a)'
      BY <1>4, <1>5, <2>3, PopComes DEF Leaving
    <3>3. \A T : Live(l, a, T) => Live(l, a, T)'
      BY <2>1 DEF Live, ToCache, SameBox
    <3> QED
      BY <3>1, <3>2, <3>3 DEF StillComes, StillServed, Answering, Going, Asking
  <2> QED
    BY <2>2, <2>3
<1>10. \A l \in LLCs : WaiterServed(l, a)'
  BY <1>5, <1>9, WaitersStay
<1>11. Awaited(a)
  BY <1>5 DEF QInv, LineAwaited
<1>12. ForwarderShares(a)'
  BY <1>1, <1>11 DEF Awaited, ForwarderShares
<1>13. CASE ~Queued(a)
  <2>1. Busy(a)' /\ ReplacedQueued(a)'
    BY <1>1, <1>6, <1>11, <1>13 DEF Awaited, ReplacedQueued
  <2>2. LineAwaited(a)'
    BY <1>5, <1>10, <1>12, <2>1, BusyQuiet
  <2> QED
    BY <1>1, <1>5, <1>8, <2>2, OneLineQuiet
<1>14. CASE Queued(a)
  <2>1. Queued(a)' /\ Front(a)' = Front(a) /\ dir'[a] = dir[a] /\ (Waits(a)' <=> Waits(a)) /\ ~Busy(a)'
    BY <1>1, <1>5, <1>6, <1>7, <1>14 DEF Waits
  <2>2. Reading(a) \/ ReadDone(a) => Reading(a)' \/ ReadDone(a)'
    <3>1. SameBox(inbox[Home], inbox'[Home], Dram, a) /\ inbox'[Dram] = inbox[Dram]
      BY <1>5, NetworkAssumption
    <3> QED
      BY <3>1 DEF Reading, ReadDone, SameBox
  <2>3. ReplacedQueued(a)' /\ FetchUnderWay(a)'
    BY <1>1, <1>5, <1>11, <1>14, <2>1, <2>2 DEF Awaited, ReplacedQueued, FetchUnderWay
  <2>4. CopyUnderWay(a)'
    BY <1>9, <1>11, <2>1 DEF Awaited, CopyUnderWay, StillComes
  <2>5. RecallUnderWay(a)'
    BY <1>9, <1>11, <2>1 DEF Awaited, RecallUnderWay, Obstacle, StillComes
  <2>6. LineAwaited(a)'
    BY <1>10, <1>12, <2>3, <2>4, <2>5 DEF LineAwaited, Awaited
  <2> QED
    BY <1>1, <1>5, <1>8, <2>6, OneLineQuiet
<1> QED
  BY <1>13, <1>14

\* Who asks for a line to write it has no copy.
LEMMA WriterApart ==
  ASSUME CInv, NEW a \in Addrs, Waits(a), Front(a).type = "EX_REQ"
  PROVE  Front(a).from \notin dir[a].sharers
<1>1. Queued(a) /\ ~Front(a).waitForData /\ EntryInv(a)
  BY DEF Waits, CInv
<1>2. PICK r \in LLCs : r = Front(a).from
  BY <1>1, FrontFacts DEF ReqTypes
<1>3. LineInv(r, a) /\ InQueue(r, a, Asks) /\ InQueue(r, a, ReqTypes)
  BY <1>1, <1>2, FrontFacts DEF CInv, InQueue, Asks, ReqTypes
<1>4. ~Fetching(r, a)
  BY <1>1 DEF EntryInv, FrontState, Fetching
<1>5. ~Held(r, a) /\ ~Leaving(r, a) /\ ~ToCache(r, a, RepTypes)
  BY <1>3 DEF LineInv, AskOnce, AskMiss, Asking
<1>6. ~Granted(r, a)
  BY <1>5, HasSplit DEF Granted, ToCache
<1> QED
  BY <1>2, <1>3, <1>4, <1>5, <1>6 DEF LineInv, Tokens

\* A cache gives its copy up, and the front request goes on waiting, or is woken.
LEMMA LeaverQuiet ==
  ASSUME CInv, CInv', QInv, UNCHANGED llcVars, NEW s, NEW a, NEW y \in Leaves, Handled(s, a, y),
         SharerLeft(s, a), dir'[a].forwarder \in LLCs => dir'[a].forwarder # s,
         replaced' = replaced, QueueSame(a), \A n \in LLCs : inbox'[n] = inbox[n],
         \/ SameBox(inbox[Dram], inbox'[Dram], Home, a)
         \/ PushBox(inbox[Dram], inbox'[Dram], Home, a, "DRAM_WRITE_REQ"),
         ~Busy(a)' /\ Waits(a) =>
           IF Front(a).type = "SH_REQ" THEN Front(a).forwardingFrom \notin {None, s}
           ELSE \E l \in dir'[a].sharers : l # Front(a).from
  PROVE  LineAwaited(a)'
<1>1. y # "DRAM_READ_REP" /\ y \notin ReqTypes
  BY DEF Leaves, ReqTypes
<1>2. /\ a \in Addrs /\ PopBox(inbox[Home], inbox'[Home], s, a, y)
      /\ \A f, b : ~(f = s /\ b = a) => SameBox(inbox[Home], inbox'[Home], f, b)
      /\ s \in LLCs /\ ~Busy(a)
  BY <1>1, HandledFacts
<1>3. EntryInv(a) /\ EntryInv(a)' /\ Awaited(a) /\ dir[a] \in Entry /\ dir'[a].sharers \subseteq LLCs
  <2>1. dir[a] \in Entry
    BY <1>2, DirectoryFacts DEF CInv
  <2> QED
    BY <1>2, <2>1 DEF CInv, QInv, LineAwaited, SharerLeft, Entry
<1>4. /\ \A l, T : InQueue(l, a, T)' <=> InQueue(l, a, T)
      /\ Queued(a)' <=> Queued(a)
      /\ Queued(a) => /\ Front(a)'.type = Front(a).type /\ Front(a)'.from = Front(a).from
                      /\ Front(a)'.waitForData = Front(a).waitForData
                      /\ Front(a)'.forwardingFrom = Front(a).forwardingFrom
  BY <1>2, QueueStill DEF FrontSame
<1>5. ASSUME NEW l \in LLCs
      PROVE  (l # s => StillComes(l, a)) /\ StillServed(l, a)
  <2>1. SameBox(inbox[l], inbox'[l], Home, a) /\ (Held(l, a)' <=> Held(l, a))
    BY SameBoxRefl DEF Held, llcVars
  <2>2. CASE l # s
    <3>1. StillComes(l, a) /\ (\A T : ToHome(l, a, T)' <=> ToHome(l, a, T))
          /\ \A T : ToCache(l, a, T)' <=> ToCache(l, a, T)
      BY <1>2, <2>1, <2>2, SameComes
    <3> QED
      BY <1>4, <3>1 DEF StillServed, Asking
  <2>3. CASE l = s
    <3>1. ToHome(l, a, ReqTypes) => ToHome(l, a, ReqTypes)'
      BY <1>1, <1>2, <2>3, PopComes
    <3>2. ToCache(l, a, RepTypes) => ToCache(l, a, RepTypes)'
      BY <2>1 DEF ToCache, SameBox
    <3> QED
      BY <1>4, <2>3, <3>1, <3>2 DEF StillServed, Asking
  <2> QED
    BY <2>2, <2>3
<1>6. \A l \in LLCs : WaiterServed(l, a)'
  BY <1>2, <1>5, WaitersStay
<1>7. ForwarderShares(a)'
  <2>1. dir'[a].forwarder \in LLCs => dir'[a].forwarder = dir[a].forwarder /\ dir'[a].forwarder # s
    BY NetworkAssumption DEF SharerLeft
  <2>2. dir[a].forwarder \in LLCs => dir[a].forwarder \in dir[a].sharers
    BY <1>3 DEF Awaited, ForwarderShares
  <2>3. dir'[a].sharers = dir[a].sharers \ {s}
    BY DEF SharerLeft
  <2> QED
    BY <2>1, <2>2, <2>3 DEF ForwarderShares
<1>8. ReplacedQueued(a)'
  BY <1>3, <1>4 DEF Awaited, ReplacedQueued
<1>9. CASE Busy(a)'
  BY <1>2, <1>6, <1>7, <1>8, <1>9, BusyQuiet
<1>10. CASE ~Busy(a)'
  <2>1. Waits(a)' <=> Waits(a)
    BY <1>2, <1>4, <1>10 DEF Waits
  <2>2. Reading(a) \/ ReadDone(a) => Reading(a)' \/ ReadDone(a)'
    <3>1. SameBox(inbox[Home], inbox'[Home], Dram, a)
      BY <1>2, NetworkAssumption
    <3> QED
      BY <3>1 DEF Reading, ReadDone, SameBox, PushBox
  <2>3. FetchUnderWay(a)'
    BY <1>2, <1>3, <1>4, <2>2 DEF Awaited, FetchUnderWay
  <2>4. CopyUnderWay(a)'
    <3> SUFFICES ASSUME Waits(a), Front(a).type = "SH_REQ"
                 PROVE  \E l \in LLCs : /\ Answering(l, a)'
                                        /\ dir'[a].state = "SHARED" /\ Front(a)'.forwardingFrom = l
      BY <1>4, <2>1 DEF CopyUnderWay, Waits
    <3>1. Queued(a) /\ Front(a).forwardingFrom \notin {None, s}
      BY <1>10 DEF Waits
    <3>2. dir[a].state = "SHARED" /\ dir'[a].state = "SHARED"
      BY <1>3, <1>4, <3>1 DEF EntryInv, FrontState
    <3>3. PICK l \in LLCs : Answering(l, a) /\ Front(a).forwardingFrom = l
      BY <1>3, <3>2 DEF Awaited, CopyUnderWay, Owned
    <3>4. Answering(l, a)'
      BY <1>5, <3>1, <3>3 DEF StillComes
    <3> QED
      BY <1>4, <3>1, <3>2, <3>3, <3>4
  <2>5. RecallUnderWay(a)'
    <3> SUFFICES ASSUME Waits(a), Front(a).type # "SH_REQ" PROVE RecallUnderWay(a)'
      BY <1>4, <2>1 DEF RecallUnderWay, Waits
    <3>1. /\ \E l \in dir'[a].sharers : l # Front(a).from
          /\ Front(a)'.from = Front(a).from
      BY <1>4, <1>10 DEF Waits
    <3>2. ASSUME NEW l \in LLCs, Obstacle(l, a)' PROVE Going(l, a)'
      <4>1. Obstacle(l, a) /\ l # s
        BY <3>1, <3>2 DEF Obstacle, SharerLeft
      <4>2. Going(l, a)
        BY <1>3, <4>1 DEF Awaited, RecallUnderWay
      <4> QED
        BY <1>5, <4>1, <4>2 DEF StillComes
    <3>3. \E l \in LLCs : Obstacle(l, a)'
      BY <1>3, <3>1 DEF Obstacle
    <3> QED
      BY <3>2, <3>3 DEF RecallUnderWay
  <2> QED
    BY <1>6, <1>7, <1>8, <2>3, <2>4, <2>5 DEF LineAwaited, Awaited
<1> QED
  BY <1>9, <1>10

\* processInvRepFromL2Cache()
LEMMA HandleInvRepQInv ==
  ASSUME CInv, CInv', QInv, UNCHANGED llcVars, HandleInvRep
  PROVE  QInv'
<1>1. PICK a, s : a = HomeMsg.addr /\ s = HomeMsg.from
  OBVIOUS
<1> DEFINE e == [Removed(dir[a], s) EXCEPT !.forwarder = IF @ = s THEN None ELSE @]
<1>2. /\ Handles("INV_REP") /\ InvRepAssertions(HomeMsg) /\ dir' = [dir EXCEPT ![a] = e]
      /\ work' = IF WokenByInv(a, e, s) THEN Process(a, NoData) ELSE Idle
      /\ inbox' = Received(Home) /\ cached' = cached /\ replaced' = replaced /\ queue' = queue
  BY <1>1 DEF HandleInvRep
<1>3. Handled(s, a, "INV_REP")
  BY <1>1, <1>2 DEF Handled, Handles
<1>4. a \in Addrs /\ s \in LLCs /\ \A n \in LLCs \union {Dram} : inbox'[n] = inbox[n]
  BY <1>2, <1>3, HandledFacts
<1>5. dir[a] \in Entry /\ dir'[a] = e /\ \A b \in Addrs : b # a => dir'[b] = dir[b]
  BY <1>2, <1>4, DirectoryFacts DEF CInv
<1>6. /\ e.sharers = dir[a].sharers \ {s}
      /\ e.state = IF dir[a].sharers = {s} THEN "UNCACHED" ELSE dir[a].state
      /\ e.forwarder = None \/ (e.forwarder = dir[a].forwarder /\ e.forwarder # s)
  BY <1>5 DEF Removed, Entry
<1> HIDE DEF e
<1>7. /\ SharerLeft(s, a) /\ (dir'[a].forwarder \in LLCs => dir'[a].forwarder # s)
      /\ dir'[a].sharers \subseteq LLCs
  BY <1>1, <1>2, <1>4, <1>5, <1>6, NetworkAssumption DEF SharerLeft, InvRepAssertions, Entry
<1>8. (work'.busy => work'.addr = a) /\ (WokenByInv(a, e, s) => Busy(a)')
  BY <1>2 DEF Idle, Process, Busy
<1>9. EntryInv(a)
  BY <1>4 DEF CInv
\* What the front request still waits for when it is not woken.
<1>10. ~Busy(a)' /\ Waits(a) =>
         IF Front(a).type = "SH_REQ" THEN Front(a).forwardingFrom \notin {None, s}
         ELSE \E l \in dir'[a].sharers : l # Front(a).from
  <2> SUFFICES ASSUME ~Busy(a)', Waits(a)
               PROVE  IF Front(a).type = "SH_REQ" THEN Front(a).forwardingFrom \notin {None, s}
                      ELSE \E l \in dir'[a].sharers : l # Front(a).from
    OBVIOUS
  <2>1. Queued(a) /\ queue[a] # <<>> /\ ~Front(a).waitForData /\ ~WokenByInv(a, e, s)
    BY <1>8 DEF Waits, Queued
  <2>2. /\ Front(a).type \in ReqTypes \/ Front(a).type = "NULLIFY_REQ"
        /\ Front(a).type = "NULLIFY_REQ" => Front(a).from = None
    BY <1>4, <2>1, FrontFacts DEF ReqTypes
  <2>3. CASE Front(a).type = "SH_REQ"
    BY <2>1, <2>3 DEF WokenByInv
  <2>4. CASE Front(a).type = "UPGRADE_REQ"
    BY <1>5, <2>1, <2>4 DEF WokenByInv
  <2>5. CASE Front(a).type \in {"EX_REQ", "NULLIFY_REQ"}
    <3>1. e.state # "UNCACHED"
      BY <2>1, <2>5 DEF WokenByInv
    <3>2. PICK l \in dir[a].sharers : l # s
      BY <1>6, <1>7, <3>1 DEF SharerLeft
    <3>3. l \in dir'[a].sharers /\ l \in LLCs
      BY <1>7, <3>2 DEF SharerLeft
    <3>4. l # Front(a).from
      BY <1>4, <2>2, <2>5, <3>2, <3>3, WriterApart, NetworkAssumption
    <3> QED
      BY <2>5, <3>3, <3>4
  <2> QED
    BY <2>2, <2>3, <2>4, <2>5 DEF ReqTypes
<1>11. LineAwaited(a)'
  <2>1. /\ "INV_REP" \in Leaves /\ QueueSame(a) /\ SameBox(inbox[Dram], inbox'[Dram], Home, a)
        /\ \A n \in LLCs : inbox'[n] = inbox[n]
    BY <1>2, <1>4, SameBoxRefl DEF Leaves, QueueSame
  <2> QED
    BY <1>2, <1>3, <1>4, <1>7, <1>10, <2>1, LeaverQuiet
<1>12. \A b \in Addrs : b # a => LineApart(b)
  <2>1. \A n \in LLCs \union {Dram}, b \in Addrs : SameBox(inbox[n], inbox'[n], Home, b)
    BY <1>4, SameBoxRefl
  <2> QED
    BY <1>2, <1>3, <1>5, <1>8, <2>1, HandledApart
<1> QED
  BY <1>2, <1>4, <1>11, <1>12, OneLineQuiet

\* processFlushRepFromL2Cache()
LEMMA HandleFlushRepQInv ==
  ASSUME CInv, CInv', QInv, UNCHANGED llcVars, HandleFlushRep
  PROVE  QInv'
<1>1. PICK a, s, d : a = HomeMsg.addr /\ s = HomeMsg.from /\ d = HomeMsg.data
  OBVIOUS
<1> DEFINE e == [Removed(dir[a], s) EXCEPT !.owner = None, !.forwarder = None]
           toDram == Send(Received(Home), Dram, Msg("DRAM_WRITE_REQ", Home, a, d))
<1>2. /\ Handles("FLUSH_REP") /\ FlushRepAssertions(HomeMsg) /\ dir' = [dir EXCEPT ![a] = e]
      /\ cached' = cached /\ replaced' = replaced
      /\ \/ ~Queued(a) /\ inbox' = toDram /\ work' = Idle /\ queue' = queue
         \/ /\ Queued(a) /\ Front(a).type = "NULLIFY_REQ"
            /\ inbox' = toDram /\ work' = Process(a, NoData) /\ queue' = queue
         \/ /\ Queued(a) /\ Front(a).type = "SH_REQ"
            /\ inbox' = toDram /\ work' = Process(a, d) /\ queue' = queue
         \/ /\ Queued(a) /\ (Front(a).type = "EX_REQ" \/ (Front(a).type = "UPGRADE_REQ" /\ e.sharers = {}))
            /\ inbox' = Received(Home) /\ work' = Process(a, d) /\ queue' = queue
         \/ /\ Queued(a) /\ Front(a).type = "UPGRADE_REQ" /\ e.sharers # {}
            /\ \E x \in Freed(d) : queue' = [queue EXCEPT ![a][1].data = x]
            /\ inbox' = Received(Home) /\ work' = work
  BY <1>1 DEF HandleFlushRep, Queued
<1>3. ASSUME inbox' = toDram \/ inbox' = Received(Home)
      PROVE  /\ Handled(s, a, "FLUSH_REP") /\ a \in Addrs /\ s \in LLCs /\ Leaving(s, a)
             /\ ToHome(s, a, {"FLUSH_REP"}) /\ HomeBox'
             /\ \A n \in LLCs : inbox'[n] = inbox[n]
             /\ \/ SameBox(inbox[Dram], inbox'[Dram], Home, a)
                \/ PushBox(inbox[Dram], inbox'[Dram], Home, a, "DRAM_WRITE_REQ")
             /\ \A b \in Addrs : b # a => SameBox(inbox[Dram], inbox'[Dram], Home, b)
  <2>1. inbox \in Inboxes /\ Pending(Home) /\ HomeBox /\ Home # Dram /\ Dram \notin LLCs
    BY <1>2, DirectoryFacts, NetworkAssumption DEF CInv, Handles
  <2>2. /\ Received(Home) \in Inboxes /\ HomeMsg \in Message /\ a \in Addrs
        /\ \A n \in LLCs \union {Dram} : Received(Home)[n] = inbox[n]
    BY <1>1, <2>1, HomeTakes
  <2>3. d \in Data
    BY <1>1, <1>2, <2>2, MessageFields DEF Handles, CacheToHomeData
  <2>4. Sent(Received(Home), toDram, {Dram}, "DRAM_WRITE_REQ", a)
    BY <2>2, <2>3, DirectorySends DEF HomeToAnyData
  <2>5. toDram[Home] = Received(Home)[Home] /\ \A n \in LLCs : toDram[n] = Received(Home)[n]
    BY <2>1, <2>2 DEF Send, Inboxes, Nodes
  <2>6. inbox'[Home] = Received(Home)[Home] /\ \A n \in LLCs : inbox'[n] = inbox[n]
    BY <1>3, <2>2, <2>5
  <2>7. Handled(s, a, "FLUSH_REP")
    BY <1>1, <1>2, <2>6 DEF Handled, Handles
  <2>8. s \in LLCs /\ HomeBox' /\ ToHome(s, a, {"FLUSH_REP"})
    BY <2>7, HandledFacts DEF ToHome
  <2>9. Leaving(s, a)
    BY <2>8, HasSplit DEF Leaving, ToHome
  <2>10. CASE inbox' = Received(Home)
    BY <2>2, <2>6, <2>7, <2>8, <2>9, <2>10, SameBoxRefl
  <2>11. CASE inbox' = toDram
    <3>1. PushBox(inbox[Dram], inbox'[Dram], Home, a, "DRAM_WRITE_REQ")
      BY <2>2, <2>4, <2>11 DEF Sent
    <3>2. \A b \in Addrs : b # a => SameBox(inbox[Dram], inbox'[Dram], Home, b)
      BY <2>2, <2>4, <2>11 DEF Sent
    <3> QED
      BY <2>2, <2>6, <2>7, <2>8, <2>9, <3>1, <3>2
  <2> QED
    BY <1>3, <2>10, <2>11
<1>4. /\ Handled(s, a, "FLUSH_REP") /\ a \in Addrs /\ s \in LLCs /\ Leaving(s, a)
      /\ ToHome(s, a, {"FLUSH_REP"}) /\ HomeBox'
      /\ \A n \in LLCs : inbox'[n] = inbox[n]
      /\ \/ SameBox(inbox[Dram], inbox'[Dram], Home, a)
         \/ PushBox(inbox[Dram], inbox'[Dram], Home, a, "DRAM_WRITE_REQ")
      /\ \A b \in Addrs : b # a => SameBox(inbox[Dram], inbox'[Dram], Home, b)
  BY <1>2, <1>3
<1> HIDE DEF toDram
<1>5. /\ dir \in [Addrs -> Entry] /\ dir[a] \in Entry /\ dir'[a] = e
      /\ (\A b \in Addrs : b # a => dir'[b] = dir[b]) /\ queue \in Queues
  BY <1>2, <1>4, DirectoryFacts DEF CInv
<1>6. /\ e.sharers = dir[a].sharers \ {s} /\ e.forwarder = None
      /\ e.state = IF dir[a].sharers = {s} THEN "UNCACHED" ELSE dir[a].state
  BY <1>5 DEF Removed, Entry
<1> HIDE DEF e
<1>7. SharerLeft(s, a) /\ HasEntry(a)' /\ s \in dir[a].sharers
  BY <1>1, <1>2, <1>5, <1>6 DEF SharerLeft, FlushRepAssertions, HasEntry
<1>8. QueueSame(a) /\ \A b \in Addrs : b # a => queue'[b] = queue[b]
  <2>1. CASE queue' = queue
    BY <2>1 DEF QueueSame
  <2>2. ASSUME Queued(a), NEW x, queue' = [queue EXCEPT ![a][1].data = x]
        PROVE  QueueSame(a) /\ \A b \in Addrs : b # a => queue'[b] = queue[b]
    <3>1. queue[a][1] = Front(a)
      BY <1>4, <2>2, FrontFacts
    <3>2. queue'[a] = [queue[a] EXCEPT ![1] = [queue[a][1] EXCEPT !.data = x]]
          /\ \A b \in Addrs : b # a => queue'[b] = queue[b]
      BY <1>4, <1>5, <2>2 DEF Queues
    <3>3. queue'[a] = [queue[a] EXCEPT ![1] = [Front(a) EXCEPT !.data = x]]
      BY <3>1, <3>2
    <3> QED
      BY <2>2, <3>2, <3>3 DEF QueueSame
  <2> QED
    BY <1>2, <2>1, <2>2
<1>9. (work'.busy => work'.addr = a) /\ (~Busy(a)' /\ Waits(a) => Front(a).type = "UPGRADE_REQ" /\ e.sharers # {})
  <2>1. ~work.busy
    BY <1>2 DEF Handles
  <2>2. Waits(a) => Queued(a)
    BY DEF Waits
  <2> QED
    BY <1>2, <2>1, <2>2 DEF Idle, Process, Busy
\* An upgrade whose requester has lost its copy waits for the others.
<1>10. ~Busy(a)' /\ Waits(a) =>
         IF Front(a).type = "SH_REQ" THEN Front(a).forwardingFrom \notin {None, s}
         ELSE \E l \in dir'[a].sharers : l # Front(a).from
  <2> SUFFICES ASSUME ~Busy(a)', Waits(a)
               PROVE  Front(a).type = "UPGRADE_REQ" /\ \E l \in dir'[a].sharers : l # Front(a).from
    OBVIOUS
  <2>1. PICK l \in dir[a].sharers : l # s
    BY <1>6, <1>9
  <2>2. RecallFlush(s, a) /\ EntryShape(a)
    BY <1>4 DEF CInv, LineInv, EntryInv
  <2>3. dir[a].state = "SHARED"
    BY <1>5, <1>7, <2>1, <2>2 DEF EntryShape, Entry, DStates, Owned
  <2>4. Front(a).from \notin dir[a].sharers
    BY <1>4, <2>2, <2>3 DEF RecallFlush
  <2> QED
    BY <1>5, <1>6, <1>9, <2>1, <2>4
<1>11. LineAwaited(a)'
  <2>1. "FLUSH_REP" \in Leaves /\ (dir'[a].forwarder \in LLCs => dir'[a].forwarder # s)
    BY <1>5, <1>6, NetworkAssumption DEF Leaves
  <2> QED
    BY <1>2, <1>4, <1>7, <1>8, <1>10, <2>1, LeaverQuiet
<1>12. \A b \in Addrs : b # a => LineApart(b)
  <2>1. \A n \in LLCs \union {Dram}, b \in Addrs : b # a => SameBox(inbox[n], inbox'[n], Home, b)
    BY <1>4, SameBoxRefl
  <2> QED
    BY <1>2, <1>4, <1>5, <1>8, <1>9, <2>1, HandledApart
<1> QED
  BY <1>2, <1>4, <1>11, <1>12, OneLineQuiet

\* processWbRepFromL2Cache()
LEMMA HandleWbRepQInv ==
  ASSUME CInv, QInv, UNCHANGED llcVars, HandleWbRep
  PROVE  QInv'
<1>1. PICK a, s, d : a = HomeMsg.addr /\ s = HomeMsg.from /\ d = HomeMsg.data
  OBVIOUS
<1>2. /\ Handles("WB_REP") /\ WbRepAssertions(HomeMsg)
      /\ dir' = [dir EXCEPT ![a].owner = None, ![a].state = "SHARED"]
      /\ work' = Process(a, d) /\ inbox' = Received(Home)
      /\ cached' = cached /\ replaced' = replaced /\ queue' = queue
  BY <1>1 DEF HandleWbRep
<1>3. Handled(s, a, "WB_REP")
  BY <1>1, <1>2 DEF Handled, Handles
<1>4. /\ a \in Addrs /\ PopBox(inbox[Home], inbox'[Home], s, a, "WB_REP")
      /\ \A f, b : ~(f = s /\ b = a) => SameBox(inbox[Home], inbox'[Home], f, b)
      /\ \A n \in LLCs \union {Dram} : inbox'[n] = inbox[n]
  BY <1>2, <1>3, HandledFacts
<1>5. /\ dir'[a].sharers = dir[a].sharers /\ dir'[a].forwarder = dir[a].forwarder
      /\ \A b \in Addrs : b # a => dir'[b] = dir[b]
  <2>1. dir \in [Addrs -> Entry]
    BY DirectoryFacts DEF CInv
  <2>2. dir[a] \in Entry
    BY <1>4, <2>1
  <2>3. dir' = [dir EXCEPT ![a] = [dir[a] EXCEPT !.owner = None, !.state = "SHARED"]]
    BY <1>2, <1>4, <2>1
  <2> QED
    BY <1>4, <2>1, <2>2, <2>3 DEF Entry
<1>6. Busy(a)' /\ work'.addr = a
  BY <1>2 DEF Process, Busy
<1>7. Front(a).type = "SH_REQ"
  BY <1>1, <1>2 DEF WbRepAssertions
<1>8. a \notin replaced' /\ ForwarderShares(a)
  BY <1>2, <1>4, <1>7, NotReplaced
<1>9. ASSUME NEW l \in LLCs PROVE StillServed(l, a)
  <2>1. ToHome(l, a, ReqTypes) => ToHome(l, a, ReqTypes)'
    <3>1. CASE l = s
      BY <1>4, <3>1, PopComes DEF ReqTypes
    <3>2. CASE l # s
      BY <1>4, <3>2 DEF ToHome, SameBox
    <3> QED
      BY <3>1, <3>2
  <2>2. ToCache(l, a, RepTypes)' <=> ToCache(l, a, RepTypes)
    BY <1>4 DEF ToCache
  <2>3. InQueue(l, a, ReqTypes)' <=> InQueue(l, a, ReqTypes)
    BY <1>2 DEF InQueue
  <2> QED
    BY <2>1, <2>2, <2>3 DEF StillServed, Asking
<1>10. \A l \in LLCs : WaiterServed(l, a)'
  BY <1>4, <1>9, WaitersStay
<1>11. LineAwaited(a)'
  <2>1. ReplacedQueued(a)' /\ ForwarderShares(a)'
    BY <1>5, <1>8 DEF ReplacedQueued, ForwarderShares
  <2> QED
    BY <1>4, <1>6, <1>10, <2>1, BusyQuiet
<1>12. \A b \in Addrs : b # a => LineApart(b)
  <2>1. \A n \in LLCs \union {Dram}, b \in Addrs : SameBox(inbox[n], inbox'[n], Home, b)
    BY <1>4, SameBoxRefl
  <2> QED
    BY <1>2, <1>3, <1>5, <1>6, <2>1, HandledApart
<1> QED
  BY <1>2, <1>4, <1>11, <1>12, OneLineQuiet

\* processDRAMReply()
LEMMA HandleDramReplyQInv ==
  ASSUME CInv, QInv, UNCHANGED llcVars, HandleDramReply
  PROVE  QInv'
<1>1. PICK a, y, d : /\ a = HomeMsg.addr /\ d = HomeMsg.data
                     /\ y = IF Front(a).type = "SH_REQ" /\ dir[a].state = "SHARED" THEN "SH_REP" ELSE "EX_REP"
  OBVIOUS
<1> DEFINE r == Front(a).from
<1>2. /\ Handles("DRAM_READ_REP") /\ DramReplyAssertions(HomeMsg)
      /\ inbox' = Send(Received(Home), r, Msg(y, Home, a, d))
      /\ Complete(queue, a) /\ dir' = dir /\ cached' = cached /\ replaced' = replaced
  BY <1>1 DEF HandleDramReply
<1>3. inbox \in Inboxes /\ Pending(Home) /\ HomeBox /\ Home # Dram /\ Dram \notin LLCs /\ queue \in Queues
  BY <1>2, DirectoryFacts, NetworkAssumption DEF CInv, Handles
<1>4. /\ Received(Home) \in Inboxes /\ HomeMsg \in Message /\ a \in Addrs
      /\ \A n \in LLCs \union {Dram} : Received(Home)[n] = inbox[n]
  BY <1>1, <1>3, HomeTakes
<1>5. d \in Data /\ y \in Grants /\ y \in HomeToAnyData
  BY <1>1, <1>2, <1>4, MessageFields DEF Handles, Grants, HomeToAnyData
<1>6. Queued(a) /\ HasEntry(a) /\ Front(a).type # "NULLIFY_REQ"
  BY <1>1, <1>2 DEF DramReplyAssertions, Queued
<1>7. Front(a).type \in ReqTypes /\ r \in LLCs
  BY <1>4, <1>6, FrontFacts
<1>8. Sent(Received(Home), inbox', {r}, y, a)
  BY <1>2, <1>4, <1>5, <1>7, DirectorySends
<1>9. Handled(HomeMsg.from, a, "DRAM_READ_REP")
  BY <1>1, <1>2, <1>3, <1>8 DEF Handled, Handles, Sent
<1>10. /\ PopBox(inbox[Home], inbox'[Home], Dram, a, "DRAM_READ_REP")
       /\ \A f, b : ~(f = Dram /\ b = a) => SameBox(inbox[Home], inbox'[Home], f, b)
       /\ HomeBox' /\ Has(inbox[Home], {"DRAM_READ_REP"}, Dram, a) /\ Handled(Dram, a, "DRAM_READ_REP")
  <2>1. /\ HomeMsg.from = Dram /\ HomeMsg.addr = a /\ HomeMsg.type = "DRAM_READ_REP"
        /\ inbox'[Home] = Received(Home)[Home] /\ HomeBox'
        /\ Has(inbox[Home], {"DRAM_READ_REP"}, HomeMsg.from, a)
    BY <1>9, HandledFacts DEF Handled
  <2>2. PopBox(inbox[Home], inbox'[Home], Dram, a, "DRAM_READ_REP")
    BY <1>3, <2>1, HomeTakes
  <2>3. \A f, b : ~(f = Dram /\ b = a) => SameBox(inbox[Home], inbox'[Home], f, b)
    BY <1>3, <2>1, HomeTakes
  <2> QED
    BY <1>9, <2>1, <2>2, <2>3
<1>11. \A n \in LLCs \union {Dram}, b \in Addrs :
         IF n \in {r} /\ b = a THEN PushBox(inbox[n], inbox'[n], Home, b, y)
         ELSE SameBox(inbox[n], inbox'[n], Home, b)
  BY <1>4, <1>8 DEF Sent<1>12. EntryInv(a) /\ a \notin replaced' /\ ForwarderShares(a)
  BY <1>2, <1>4, <1>6, NotReplaced DEF CInv
<1>14. /\ queue'[a] = Tail(queue[a]) /\ (\A b \in Addrs : b # a => queue'[b] = queue[b])
       /\ (work'.busy => work'.addr = a) /\ (Queued(a)' => Busy(a)')
  <2>1. Queued(a)' => Busy(a)'
    BY <1>2, <1>3, <1>4, <1>6, NextProcessed
  <2> QED
    BY <1>2, <1>3, <1>4, <2>1 DEF Complete, Queues, Idle, Process
<1>15. LineAwaited(a)'
  <2>1. PICK f \in LLCs : f = r
    BY <1>7
  <2>2. ToCache(f, a, RepTypes)'
    <3>1. y \in RepTypes
      BY <1>5 DEF Grants, RepTypes
    <3> QED
      BY <1>4, <1>11, <2>1, <3>1 DEF ToCache, PushBox
  <2>3. ASSUME NEW l \in LLCs
        PROVE  /\ ToHome(l, a, ReqTypes) => ToHome(l, a, ReqTypes)'
               /\ ToCache(l, a, RepTypes) => ToCache(l, a, RepTypes)'
    <3>1. SameBox(inbox[Home], inbox'[Home], l, a)
      BY <1>3, <1>10
    <3>2. PushBox(inbox[l], inbox'[l], Home, a, y) \/ SameBox(inbox[l], inbox'[l], Home, a)
      BY <1>4, <1>11
    <3> QED
      BY <3>1, <3>2 DEF ToHome, ToCache, SameBox, PushBox
  <2>4. ForwarderShares(a)'
    BY <1>2, <1>12 DEF ForwarderShares
  <2>5. f = Front(a).from
    BY <2>1
  <2> QED
    BY <1>4, <1>6, <1>12, <1>14, <2>2, <2>3, <2>4, <2>5, DoneQuiet
<1>17. \A b \in Addrs : b # a => LineApart(b)
  BY <1>2, <1>10, <1>11, <1>14, HandledApart
<1> QED
  BY <1>2, <1>4, <1>15, <1>17, OneLineQuiet

-----------------------------------------------------------------------------
(* The steps of the DRAM controller, and the first state.                  *)

\* Only a fetch of the DRAM controller makes progress.
LEMMA StillQuiet ==
  ASSUME QInv, UNCHANGED <<dirVars, llcVars>>,
         \A l \in LLCs, b \in Addrs :
           SameBox(inbox[l], inbox'[l], Home, b) /\ SameBox(inbox[Home], inbox'[Home], l, b),
         \A b \in Addrs : Reading(b) \/ ReadDone(b) => Reading(b)' \/ ReadDone(b)'
  PROVE  QInv'
<1>1. /\ dir' = dir /\ replaced' = replaced /\ queue' = queue /\ work' = work
      /\ cstate' = cstate /\ waiters' = waiters /\ net' = net
  BY DEF dirVars, llcVars
<1>2. ASSUME NEW a \in Addrs PROVE LineAwaited(a)'
  <2>1. LineAwaited(a) /\ (Busy(a)' <=> Busy(a))
    BY <1>1 DEF QInv, Busy
  <2>2. ASSUME NEW l \in LLCs
        PROVE  /\ StillComes(l, a)
               /\ \A T : ToHome(l, a, T)' <=> ToHome(l, a, T)
               /\ \A T : ToCache(l, a, T)' <=> ToCache(l, a, T)
    BY <1>1, SameComes DEF Held
  <2>3. ASSUME NEW l \in LLCs PROVE WaiterServed(l, a)'
    <3>1. StillServed(l, a)
      BY <1>1, <2>2 DEF StillServed, Asking, InQueue
    <3>2. WaiterServed(l, a) /\ waiters'[l][a] = waiters[l][a] /\ (InLoop(l, a) => InLoop(l, a)')
      BY <1>1, <2>1 DEF LineAwaited, InLoop
    <3> QED
      BY <3>1, <3>2, ServedFrame
  <2>4. dir'[a] = dir[a] /\ queue'[a] = queue[a] /\ (a \in replaced' => a \in replaced)
    BY <1>1
  <2>5. Awaited(a)'
    BY <2>1, <2>2, <2>4, AwaitedFrame DEF LineAwaited
  <2> QED
    BY <2>3, <2>5 DEF LineAwaited
<1> QED
  BY <1>2 DEF QInv

\* handleMsgFromTagDirectory(), a read.
LEMMA DramReadQInv ==
  ASSUME CInv, QInv, UNCHANGED <<dirVars, llcVars>>, DramRead
  PROVE  QInv'
<1>1. PICK a, m : a = Head(inbox[Dram]).addr /\ m = Msg("DRAM_READ_REP", Dram, a, dram[a])
  OBVIOUS
<1>2. /\ Pending(Dram) /\ Head(inbox[Dram]).type = "DRAM_READ_REQ"
      /\ inbox' = Send(Received(Dram), Home, m)
  BY <1>1 DEF DramRead
<1>3. inbox \in Inboxes /\ dram \in [Addrs -> Data]
  BY DirectoryFacts DEF CInv, TInv, TypeOK, NetworkTypeOK
<1>4. /\ a \in Addrs /\ Received(Dram) \in Inboxes
      /\ \A b : b # a => SameBox(inbox[Dram], Received(Dram)[Dram], Home, b)
      /\ \A n \in LLCs \union {Home} : Received(Dram)[n] = inbox[n]
  BY <1>1, <1>2, <1>3, DramTakes
<1>5. m \in Message /\ m.from = Dram /\ m.addr = a /\ m.type = "DRAM_READ_REP"
  <2>1. dram[a] \in Data
    BY <1>3, <1>4
  <2>2. m.from = Dram /\ m.addr = a /\ m.type = "DRAM_READ_REP"
    BY <1>1 DEF Msg
  <2> QED
    BY <1>1, <1>4, <2>1, <2>2, MsgType
<1>6. /\ inbox'[Home] = Append(inbox[Home], m) /\ inbox[Home] \in Seq(Message)
      /\ inbox'[Dram] = Received(Dram)[Dram]
      /\ \A l \in LLCs : inbox'[l] = inbox[l]
  BY <1>2, <1>3, <1>4, NetworkAssumption DEF Send, Inboxes, Nodes
<1>7. /\ PushBox(inbox[Home], inbox'[Home], Dram, a, "DRAM_READ_REP")
      /\ \A b : b # a => SameBox(inbox[Home], inbox'[Home], Dram, b)
      /\ \A l \in LLCs : \A b : SameBox(inbox[Home], inbox'[Home], l, b)
  BY <1>5, <1>6, AppendBox, NetworkAssumption
<1>8. \A b \in Addrs : Reading(b) \/ ReadDone(b) => Reading(b)' \/ ReadDone(b)'
  <2>1. ReadDone(a)'
    BY <1>7 DEF ReadDone, PushBox
  <2>2. \A b \in Addrs : b # a => (Reading(b)' <=> Reading(b)) /\ (ReadDone(b)' <=> ReadDone(b))
    BY <1>4, <1>6, <1>7 DEF Reading, ReadDone, SameBox
  <2> QED
    BY <2>1, <2>2
<1>9. \A l \in LLCs, b \in Addrs :
        SameBox(inbox[l], inbox'[l], Home, b) /\ SameBox(inbox[Home], inbox'[Home], l, b)
  BY <1>6, <1>7, SameBoxRefl
<1> QED
  BY <1>8, <1>9, StillQuiet

\* handleMsgFromTagDirectory(), a write.
LEMMA DramWriteQInv ==
  ASSUME CInv, QInv, UNCHANGED <<dirVars, llcVars>>, DramWrite
  PROVE  QInv'
<1>1. PICK a : a = Head(inbox[Dram]).addr
  OBVIOUS
<1>2. /\ Pending(Dram) /\ Head(inbox[Dram]).type = "DRAM_WRITE_REQ" /\ inbox' = Received(Dram)
  BY <1>1 DEF DramWrite
<1>3. inbox \in Inboxes
  BY DirectoryFacts DEF CInv
<1>4. /\ PopBox(inbox[Dram], inbox'[Dram], Home, a, "DRAM_WRITE_REQ")
      /\ \A b : b # a => SameBox(inbox[Dram], inbox'[Dram], Home, b)
      /\ \A n \in LLCs \union {Home} : inbox'[n] = inbox[n]
  BY <1>1, <1>2, <1>3, DramTakes
<1>5. \A l \in LLCs, b \in Addrs :
        SameBox(inbox[l], inbox'[l], Home, b) /\ SameBox(inbox[Home], inbox'[Home], l, b)
  BY <1>4, SameBoxRefl
<1>6. \A b \in Addrs : (Reading(b) => Reading(b)') /\ (ReadDone(b) => ReadDone(b)')
  BY <1>4 DEF Reading, ReadDone, PopBox, SameBox
<1> QED
  BY <1>5, <1>6, StillQuiet

LEMMA InitQInv ==
  ASSUME Init
  PROVE  QInv
<1>1. /\ dir = [a \in Addrs |-> NewEntry] /\ replaced = {} /\ queue = [a \in Addrs |-> <<>>]
      /\ waiters = [l \in LLCs |-> [a \in Addrs |-> <<>>]]
  BY DEF Init, DirectoryInit, CacheInit
<1>2. ASSUME NEW a \in Addrs PROVE LineAwaited(a)
  <2>1. ~Queued(a) /\ a \notin replaced /\ dir[a].forwarder \notin LLCs
    BY <1>1, NetworkAssumption DEF Queued, NewEntry, Uninit
  <2>2. \A l \in LLCs : waiters[l][a] = <<>>
    BY <1>1
  <2> QED
    BY <2>1, <2>2, NetworkAssumption DEF LineAwaited, Awaited, ReplacedQueued, FetchUnderWay,
       CopyUnderWay, RecallUnderWay, ForwarderShares, WaiterServed, Waits
<1> QED
  BY <1>2 DEF QInv

LEMMA StutterQInv ==
  ASSUME CInv, QInv, UNCHANGED vars
  PROVE  QInv'
<1>1. inbox' = inbox /\ UNCHANGED <<dirVars, llcVars>>
  BY DEF vars, dirVars
<1>2. \A b \in Addrs : Reading(b) \/ ReadDone(b) => Reading(b)' \/ ReadDone(b)'
  BY <1>1 DEF Reading, ReadDone
<1> QED
  BY <1>1, <1>2, SameBoxRefl, StillQuiet

-----------------------------------------------------------------------------
(* What everybody waits for is under way; so nothing is left behind.       *)

LEMMA NextQInv ==
  ASSUME FullMap, CInv, CInv', QInv, [Next]_vars
  PROVE  QInv'
<1>1. CASE DirectoryStep
  <2>1. UNCHANGED llcVars /\ TInv'
    BY <1>1 DEF DirectoryStep, CInv
  <2>2. CASE ProcessWithEntry
    BY <2>1, <2>2, ProcessWithEntryQInv
  <2>3. CASE ProcessEvictUncached
    BY <2>1, <2>3, ProcessEvictUncachedQInv
  <2>4. CASE ProcessEvictCached
    BY <2>1, <2>4, ProcessEvictCachedQInv
  <2>5. CASE ProcessNullify
    BY <2>1, <2>5, ProcessNullifyQInv
  <2>6. CASE HandleReq
    BY <2>1, <2>6, HandleReqQInv
  <2>7. CASE HandleInvRep
    BY <2>1, <2>7, HandleInvRepQInv
  <2>8. CASE HandleFlushRep
    BY <2>1, <2>8, HandleFlushRepQInv
  <2>9. CASE HandleWbRep
    BY <2>1, <2>9, HandleWbRepQInv
  <2>10. CASE HandleDramReply
    BY <2>1, <2>10, HandleDramReplyQInv
  <2> QED
    BY <1>1, <2>2, <2>3, <2>4, <2>5, <2>6, <2>7, <2>8, <2>9, <2>10 DEF DirectoryStep
<1>2. CASE DramStep
  <2>1. UNCHANGED <<dirVars, llcVars>>
    BY <1>2 DEF DramStep
  <2> QED
    BY <1>2, <2>1, DramReadQInv, DramWriteQInv DEF DramStep
<1>3. ASSUME NEW l \in LLCs, NetworkThreadStep(l) PROVE QInv'
  <2>1. UNCHANGED dirVars
    BY <1>3 DEF NetworkThreadStep
  <2>2. CASE HandleDataRep(l) \/ HandleUpgradeRep(l)
    BY <2>1, <2>2, ReplyQInv
  <2>3. CASE HandleInvReq(l) \/ HandleFlushReq(l)
    BY <2>1, <2>3, RecallQInv
  <2>4. CASE HandleWbReq(l)
    BY <2>1, <2>4, WriteBackQInv
  <2>5. CASE LoopEnds(l) \/ LoopUpgrades(l) \/ LoopWakes(l) \/ LoopDequeues(l)
    BY <2>1, <2>5, LoopQInv
  <2> QED
    BY <1>3, <2>2, <2>3, <2>4, <2>5 DEF NetworkThreadStep
<1>4. ASSUME NEW c \in Cores, NEW a \in Addrs, CoreStep(c, a) PROVE QInv'
  BY <1>4, CoreQInv
<1>5. ASSUME NEW l \in LLCs, NEW a \in Addrs, EvictStep(l, a) PROVE QInv'
  BY <1>5, EvictQInv
<1>6. CASE UNCHANGED vars
  BY <1>6, StutterQInv
<1> QED
  BY <1>1, <1>2, <1>3, <1>4, <1>5, <1>6 DEF Next

LEMMA InvQuietAgreement ==
  ASSUME CInv, QInv
  PROVE  QuietAgreement
<1> SUFFICES ASSUME Quiet, NEW a \in Addrs
             PROVE  /\ queue[a] = <<>> /\ a \notin replaced
                    /\ \A l \in LLCs : waiters[l][a] = <<>>
                    /\ dir[a].sharers = {l \in LLCs : cstate[l][a] # "I"}
                    /\ dir[a].state = "UNCACHED" <=> dir[a].sharers = {}
                    /\ dir[a].state = "MODIFIED" => \E l \in LLCs : cstate[l][a] = "M"
  BY DEF QuietAgreement
<1>1. ASSUME NEW n \in Nodes, NEW f
      PROVE  (\A T : ~Has(inbox[n], T, f, a)) /\ \A T, U : ~Prec(inbox[n], T, U, f, a)
  BY EmptyBox DEF Quiet
<1>2. ~Reading(a) /\ ~ReadDone(a) /\ ~Busy(a)
  BY <1>1 DEF Reading, ReadDone, Nodes, Quiet, Busy
<1>3. ASSUME NEW l \in LLCs
      PROVE  /\ \A T : ~ToCache(l, a, T) /\ ~ToHome(l, a, T) /\ ~Live(l, a, T)
             /\ ~Granted(l, a) /\ ~Leaving(l, a) /\ ~InLoop(l, a)
  <2>1. \A T : ~ToCache(l, a, T) /\ ~ToHome(l, a, T)
    BY <1>1 DEF ToCache, ToHome, Nodes
  <2>2. \A T : ~Live(l, a, T)
    BY <1>1, <2>1 DEF Live, Nodes
  <2>3. ~InLoop(l, a)
    BY DEF Quiet, InLoop, NetIdle
  <2> QED
    BY <2>1, <2>2, <2>3 DEF Granted, Leaving
<1>4. Awaited(a) /\ EntryInv(a) /\ \A l \in LLCs : LineInv(l, a) /\ WaiterServed(l, a)
  BY DEF QInv, LineAwaited, CInv
\* Whatever the front request waits for would be under way.
<1>5. ~Queued(a)
  <2> SUFFICES ASSUME Queued(a) PROVE FALSE
    OBVIOUS
  <2>1. ~Front(a).waitForData
    BY <1>2, <1>4 DEF Awaited, FetchUnderWay
  <2>2. Waits(a)
    BY <1>2, <2>1 DEF Waits
  <2>3. CASE Front(a).type = "SH_REQ"
    BY <1>3, <1>4, <2>2, <2>3 DEF Awaited, CopyUnderWay, Answering
  <2>4. CASE Front(a).type # "SH_REQ"
    BY <1>3, <1>4, <2>2, <2>4 DEF Awaited, RecallUnderWay, Going
  <2> QED
    BY <2>3, <2>4
<1>6. queue[a] = <<>> /\ a \notin replaced
  BY <1>4, <1>5 DEF Queued, Awaited, ReplacedQueued
<1>7. ASSUME NEW l \in LLCs
      PROVE  /\ waiters[l][a] = <<>>
             /\ l \in dir[a].sharers <=> cstate[l][a] # "I"
             /\ \A T : ~Asking(l, a, T)
  <2>1. \A T : ~Asking(l, a, T)
    BY <1>3, <1>6 DEF Asking, InQueue
  <2>2. ~Fetching(l, a)
    BY <1>5 DEF Fetching
  <2> QED
    BY <1>3, <1>4, <2>1, <2>2 DEF WaiterServed, LineInv, Tokens, Held
<1>8. dir[a] \in Entry
  BY DirectoryFacts DEF CInv
<1>9. dir[a].sharers = {l \in LLCs : cstate[l][a] # "I"}
  BY <1>7, <1>8 DEF Entry
<1>10. dir[a].state = "UNCACHED" <=> dir[a].sharers = {}
  BY <1>4 DEF EntryInv, EntryShape
\* The owner's copy is no longer clean: who asked for it writes it at once.
<1>11. dir[a].state = "MODIFIED" => \E l \in LLCs : cstate[l][a] = "M"
  <2> SUFFICES ASSUME dir[a].state = "MODIFIED" PROVE \E l \in LLCs : cstate[l][a] = "M"
    OBVIOUS
  <2>1. PICK l \in LLCs : cstate[l][a] # "I"
    BY <1>9, <1>10
  <2>2. cstate[l][a] # "S" /\ cstate[l][a] # "SU"
    BY <1>3, <1>4, <1>7 DEF LineInv, SharedCopy, UpgradeAsked, Owned
  <2>3. cstate[l][a] # "E"
    <3>1. net[l] # [phase |-> "loop", addr |-> a]
      BY <1>3 DEF InLoop
    <3> QED
      BY <1>4, <3>1 DEF LineInv, WriterNow
  <2>4. cstate[l][a] \in CStates
    BY DEF CInv, TInv, TypeOK, CacheTypeOK
  <2> QED
    BY <2>1, <2>2, <2>3, <2>4 DEF CStates
<1> QED
  BY <1>6, <1>7, <1>9, <1>10, <1>11

\* When nothing is in flight and nobody is in the middle of a handler, no
\* request is left in a queue, no core waits and no replaced entry is left, and
\* the directory counts exactly the copies there are: every request that is not
\* processed at once waits for an answer that some message or cache still owes
\* (processNextReqFromL2Cache, processInvRepFromL2Cache,
\* processFlushRepFromL2Cache, processWbRepFromL2Cache, processDRAMReply,
\* wakeUpNetworkThread).
THEOREM CoherenceQuietAgreement ==
  ASSUME FullMap
  PROVE  Spec => []QuietAgreement
<1>1. Init => QInv
  BY InitQInv
<1>2. CInv /\ CInv' /\ QInv /\ [Next]_vars => QInv'
  BY NextQInv
<1>3. CInv /\ QInv => QuietAgreement
  BY InvQuietAgreement
<1> QED
  BY <1>1, <1>2, <1>3, SpecCInv, PTL DEF Spec

-----------------------------------------------------------------------------
(* An entry can be given up when a request needs one.                      *)

\* The set has as many ways as there are cores, each of which waits for one line
\* at a time.
EnoughWays == Cardinality(Cores) <= DirWays

WaitsAt(c, a) ==
  \E i \in 1 .. Len(waiters[LlcOf[c]][a]) :
    waiters[LlcOf[c]][a][i].core = c /\ ~Served(LlcOf[c], a, i)
WaitOnce == \A c \in Cores : \A a, b \in Addrs : WaitsAt(c, a) /\ WaitsAt(c, b) => a = b
OwnWaiters ==
  \A l \in LLCs, a \in Addrs : \A i \in 1 .. Len(waiters[l][a]) : LlcOf[waiters[l][a][i].core] = l
WaitInv == WaitOnce /\ OwnWaiters

\* Nothing is replaced before the set is full; until then, every request has
\* found or taken an entry of the set.
WaysInv ==
  /\ Cardinality(cached) <= DirWays /\ cached \cap replaced = {}
  /\ Cardinality(cached) < DirWays => replaced = {} /\ \A a \in Addrs : Queued(a) => a \in cached

-----------------------------------------------------------------------------
(* A core waits for one line, in its own cache.                            *)

LEMMA SameWaiters ==
  ASSUME WaitInv, waiters' = waiters,
         \A l \in LLCs : net[l].phase = "served" => net'[l] = net[l]
  PROVE  WaitInv'
<1>1. ASSUME NEW c \in Cores, NEW a \in Addrs PROVE WaitsAt(c, a)' => WaitsAt(c, a)
  <2> PICK l \in LLCs : l = LlcOf[c]
    BY CoresAssumption
  <2>1. \A i : Served(l, a, i) => Served(l, a, i)'
    BY DEF Served
  <2> QED
    BY <2>1 DEF WaitsAt
<1>2. WaitOnce'
  BY <1>1 DEF WaitInv, WaitOnce
<1>3. OwnWaiters'
  BY DEF WaitInv, OwnWaiters
<1> QED
  BY <1>2, <1>3 DEF WaitInv

\* A core that misses did not wait; it queues up in its own cache.
LEMMA MissWaits ==
  ASSUME TInv, WaitInv, NEW c \in Cores, NEW a \in Addrs, Miss(c, a)
  PROVE  WaitInv'
<1> PICK l \in LLCs : l = LlcOf[c]
  BY CoresAssumption
<1>1. waiters \in [LLCs -> [Addrs -> Seq(Waiter)]]
  BY CacheFacts
<1>2. PICK w \in Waiter : w.core = c /\ waiters' = [waiters EXCEPT ![l][a] = Append(@, w)]
  <2>1. PICK x \in BOOLEAN :
          waiters' = [waiters EXCEPT ![l][a] = Append(@, [core |-> c, exclusive |-> x])]
    BY DEF Miss
  <2>2. [core |-> c, exclusive |-> x] \in Waiter
    BY Zenon DEF Waiter
  <2> QED
    BY <2>1, <2>2
<1>3. \A b \in Addrs : ~WaitsAt(c, b)
  <2> SUFFICES ASSUME NEW b \in Addrs, WaitsAt(c, b) PROVE FALSE
    OBVIOUS
  <2>1. DOMAIN waiters[l][b] = 1 .. Len(waiters[l][b])
    BY <1>1
  <2> QED
    BY <2>1 DEF Miss, Blocked, WaitsAt
<1>4. /\ waiters'[l][a] = Append(waiters[l][a], w) /\ waiters[l][a] \in Seq(Waiter)
      /\ \A k \in LLCs, b \in Addrs : ~(k = l /\ b = a) => waiters'[k][b] = waiters[k][b]
  BY <1>1, <1>2
<1>5. PICK n \in Nat : /\ n = Len(waiters[l][a]) /\ Len(waiters'[l][a]) = n + 1
                       /\ waiters'[l][a][n + 1] = w
                       /\ \A i \in 1 .. n : waiters'[l][a][i] = waiters[l][a][i]
                       /\ \A i \in 1 .. n + 1 : i = n + 1 \/ i \in 1 .. n
  <2> PICK n : n = Len(waiters[l][a])
    OBVIOUS
  <2>1. n \in Nat /\ Len(waiters'[l][a]) = n + 1 /\ waiters'[l][a][n + 1] = w
    BY <1>4
  <2>2. \A i \in 1 .. n : waiters'[l][a][i] = waiters[l][a][i]
    BY <1>4
  <2>3. \A i \in 1 .. n + 1 : i = n + 1 \/ i \in 1 .. n
    BY <2>1
  <2> QED
    BY <2>1, <2>2, <2>3
<1>6. ASSUME NEW d \in Cores, NEW b \in Addrs, WaitsAt(d, b)'
      PROVE  WaitsAt(d, b) \/ (d = c /\ b = a)
  <2> PICK k \in LLCs : k = LlcOf[d]
    BY CoresAssumption
  <2>1. PICK i \in 1 .. Len(waiters'[k][b]) : waiters'[k][b][i].core = d /\ ~Served(k, b, i)'
    BY <1>6 DEF WaitsAt
  <2>2. ~Served(k, b, i)
    BY <2>1 DEF Served, Miss
  <2>3. CASE ~(k = l /\ b = a)
    BY <1>4, <2>1, <2>2, <2>3 DEF WaitsAt
  <2>4. CASE k = l /\ b = a /\ i = n + 1
    BY <1>2, <1>5, <2>1, <2>4
  <2>5. CASE k = l /\ b = a /\ i # n + 1
    <3>1. i \in 1 .. n
      BY <1>5, <2>1, <2>5
    <3>2. i \in 1 .. Len(waiters[l][a]) /\ waiters[l][a][i].core = d
      BY <1>5, <2>1, <2>5, <3>1
    <3> QED
      BY <2>2, <2>5, <3>2 DEF WaitsAt
  <2> QED
    BY <2>3, <2>4, <2>5
<1>7. WaitOnce'
  <2> SUFFICES ASSUME NEW d \in Cores, NEW b1 \in Addrs, NEW b2 \in Addrs,
                      WaitsAt(d, b1)', WaitsAt(d, b2)'
               PROVE  b1 = b2
    BY DEF WaitOnce
  <2> QED
    BY <1>3, <1>6 DEF WaitInv, WaitOnce
<1>8. OwnWaiters'
  <2> SUFFICES ASSUME NEW k \in LLCs, NEW b \in Addrs, NEW i \in 1 .. Len(waiters'[k][b])
               PROVE  LlcOf[waiters'[k][b][i].core] = k
    BY DEF OwnWaiters
  <2>1. CASE ~(k = l /\ b = a)
    BY <1>4, <2>1 DEF WaitInv, OwnWaiters
  <2>2. CASE k = l /\ b = a /\ i = n + 1
    BY <1>2, <1>5, <2>2
  <2>3. CASE k = l /\ b = a /\ i # n + 1
    <3>1. i \in 1 .. Len(waiters[l][a])
      BY <1>5, <2>3
    <3>2. LlcOf[waiters[l][a][i].core] = l /\ waiters'[l][a][i] = waiters[l][a][i]
      BY <1>5, <3>1 DEF WaitInv, OwnWaiters
    <3> QED
      BY <2>3, <3>2
  <2> QED
    BY <2>1, <2>2, <2>3
<1> QED
  BY <1>7, <1>8 DEF WaitInv

\* The waiter that is taken off the queue has been served.
LEMMA DequeueWaits ==
  ASSUME TInv, WaitInv, NEW l \in LLCs, LoopDequeues(l)
  PROVE  WaitInv'
<1> PICK a : a = net[l].addr
  OBVIOUS
<1>1. /\ waiters \in [LLCs -> [Addrs -> Seq(Waiter)]] /\ net \in [LLCs -> Net]
      /\ a \in Addrs /\ waiters[l][a] # <<>>
  <2>1. waiters \in [LLCs -> [Addrs -> Seq(Waiter)]] /\ net \in [LLCs -> Net] /\ ServedQueued
    BY CacheFacts
  <2> QED
    BY <2>1, NetFields DEF LoopDequeues, ServedQueued
<1>2. /\ waiters'[l][a] = Tail(waiters[l][a]) /\ waiters[l][a] \in Seq(Waiter)
      /\ \A k \in LLCs, b \in Addrs : ~(k = l /\ b = a) => waiters'[k][b] = waiters[k][b]
  BY <1>1 DEF LoopDequeues
<1>3. \A i \in 1 .. Len(waiters'[l][a]) : /\ i + 1 \in 1 .. Len(waiters[l][a]) /\ i + 1 # 1
                                         /\ waiters'[l][a][i] = waiters[l][a][i + 1]
  BY <1>1, <1>2
<1>4. \A k \in LLCs : k # l => net'[k] = net[k]
  BY <1>1 DEF LoopDequeues
<1>5. ASSUME NEW c \in Cores, NEW b \in Addrs, WaitsAt(c, b)' PROVE WaitsAt(c, b)
  <2> PICK k \in LLCs : k = LlcOf[c]
    BY CoresAssumption
  <2>1. PICK i \in 1 .. Len(waiters'[k][b]) : waiters'[k][b][i].core = c /\ ~Served(k, b, i)'
    BY <1>5 DEF WaitsAt
  <2>2. CASE k = l /\ b = a
    <3>1. /\ i + 1 \in 1 .. Len(waiters[l][a]) /\ waiters[l][a][i + 1].core = c
          /\ ~Served(l, a, i + 1)
      BY <1>3, <2>1, <2>2 DEF Served
    <3> QED
      BY <2>2, <3>1 DEF WaitsAt
  <2>3. CASE ~(k = l /\ b = a)
    <3>1. ~Served(k, b, i)
      BY <1>4, <2>1, <2>3 DEF Served
    <3> QED
      BY <1>2, <2>1, <2>3, <3>1 DEF WaitsAt
  <2> QED
    BY <2>2, <2>3
<1>6. WaitOnce'
  BY <1>5 DEF WaitInv, WaitOnce
<1>7. OwnWaiters'
  <2> SUFFICES ASSUME NEW k \in LLCs, NEW b \in Addrs, NEW i \in 1 .. Len(waiters'[k][b])
               PROVE  LlcOf[waiters'[k][b][i].core] = k
    BY DEF OwnWaiters
  <2>1. CASE k = l /\ b = a
    <3>1. i + 1 \in 1 .. Len(waiters[l][a]) /\ waiters'[l][a][i] = waiters[l][a][i + 1]
      BY <1>3, <2>1
    <3> PICK j \in 1 .. Len(waiters[l][a]) : j = i + 1
      BY <3>1
    <3>2. LlcOf[waiters[l][a][j].core] = l
      BY <1>1 DEF WaitInv, OwnWaiters
    <3> QED
      BY <2>1, <3>1, <3>2
  <2>2. CASE ~(k = l /\ b = a)
    BY <1>2, <2>2 DEF WaitInv, OwnWaiters
  <2> QED
    BY <2>1, <2>2
<1> QED
  BY <1>6, <1>7 DEF WaitInv

LEMMA NextWaitInv ==
  ASSUME TInv, WaitInv, [Next]_vars
  PROVE  WaitInv'
<1>1. net \in [LLCs -> Net]
  BY CacheFacts
<1>2. CASE DirectoryStep \/ DramStep \/ UNCHANGED vars
  BY <1>2, SameWaiters DEF DirectoryStep, DramStep, vars, llcVars
<1>3. ASSUME NEW l \in LLCs, NetworkThreadStep(l) PROVE WaitInv'
  <2>1. CASE LoopDequeues(l)
    BY <2>1, DequeueWaits
  <2>2. ASSUME \/ HandleDataRep(l) \/ HandleUpgradeRep(l)
               \/ HandleInvReq(l) \/ HandleFlushReq(l) \/ HandleWbReq(l)
               \/ LoopEnds(l) \/ LoopUpgrades(l) \/ LoopWakes(l)
        PROVE  waiters' = waiters /\ \A k \in LLCs : net[k].phase = "served" => net'[k] = net[k]
    <3>1. waiters' = waiters
      BY <2>2 DEF HandleDataRep, HandleUpgradeRep, HandleInvReq, HandleFlushReq, HandleWbReq,
                  LoopEnds, LoopUpgrades, LoopWakes
    <3>2. net' = net \/ (net[l].phase # "served" /\ \E s : net' = [net EXCEPT ![l] = s])
      BY <2>2 DEF HandleDataRep, HandleUpgradeRep, HandleInvReq, HandleFlushReq, HandleWbReq,
                  LoopEnds, LoopUpgrades, LoopWakes, Gets, NetIdle
    <3> QED
      BY <1>1, <3>1, <3>2
  <2> QED
    BY <1>3, <2>1, <2>2, SameWaiters DEF NetworkThreadStep
<1>4. ASSUME NEW c \in Cores, NEW a \in Addrs, CoreStep(c, a) PROVE WaitInv'
  <2>1. CASE Hit(c, a)
    BY <2>1, SameWaiters DEF Hit
  <2> QED
    BY <1>4, <2>1, MissWaits DEF CoreStep
<1>5. ASSUME NEW l \in LLCs, NEW a \in Addrs, EvictStep(l, a) PROVE WaitInv'
  BY <1>5, SameWaiters DEF EvictStep, Evict
<1> QED
  BY <1>2, <1>3, <1>4, <1>5 DEF Next

-----------------------------------------------------------------------------
(* The set of the directory and what it replaces.                          *)

LEMMA SameWays ==
  ASSUME WaysInv, cached' = cached, replaced' \subseteq replaced,
         \A a \in Addrs : Queued(a)' => Queued(a) \/ a \in cached
  PROVE  WaysInv'
  BY DEF WaysInv

\* A line without an entry asks for one only when the set is full.
LEMMA SetFull ==
  ASSUME TInv, WaysInv, work.busy, ~HasEntry(work.addr)
  PROVE  /\ work.addr \in Addrs /\ Queued(work.addr) /\ IsFiniteSet(cached)
         /\ Cardinality(cached) \in Nat /\ Cardinality(cached) = DirWays
<1>1. work.addr \in Addrs /\ Queued(work.addr) /\ cached \subseteq Addrs
  BY WorkFields, DirectoryFacts DEF Queued
<1>2. IsFiniteSet(cached) /\ Cardinality(cached) \in Nat
  BY <1>1, NetworkAssumption, FS_Subset, FS_CardinalityType
<1> QED
  BY <1>1, <1>2, DirectoryAssumption DEF WaysInv, HasEntry

\* The victim's way goes to the line that asks.
LEMMA WayTaken ==
  ASSUME TInv, WaysInv, work.busy, ~HasEntry(work.addr), NEW v \in cached,
         cached' = (cached \ {v}) \union {work.addr},
         replaced' \subseteq replaced \union {v}
  PROVE  WaysInv'
<1>1. /\ IsFiniteSet(cached) /\ Cardinality(cached) = DirWays /\ Cardinality(cached) \in Nat
      /\ work.addr \notin cached /\ work.addr \notin replaced
  BY SetFull DEF HasEntry
<1>2. IsFiniteSet(cached \ {v}) /\ Cardinality(cached \ {v}) = DirWays - 1
  BY <1>1, FS_RemoveElement
<1>3. Cardinality(cached') = DirWays
  <2>1. work.addr \notin cached \ {v}
    BY <1>1
  <2>2. Cardinality((cached \ {v}) \union {work.addr}) = Cardinality(cached \ {v}) + 1
    BY <1>2, <2>1, FS_AddElement
  <2> QED
    BY <1>2, <2>2, DirectoryAssumption
<1>4. cached' \cap replaced' = {}
  BY <1>1 DEF WaysInv
<1> QED
  BY <1>3, <1>4, DirectoryAssumption DEF WaysInv

LEMMA HandleReqWays ==
  ASSUME TInv, WaysInv, HandleReq
  PROVE  WaysInv'
<1> PICK a : a = HomeMsg.addr
  OBVIOUS
<1>1. /\ replaced' = replaced /\ Lookup(a) /\ queue \in Queues
      /\ \E r : queue' = [queue EXCEPT ![a] = Append(@, r)]
  BY DirectoryFacts DEF HandleReq
<1>2. \A b \in Addrs : b # a => queue'[b] = queue[b]
  BY <1>1 DEF Queues
<1>3. IsFiniteSet(cached) /\ Cardinality(cached) \in Nat
  BY DirectoryFacts, NetworkAssumption, FS_Subset, FS_CardinalityType
<1>4. CASE a \in cached
  BY <1>1, <1>2, <1>4, SameWays DEF Lookup, Queued
<1>5. CASE a \notin cached /\ Cardinality(cached) < DirWays
  <2>1. cached' = cached \union {a} /\ Cardinality(cached') = Cardinality(cached) + 1
    BY <1>1, <1>3, <1>5, FS_AddElement DEF Lookup
  <2>2. replaced' = {} /\ \A b \in Addrs : Queued(b)' => b \in cached'
    BY <1>1, <1>2, <1>5, <2>1 DEF WaysInv, Queued
  <2> QED
    BY <1>3, <1>5, <2>1, <2>2, DirectoryAssumption DEF WaysInv
<1>6. CASE a \notin cached /\ ~(Cardinality(cached) < DirWays)
  BY <1>1, <1>6 DEF Lookup, WaysInv
<1> QED
  BY <1>4, <1>5, <1>6

LEMMA ProcessWithEntryWays ==
  ASSUME FullMap, CInv, TInv', UNCHANGED llcVars, WaysInv, ProcessWithEntry
  PROVE  WaysInv'
<1>1. work.addr \in Addrs
  BY WorkFields, DirectoryFacts DEF ProcessWithEntry, CInv
<1>2. PICK a \in Addrs : a = work.addr
  BY <1>1
<1>3. /\ Busy(a) /\ HasEntry(a) /\ HasEntry(a)' /\ Front(a).type # "NULLIFY_REQ"
      /\ ProcessReq(a, dir[a], inbox, queue, work.data)
      /\ cached' = cached /\ replaced' = replaced
  BY <1>2 DEF ProcessWithEntry, Busy, HasEntry
<1>4. Queued(a) /\ inbox \in Inboxes /\ queue \in Queues /\ dir[a] \in Entry
  BY <1>3, DirectoryFacts DEF CInv, Busy, Queued
<1>5. Taken(a, dir[a], inbox, queue)
  BY <1>3, <1>4, FrontFacts, SameBoxRefl DEF Taken
<1>6. OthersKept(a, inbox, queue)
  BY <1>3, <1>5, ProcessReqKept
<1>7. \A b \in Addrs : Queued(b)' => Queued(b)
  BY <1>4, <1>6 DEF OthersKept, Queued
<1> QED
  BY <1>3, <1>7, SameWays

LEMMA NextWaysInv ==
  ASSUME FullMap, CInv, CInv', WaysInv, [Next]_vars
  PROVE  WaysInv'
<1>1. TInv /\ TInv' /\ queue \in Queues
  BY DirectoryFacts DEF CInv
<1>2. CASE DirectoryStep
  <2>1. UNCHANGED llcVars
    BY <1>2 DEF DirectoryStep
  <2>2. CASE ProcessWithEntry
    BY <1>1, <2>1, <2>2, ProcessWithEntryWays
  <2>3. CASE ProcessEvictUncached
    <3>1. PICK v \in cached : cached' = (cached \ {v}) \union {work.addr}
      BY <2>3 DEF ProcessEvictUncached, Candidates
    <3> QED
      BY <1>1, <2>3, <3>1, WayTaken DEF ProcessEvictUncached
  <2>4. CASE ProcessEvictCached
    <3>1. PICK v \in cached : /\ cached' = (cached \ {v}) \union {work.addr}
                              /\ replaced' = replaced \union {v}
      BY <2>4 DEF ProcessEvictCached, Candidates
    <3> QED
      BY <1>1, <2>4, <3>1, WayTaken DEF ProcessEvictCached
  <2>5. CASE ProcessNullify
    BY <2>5 DEF ProcessNullify, WaysInv
  <2>6. CASE HandleReq
    BY <1>1, <2>6, HandleReqWays
  <2>7. CASE HandleInvRep \/ HandleFlushRep \/ HandleWbRep \/ HandleDramReply
    <3>1. cached' = cached /\ replaced' = replaced
      BY <2>7 DEF HandleInvRep, HandleFlushRep, HandleWbRep, HandleDramReply
    <3>2. \A b \in Addrs : Queued(b)' => Queued(b)
      <4>1. CASE HandleInvRep \/ HandleWbRep
        BY <4>1 DEF HandleInvRep, HandleWbRep, Queued
      <4>2. CASE HandleFlushRep
        <5>1. queue' = queue \/ (queue[HomeMsg.addr] # <<>>
                /\ \E x : queue' = [queue EXCEPT ![HomeMsg.addr][1].data = x])
          BY <4>2 DEF HandleFlushRep
        <5> QED
          BY <1>1, <5>1 DEF Queued, Queues
      <4>3. CASE HandleDramReply
        <5>1. queue[HomeMsg.addr] # <<>> /\ queue' = [queue EXCEPT ![HomeMsg.addr] = Tail(@)]
          BY <4>3 DEF HandleDramReply, DramReplyAssertions, Complete
        <5> QED
          BY <1>1, <5>1 DEF Queued, Queues
      <4> QED
        BY <2>7, <4>1, <4>2, <4>3
    <3> QED
      BY <3>1, <3>2, SameWays
  <2> QED
    BY <1>2, <2>2, <2>3, <2>4, <2>5, <2>6, <2>7 DEF DirectoryStep
<1>3. CASE UNCHANGED dirVars
  BY <1>3 DEF dirVars, WaysInv, Queued
<1> QED
  BY <1>2, <1>3 DEF Next, DramStep, NetworkThreadStep, CoreStep, EvictStep, vars

-----------------------------------------------------------------------------
(* More ways than waiting cores: some entry is not asked for.              *)

\* Of the entries that are not asked for, one has the fewest sharers.
LEMMA FewestSharers ==
  ASSUME TInv, NEW u \in cached, ~Queued(u)
  PROVE  Candidates # {}
<1> DEFINE free == {v \in cached : queue[v] = <<>>}
           T == {Cardinality(dir[v].sharers) : v \in free}
<1>1. \A v \in free : Cardinality(dir[v].sharers) \in Nat
  <2>1. ASSUME NEW v \in free PROVE Cardinality(dir[v].sharers) \in Nat
    <3>1. dir[v].sharers \in SUBSET LLCs
      BY DirectoryFacts DEF Entry
    <3> QED
      BY <3>1, NetworkAssumption, FS_Subset, FS_CardinalityType
  <2> QED
    BY <2>1
<1>2. T \subseteq Nat /\ T # {}
  BY <1>1 DEF Queued
<1>3. PICK n \in T : \A m \in T : ~(<<m, n>> \in OpToRel(<, Nat))
  <2> HIDE DEF T
  <2> QED
    BY <1>2, NatLessThanWellFounded, WFMin
<1>4. PICK v \in free : n = Cardinality(dir[v].sharers)
  OBVIOUS
<1>5. ASSUME NEW w \in free PROVE Cardinality(dir[v].sharers) <= Cardinality(dir[w].sharers)
  <2>1. /\ Cardinality(dir[w].sharers) \in T
        /\ Cardinality(dir[w].sharers) \in Nat /\ Cardinality(dir[v].sharers) \in Nat
    BY <1>1
  <2>2. ~(<<Cardinality(dir[w].sharers), n>> \in OpToRel(<, Nat))
    BY <1>3, <2>1
  <2>3. ~(Cardinality(dir[w].sharers) < n)
    BY <1>4, <2>1, <2>2 DEF OpToRel
  <2> QED
    BY <1>4, <2>1, <2>3
<1>6. v \in Candidates
  BY <1>5 DEF Candidates
<1> QED
  BY <1>6

\* A line that is asked for, and is not being replaced, has a core that waits.
LEMMA AskedByCore ==
  ASSUME CInv, WaitInv, NEW a \in Addrs, Queued(a), a \notin replaced
  PROVE  \E c \in Cores : WaitsAt(c, a)
<1>1. Front(a).type \in ReqTypes
  BY FrontFacts DEF CInv, EntryInv, FrontState
<1>2. PICK l \in LLCs : l = Front(a).from
  BY <1>1, FrontFacts
<1>3. InQueue(l, a, ReqTypes)
  BY <1>1, <1>2, FrontFacts DEF InQueue
<1>4. waiters[l][a] # <<>> /\ ~InLoop(l, a)
  BY <1>3 DEF CInv, LineInv, AskWaits, Asking
<1>5. waiters[l][a] \in Seq(Waiter)
  BY CacheFacts DEF CInv
<1>6. 1 \in 1 .. Len(waiters[l][a]) /\ waiters[l][a][1] \in Waiter
  BY <1>4, <1>5
<1>7. ~Served(l, a, 1)
  BY <1>4 DEF Served, InLoop
<1>8. PICK c \in Cores : c = waiters[l][a][1].core
  BY <1>6 DEF Waiter
<1>9. LlcOf[c] = l
  BY <1>6, <1>8 DEF WaitInv, OwnWaiters
<1> QED
  BY <1>6, <1>7, <1>8, <1>9 DEF WaitsAt

LEMMA InvAllocation ==
  ASSUME CInv, WaitInv, WaysInv, EnoughWays
  PROVE  AllocationSucceeds
<1> SUFFICES ASSUME work.busy, ~HasEntry(work.addr) PROVE Candidates # {}
  BY DEF AllocationSucceeds
<1>1. TInv /\ cached \subseteq Addrs
  BY DirectoryFacts DEF CInv
<1>2. PICK a \in Addrs : /\ a = work.addr /\ Queued(a) /\ a \notin cached /\ a \notin replaced
                         /\ IsFiniteSet(cached) /\ Cardinality(cached) = DirWays
  BY <1>1, SetFull DEF HasEntry
<1> DEFINE B == {b \in Addrs : Queued(b) /\ b \notin replaced}
           f == [b \in B |-> CHOOSE c \in Cores : WaitsAt(c, b)]
<1>3. \A b \in B : f[b] \in Cores /\ WaitsAt(f[b], b)
  BY AskedByCore
<1>4. f \in Injection(B, Cores)
  <2>1. f \in [B -> Cores]
    BY <1>3
  <2>2. \A b1, b2 \in B : f[b1] = f[b2] => b1 = b2
    BY <1>3 DEF WaitInv, WaitOnce
  <2> HIDE DEF f, B
  <2> QED
    BY <2>1, <2>2 DEF Injection, IsInjective
<1>5. IsFiniteSet(B) /\ Cardinality(B) <= DirWays
  <2>1. Cardinality(Cores) \in Nat /\ IsFiniteSet(Cores)
    BY CoresAssumption, FS_CardinalityType
  <2> HIDE DEF f, B
  <2>2. IsFiniteSet(B) /\ Cardinality(B) <= Cardinality(Cores)
    BY <1>4, <2>1, FS_Injection
  <2>3. Cardinality(B) \in Nat
    BY <2>2, FS_CardinalityType
  <2> QED
    BY <2>1, <2>2, <2>3, DirectoryAssumption DEF EnoughWays
<1>6. ~(cached \union {a} \subseteq B)
  <2>1. Cardinality(cached \union {a}) = DirWays + 1
    BY <1>2, FS_AddElement
  <2> HIDE DEF B
  <2> SUFFICES ASSUME cached \union {a} \subseteq B PROVE FALSE
    OBVIOUS
  <2>2. Cardinality(cached \union {a}) <= Cardinality(B) /\ Cardinality(B) \in Nat
    BY <1>5, FS_Subset, FS_CardinalityType
  <2> QED
    BY <1>5, <2>1, <2>2, DirectoryAssumption
<1>7. PICK u \in cached : ~Queued(u)
  BY <1>1, <1>2, <1>6 DEF WaysInv
<1> QED
  BY <1>1, <1>7, FewestSharers

LEMMA InitAllocation == Init => WaitInv /\ WaysInv
<1> SUFFICES ASSUME Init PROVE WaitInv /\ WaysInv
  OBVIOUS
<1>1. \A l \in LLCs, a \in Addrs : waiters[l][a] = <<>>
  BY DEF Init, CacheInit
<1>2. WaitOnce /\ OwnWaiters
  BY <1>1, CoresAssumption DEF WaitOnce, OwnWaiters, WaitsAt
<1>3. WaysInv
  BY FS_EmptySet, DirectoryAssumption DEF Init, DirectoryInit, WaysInv, Queued
<1> QED
  BY <1>2, <1>3 DEF WaitInv

\* When a request needs an entry of the directory's set, some entry has no
\* request queued and can be given up ("Cannot find a directory entry to be
\* replaced with a non-zero request list", processDirectoryEntryAllocationReq),
\* provided that the set has a way for every core: a core waits for one line at
\* a time, and a queue holds a request only while a core waits for its line or
\* the line is being replaced.
THEOREM CoherenceAllocationSucceeds ==
  ASSUME FullMap, EnoughWays
  PROVE  Spec => []AllocationSucceeds
<1>1. Init => WaitInv /\ WaysInv
  BY InitAllocation
<1>2. CInv /\ CInv' /\ WaitInv /\ WaysInv /\ [Next]_vars => WaitInv' /\ WaysInv'
  BY NextWaitInv, NextWaysInv DEF CInv
<1>3. CInv /\ WaitInv /\ WaysInv => AllocationSucceeds
  BY InvAllocation
<1> QED
  BY <1>1, <1>2, <1>3, SpecCInv, PTL DEF Spec
===============================================================================
