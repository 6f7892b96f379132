---------------------------- MODULE DramPerfModel ----------------------------
(***************************************************************************)
(* The DRAM models of src/performance_model/dram_perf_model_constant.cc,   *)
(* _normal.cc and _readwrite.cc: how long an access to memory takes.       *)
(*                                                                         *)
(* Threads run ahead of each other, so requests do not arrive in the order *)
(* of their times: every access takes its time from QmTimes as it likes.   *)
(***************************************************************************)
EXTENDS QueueModel

CONSTANTS
  QmConfigs,      \* configurations: the queue's, dram, shared, sizes
  QmTimes,        \* when a request may arrive
  QmCosts,        \* what the normal distribution of access times may give
  QmMaxRequests   \* bound: requests made

VARIABLES
  qmCfg,      \* the configuration
  qmQueue,    \* m_queue_model, or m_queue_model_read and _write
  qmEnabled,  \* m_enabled
  qmGlobal,   \* getGlobalTime() of the barrier
  qmTotal,    \* m_num_accesses and the totals
  qmBooked    \* history: when each queue served its requests

qmVars == <<qmCfg, qmQueue, qmEnabled, qmGlobal, qmTotal, qmBooked>>
-----------------------------------------------------------------------------
(***************************************************************************)
(* The DRAM models.  c.dram is the type; only "readwrite" has two queues.  *)
(***************************************************************************)
QmInit ==
  /\ qmCfg \in QmConfigs
  /\ qmQueue = [k \in {"read", "write"} |-> NewQueue(qmCfg)]
  /\ qmEnabled = FALSE /\ qmGlobal = 0
  /\ qmTotal = [accesses |-> 0, latency |-> 0, queueing |-> 0]
  /\ qmBooked = [k \in {"read", "write"} |-> <<>>]

(* The queues an access goes through, the one whose delay it sees first. *)
QueuesOf(kind) ==
  CASE qmCfg.dram # "readwrite"             -> <<"read">>
    [] kind = "read" /\ qmCfg.shared        -> <<"read", "write">>
    [] OTHER                                -> <<kind>>

getAccessLatency(t, p, kind, cost) ==
  LET used == Range(QueuesOf(kind))
      res  == [k \in used |-> computeQueueDelay(qmCfg, qmQueue[k], t, p, qmGlobal)]
      wait == res[QueuesOf(kind)[1]].delay
      at(k) == t + res[k].delay
  IN  /\ qmQueue' = [k \in DOMAIN qmQueue |-> IF k \in used THEN res[k].q ELSE qmQueue[k]]
      /\ qmTotal' = [accesses |-> qmTotal.accesses + 1,
                     latency |-> qmTotal.latency + wait + p + cost,
                     queueing |-> qmTotal.queueing + wait]
      /\ qmBooked' = [k \in DOMAIN qmBooked |->
                        IF k \in used /\ Books(qmCfg, qmQueue[k], t, p)
                        THEN Append(qmBooked[k], [from |-> at(k), to |-> at(k) + p])
                        ELSE qmBooked[k]]

(* A disabled model, or one asked by a core that runs no application, *)
(* returns at once.                                                   *)
Access(cost) ==
  /\ qmEnabled /\ qmTotal.accesses < QmMaxRequests
  /\ \E t \in QmTimes, p \in qmCfg.sizes, kind \in {"read", "write"} :
       getAccessLatency(t, p, kind, cost)
  /\ UNCHANGED <<qmCfg, qmEnabled, qmGlobal>>

AccessConstant == qmCfg.dram = "constant" /\ Access(Min(QmCosts))
AccessNormal == qmCfg.dram = "normal" /\ \E cost \in QmCosts : Access(cost)
AccessReadWrite == qmCfg.dram = "readwrite" /\ Access(Min(QmCosts))

Enable == ~qmEnabled /\ qmEnabled' = TRUE /\ UNCHANGED <<qmCfg, qmQueue, qmGlobal, qmTotal, qmBooked>>
Disable == /\ qmEnabled /\ qmTotal.accesses = QmMaxRequests /\ qmEnabled' = FALSE
           /\ UNCHANGED <<qmCfg, qmQueue, qmGlobal, qmTotal, qmBooked>>

(* The barrier lets simulated time go on. *)
GlobalTime ==
  /\ qmCfg.model = "windowed_mg1"
  /\ \E t \in QmTimes : t > qmGlobal /\ qmGlobal' = t
  /\ UNCHANGED <<qmCfg, qmQueue, qmEnabled, qmTotal, qmBooked>>

QmNext == AccessConstant \/ AccessNormal \/ AccessReadWrite \/ Enable \/ Disable \/ GlobalTime

QmSpec == QmInit /\ [][QmNext]_qmVars
-----------------------------------------------------------------------------
Apart(a, b) == a.to <= b.from \/ b.to <= a.from

(***************************************************************************)
(* When all requests have the size the queue was made for (those of a DRAM *)
(* controller do: a cache line), no two requests are served at the same    *)
(* time, in whatever order their times arrive and however many of the old  *)
(* intervals computeUsingHistoryList has dropped: neither two reads, nor,  *)
(* in the queue of the writes, a write and a read that shares its bus.     *)
(***************************************************************************)
NeverDoubleBooked ==
  qmCfg.sizes = {qmCfg.min} =>
    \A k \in DOMAIN qmBooked : \A i, j \in DOMAIN qmBooked[k] :
      i < j => Apart(qmBooked[k][i], qmBooked[k][j])

(***************************************************************************)
(* The assertions of queue_model_history_list.cc and the division in the   *)
(* moving average: whatever the sizes, a free interval is found for every  *)
(* request, the list does not outgrow its limit, and the analytical model  *)
(* is not asked for an average before there is a delay to average.         *)
(***************************************************************************)
HistoryUsable ==
  qmCfg.model = "history_list" =>
    \A k \in DOMAIN qmQueue :
      LET q == qmQueue[k] IN
        /\ q.list # <<>> /\ Len(q.list) <= qmCfg.window
        /\ Last(q.list)[2] = QmModulus \div 2
        /\ \A t \in QmTimes, p \in qmCfg.sizes :
             IF IsOld(qmCfg, q, t, p) THEN q.avg # <<>>
             ELSE \E i \in DOMAIN q.list : \/ t >= q.list[i][1] /\ t + p <= q.list[i][2]
                                           \/ t < q.list[i][1]

\* The queues in front of DRAM serve one request at a time and stay usable.
QueuesSound == NeverDoubleBooked /\ HistoryUsable
=============================================================================
