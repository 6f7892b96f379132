---------------------------- MODULE ContentionModel ----------------------------
(***************************************************************************)
(* The time-based resource of src/performance_model/contention_model.cc: a *)
(* unit that can have m_num_outstanding requests in progress.  It backs    *)
(* the load and store queues of the core models, the MSHRs and tag ports   *)
(* of the caches and the links of the bus.  A queue q is a record: q.time  *)
(* is m_time (until when each slot is taken, and for which tag) and q.last *)
(* is m_t_last.  Times are natural numbers; MaxTime is later than all.     *)
(***************************************************************************)
EXTENDS Naturals, Sequences, FiniteSets, FiniteSetsExt

CONSTANT MaxTime

Earlier(a, b) == IF a <= b THEN a ELSE b
Later(a, b) == IF a >= b THEN a ELSE b

NewContention(n) ==
    [time |-> [i \in 1..n |-> [until |-> 0, tag |-> 0]], last |-> 0]

getNumUsed(q, t) == Cardinality({i \in DOMAIN q.time : q.time[i].until > t})

(* A free slot, or one already in process for the same tag. *)
hasFreeSlot(q, t, tag) ==
    \E i \in DOMAIN q.time : q.time[i].until <= t \/ q.time[i].tag = tag

(* NoTag is the default argument of hasFreeSlot, (UInt64)-1: no slot has it. *)
NoTag == MaxTime

getTagCompletionTime(q, tag) ==
    LET with == {i \in DOMAIN q.time : q.time[i].tag = tag}
    IN  IF with = {} THEN MaxTime ELSE q.time[Min(with)].until

(* The slot the loops look for: the first one that is free at t, else the  *)
(* first of those that are free soonest.                                   *)
FirstFree(q, t) ==
    LET free == {i \in DOMAIN q.time : q.time[i].until <= t}
        soon == {i \in DOMAIN q.time : \A j \in DOMAIN q.time :
                                            q.time[i].until <= q.time[j].until}
    IN  IF free # {} THEN Min(free) ELSE Min(soon)

getStartTime(q, t) ==
    IF q.time = <<>> \/ t < q.last THEN t
    ELSE Later(t, q.time[FirstFree(q, t)].until)

(* A request that starts at t and takes d: when it ends, and the queue     *)
(* afterwards.  A request at time zero, and one that starts before the     *)
(* last one seen, occupy no slot.                                          *)
getCompletionTime(q, t, d, tag) ==
    LET u == FirstFree(q, t)
        end == Later(t, q.time[u].until) + d
    IN  IF q.time = <<>> \/ t = 0 \/ t < q.last
        THEN [end |-> t + d, q |-> q]
        ELSE [end |-> end,
              q |-> [time |-> [q.time EXCEPT ![u] = [until |-> end, tag |-> tag]],
                     last |-> t]]

(* All slots together, once the last of them is free. *)
getBarrierCompletionTime(q, t, d, tag) ==
    LET max == Max({t} \cup {q.time[i].until : i \in DOMAIN q.time})
    IN  IF q.time = <<>> THEN [end |-> t + d, q |-> q]
        ELSE [end |-> max + d,
              q |-> [q EXCEPT !.time = [i \in DOMAIN q.time |->
                                            [until |-> max + d, tag |-> tag]]]]

=============================================================================
