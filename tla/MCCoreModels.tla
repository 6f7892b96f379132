---------------------------- MODULE MCCoreModels ----------------------------
(***************************************************************************)
(* The core performance models for TLC: the out-of-order timers, the       *)
(* interval model, the barrier of the hardware threads of a core, the      *)
(* simple performance models and the branch predictors.  A simulation      *)
(* builds one of them for a core and they share no state, so every         *)
(* behaviour is one of a single component; the others rest.                *)
(***************************************************************************)
EXTENDS RobSmtTimer, IntervalTimer, SmtTimer, PerformanceModel, BranchPredictors

VARIABLE part   \* the component that takes the steps

allVars == <<part, robVars, smtVars, itVars, smtBarrierVars, pmVars, bpVars>>
-----------------------------------------------------------------------------
(* Constants                                                               *)
\* Micro-operations for the out-of-order timers: sources, address registers,
\* destinations, the line accessed, its latency, the latency of the fetch.
RobUop(k, c, src, adr, dst, mem, lat, ic, mis) ==
  [kind |-> k, class |-> c, src |-> src, adr |-> adr, dst |-> dst, mem |-> mem,
   lat |-> lat, ic |-> ic, mis |-> mis]
NopUop == RobUop("exec", "int", {}, {}, {}, 0, 0, 0, FALSE)
StoreUop == RobUop("store", "store", {1, 2}, {2}, {}, 1, 3, 0, FALSE)
RobUopSet ==
  {RobUop("exec", "div", {}, {}, {1}, 0, 0, 0, FALSE), RobUop("exec", "int", {1}, {}, {2}, 0, 0, 0, FALSE),
   RobUop("exec", "int", {}, {}, {1}, 0, 0, 3, FALSE), StoreUop,
   RobUop("load", "load", {}, {}, {1}, 1, 4, 0, FALSE), RobUop("load", "load", {}, {}, {2}, 1, 0, 0, FALSE),
   RobUop("branch", "branch", {1}, {}, {}, 0, 0, 0, TRUE),
   RobUop("membar", "int", {}, {}, {}, 0, 0, 0, FALSE), RobUop("serial", "int", {}, {}, {}, 0, 0, 0, FALSE)}
SmtUopSet ==
  {RobUop("exec", "mul", {}, {}, {1}, 0, 0, 0, FALSE), StoreUop,
   RobUop("branch", "branch", {1}, {}, {}, 0, 0, 3, TRUE)}

RobConfig(w, win, rs, stlf, dis, ino, model) ==
  [width |-> w, commit |-> 2, window |-> win, rs |-> rs, penalty |-> 5, loads |-> 1, stores |-> 1,
   cutoff |-> 3, stlf |-> stlf, disambiguation |-> dis, inorder |-> ino, model |-> model]
RobConfigSet ==
  {RobConfig(1, 3, 2, FALSE, TRUE, FALSE, "none"), RobConfig(2, 4, 3, TRUE, FALSE, FALSE, "nehalem"),
   RobConfig(2, 3, 2, TRUE, TRUE, TRUE, "cortex-a53"), RobConfig(2, 4, 2, FALSE, FALSE, FALSE, "riscv"),
   RobConfig(2, 4, 3, TRUE, TRUE, FALSE, "cortex-a72")}
SmtConfig(base, both) ==
  [f \in DOMAIN base \cup {"threads", "repartition", "simultaneous"} |->
     CASE f = "threads" -> 2 [] f \in {"repartition", "simultaneous"} -> both [] OTHER -> base[f]]
SmtConfigSet ==
  {SmtConfig(RobConfig(1, 4, 2, FALSE, TRUE, FALSE, "none"), TRUE),
   SmtConfig(RobConfig(1, 6, 3, TRUE, FALSE, FALSE, "nehalem"), FALSE)}

\* Micro-operations for the interval model: distances to the producers, the
\* line accessed, latencies, misprediction, dependence on a barrier.
ItUop(k, cl, d, ln, lat, ic, mis, bar, last) ==
  [kind |-> k, class |-> cl, deps |-> d, line |-> ln, lat |-> lat, ic |-> ic, mis |-> mis,
   bar |-> bar, last |-> last]
ItUopSet ==
  {ItUop("int", "int", {1}, 0, 1, 0, FALSE, FALSE, TRUE), ItUop("int", "fpadd", {1, 2}, 0, 3, 0, FALSE, FALSE, FALSE),
   ItUop("load", "load", {}, 1, 2, 0, FALSE, FALSE, TRUE), ItUop("load", "load", {1}, 2, 9, 0, FALSE, FALSE, TRUE),
   ItUop("load", "load", {2}, 1, 9, 2, FALSE, TRUE, TRUE), ItUop("store", "store", {1}, 1, 6, 0, FALSE, FALSE, TRUE),
   ItUop("branch", "branch", {1, 2}, 0, 1, 3, TRUE, FALSE, TRUE),
   ItUop("membar", "int", {}, 0, 1, 0, FALSE, TRUE, TRUE), ItUop("serial", "int", {}, 0, 1, 0, FALSE, FALSE, TRUE)}
ItConfig(w, s, p, cut, l, model, late) ==
  [width |-> w, size |-> s, penalty |-> p, cutoff |-> cut, loads |-> l, model |-> model, late |-> late]
ItConfigSet ==
  {ItConfig(2, 2, 2, 5, 1, "nehalem", TRUE), ItConfig(1, 3, 2, 5, 0, "none", FALSE),
   ItConfig(2, 3, 1, 4, 2, "riscv", TRUE)}

\* Instructions with their loads, executes and stores, by the lines accessed.
PmMicroOp ==
  [model |-> "microop", period |-> 4, cutoff |-> 1, branchCost |-> 1, cpi |-> 4, mem |-> TRUE, branch |-> 5]
PmConfigSet ==
  {PmMicroOp, [PmMicroOp EXCEPT !.mem = FALSE, !.cutoff = 0], [PmMicroOp EXCEPT !.model = "oneipc"]}
PmInstr(k, l, e, s) == [kind |-> k, loads |-> l, execs |-> e, stores |-> s]
PmInstrSet ==
  {PmInstr("plain", <<1, 2, 1, 2>>, 1, <<>>), PmInstr("plain", <<1, 1, 2>>, 2, <<3, 3, 4>>),
   PmInstr("plain", <<>>, 0, <<1, 2, 1, 1>>), PmInstr("plain", <<1, 1>>, 0, <<1, 1>>),
   PmInstr("branch", <<>>, 0, <<>>)}
PmPseudoSet ==
  {[kind |-> p[1], cost |-> p[2]] :
     p \in {<<"sync", 6>>, <<"recv", 3>>, <<"delay", 3>>, <<"mem", 3>>, <<"mem", 5>>, <<"tlb", 3>>, <<"unknown", 0>>}}

\* Branches: always the same way, a loop of n iterations, or anything.
Steady(i, d)   == [ip |-> i, kind |-> "steady", len |-> 0, dir |-> d]
Looping(i, n, d) == [ip |-> i, kind |-> "loop", len |-> n, dir |-> d]
Anything(i)    == [ip |-> i, kind |-> "free", len |-> 0, dir |-> TRUE]
BpConfig(t, z, bits, ways, tags, entries, br) ==
  [type |-> t, size |-> z, bits |-> bits, sets |-> 1, ways |-> ways, tags |-> tags,
   entries |-> entries, branches |-> br]
BpThree == {Steady(1, TRUE), Steady(2, FALSE), Anything(3)}
BpConfigSet ==
  {BpConfig(t, 4, 2, 2, 4, 3, BpThree) : t \in {"one_bit", "1bittest", "2bittest", "n_bit", "bimodal"}}
  \cup {BpConfig("n_bit", 4, 3, 2, 4, 3, BpThree), BpConfig("tournament", 4, 2, 1, 4, 1, {Anything(2)})}
  \cup {BpConfig("pentium_m", 2, 2, 2, 4, 2, {Looping(2, n, d)}) : n \in {1, 3}, d \in BOOLEAN}
  \cup {BpConfig("pentium_m", 2, 2, 1, 4, 2, {Looping(2, 2, d), Steady(4, TRUE)}) : d \in BOOLEAN}
  \cup {BpConfig("pentium_m", 2, 2, 2, 2, 2, {Looping(2, 2, d), Looping(4, 3, TRUE)}) : d \in BOOLEAN}
  \cup {BpConfig("pentium_m", 2, 2, 1, 2, 1, {Looping(2, 3, FALSE), Anything(4)})}
-----------------------------------------------------------------------------
RestRob     == robCfg = RobConfig(1, 3, 2, FALSE, TRUE, FALSE, "none") /\ RobInit
RestRobSmt  == smtCfg = SmtConfig(RobConfig(1, 4, 2, FALSE, TRUE, FALSE, "none"), TRUE) /\ SmtInit
RestIt      == itCfg = ItConfig(2, 2, 2, 5, 1, "nehalem", TRUE) /\ ItInit
RestSmt     == smDirect = FALSE /\ SmtBarrierInit
RestPm      == pmCfg = PmMicroOp /\ PmInit
RestBp      == bpCfg = BpConfig("one_bit", 4, 2, 2, 4, 3, BpThree) /\ BpInit

MCInit ==
  \/ part = "rob" /\ RobInit /\ RestRobSmt /\ RestIt /\ RestSmt /\ RestPm /\ RestBp
  \/ part = "robsmt" /\ SmtInit /\ RestRob /\ RestIt /\ RestSmt /\ RestPm /\ RestBp
  \/ part = "interval" /\ ItInit /\ RestRob /\ RestRobSmt /\ RestSmt /\ RestPm /\ RestBp
  \/ part = "barrier" /\ SmtBarrierInit /\ RestRob /\ RestRobSmt /\ RestIt /\ RestPm /\ RestBp
  \/ part = "simple" /\ PmInit /\ RestRob /\ RestRobSmt /\ RestIt /\ RestSmt /\ RestBp
  \/ part = "branch" /\ BpInit /\ RestRob /\ RestRobSmt /\ RestIt /\ RestSmt /\ RestPm

MCNext ==
  /\ UNCHANGED part
  /\ \/ part = "rob" /\ RobNext
        /\ UNCHANGED <<smtVars, itVars, smtBarrierVars, pmVars, bpVars>>
     \/ part = "robsmt" /\ SmtNext
        /\ UNCHANGED <<robVars, itVars, smtBarrierVars, pmVars, bpVars>>
     \/ part = "interval" /\ ItNext
        /\ UNCHANGED <<robVars, smtVars, smtBarrierVars, pmVars, bpVars>>
     \/ part = "barrier" /\ SmtBarrierNext
        /\ UNCHANGED <<robVars, smtVars, itVars, pmVars, bpVars>>
     \/ part = "simple" /\ PmNext
        /\ UNCHANGED <<robVars, smtVars, itVars, smtBarrierVars, bpVars>>
     \/ part = "branch" /\ BpNext
        /\ UNCHANGED <<robVars, smtVars, itVars, smtBarrierVars, pmVars>>

MCSpec == MCInit /\ [][MCNext]_allVars
=============================================================================
