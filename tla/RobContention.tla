----------------------------- MODULE RobContention -----------------------------
(***************************************************************************)
(* Issue contention of the four core models                                *)
(* (performance_models/core_model/ and rob_performance_model/              *)
(* rob_contention_*.cc): which issue port and functional unit a micro-op   *)
(* uses, how long it takes, and whether it still fits in the cycle.        *)
(* Opcodes are abstracted to the classes the tables tell apart.  p.used    *)
(* says how often each port, or counter of a group of ports, was taken in  *)
(* this cycle; p.alu is alu_used_until.                                    *)
(***************************************************************************)
EXTENDS Naturals, FiniteSets

(* Classes of micro-ops.  A barrier micro-op is a generic execute micro-op. *)
UopClasses == {"int", "mul", "div", "fpadd", "fpmul", "load", "store", "branch"}

NehalemPort ==
    [int |-> "015", mul |-> "1", div |-> "015", fpadd |-> "1", fpmul |-> "0",
     load |-> "2", store |-> "34", branch |-> "5"]

BoomPort ==
    [int |-> "012", mul |-> "0", div |-> "1", fpadd |-> "0", fpmul |-> "0",
     load |-> "2", store |-> "2", branch |-> "012"]

A72Port ==
    [int |-> "12", mul |-> "3", div |-> "3", fpadd |-> "4", fpmul |-> "5",
     load |-> "6", store |-> "7", branch |-> "0"]

A53Port ==
    [int |-> "12", mul |-> "1", div |-> "2", fpadd |-> "34", fpmul |-> "34",
     load |-> "5", store |-> "5", branch |-> "0"]

getPort(model, class) ==
    CASE model = "nehalem" -> NehalemPort[class]
      [] model = "riscv" -> BoomPort[class]
      [] model = "cortex-a72" -> A72Port[class]
      [] model = "cortex-a53" -> A53Port[class]

(* getInstructionLatency: the execution latency without the memory access. *)
NehalemLatency ==
    [int |-> 1, mul |-> 3, div |-> 28, fpadd |-> 3, fpmul |-> 5,
     load |-> 1, store |-> 1, branch |-> 1]

BoomLatency ==
    [int |-> 1, mul |-> 3, div |-> 1, fpadd |-> 4, fpmul |-> 4,
     load |-> 1, store |-> 1, branch |-> 1]

A72Latency ==
    [int |-> 1, mul |-> 3, div |-> 4, fpadd |-> 4, fpmul |-> 4,
     load |-> 1, store |-> 1, branch |-> 1]

A53Latency ==
    [int |-> 1, mul |-> 3, div |-> 3, fpadd |-> 4, fpmul |-> 6,
     load |-> 1, store |-> 1, branch |-> 1]

getInstructionLatency(model, class) ==
    CASE model = "nehalem" -> NehalemLatency[class]
      [] model = "riscv" -> BoomLatency[class]
      [] model = "cortex-a72" -> A72Latency[class]
      [] model = "cortex-a53" -> A53Latency[class]

(* getAlu: the functional unit that is not pipelined, and, with            *)
(* getAluLatency, for how long an instruction keeps it.  The Cortex-A53    *)
(* chooses its unit with the port.                                         *)
getAlu(model, class) ==
    CASE model = "nehalem" /\ class = "div" -> "trig"
      [] model = "riscv" /\ class = "div" -> "trig"
      [] model = "cortex-a72" /\ class = "div" -> "muldiv"
      [] OTHER -> "none"

getAluLatency(model, class) ==
    CASE model = "nehalem" -> IF class = "div" THEN 9 ELSE NehalemLatency[class]
      [] model = "riscv" -> IF class = "div" THEN 32 ELSE BoomLatency[class]
      [] model = "cortex-a72" -> A72Latency[class]
      [] model = "cortex-a53" ->
            (CASE class = "div" -> 3 [] class \in {"mul", "fpadd"} -> 2 [] OTHER -> 0)

Alus == {"trig", "muldiv", "mul", "div", "neon0", "neon1"}
Counters == {"g015", "g05", "0", "1", "2", "34", "5", "int", "multi", "simd",
             "ld", "st", "branch", "int0", "int1", "simd0", "simd1", "ldst", "slots"}

NewContentionPorts == [used |-> [c \in Counters |-> 0], alu |-> [a \in Alus |-> 0]]

(* initCycle *)
initCycle(p) == [p EXCEPT !.used = [c \in Counters |-> 0]]

(* What a micro-op on a port takes: one of each of these counters, each of *)
(* which has a limit.                                                      *)
Takes(model, port) ==
    CASE model = "nehalem" ->
            (CASE port = "015" -> {"g015"}
               [] port = "05" -> {"g05"}
               [] port \in {"2", "34"} -> {port}
               [] port = "1" -> {"1", "g015"}
               [] port \in {"0", "5"} -> {port, "g015", "g05"})
      [] model = "riscv" -> IF port = "012" THEN {"g015"} ELSE {port, "g015"}
      [] model = "cortex-a72" ->
            (CASE port = "0" -> {"branch"} [] port = "12" -> {"int"}
               [] port = "3" -> {"multi"} [] port \in {"4", "5"} -> {"simd"}
               [] port = "6" -> {"ld"} [] port = "7" -> {"st"})
      [] model = "cortex-a53" ->
            (CASE port = "0" -> {"branch", "slots"} [] port = "5" -> {"ldst", "slots"}
               [] port = "1" -> {"int0", "slots"} [] port = "2" -> {"int1", "slots"}
               [] OTHER -> {"slots"})

Limit(c) == CASE c = "g015" -> 3 [] c \in {"g05", "int", "simd", "slots"} -> 2 [] OTHER -> 1

(* issueIntegerPorts, issueNEONPorts and the fixed ports of the Cortex-A53: *)
(* the pipe that is taken and the unit behind it.  Pipe 0 of the integer    *)
(* ports is the multiplier, pipe 1 the divider.                             *)
A53Pipe(used, port) ==
    CASE port = "12" -> IF used["int0"] = 0 THEN "int0" ELSE "int1"
      [] port = "34" -> IF used["simd0"] = 0 THEN "simd0" ELSE "simd1"
      [] port = "1" -> "int0" [] port = "2" -> "int1" [] OTHER -> "none"
A53Unit == [int0 |-> "mul", int1 |-> "div", simd0 |-> "neon0", simd1 |-> "neon1"]

Take(p, cs) == [p EXCEPT !.used = [c \in Counters |->
                                     IF c \in cs THEN @[c] + 1 ELSE @[c]]]

(* RobContention*::tryIssue.  The ports are taken before the functional    *)
(* unit is looked at, and stay taken for the cycle when that one is busy.  *)
tryIssue(model, p, class, now) ==
    LET port == getPort(model, class)
        pipe == IF model = "cortex-a53" THEN A53Pipe(p.used, port) ELSE "none"
        takes == Takes(model, port) \cup (IF pipe = "none" THEN {} ELSE {pipe})
        fits == \A c \in takes : p.used[c] < Limit(c)
        taken == Take(p, takes)
        alu == IF pipe = "none" THEN getAlu(model, class) ELSE A53Unit[pipe]
        busy == alu # "none" /\ p.alu[alu] > now
        lat == getAluLatency(model, class)
    IN  CASE ~fits -> [ok |-> FALSE, p |-> p]
          [] fits /\ busy -> [ok |-> FALSE, p |-> taken]
          [] fits /\ ~busy /\ pipe # "none" /\ lat > 0 ->
                [ok |-> TRUE, p |-> [taken EXCEPT !.alu[alu] = now + lat]]
          [] OTHER -> [ok |-> TRUE, p |-> taken]

(* RobContention*::doIssue; the Cortex-A53 has done it in tryIssue. *)
doIssueContention(model, p, class, now) ==
    LET alu == getAlu(model, class)
    IN  IF alu = "none" THEN p
        ELSE [p EXCEPT !.alu[alu] = now + getAluLatency(model, class)]

(* RobContention*::noMore: every port was used, the walk may stop. *)
noMore(model, p) ==
    CASE model = "nehalem" -> p.used["2"] > 0 /\ p.used["34"] > 0 /\ p.used["g015"] >= 3
      [] model = "riscv" -> p.used["2"] > 0 /\ p.used["g015"] >= 3
      [] OTHER -> FALSE

=============================================================================
