--------------------------- MODULE MCMemoryModels ---------------------------
(***************************************************************************)
(* The models behind a memory access for TLC: replacement in one cache     *)
(* set, the hierarchy of caches of one tile with the DRAM cache, the DRAM  *)
(* performance model with its queues, the network, the prefetchers, and    *)
(* the caches beside the hierarchy.  The modules share the queue models    *)
(* and no state, so every behaviour is one of a single component; the      *)
(* others rest in an initial state.                                        *)
(***************************************************************************)
EXTENDS CacheSets, CacheHierarchy, DramPerfModel, Network, Prefetchers, SideCaches, TLC

VARIABLE part   \* the component that takes the steps

allVars == <<part, csVars, chVars, qmVars, netVars, pfVars, scVars>>
-----------------------------------------------------------------------------
(* Constants                                                               *)
CsConfig(p, a, tries, max) == [policy |-> p, assoc |-> a, attempts |-> tries, max |-> max]
CsConfigSet ==
  {CsConfig("lru", 4, 1, 0), CsConfig("lru_qbs", 3, 2, 0), CsConfig("lru_qbs", 3, 3, 0),
   CsConfig("mru", 3, 1, 0), CsConfig("nmru", 3, 1, 0), CsConfig("nru", 4, 1, 0),
   CsConfig("plru", 4, 1, 0), CsConfig("srrip", 3, 1, 3), CsConfig("srrip_qbs", 3, 2, 3),
   CsConfig("random", 3, 1, 0), CsConfig("round_robin", 3, 1, 0)}

\* Hierarchies: an L1-D and an L1-I over private L2 and L3; two cores that
\* share the L2; two cores with private L2s that share the L3.
ChPrivate == "d1" :> "l2" @@ "i1" :> "l2" @@ "l2" :> "l3" @@ "l3" :> ChNone
ChShared2 == "d1" :> "l2" @@ "d2" :> "l2" @@ "l2" :> ChNone
ChShared3 == "d1" :> "p1" @@ "d2" :> "p2" @@ "p1" :> "l3" @@ "p2" :> "l3" @@ "l3" :> ChNone
ChConfig(cores, fetch, next, fetcher) ==
  [cores |-> cores, fetch |-> fetch, next |-> next,
   ways |-> [c \in DOMAIN next |-> IF next[c] = ChNone THEN 2 ELSE 1],
   through |-> [c \in DOMAIN next |-> FALSE], incoherent |-> {}, perfect |-> {}, pass |-> {},
   fetcher |-> fetcher, dramways |-> 0]
ChFetching == ChConfig(<<"d1">>, <<"i1">>, ChPrivate, {"d1"})
ChOneCore == ChConfig(<<"d1">>, <<ChNone>>, ChPrivate, {"d1"})
ChConfigSet ==
  {ChFetching, [ChFetching EXCEPT !.incoherent = {"i1"}, !.fetcher = {}],
   [ChOneCore EXCEPT !.through["d1"] = TRUE], [ChOneCore EXCEPT !.dramways = 1, !.fetcher = {}],
   [ChOneCore EXCEPT !.perfect = {"l2"}], [ChOneCore EXCEPT !.perfect = {"d1"}, !.fetcher = {}],
   [ChOneCore EXCEPT !.pass = {"l2"}], [ChOneCore EXCEPT !.pass = {"d1"}, !.fetcher = {}],
   ChConfig(<<"d1", "d2">>, <<ChNone, ChNone>>, ChShared2, {"d1"}),
   ChConfig(<<"d1", "d2">>, <<ChNone, ChNone>>, ChShared3, {})}
ChNextLines == "a" :> <<"b", "c">> @@ "b" :> <<>> @@ "c" :> <<>>

QmConfig(d, sh, model, min, sizes, window, an, av) ==
  [dram |-> d, shared |-> sh, model |-> model, min |-> min, sizes |-> sizes, window |-> window,
   analytical |-> an, average |-> av]
QmConfigSet ==
  {QmConfig("constant", FALSE, "history_list", 2, {2}, 3, TRUE, "none"),
   QmConfig("constant", FALSE, "history_list", 1, {1, 3}, 3, TRUE, "none"),
   QmConfig("readwrite", TRUE, "history_list", 2, {2}, 2, FALSE, "none"),
   QmConfig("readwrite", TRUE, "basic", 2, {2}, 2, FALSE, "none"),
   QmConfig("normal", FALSE, "basic", 1, {1}, 2, FALSE, "arithmetic"),
   QmConfig("constant", FALSE, "basic", 1, {1}, 3, FALSE, "geometric"),
   QmConfig("constant", FALSE, "basic", 1, {1}, 3, FALSE, "median"),
   QmConfig("readwrite", FALSE, "contention", 2, {2}, 2, FALSE, "none"),
   QmConfig("constant", FALSE, "windowed_mg1", 2, {2, 3}, 3, FALSE, "none")}

NetQueue == [model |-> "basic", min |-> 1, window |-> 2, analytical |-> FALSE, average |-> "none"]
NetConfig(model, apps, total, dims, size, queued, controllers, packets) ==
  [model |-> model, apps |-> apps, total |-> total, conc |-> 1, dims |-> dims, size |-> size,
   wrap |-> FALSE, tree |-> FALSE, queued |-> queued, queue |-> NetQueue, hop |-> 2, serial |-> 1,
   local |-> TRUE, bcast |-> FALSE, receivers |-> {}, controllers |-> controllers, packets |-> packets]
Mesh == "emesh_hop_by_hop"
NetConfigSet ==
  {NetConfig(Mesh, 6, 6, 2, <<3, 2>>, TRUE, 4, 1),
   [NetConfig(Mesh, 5, 6, 1, <<>>, FALSE, 3, 1) EXCEPT !.wrap = TRUE],
   [NetConfig(Mesh, 6, 6, 2, <<3, 2>>, FALSE, 5, 1) EXCEPT !.wrap = TRUE],
   NetConfig(Mesh, 4, 4, 2, <<>>, TRUE, 3, 2),
   [NetConfig(Mesh, 4, 5, 2, <<>>, TRUE, 1, 1) EXCEPT !.conc = 2],
   [NetConfig(Mesh, 3, 3, 1, <<>>, FALSE, 2, 1) EXCEPT !.bcast = TRUE, !.receivers = {0}],
   [NetConfig(Mesh, 2, 2, 1, <<>>, FALSE, 2, 1) EXCEPT !.bcast = TRUE, !.tree = TRUE],
   NetConfig("bus", 2, 3, 1, <<>>, TRUE, 2, 2), NetConfig("emesh_hop_counter", 3, 4, 1, <<>>, TRUE, 2, 1),
   [NetConfig("magic", 2, 2, 1, <<>>, TRUE, 1, 2) EXCEPT !.bcast = TRUE, !.receivers = {0}]}

PfGhb(size, table, width, steps, max) ==
  [kind |-> "ghb", cores |-> 1, size |-> size, table |-> table, width |-> width, depth |-> 2,
   steps |-> steps, max |-> max]
PfSimple(cores, percore, stop, steps, max) ==
  [kind |-> "simple", cores |-> cores, flows |-> 2, percore |-> percore, page |-> 8, num |-> 2,
   stop |-> stop, steps |-> steps, max |-> max]
PfConfigSet ==
  {PfGhb(2, 2, 2, {1, 3}, 13), PfGhb(3, 2, 2, {1, 3}, 10), PfGhb(3, 1, 1, {1, -2}, 9),
   PfSimple(2, TRUE, TRUE, {0, 3, -1}, 5), PfSimple(1, FALSE, FALSE, {1, -9, 6}, 5),
   [kind |-> "a53", cores |-> 1, line |-> 2, pattern |-> 3, consecutive |-> 2, num |-> 2,
    steps |-> {0, 2, -2, 5}, max |-> 6]}

ScConfig(kind, ways, tags, max) ==
  [kind |-> kind, ways |-> ways, next |-> 2, cores |-> 2, sets |-> 1, sampling |-> "full", tags |-> tags, max |-> max]
ScConfigSet ==
  {ScConfig("tlb", 2, 4, 5), [ScConfig("tlb", 2, 3, 4) EXCEPT !.next = 0], ScConfig("nuca", 2, 3, 5),
   ScConfig("atd", 2, 3, 3), [ScConfig("atd", 1, 6, 2) EXCEPT !.sets = 6, !.sampling = "2^n+1"],
   [ScConfig("atd", 1, 3, 3) EXCEPT !.sets = 2, !.sampling = "random", !.cores = 1]}
-----------------------------------------------------------------------------
RestSets      == csCfg = CsConfig("lru", 4, 1, 0) /\ CsInit
RestHierarchy == chCfg = ChFetching /\ ChInit
RestDram      == qmCfg = QmConfig("constant", FALSE, "basic", 1, {1}, 3, FALSE, "median") /\ QmInit
RestNetwork   == netCfg = NetConfig("bus", 2, 3, 1, <<>>, TRUE, 2, 2) /\ netEnabled = TRUE /\ NetInit
RestFetchers  == pfCfg = PfGhb(2, 2, 2, {1, 3}, 13) /\ PfInit
RestSide      == scCfg = ScConfig("tlb", 2, 4, 5) /\ ScInit

MCInit ==
  \/ part = "sets" /\ CsInit /\ RestHierarchy /\ RestDram /\ RestNetwork /\ RestFetchers /\ RestSide
  \/ part = "hierarchy" /\ ChInit /\ RestSets /\ RestDram /\ RestNetwork /\ RestFetchers /\ RestSide
  \/ part = "dram" /\ QmInit /\ RestSets /\ RestHierarchy /\ RestNetwork /\ RestFetchers /\ RestSide
  \/ part = "network" /\ NetInit /\ RestSets /\ RestHierarchy /\ RestDram /\ RestFetchers /\ RestSide
  \/ part = "prefetchers" /\ PfInit /\ RestSets /\ RestHierarchy /\ RestDram /\ RestNetwork /\ RestSide
  \/ part = "side" /\ ScInit /\ RestSets /\ RestHierarchy /\ RestDram /\ RestNetwork /\ RestFetchers

MCNext ==
  /\ UNCHANGED part
  /\ \/ part = "sets" /\ CsNext /\ UNCHANGED <<chVars, qmVars, netVars, pfVars, scVars>>
     \/ part = "hierarchy" /\ ChNext /\ UNCHANGED <<csVars, qmVars, netVars, pfVars, scVars>>
     \/ part = "dram" /\ QmNext /\ UNCHANGED <<csVars, chVars, netVars, pfVars, scVars>>
     \/ part = "network" /\ NetNext /\ UNCHANGED <<csVars, chVars, qmVars, pfVars, scVars>>
     \/ part = "prefetchers" /\ PfNext /\ UNCHANGED <<csVars, chVars, qmVars, netVars, scVars>>
     \/ part = "side" /\ ScNext /\ UNCHANGED <<csVars, chVars, qmVars, netVars, pfVars>>

MCSpec == MCInit /\ [][MCNext]_allVars
-----------------------------------------------------------------------------
\* The tables beside the caches do what they are there for: prefetchers propose
\* what the history repeats, TLBs keep the pages used last, the NUCA slice keeps
\* what was written twice, and the ATDs count what a private cache would do.
TablesSound == PrefetchersSound /\ SideCachesSound
=============================================================================
