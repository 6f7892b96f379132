-------------------------- MODULE MCCoherentMemory --------------------------
(***************************************************************************)
(* CoherentMemory for TLC: caches, cores and lines are model values.       *)
(***************************************************************************)
EXTENDS CoherentMemory, TLC

CONSTANTS c1, c2, c3, l1, l2, l3

\* Every core has a last-level cache of its own, or c1 and c3 share one.
PrivateLlcs == [c \in Cores |-> CASE c = c1 -> l1 [] c = c2 -> l2 [] c = c3 -> l3]
SharedLlc   == [c \in Cores |-> CASE c = c1 -> l1 [] c = c2 -> l2 [] c = c3 -> l1]

\* Cores with private caches are interchangeable together with their caches.
\* Used where no temporal property is checked.
NodeSymmetry ==
  {p @@ [l \in LLCs |-> LlcOf[p[CHOOSE c \in Cores : LlcOf[c] = l]]] :
     p \in Permutations(Cores)}
LineSymmetry == {p @@ q : p \in NodeSymmetry, q \in Permutations(Addrs)}
=============================================================================
