---------------------------- MODULE MCBarrierSync ----------------------------
(***************************************************************************)
(* BarrierSyncServer for TLC.  No operation tells cores apart, and only    *)
(* invariants are checked, so the cores may be permuted.                   *)
(***************************************************************************)
EXTENDS BarrierSyncServer, TLC

CoreSymmetry == Permutations(Cores)
=============================================================================
