----------------------------- MODULE MC_Master ------------------------------
(***************************************************************************)
(* MasterDaemon for TLC.  The process ids are interchangeable, which the   *)
(* runs of invariants use.                                                 *)
(***************************************************************************)
EXTENDS MasterDaemon, TLC

Symmetry == Permutations(Pids)
=============================================================================
