----------------------------- MODULE MC_Events -----------------------------
(***************************************************************************)
(* Instances of Events for model checking.  Event names are interchangeable*)
(* and so are the modules' callbacks.                                      *)
(***************************************************************************)
EXTENDS Events, TLC

Symmetry == Permutations(Names) \cup Permutations(Callbacks \ Core)
=============================================================================
