---------------------------- MODULE MC_Dispatch -----------------------------
(***************************************************************************)
(* CommandDispatch for TLC, with the tables of the modules as they are.    *)
(***************************************************************************)
EXTENDS CommandInvariants
=============================================================================
