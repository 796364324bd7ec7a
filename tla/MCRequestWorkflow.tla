--------------------------- MODULE MCRequestWorkflow ---------------------------
(***************************************************************************)
(* Values for the constants of RequestWorkflow.                            *)
(***************************************************************************)
EXTENDS RequestWorkflow, TLC

Symm == Permutations(Expert)
===============================================================================
