---------------------------- MODULE MCAdministration ----------------------------
(***************************************************************************)
(* Values for the constants of Administration, and what of them may be     *)
(* exchanged.                                                              *)
(***************************************************************************)
EXTENDS Administration, TLC

Symm == Permutations(Call) \cup Permutations(Password) \cup Permutations(Code)
===============================================================================
