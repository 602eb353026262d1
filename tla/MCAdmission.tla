------------------------------ MODULE MCAdmission ------------------------------
(***************************************************************************)
(* Small instances of Admission for TLC.                                   *)
(***************************************************************************)
EXTENDS Admission, TLC

Symmetric == Permutations(Calls) \cup Permutations(Runners)
===============================================================================
