--------------------------- MODULE MCAudioRetention ---------------------------
(***************************************************************************)
(* Small instances of AudioRetention for TLC.                              *)
(***************************************************************************)
EXTENDS AudioRetention, TLC

Symmetric == Permutations(Calls)
===============================================================================
