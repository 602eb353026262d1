------------------------------ MODULE MCBotRunner ------------------------------
(***************************************************************************)
(* Small instances of BotRunner for TLC.                                   *)
(***************************************************************************)
EXTENDS BotRunner, TLC

Symmetric == Permutations(Calls) \cup Permutations(Runners)
===============================================================================
