----------------------------- MODULE MCBotProcess -----------------------------
(***************************************************************************)
(* A bot with short timeouts in the order of the defaults: the grace is    *)
(* shorter than an empty room's wait and the recording limit the longest.  *)
(***************************************************************************)
EXTENDS BotProcess
===============================================================================
