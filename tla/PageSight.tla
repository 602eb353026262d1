------------------------------- MODULE PageSight -------------------------------
(***************************************************************************)
(* What one poll of the meeting's page can conclude, shared by the call    *)
(* loop (module MeetingBot) and by the reads of a poll (module PagePoll).  *)
(***************************************************************************)

(* "in_call" is the toolbar with no waiting notice, "contradiction" is both; *)
(* blocked is a wall, which only a bot that waits for admission looks for.   *)
Sights ==
  [notice : {"none", "removed", "ended"},
   controls : {"in_call", "contradiction", "none"},
   blocked : BOOLEAN,
   room : {"others", "alone", "unknown"}]
================================================================================
