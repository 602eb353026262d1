------------------------------ MODULE CallStatus ------------------------------
(***************************************************************************)
(* The status vocabulary of a call row, shared by every module: the enum,  *)
(* its two partitions, and the transition table the service layer checks   *)
(* before each status write.  There is no state here.                      *)
(***************************************************************************)

\* Statuses whose row counts against CALL_CONCURRENCY_LIMIT.
ACTIVE_STATUSES == {"queued", "joining", "recording", "processing"}

\* Statuses after which the runner starts no further work for the call.
TERMINAL_STATUSES == {"done", "failed"}

CallStatuses == ACTIVE_STATUSES \cup TERMINAL_STATUSES

\* The table of services/call.py; a status without an entry has no successor.
LEGAL_TRANSITIONS ==
  [s \in CallStatuses |->
     CASE s = "queued"     -> {"joining", "failed"}
       [] s = "joining"    -> {"recording", "failed"}
       [] s = "recording"  -> {"processing", "failed"}
       [] s = "processing" -> {"done", "failed"}
       [] OTHER            -> {}]

\* The check at the head of CallService._transition: a target outside the
\* table raises ConflictError.  It looks at the status the session has READ,
\* not at the row the following UPDATE will write.
Legal(from, to) == to \in LEGAL_TRANSITIONS[from]
===============================================================================
