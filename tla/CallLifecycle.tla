----------------------------- MODULE CallLifecycle -----------------------------
(***************************************************************************)
(* What the service promises its clients about a call (README.md, "Call    *)
(* lifecycle" and "Webhooks"): the row moves along the status machine only *)
(* and what a receiver is told is the outcome the row keeps.  The runner   *)
(* module implements it; there is nothing of the runner here.              *)
(***************************************************************************)
EXTENDS CallStatus

CONSTANT Calls

VARIABLES
  status,   \* the status a client polling GET /calls/{id} sees
  told      \* the terminal statuses the receiver of the webhook was sent

vars == <<status, told>>

Init ==
  /\ status = [c \in Calls |-> "queued"]
  /\ told = [c \in Calls |-> {}]

Advance(c) ==
  /\ \E s \in LEGAL_TRANSITIONS[status[c]] : status' = [status EXCEPT ![c] = s]
  /\ UNCHANGED told

\* A webhook is sent for an outcome that is on the row, any number of times.
Tell(c) ==
  /\ status[c] \in TERMINAL_STATUSES
  /\ told' = [told EXCEPT ![c] = @ \cup {status[c]}]
  /\ UNCHANGED status

\* One row, one transaction at a time.
Next == \E c \in Calls : Advance(c) \/ Tell(c)

Spec == Init /\ [][Next]_vars

\* The types of the two variables.
TypeOK ==
  /\ status \in [Calls -> CallStatuses]
  /\ told \in [Calls -> SUBSET TERMINAL_STATUSES]

\* The receiver is never told something the row does not keep.
ToldTheTruth == \A c \in Calls : told[c] \subseteq {status[c]}
===============================================================================
