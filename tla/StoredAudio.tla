------------------------------ MODULE StoredAudio ------------------------------
(***************************************************************************)
(* What README.md, "How long audio is kept", promises about the stored     *)
(* audio of a call: it is stored while the call is processed and at no     *)
(* other time, a call that is done names it, and once the call has ended   *)
(* it goes only when its window is over, and the name only after it.       *)
(* There are no tasks, locks, sweeps and crashes here; AudioRetention      *)
(* implements it.                                                          *)
(***************************************************************************)
EXTENDS CallStatus

CONSTANT Calls

VARIABLES
  status,  \* of the rows
  named,   \* audio_url is not null
  stored,  \* the object exists
  due      \* the window of the row's status is over: given by the clock

vars == <<status, named, stored, due>>

Init ==
  /\ status = [c \in Calls |-> "processing"]
  /\ named = [c \in Calls |-> FALSE]
  /\ stored = [c \in Calls |-> FALSE]
  /\ due \in [Calls -> BOOLEAN]

Store(c) ==
  /\ status[c] = "processing" /\ ~stored[c]
  /\ stored' = [stored EXCEPT ![c] = TRUE]
  /\ UNCHANGED <<status, named>>

\* A row names only what is there, and a done one always does.
End(c) ==
  /\ status[c] = "processing"
  /\ \E s \in TERMINAL_STATUSES, n \in BOOLEAN :
       /\ s = "done" => n
       /\ n => stored[c]
       /\ status' = [status EXCEPT ![c] = s]
       /\ named' = [named EXCEPT ![c] = n]
  /\ UNCHANGED stored

Delete(c) ==
  /\ status[c] \in TERMINAL_STATUSES
  /\ named[c] /\ stored[c] /\ due[c]
  /\ stored' = [stored EXCEPT ![c] = FALSE]
  /\ UNCHANGED <<status, named>>

Forget(c) ==
  /\ named[c] /\ ~stored[c]
  /\ named' = [named EXCEPT ![c] = FALSE]
  /\ UNCHANGED <<status, stored>>

\* The clock is free: any step may find other windows over.
Next ==
  /\ \/ \E c \in Calls : Store(c) \/ End(c) \/ Delete(c) \/ Forget(c)
     \/ UNCHANGED <<status, named, stored>>
  /\ due' \in [Calls -> BOOLEAN]

Spec == Init /\ [][Next]_vars
===============================================================================
