---------------------------- MODULE AudioRetention ----------------------------
(***************************************************************************)
(* The stored audio of a call from its upload to its deletion: the finish  *)
(* of each call's task (upload, landing, webhook, immediate retention) and *)
(* the main loop's stale sweep and periodic retention, over the rows and   *)
(* the objects of the bucket.  Actors are the tasks, named by their call,  *)
(* and the main loop; any of them may be inside enforce_retention.         *)
(*                                                                         *)
(* Locks are those of PostgreSQL: a row is locked from the webhook's first *)
(* flush to its commit, and from the retention's re-claim to its commit.   *)
(* Reads never wait.  Containers and exit codes are in module BotRunner.   *)
(***************************************************************************)
EXTENDS CallStatus, Naturals, FiniteSets

CONSTANTS
  Calls, MainLoop,
  Overrun,     \* a live task may outlast PROCESSING_STALE_CUTOFF_S
  MaxFaults    \* bound: crashes of the runner and dying tasks

ASSUME ActorsAssumption == MainLoop \notin Calls
ASSUME SettingsAssumption == Overrun \in BOOLEAN /\ MaxFaults \in Nat

VARIABLES
  keepDone,  \* AUDIO_RETENTION_DAYS > 0, a setting; the default is 0 days
  row,       \* the rows; url: audio_url is not null, delivered: the webhook is
  object,    \* the object calls/<id>/audio.wav exists, be it a part of one
  old,       \* updated_at is past the cutoff of the row's status
  proc,      \* where each task and the main loop stand
  posted,    \* the payloads sent to each call's webhook
  faults

vars == <<keepDone, row, object, old, proc, posted, faults>>

-------------------------------------------------------------------------------
Actors == Calls \cup {MainLoop}

Outcomes == {"done", "transcription_failed", "upload_failed"}

Reasons == {"none", "upload_failed", "transcription_failed", "stale_call"}

Rows == [status : {"processing", "done", "failed"}, url : BOOLEAN,
         delivered : BOOLEAN, reason : Reasons]

Payloads == [status : CallStatuses, url : BOOLEAN]

Pcs == {"upload", "land", "commit", "dispatch", "post", "posted", "select",
        "reclaim", "delete", "null", "stale_commit", "idle", "over"}

Procs == [pc : Pcs, call : Calls \cup {MainLoop}, todo : SUBSET Calls,
          outcome : Outcomes \cup {"none"}, snap : Payloads]

NoSnap == [status |-> "processing", url |-> FALSE]

\* A task starts here when its call has just become processing.
Fresh(a) == [pc |-> IF a = MainLoop THEN "idle" ELSE "upload", call |-> a,
             todo |-> {}, outcome |-> "none", snap |-> NoSnap]

\* The actor has returned: a task is gone, the main loop goes on.
Finished(a) == [Fresh(a) EXCEPT !.pc = IF a = MainLoop THEN "idle" ELSE "over"]

Terminal(c) == row[c].status \in TERMINAL_STATUSES

Locked(c) == \E a \in Actors : /\ proc[a].pc \in {"posted", "delete", "null"}
                               /\ proc[a].call = c

At(a, pc) == proc' = [proc EXCEPT ![a].pc = pc]

\* Mutants: failed audio shares the cutoff of done audio; it is not looked for
\* (as before the failed window); done audio goes at once, whatever the window.
ExpiredAlike(c) == row[c].url /\ Terminal(c) /\ (keepDone => old[c])

ExpiredDoneOnly(c) == row[c].url /\ row[c].status = "done" /\ (keepDone => old[c])

\* The two queries of _expired_rows: with 0 days every done row has expired.
Expired(c) ==
  /\ row[c].url
  /\ \/ row[c].status = "done" /\ (keepDone => old[c])
     \/ row[c].status = "failed" /\ old[c]

\* A terminal status, its reason and, if given, the object URI.
Land(c, outcome, withUrl) ==
  /\ row' = [row EXCEPT
       ![c].status = IF outcome = "done" THEN "done" ELSE "failed",
       ![c].reason = IF outcome = "done" THEN @ ELSE outcome,
       ![c].url = @ \/ withUrl]
  /\ old' = [old EXCEPT ![c] = FALSE]

-------------------------------------------------------------------------------
(* The task of a call in processing. *)

\* The upload and the transcription.  A failed upload may leave something: the
\* local adapter's copyfile a part, S3 an object whose answer was lost.
Upload(c) ==
  /\ proc[c].pc = "upload"
  /\ \E o \in Outcomes, left \in BOOLEAN :
       /\ o # "upload_failed" => left
       /\ object' = [object EXCEPT ![c] = left]
       /\ proc' = [proc EXCEPT ![c].pc = "land", ![c].outcome = o]
  /\ UNCHANGED <<keepDone, row, old, posted, faults>>

\* The read and the check; ConflictError ends the task without webhook.
ReadRow(c) ==
  /\ proc[c].pc = "land"
  /\ proc' = [proc EXCEPT ![c] = IF Legal(row[c].status, "failed")
                                 THEN [@ EXCEPT !.pc = "commit"] ELSE Finished(c)]
  /\ UNCHANGED <<keepDone, row, object, old, posted, faults>>

\* Mutants: the failure forgets the object, as before the failed window; the
\* reason lands in the status.
CommitRowNoSnapshot(c) ==
  LET o == proc[c].outcome IN
  /\ proc[c].pc = "commit" /\ ~Locked(c)
  /\ Land(c, o, o = "done")
  /\ At(c, "dispatch")
  /\ UNCHANGED <<keepDone, object, posted, faults>>

CommitRowReason(c) ==
  LET o == proc[c].outcome IN
  /\ proc[c].pc = "commit" /\ ~Locked(c)
  /\ row' = [row EXCEPT ![c].status = o, ![c].url = TRUE]
  /\ old' = [old EXCEPT ![c] = FALSE]
  /\ At(c, "dispatch")
  /\ UNCHANGED <<keepDone, object, posted, faults>>

\* mark_done with the URI and the transcript, or mark_failed and (unless the
\* upload failed) the URI, in one transaction.
CommitRow(c) ==
  LET o == proc[c].outcome IN
  /\ proc[c].pc = "commit" /\ ~Locked(c)
  /\ Land(c, o, o # "upload_failed")
  /\ At(c, "dispatch")
  /\ UNCHANGED <<keepDone, object, posted, faults>>

-------------------------------------------------------------------------------
(* dispatch_webhook, by a task or by the main loop after a stale_call. *)

AfterHook(a) ==
  IF proc[a].outcome = "done"
  THEN [proc EXCEPT ![a].pc = "select", ![a].snap = NoSnap]
  ELSE [proc EXCEPT ![a] = Finished(a)]

\* A row that is delivered or not terminal is left alone.
ReadHook(a) ==
  LET c == proc[a].call IN
  /\ proc[a].pc = "dispatch"
  /\ proc' = IF Terminal(c) /\ ~row[c].delivered
             THEN [proc EXCEPT
                    ![a].pc = "post",
                    ![a].snap = [status |-> row[c].status, url |-> row[c].url]]
             ELSE AfterHook(a)
  /\ UNCHANGED <<keepDone, row, object, old, posted, faults>>

Post(a) ==
  LET c == proc[a].call IN
  /\ proc[a].pc = "post" /\ ~Locked(c)
  /\ posted' = [posted EXCEPT ![c] = @ \cup {proc[a].snap}]
  /\ At(a, "posted")
  /\ UNCHANGED <<keepDone, row, object, old, faults>>

\* The commit, after a 2xx or a give-up; it moves updated_at.
CommitHook(a) ==
  /\ proc[a].pc = "posted"
  /\ \E ok \in BOOLEAN : row' = [row EXCEPT ![proc[a].call].delivered = @ \/ ok]
  /\ old' = [old EXCEPT ![proc[a].call] = FALSE]
  /\ proc' = AfterHook(a)
  /\ UNCHANGED <<keepDone, object, posted, faults>>

-------------------------------------------------------------------------------
(* The main loop's stale sweep of one call in processing, and its retention  *)
(* tick; both start where the loop is idle.                                  *)

StaleRow(c) ==
  /\ proc[MainLoop].pc = "idle"
  /\ row[c].status = "processing" /\ old[c]
  /\ proc' = [proc EXCEPT ![MainLoop].pc = "stale_commit", ![MainLoop].call = c]
  /\ UNCHANGED <<keepDone, row, object, old, posted, faults>>

StaleCommit ==
  LET c == proc[MainLoop].call IN
  /\ proc[MainLoop].pc = "stale_commit" /\ ~Locked(c)
  /\ Land(c, "stale_call", FALSE)
  /\ At(MainLoop, "dispatch")
  /\ UNCHANGED <<keepDone, object, posted, faults>>

RetentionTick ==
  /\ proc[MainLoop].pc = "idle"
  /\ At(MainLoop, "select")
  /\ UNCHANGED <<keepDone, row, object, old, posted, faults>>

-------------------------------------------------------------------------------
(* enforce_retention, by the main loop's tick or by a task after its done. *)

\* Both queries with FOR UPDATE SKIP LOCKED; the locks end with the session,
\* before the first deletion.
Select(a) ==
  /\ proc[a].pc = "select"
  /\ proc' = [proc EXCEPT ![a].pc = "reclaim",
                          ![a].todo = {c \in Calls : Expired(c) /\ ~Locked(c)}]
  /\ UNCHANGED <<keepDone, row, object, old, posted, faults>>

\* The re-claim of one row by id: a locked one is skipped until the next tick,
\* a free one is locked.  Status and audio_url are not looked at again.
Reclaim(a) ==
  /\ proc[a].pc = "reclaim"
  /\ \E c \in proc[a].todo :
       proc' = [proc EXCEPT ![a].todo = @ \ {c},
                            ![a].call = IF Locked(c) THEN a ELSE c,
                            ![a].pc = IF Locked(c) THEN "reclaim" ELSE "delete"]
  /\ UNCHANGED <<keepDone, row, object, old, posted, faults>>

\* The provider deletes; a missing object counts as deleted.
DeleteObject(a) ==
  /\ proc[a].pc = "delete"
  /\ object' = [object EXCEPT ![proc[a].call] = FALSE]
  /\ At(a, "null")
  /\ UNCHANGED <<keepDone, row, old, posted, faults>>

\* UPDATE ... SET audio_url = NULL and the commit, which move updated_at.
NullUrl(a) ==
  /\ proc[a].pc = "null"
  /\ row' = [row EXCEPT ![proc[a].call].url = FALSE]
  /\ old' = [old EXCEPT ![proc[a].call] = FALSE]
  /\ proc' = [proc EXCEPT ![a].pc = "reclaim", ![a].call = a]
  /\ UNCHANGED <<keepDone, object, posted, faults>>

\* Mutant: the failed attempt is noted on the row, which moves updated_at.
RollBackTouches(a) ==
  /\ proc[a].pc \in {"delete", "null"}
  /\ old' = [old EXCEPT ![proc[a].call] = FALSE]
  /\ proc' = [proc EXCEPT ![a].pc = "reclaim", ![a].call = a]
  /\ UNCHANGED <<keepDone, row, object, posted, faults>>

\* An exception of either rolls the row back and leaves it to the next tick:
\* the object may be gone already while the row still names it.
RollBack(a) ==
  /\ proc[a].pc \in {"delete", "null"}
  /\ proc' = [proc EXCEPT ![a].pc = "reclaim", ![a].call = a]
  /\ UNCHANGED <<keepDone, row, object, old, posted, faults>>

SweepDone(a) ==
  /\ proc[a].pc = "reclaim" /\ proc[a].todo = {}
  /\ proc' = [proc EXCEPT ![a] = Finished(a)]
  /\ UNCHANGED <<keepDone, row, object, old, posted, faults>>

-------------------------------------------------------------------------------
\* Some actor is between two statements on the row, or in its webhook.
Busy(c) == \E a \in Actors :
             /\ proc[a].pc \in {"commit", "stale_commit", "dispatch", "post", "posted"}
             /\ proc[a].call = c

\* Time passes the cutoff of the row's status: PROCESSING_STALE_CUTOFF_S for a
\* processing row, whose task has then ended unless it overruns; a retention
\* window of days for a terminal row, on which every actor works for minutes.
Age(c) ==
  /\ ~old[c]
  /\ IF Terminal(c) THEN ~Busy(c) ELSE Overrun \/ proc[c].pc = "over"
  /\ old' = [old EXCEPT ![c] = TRUE]
  /\ UNCHANGED <<keepDone, row, object, proc, posted, faults>>

\* The runner dies and is restarted: every actor loses its place and its locks.
Crash ==
  /\ faults < MaxFaults
  /\ proc' = [a \in Actors |-> Finished(a)]
  /\ faults' = faults + 1
  /\ UNCHANGED <<keepDone, row, object, old, posted>>

\* A database error outside enforce_retention's own handler ends the task.
TaskDies(c) ==
  /\ faults < MaxFaults
  /\ proc[c].pc \in {"upload", "land", "commit", "dispatch", "post", "posted"}
  /\ proc' = [proc EXCEPT ![c] = Finished(c)]
  /\ faults' = faults + 1
  /\ UNCHANGED <<keepDone, row, object, old, posted>>

Init ==
  /\ keepDone \in BOOLEAN
  /\ row = [c \in Calls |-> [status |-> "processing", url |-> FALSE,
                             delivered |-> FALSE, reason |-> "none"]]
  /\ object = [c \in Calls |-> FALSE]
  /\ old = [c \in Calls |-> FALSE]
  /\ proc = [a \in Actors |-> Fresh(a)]
  /\ posted = [c \in Calls |-> {}]
  /\ faults = 0

TaskStep(c) == Upload(c) \/ ReadRow(c) \/ CommitRow(c)

ActorStep(a) ==
  \/ ReadHook(a) \/ Post(a) \/ CommitHook(a)
  \/ Select(a) \/ Reclaim(a) \/ DeleteObject(a) \/ NullUrl(a) \/ RollBack(a)
  \/ SweepDone(a)

Next ==
  \/ \E c \in Calls : TaskStep(c) \/ StaleRow(c) \/ Age(c) \/ TaskDies(c)
  \/ \E a \in Actors : ActorStep(a)
  \/ StaleCommit \/ RetentionTick \/ Crash

Spec == Init /\ [][Next]_vars

\* Live actors go on, the loop's two timers come due again and again, and
\* neither the provider nor the database fails a row for ever.
Fairness ==
  /\ \A c \in Calls : /\ WF_vars(TaskStep(c)) /\ WF_vars(Age(c))
                      /\ SF_vars(StaleRow(c))
  /\ WF_vars(StaleCommit)
  /\ SF_vars(RetentionTick)
  /\ \A a \in Actors :
       /\ WF_vars(ActorStep(a))
       /\ \A c \in Calls : /\ SF_vars(proc[a].call = c /\ DeleteObject(a))
                           /\ SF_vars(proc[a].call = c /\ NullUrl(a))

FairSpec == Spec /\ Fairness

-------------------------------------------------------------------------------
\* The types of rows, objects and actors.
TypeOK ==
  /\ keepDone \in BOOLEAN
  /\ row \in [Calls -> Rows]
  /\ object \in [Calls -> BOOLEAN]
  /\ old \in [Calls -> BOOLEAN]
  /\ proc \in [Actors -> Procs]
  /\ posted \in [Calls -> SUBSET Payloads]
  /\ faults \in 0..MaxFaults

\* An object of a call that has ended is named by its row, or retention would
\* never find it.  Two exceptions: what a failed upload left behind, which no
\* row ever names, and the object of a call that the stale sweep has failed,
\* whose URI was in the memory of its task.
ObjectNamed ==
  \A c \in Calls :
    object[c] /\ Terminal(c) /\ row[c].reason \notin {"stale_call", "upload_failed"}
      => row[c].url

\* A row naming an object that is gone is one that retention selects again, at
\* once: a failed commit after the deletion heals itself.
DanglingUrlHeals ==
  \A c \in Calls : row[c].url /\ ~object[c] => Expired(c)

\* README.md, "How long audio is kept": no object goes before the window of the
\* status its row has at that moment.  A part of ImplementsPromise below.
WindowKept ==
  [][\A c \in Calls : object[c] /\ ~object'[c] =>
       \/ row[c].status = "done" /\ (keepDone => old[c])
       \/ row[c].status = "failed" /\ old[c]]_vars

\* The window of the status of a call is over.
Due(c) == \/ row[c].status = "done" /\ (keepDone => old[c])
          \/ row[c].status = "failed" /\ old[c]

\* Rows and objects together are what README.md promises about the audio.
Promise == INSTANCE StoredAudio WITH
             status <- [c \in Calls |-> row[c].status],
             named <- [c \in Calls |-> row[c].url],
             stored <- object,
             due <- [c \in Calls |-> Due(c)]

\* Tasks, sweep and retention implement the promise: nothing is stored again
\* after the end, nothing goes early, and no name goes before its object.
ImplementsPromise == Promise!Spec

\* README.md, "Webhooks": the payload of a done call carries the URI snapshot.
SnapshotCarriesUrl ==
  \A c \in Calls : \A p \in posted[c] : p.status = "done" => p.url

\* Every object the row names is deleted and the row stops naming it.
AudioReclaimed ==
  \A c \in Calls : (Terminal(c) /\ row[c].url) ~> (~object[c] /\ ~row[c].url)
===============================================================================
