------------------------------- MODULE BotRunner -------------------------------
(***************************************************************************)
(* The bot runner: the main loop of workers/bot_runner.py (startup orphan  *)
(* sweep, stale sweep, poll) and the task it starts for each claimed call  *)
(* (spawn, stream, exit mapping, upload, transcription, webhook), with the *)
(* bot containers they share through the docker daemon and the call rows   *)
(* they share through PostgreSQL.                                          *)
(*                                                                         *)
(* Every service transaction is two steps: the status is READ and checked  *)
(* against the transition table, then the row is WRITTEN by primary key    *)
(* with no re-check, so two actors can pass the check on one status.       *)
(* Time is abstract: old[c] says updated_at is past the cutoff that the    *)
(* stale sweep applies to the row's status; every write resets it.         *)
(***************************************************************************)
EXTENDS CallStatus, Naturals, FiniteSets

CONSTANTS
  Calls, Runners,
  Limit,         \* settings.call_concurrency_limit
  MaxFaults,     \* bound: runner crashes, dying tasks and aborted sweeps
  Overrun,       \* TRUE: a live upload or transcription may outlast
                 \* PROCESSING_STALE_CUTOFF_S, as its comment admits
  LateBots,      \* TRUE: a bot that hung may come back, past its cutoff or not
  NoCall, NoRunner

ASSUME BoundsAssumption == Limit \in Nat /\ MaxFaults \in Nat
ASSUME LatenessAssumption == Overrun \in BOOLEAN /\ LateBots \in BOOLEAN
ASSUME NamesAssumption == NoCall \notin Calls /\ NoRunner \notin Runners

VARIABLES
  row,       \* the call rows: status, failure_reason, webhook delivered
  old,       \* rows past their stale cutoff
  bot,       \* the container oreeai-bot-<call_id>, "none" once gone (--rm)
  exit,      \* what docker run returned to the task that waits for it
  wav,       \* the scratch WAV exists; it does once the bot has recorded
  stored,    \* the upload to object storage has succeeded
  hooks,     \* statuses posted to the call's webhook_url
  task,      \* run_call of each call
  loop,      \* main() of each runner process
  faults,    \* crashes, dying tasks and aborted sweeps so far
  lost,      \* calls whose dispatcher a fault has hit after the terminal commit
  missed     \* containers that the last docker ps, or kill and rm -f, failed for

vars == <<row, old, bot, exit, wav, stored, hooks, task, loop, faults, missed, lost>>

-------------------------------------------------------------------------------
Reasons == {"none", "bot_exit", "upload_failed", "transcription_failed",
            "concurrency_limit", "disk_full", "stale_call", "worker_restart"}

\* What a task's next row transaction lands; a reason stands for failed.
Outcomes == {"processing", "done", "bot_exit", "upload_failed",
             "transcription_failed"}

\* Mutant: the reason is written where the status belongs.
TargetIsOutcome(outcome) == outcome

Target(outcome) == IF outcome \in {"processing", "done"} THEN outcome ELSE "failed"

TaskPcs == {"none", "check", "spawn", "stream", "record", "upload", "transcribe",
            "land", "commit", "unlink", "dispatch", "post", "posted", "over"}

LoopPcs == {"down", "orphans", "orphan_commit", "orphan_kill", "tick", "stale",
            "stale_row", "stale_commit", "poll", "dispatch", "post", "posted"}

Rows == [status : CallStatuses, reason : Reasons, delivered : BOOLEAN]

Tasks == [pc : TaskPcs, owner : Runners \cup {NoRunner}, fired : BOOLEAN,
          outcome : Outcomes \cup {"none"}, snap : CallStatuses]

Loops == [pc : LoopPcs, todo : SUBSET Calls, call : Calls \cup {NoCall},
          marked : BOOLEAN, snap : CallStatuses,
          then : {"orphans", "stale", "tick"}]

NoTask == [pc |-> "none", owner |-> NoRunner, fired |-> FALSE,
           outcome |-> "none", snap |-> "queued"]

Down == [pc |-> "down", todo |-> {}, call |-> NoCall, marked |-> FALSE,
         snap |-> "queued", then |-> "tick"]

Live(c) == task[c].pc \notin {"none", "over"}

Terminal(c) == row[c].status \in TERMINAL_STATUSES

ActiveCalls == {c \in Calls : row[c].status \in ACTIVE_STATUSES}

Claimed == {"joining", "recording", "processing"}

Up(c) == bot[c] # "none"

\* deliver() flushes webhook_attempts before it posts and dispatch_webhook
\* commits after: the row is locked for writers in between.
RowLocked(c) ==
  \/ task[c].pc = "posted"
  \/ \E r \in Runners : loop[r].pc = "posted" /\ loop[r].call = c

-------------------------------------------------------------------------------
(* Shared steps. *)

\* CallRepository.update and the commit: unconditional, by primary key.
Write(c, status, reason) ==
  /\ ~RowLocked(c)
  /\ row' = [row EXCEPT ![c].status = status,
                        ![c].reason = IF status = "failed" THEN reason ELSE @]
  /\ old' = [old EXCEPT ![c] = FALSE]

\* docker kill and docker rm -f, whose exit codes nobody looks at: a running bot
\* is gone and the docker run that waits for it, if any, returns 137; or both
\* have failed and it is still there.
Kill(c) ==
  \/ /\ bot' = [bot EXCEPT ![c] = "none"]
     /\ exit' = IF Up(c) THEN [exit EXCEPT ![c] = "fail"] ELSE exit
     /\ missed' = missed \ {c}
  \/ /\ Up(c)
     /\ missed' = missed \cup {c}
     /\ UNCHANGED <<bot, exit>>

TaskAt(c, pc) == task' = [task EXCEPT ![c].pc = pc]

LandNext(c, outcome) == task' = [task EXCEPT ![c].pc = "land", ![c].outcome = outcome]

LoopAt(r, pc) == loop' = [loop EXCEPT ![r].pc = pc]

\* The task has returned; the loop has finished with one call.
Over == [NoTask EXCEPT !.pc = "over"]

Return(r, pc) == loop' = [loop EXCEPT ![r] = [Down EXCEPT !.pc = pc, !.todo = loop[r].todo]]

\* A fault in the tasks of some calls, or in what the loop does for one: who was
\* to send the webhook of a terminal one is gone.
Strikes(hit) ==
  /\ faults' = faults + 1
  /\ lost' = lost \cup {c \in Calls : c \in hit /\ Terminal(c)}

\* What dispatch_webhook reads first: delivered or non-terminal rows are left.
Undelivered(c) == ~row[c].delivered /\ Terminal(c)

-------------------------------------------------------------------------------
(* run_call and apply_exit_status: the task of call c. *)

\* run_call re-reads the row before it spawns.
CheckJoinable(c) ==
  /\ task[c].pc = "check"
  /\ task' = [task EXCEPT ![c] = IF row[c].status = "joining"
                                 THEN [@ EXCEPT !.pc = "spawn"] ELSE Over]
  /\ UNCHANGED <<row, old, bot, exit, wav, stored, hooks, loop, faults, missed, lost>>

\* spawn_bot: docker run, or OSError mapped to exit -1.
SpawnBot(c) ==
  /\ task[c].pc = "spawn"
  /\ TaskAt(c, "stream")
  /\ \/ bot' = [bot EXCEPT ![c] = "joining"] /\ UNCHANGED exit
     \/ exit' = [exit EXCEPT ![c] = "fail"] /\ UNCHANGED bot
  /\ UNCHANGED <<row, old, wav, stored, hooks, loop, faults, missed, lost>>

\* _stream_output meets the first "recording started" line: _mark_recording
\* reads the row; ConflictError is swallowed.
SeeRecording(c) ==
  /\ task[c].pc = "stream" /\ wav[c] /\ ~task[c].fired
  /\ task' = [task EXCEPT
       ![c].fired = TRUE,
       ![c].pc = IF Legal(row[c].status, "recording") THEN "record" ELSE "stream"]
  /\ UNCHANGED <<row, old, bot, exit, wav, stored, hooks, loop, faults, missed, lost>>

CommitRecording(c) ==
  /\ task[c].pc = "record"
  /\ Write(c, "recording", "none")
  /\ TaskAt(c, "stream")
  /\ UNCHANGED <<bot, exit, wav, stored, hooks, loop, faults, missed, lost>>

\* Mutant: a clean exit goes to processing without a look at the row's status.
ReadExitTrustsCode(c) ==
  /\ task[c].pc = "stream" /\ exit[c] # "none" /\ (wav[c] => task[c].fired)
  /\ IF Terminal(c)
     THEN task' = [task EXCEPT ![c] = Over]
     ELSE task' = [task EXCEPT
            ![c].pc = "commit",
            ![c].outcome = IF exit[c] = "clean" THEN "processing" ELSE "bot_exit"]
  /\ UNCHANGED <<row, old, bot, exit, wav, stored, hooks, loop, faults, missed, lost>>

\* apply_exit_status once docker run has returned and the pump has drained: a
\* clean exit of a recording call goes on to processing, any other fails.
ReadExit(c) ==
  /\ task[c].pc = "stream" /\ exit[c] # "none" /\ (wav[c] => task[c].fired)
  /\ IF Terminal(c)
     THEN task' = [task EXCEPT ![c] = Over]
     ELSE task' = [task EXCEPT
            ![c].pc = "commit",
            ![c].outcome = IF exit[c] = "clean" /\ row[c].status = "recording"
                           THEN "processing" ELSE "bot_exit"]
  /\ UNCHANGED <<row, old, bot, exit, wav, stored, hooks, loop, faults, missed, lost>>

\* Mutants: the scratch WAV goes as soon as it is uploaded; a failed upload is
\* logged and the task goes on.
UploadThenUnlink(c) ==
  /\ task[c].pc = "upload"
  /\ \/ /\ stored' = [stored EXCEPT ![c] = TRUE] /\ TaskAt(c, "transcribe")
        /\ wav' = [wav EXCEPT ![c] = FALSE]
     \/ LandNext(c, "upload_failed") /\ UNCHANGED <<stored, wav>>
  /\ UNCHANGED <<row, old, bot, exit, hooks, loop, faults, missed, lost>>

UploadBestEffort(c) ==
  /\ task[c].pc = "upload"
  /\ TaskAt(c, "transcribe")
  /\ \E ok \in BOOLEAN : stored' = [stored EXCEPT ![c] = ok]
  /\ UNCHANGED <<row, old, bot, exit, wav, hooks, loop, faults, missed, lost>>

\* _upload_call_audio; a missing WAV, a misconfigured storage and UploadFailed
\* all end in upload_failed.
Upload(c) ==
  /\ task[c].pc = "upload"
  /\ \/ stored' = [stored EXCEPT ![c] = TRUE] /\ TaskAt(c, "transcribe")
     \/ LandNext(c, "upload_failed") /\ UNCHANGED stored
  /\ UNCHANGED <<row, old, bot, exit, wav, hooks, loop, faults, missed, lost>>

\* _transcribable_source and _transcribe_call: every error of either is
\* transcription_failed:<detail>.
Transcribe(c) ==
  /\ task[c].pc = "transcribe"
  /\ \E o \in {"done", "transcription_failed"} : LandNext(c, o)
  /\ UNCHANGED <<row, old, bot, exit, wav, stored, hooks, loop, faults, missed, lost>>

\* The read of _finish_done_call, _mark_transcription_failed and
\* _mark_upload_failed; on ConflictError the task ends, with no webhook.
ReadRow(c) ==
  /\ task[c].pc = "land"
  /\ task' = [task EXCEPT ![c] = IF Legal(row[c].status, Target(@.outcome))
                                 THEN [@ EXCEPT !.pc = "commit"] ELSE Over]
  /\ UNCHANGED <<row, old, bot, exit, wav, stored, hooks, loop, faults, missed, lost>>

\* Mutant: the upload_failed path returns without its webhook.
CommitRowForgetsHook(c) ==
  LET o == task[c].outcome IN
  /\ task[c].pc = "commit"
  /\ Write(c, Target(o), o)
  /\ TaskAt(c, CASE o = "processing" -> "upload"
                 [] o \in {"done", "transcription_failed"} -> "unlink"
                 [] o = "upload_failed" -> "over"
                 [] OTHER -> "dispatch")
  /\ UNCHANGED <<bot, exit, wav, stored, hooks, loop, faults, missed, lost>>

\* The write of the same three functions and of apply_exit_status.
CommitRow(c) ==
  LET o == task[c].outcome IN
  /\ task[c].pc = "commit"
  /\ Write(c, Target(o), o)
  /\ TaskAt(c, CASE o = "processing" -> "upload"
                 [] o \in {"done", "transcription_failed"} -> "unlink"
                 [] OTHER -> "dispatch")
  /\ UNCHANGED <<bot, exit, wav, stored, hooks, loop, faults, missed, lost>>

\* _delete_local_wav, after the commit only.
Unlink(c) ==
  /\ task[c].pc = "unlink"
  /\ wav' = [wav EXCEPT ![c] = FALSE]
  /\ TaskAt(c, "dispatch")
  /\ UNCHANGED <<row, old, bot, exit, stored, hooks, loop, faults, missed, lost>>

\* dispatch_webhook by the task, in three steps: read the row, post what was
\* read under the row lock, commit delivered or given up.
TaskReadsHook(c) ==
  /\ task[c].pc = "dispatch"
  /\ task' = [task EXCEPT ![c] = IF Undelivered(c)
                                 THEN [@ EXCEPT !.pc = "post", !.snap = row[c].status]
                                 ELSE Over]
  /\ UNCHANGED <<row, old, bot, exit, wav, stored, hooks, loop, faults, missed, lost>>

TaskPosts(c) ==
  /\ task[c].pc = "post" /\ ~RowLocked(c)
  /\ hooks' = [hooks EXCEPT ![c] = @ \cup {task[c].snap}]
  /\ TaskAt(c, "posted")
  /\ UNCHANGED <<row, old, bot, exit, wav, stored, loop, faults, missed, lost>>

TaskCommitsHook(c) ==
  /\ task[c].pc = "posted"
  /\ \E ok \in BOOLEAN : row' = [row EXCEPT ![c].delivered = @ \/ ok]
  /\ old' = [old EXCEPT ![c] = FALSE]
  /\ task' = [task EXCEPT ![c] = Over]
  /\ UNCHANGED <<bot, exit, wav, stored, hooks, loop, faults, missed, lost>>

\* An exception nothing in the task catches (a database error, a broken
\* output stream) ends it; the container goes on and nobody waits for it.
TaskDies(c) ==
  /\ Live(c) /\ faults < MaxFaults
  /\ task' = [task EXCEPT ![c] = Over]
  /\ Strikes({c})
  /\ UNCHANGED <<row, old, bot, exit, wav, stored, hooks, loop, missed>>

TaskStep(c) ==
  \/ CheckJoinable(c) \/ SpawnBot(c) \/ SeeRecording(c) \/ CommitRecording(c)
  \/ ReadExit(c) \/ Upload(c) \/ Transcribe(c) \/ ReadRow(c) \/ CommitRow(c)
  \/ Unlink(c) \/ TaskReadsHook(c) \/ TaskPosts(c) \/ TaskCommitsHook(c)

-------------------------------------------------------------------------------
(* The bot container, as its supervisor sees it. *)

Answers(c) == bot[c] \in {"joining", "recording"} \/ (LateBots /\ bot[c] = "hung")

BotRecords(c) ==
  /\ Answers(c) /\ bot[c] # "recording" /\ ~wav[c]
  /\ bot' = [bot EXCEPT ![c] = "recording"]
  /\ wav' = [wav EXCEPT ![c] = TRUE]
  /\ UNCHANGED <<row, old, exit, stored, hooks, task, loop, faults, missed, lost>>

\* "clean" stands for the exits that keep a recording (0, 3, and 7 with the
\* result line alone), "fail" for the others.
BotExits(c) ==
  /\ Answers(c)
  /\ bot' = [bot EXCEPT ![c] = "none"]
  /\ \E code \in {"clean", "fail"} : exit' = [exit EXCEPT ![c] = code]
  /\ UNCHANGED <<row, old, wav, stored, hooks, task, loop, faults, missed, lost>>

BotHangs(c) ==
  /\ bot[c] \in {"joining", "recording"}
  /\ bot' = [bot EXCEPT ![c] = "hung"]
  /\ UNCHANGED <<row, old, exit, wav, stored, hooks, task, loop, faults, missed, lost>>

\* Time passes: BOT_MAX_RECORD_DURATION + STALE_CALL_GRACE_S since the last
\* write of a joining or recording row, PROCESSING_STALE_CUTOFF_S of a
\* processing one.  A bot leaves at its maximum duration and a transcription
\* through S3 takes 2090 s at most, so a call ages when its task is gone or
\* waits for a hung bot, which may come back (LateBots) between the select and
\* the commit of the sweep; Overrun adds the slower transport.
Age(c) ==
  /\ row[c].status \in Claimed /\ ~old[c]
  /\ \/ Overrun /\ row[c].status = "processing"
     \/ ~Live(c)
     \/ task[c].pc = "stream" /\ bot[c] = "hung" /\ (wav[c] => task[c].fired)
  /\ old' = [old EXCEPT ![c] = TRUE]
  /\ UNCHANGED <<row, bot, exit, wav, stored, hooks, task, loop, faults, missed, lost>>

-------------------------------------------------------------------------------
(* main: startup with the orphan sweep, then stale sweep and poll for ever. *)

\* docker ps -a, whose failure skips the sweep.
Start(r) ==
  /\ loop[r].pc = "down"
  /\ \/ /\ loop' = [loop EXCEPT ![r].pc = "orphans", ![r].todo = {c \in Calls : Up(c)}]
        /\ missed' = {}
     \/ LoopAt(r, "tick") /\ missed' = {c \in Calls : Up(c)}
  /\ UNCHANGED <<row, old, bot, exit, wav, stored, hooks, task, faults, lost>>

\* Mutant: the containers of terminal calls are passed over.
OrphanRowSkipsTerminal(r) ==
  /\ loop[r].pc = "orphans"
  /\ \E c \in loop[r].todo :
       loop' = [loop EXCEPT
         ![r].todo = @ \ {c}, ![r].call = IF Terminal(c) THEN NoCall ELSE c,
         ![r].pc = IF Terminal(c) THEN "orphans" ELSE "orphan_commit"]
  /\ UNCHANGED <<row, old, bot, exit, wav, stored, hooks, task, faults, missed, lost>>

\* orphan_sweep, one container: the read of its row.
OrphanRow(r) ==
  /\ loop[r].pc = "orphans"
  /\ \E c \in loop[r].todo :
       loop' = [loop EXCEPT
         ![r].todo = @ \ {c}, ![r].call = c, ![r].marked = FALSE,
         ![r].pc = IF Terminal(c) THEN "orphan_kill" ELSE "orphan_commit"]
  /\ UNCHANGED <<row, old, bot, exit, wav, stored, hooks, task, faults, missed, lost>>

OrphanCommit(r) ==
  /\ loop[r].pc = "orphan_commit"
  /\ Write(loop[r].call, "failed", "worker_restart")
  /\ loop' = [loop EXCEPT ![r].pc = "orphan_kill", ![r].marked = TRUE]
  /\ UNCHANGED <<bot, exit, wav, stored, hooks, task, faults, missed, lost>>

OrphanKill(r) ==
  /\ loop[r].pc = "orphan_kill"
  /\ Kill(loop[r].call)
  /\ IF loop[r].marked
     THEN loop' = [loop EXCEPT ![r].pc = "dispatch", ![r].then = "orphans"]
     ELSE Return(r, "orphans")
  /\ UNCHANGED <<row, old, wav, stored, hooks, task, faults, lost>>

OrphansDone(r) ==
  /\ loop[r].pc = "orphans" /\ loop[r].todo = {}
  /\ LoopAt(r, "tick")
  /\ UNCHANGED <<row, old, bot, exit, wav, stored, hooks, task, faults, missed, lost>>

\* Mutants: no cutoff; no watch over processing (as before PR 7); the orphan
\* sweep put on the stale sweep's timer.
StaleCallsAnyAge == {c \in Calls : row[c].status \in Claimed}

StaleCallsWithBot == {c \in Calls : row[c].status \in {"joining", "recording"} /\ old[c]}

StaleSelectOrphans(r) ==
  /\ loop[r].pc = "tick"
  /\ loop' = [loop EXCEPT ![r].pc = "orphans", ![r].todo = {c \in Calls : Up(c)}]
  /\ UNCHANGED <<row, old, bot, exit, wav, stored, hooks, task, faults, missed, lost>>

\* The rows _stale_sweep_inner selects.
StaleCalls == {c \in Calls : row[c].status \in Claimed /\ old[c]}

StaleSelect(r) ==
  /\ loop[r].pc = "tick"
  /\ loop' = [loop EXCEPT ![r].pc = "stale", ![r].todo = StaleCalls]
  /\ UNCHANGED <<row, old, bot, exit, wav, stored, hooks, task, faults, missed, lost>>

\* The sweep's interval has not passed yet.
NotDue(r) ==
  /\ loop[r].pc = "tick"
  /\ LoopAt(r, "poll")
  /\ UNCHANGED <<row, old, bot, exit, wav, stored, hooks, task, faults, missed, lost>>

\* The container goes first, the row is read after.
StaleKill(r) ==
  /\ loop[r].pc = "stale"
  /\ \E c \in loop[r].todo :
       /\ Kill(c)
       /\ loop' = [loop EXCEPT ![r].pc = "stale_row", ![r].todo = @ \ {c},
                               ![r].call = c]
  /\ UNCHANGED <<row, old, wav, stored, hooks, task, faults, lost>>

StaleRow(r) ==
  /\ loop[r].pc = "stale_row"
  /\ IF Legal(row[loop[r].call].status, "failed")
     THEN LoopAt(r, "stale_commit")
     ELSE Return(r, "stale")
  /\ UNCHANGED <<row, old, bot, exit, wav, stored, hooks, task, faults, missed, lost>>

StaleCommit(r) ==
  /\ loop[r].pc = "stale_commit"
  /\ Write(loop[r].call, "failed", "stale_call")
  /\ loop' = [loop EXCEPT ![r].pc = "dispatch", ![r].then = "stale"]
  /\ UNCHANGED <<bot, exit, wav, stored, hooks, task, faults, missed, lost>>

StaleDone(r) ==
  /\ loop[r].pc = "stale" /\ loop[r].todo = {}
  /\ LoopAt(r, "poll")
  /\ UNCHANGED <<row, old, bot, exit, wav, stored, hooks, task, faults, missed, lost>>

\* An exception on one call ends the sweep for all the others.
StaleRaises(r) ==
  /\ faults < MaxFaults
  /\ \/ loop[r].pc \in {"stale", "stale_row", "stale_commit"}
     \/ loop[r].pc \in {"dispatch", "post", "posted"} /\ loop[r].then = "stale"
  /\ loop' = [loop EXCEPT ![r] = [Down EXCEPT !.pc = "poll"]]
  /\ Strikes({loop[r].call})
  /\ UNCHANGED <<row, old, bot, exit, wav, stored, hooks, task, missed>>

\* poll_once.  The claim is one step here (module Admission has its statements);
\* which queued row is the oldest is left open.
Poll(r) ==
  /\ loop[r].pc = "poll"
  /\ \E c \in Calls :
       /\ row[c].status = "queued"
       /\ \/ /\ Cardinality(ActiveCalls) > Limit
             /\ Write(c, "failed", "concurrency_limit")
             /\ loop' = [loop EXCEPT ![r].pc = "dispatch", ![r].call = c, ![r].then = "tick"]
             /\ UNCHANGED task
          \/ /\ Cardinality(ActiveCalls) <= Limit
             /\ Write(c, "failed", "disk_full")
             /\ loop' = [loop EXCEPT ![r].pc = "dispatch", ![r].call = c, ![r].then = "tick"]
             /\ UNCHANGED task
          \/ /\ Cardinality(ActiveCalls) <= Limit
             /\ Write(c, "joining", "none")
             /\ task' = [task EXCEPT ![c].pc = "check", ![c].owner = r]
             /\ LoopAt(r, "tick")
  /\ UNCHANGED <<bot, exit, wav, stored, hooks, faults, missed, lost>>

PollNothing(r) ==
  /\ loop[r].pc = "poll" /\ \A c \in Calls : row[c].status # "queued"
  /\ LoopAt(r, "tick")
  /\ UNCHANGED <<row, old, bot, exit, wav, stored, hooks, task, faults, missed, lost>>

\* dispatch_webhook by the main loop: awaited in line, so the loop stands still.
LoopReadsHook(r) ==
  LET c == loop[r].call IN
  /\ loop[r].pc = "dispatch"
  /\ IF Undelivered(c)
     THEN loop' = [loop EXCEPT ![r].pc = "post", ![r].snap = row[c].status]
     ELSE Return(r, loop[r].then)
  /\ UNCHANGED <<row, old, bot, exit, wav, stored, hooks, task, faults, missed, lost>>

LoopPosts(r) ==
  LET c == loop[r].call IN
  /\ loop[r].pc = "post" /\ ~RowLocked(c)
  /\ hooks' = [hooks EXCEPT ![c] = @ \cup {loop[r].snap}]
  /\ LoopAt(r, "posted")
  /\ UNCHANGED <<row, old, bot, exit, wav, stored, task, faults, missed, lost>>

LoopCommitsHook(r) ==
  LET c == loop[r].call IN
  /\ loop[r].pc = "posted"
  /\ \E ok \in BOOLEAN : row' = [row EXCEPT ![c].delivered = @ \/ ok]
  /\ old' = [old EXCEPT ![c] = FALSE]
  /\ Return(r, loop[r].then)
  /\ UNCHANGED <<bot, exit, wav, stored, hooks, task, faults, missed, lost>>

\* The process ends (kill, OOM, an exception in main): its loop and all its
\* tasks stop where they are, the containers run on.
Crash(r) ==
  /\ loop[r].pc # "down" /\ faults < MaxFaults
  /\ loop' = [loop EXCEPT ![r] = Down]
  /\ task' = [c \in Calls |-> IF Live(c) /\ task[c].owner = r
                              THEN Over ELSE task[c]]
  /\ Strikes({c \in Calls : Live(c) /\ task[c].owner = r} \cup {loop[r].call})
  /\ UNCHANGED <<row, old, bot, exit, wav, stored, hooks, missed>>

LoopStep(r) ==
  \/ OrphanRow(r) \/ OrphanCommit(r) \/ OrphanKill(r) \/ OrphansDone(r)
  \/ StaleSelect(r) \/ NotDue(r) \/ StaleKill(r) \/ StaleRow(r)
  \/ StaleCommit(r) \/ StaleDone(r) \/ Poll(r) \/ PollNothing(r)
  \/ LoopReadsHook(r) \/ LoopPosts(r) \/ LoopCommitsHook(r)

-------------------------------------------------------------------------------
Init ==
  /\ row = [c \in Calls |-> [status |-> "queued", reason |-> "none", delivered |-> FALSE]]
  /\ old = [c \in Calls |-> FALSE]
  /\ bot = [c \in Calls |-> "none"]
  /\ exit = [c \in Calls |-> "none"]
  /\ wav = [c \in Calls |-> FALSE]
  /\ stored = [c \in Calls |-> FALSE]
  /\ hooks = [c \in Calls |-> {}]
  /\ task = [c \in Calls |-> NoTask]
  /\ loop = [r \in Runners |-> Down]
  /\ faults = 0
  /\ missed = {} /\ lost = {}

Next ==
  \/ \E c \in Calls : \/ TaskStep(c) \/ TaskDies(c)
                      \/ BotRecords(c) \/ BotExits(c) \/ BotHangs(c) \/ Age(c)
  \/ \E r \in Runners : Start(r) \/ LoopStep(r) \/ StaleRaises(r) \/ Crash(r)

Spec == Init /\ [][Next]_vars

\* Live processes run and database, docker, provider and receiver answer or
\* time out; a dead runner is restarted (restart: unless-stopped); a bot that
\* neither exits nor hangs gives up at its maximum duration; time passes; and
\* the stale sweep comes due again and again (next_stale_sweep).
Fairness ==
  /\ \A c \in Calls : /\ WF_vars(TaskStep(c))
                      /\ WF_vars((bot[c] # "hung" /\ BotExits(c)) \/ BotHangs(c))
                      /\ WF_vars(Age(c))
  /\ \A r \in Runners : /\ WF_vars(Start(r))
                        /\ WF_vars(LoopStep(r))
                        /\ SF_vars(StaleSelect(r))

FairSpec == Spec /\ Fairness

-------------------------------------------------------------------------------
\* The types of rows, containers, tasks and loops.
TypeOK ==
  /\ row \in [Calls -> Rows]
  /\ old \in [Calls -> BOOLEAN]
  /\ bot \in [Calls -> {"none", "joining", "recording", "hung"}]
  /\ exit \in [Calls -> {"none", "clean", "fail"}]
  /\ wav \in [Calls -> BOOLEAN]
  /\ stored \in [Calls -> BOOLEAN]
  /\ hooks \in [Calls -> SUBSET CallStatuses]
  /\ task \in [Calls -> Tasks]
  /\ loop \in [Runners -> Loops]
  /\ faults \in 0..MaxFaults
  /\ missed \in SUBSET Calls
  /\ lost \in SUBSET Calls

\* README.md, "A call moves through a strict status machine": a row that has
\* reached done or failed stays there, and no step skips a status.
StrictStatusMachine ==
  [][\A c \in Calls : row'[c].status # row[c].status
                       => Legal(row[c].status, row'[c].status)]_vars

\* Rows and receivers together are the abstract life cycle.
Lifecycle == INSTANCE CallLifecycle WITH
               status <- [c \in Calls |-> row[c].status], told <- hooks

ImplementsLifecycle == Lifecycle!Spec

\* What a receiver was told is what the row says, at every later moment.
ReceiverAgrees == \A c \in Calls : hooks[c] \subseteq {row[c].status}

\* The only copy of the audio is never deleted: the scratch WAV goes only when
\* the upload has succeeded and the row has reached its end.
AudioKept ==
  [][\A c \in Calls : wav[c] /\ ~wav'[c] => stored[c] /\ Terminal(c)]_vars

\* done is reached only by a call whose audio was recorded and stored.
DoneIsStored == \A c \in Calls : row[c].status = "done" => stored[c]

\* The startup sweep fails only calls that nobody supervises any more: the
\* premise of worker_restart ("this runner instance cannot reattach to a
\* browser the previous runner spawned").
OrphansOnly ==
  [][\A c \in Calls :
       row'[c].reason = "worker_restart" /\ row[c].reason # "worker_restart"
         => ~Live(c)]_vars

\* Every queued call comes to its end, through crashes, hung bots, dying tasks
\* and aborted sweeps: the stale sweep is the watchdog of last resort.
EveryCallEnds == \A c \in Calls : row[c].status = "queued" ~> Terminal(c)

\* On each terminal transition a webhook is sent, on every failure path, also when
\* task and sweep leave it to each other: only a fault that hits the dispatcher of
\* that very call after its terminal commit loses it (best-effort delivery).
WebhookTried == \A c \in Calls : Terminal(c) ~> (hooks[c] # {} \/ c \in lost)

\* No bot outlives its call: the container of a terminal call goes, by itself or
\* because a sweep removes it.  Only one that hangs stays, for which docker has
\* failed when it was last asked; nobody asks again before the next startup.
TerminalBotReaped ==
  \A c \in Calls :
    (Terminal(c) /\ Up(c)) ~> (~Up(c) \/ (bot[c] = "hung" /\ c \in missed))
===============================================================================
