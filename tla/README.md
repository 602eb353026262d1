# A TLA+ model of the OREEAI notetaker

The service records online meetings: a client posts a call, a bot joins the
meeting in a container and records it, the audio is stored and transcribed, a
signed webhook reports the end, and retention deletes the audio. These modules
model that system as it is written in `src/` (the service, Python/SQLAlchemy)
and `bot/` (the process in the container), check it with TLC on small instances
and prove part of it with TLAPS. Paths below are relative to the repository;
`R` stands for `src/oreeai_notetaker/workers/bot_runner.py`.

`PROJECT.json` has the machine-readable side: runs, mutants, the source lines of
every definition, hazards, findings and theorems.

    tlc -workers 2 -config MCAdmission.cfg MCAdmission     # one run
    tlapm Admission_proofs.tla                             # the proofs

## 1. The system

Two processes share one PostgreSQL table of calls: the API and the bot runner.
The runner alone has the docker socket, the object storage and the
transcription provider. A call is a row; everything the parts know of each
other's progress is on that row, in the list of running containers, or in the
memory of the runner.

| Component | State it keeps | Operations | Interacts through |
|---|---|---|---|
| API intake (`api/v1/calls.py`, `services/call.py`) | rows | count, insert, `get_db` commit/rollback | the table |
| Status machine (`services/call.py`) | `status`, reasons | `_transition`: read, check, write by primary key | every writer's session |
| Claim (`R` `poll_once`) | row lock | lock oldest queued row, recount, commit `joining`/`failed` | row lock, task set |
| Call task (`R` `run_call` … `_finish_done_call`) | its place in the code, `end_reason`, `audio_url` in memory | spawn, stream, exit mapping, upload, transcribe, land, unlink, webhook | docker, storage, row |
| Main loop (`R` `main`) | timers | orphan sweep once, then stale sweep, retention, poll | docker, row |
| Webhook dispatcher (`workers/webhook_dispatcher.py`) | `webhook_attempts`, `webhook_delivered_at` | sign, flush, post, back off, commit | row lock, receiver |
| Retention (`workers/retention.py`) | `audio_url`, object | select, re-claim, delete, null, roll back | row lock, storage |
| Meeting bot (`bot/join_*.py`, `bot/listeners*.py`, `bot/record_audio.py`, `bot/consent.py`) | locals of the loop, `parec`, microphone | gate, session, join, mute, announce, poll, record, leave, exit code | page, signals, stdout |
| Page predicates (`bot/states.py`, `bot/states_zoom.py`) | none | read the page locator by locator | page |
| Transcription (`services/transcription.py`, `integrations/transcription/`) | attempt, presigned link | request, retry, parse | provider, row |
| Storage (`services/storage.py`, `integrations/object_storage/`) | none of the call | probe at the start, upload, source, delete | provider |
| Deploy scripts, configuration, schemas, logging, health | – | – | – |

### What is hard here

* A status write checks what its session has *read* and then updates by primary
  key. Two actors can pass the check on one status.
* The stale sweep, the orphan sweep, retention and the call's own task work on
  the same row, container and object with no lock across their steps.
* The runner may die between any two steps; nothing resumes a call.
* Webhooks are posted under a row lock held for minutes, by two possible actors, after
  a wait for whoever has it; a lost session takes the counts back.
* `docker kill` may fail and a bot that seemed to hang may come back late; nobody looks
  at the exit code of the one, and the other finishes a call that a sweep has selected.
* An object is deleted before the row stops naming it.
* The bot must decide from an unreliable page whether a meeting is over, and the
  meaning of its exit code depends on what it did long before. One poll is a dozen
  reads of a page that moves on between them.
* Three transcription attempts share one presigned link and one stale cutoff, and
  the answer to a request is the only copy of the transcript.

Per component, correctness means: the ceiling of concurrent calls holds and an
accepted call leaves the queue; rows follow the status machine and every call
ends; what a receiver is told stays true; audio is neither lost before it is
stored nor kept for ever; the bot leaves in time and says why; the meeting is shown
the consent signals; the transcript is that of the provider's one answer.

## 2. Modules

| Module | Models | Composition |
|---|---|---|
| `CallStatus` | the enum, its partitions, the transition table | extended by the others |
| `CallLifecycle` | the abstract promise: rows move along the table, receivers are told the row's outcome | refined by `BotRunner` |
| `Admission` | intake and claim, statement by statement, any number of requests and runners | |
| `Admission_proofs` | its theorems | |
| `BotRunner` | main loop, call tasks, containers, crashes; `Lifecycle == INSTANCE CallLifecycle WITH ...` | refines `CallLifecycle` (proved) |
| `BotRunner_proofs` | its theorems, the refinement, and what the abstract promise implies | |
| `StoredAudio` | the abstract promise about the audio: when it is stored, named and deleted | refined by `AudioRetention` |
| `AudioRetention` | the object of a call from upload to deletion; `Promise == INSTANCE StoredAudio WITH ...` | takes over where `BotRunner` has reached `processing`, with rows in finer detail (`audio_url`); refines `StoredAudio` (proved) |
| `AudioRetention_proofs` | its theorems and the refinement | |
| `WebhookDelivery` | one call's webhook: attempts, back-off, two dispatchers, retention's lock on the row, lost sessions | refines the two steps *post* and *commit* of the two modules above in time and number |
| `WebhookDelivery_proofs` | its theorems | |
| `DeepgramResponse` | the response parser as operators, and a reference definition of what a transcript is | extended by `Transcription` |
| `Transcription` | one call from `processing` to its landing: start-up choice of adapters, upload, source, requests, retries | takes over the `transcribe` step of `BotRunner`, in time |
| `Transcription_proofs` | its theorems | |
| `PageSight` | what one poll can conclude of the page | shared by the next two |
| `MeetingBot` | the call loop poll by poll on Meet or Zoom, its exit code and the runner's verdict | its exits are the `clean`/`fail` of `BotRunner` |
| `MeetingBot_proofs` | its theorems | |
| `BotProcess` | the process around the loop: gate, session, join, mute, announcement, computer audio | extends `MeetingBot`, implements it (proved) |
| `BotProcess_proofs` | that refinement and what follows from it | |
| `PagePoll` | one poll of `MeetingBot`, read by read, over a changing page | each poll is a sight of `PageSight` (proved) |
| `PagePoll_proofs` | its theorems | |
| `MC*` | the instances for TLC | |

Definitions whose comment begins with *Mutant* are not part of the model: each is
a changed copy of the definition below it, with the bug one could plausibly
write, and is used to confirm that a property would notice.

### How state and actions correspond to the code

**Admission.** `status[c]` is the committed row, `request[c]` the place of the
POST: `CheckIntake` is the `count_active` of `CallService.create`,
`InsertQueued` its insert and the commit of `get_db`, `LoseRequest` the rollback.
`arrivals` orders rows by `created_at`, the start of the inserting transaction.
`claim[r]` is a `poll_once` transaction: `LockOldest` is `ORDER BY created_at …
FOR UPDATE SKIP LOCKED`, `CountUnderLock` the recount and the disk check,
`CommitClaim` the commit, `LoseClaim` a death or lost connection. `Progress` is
any legal later move of a row, so the ceiling is judged against everything the
rest of the system may do.

**BotRunner.** `task[c].pc` walks through `run_call`, `apply_exit_status` and
what they call; `loop[r].pc` through `main`. Each service transaction is a read
step (`ReadExit`, `ReadRow`, `StaleRow`, `OrphanRow`) and a write step
(`CommitRow`, `StaleCommit`, `OrphanCommit`). `bot[c]` is the container as docker
knows it, `exit[c]` what `docker run` returned, `wav`/`stored` the two copies of
the audio, `hooks[c]` what the receiver was sent. `old[c]` abstracts time: the
row's `updated_at` is past the cutoff for its status; every write resets it. `LateBots`
lets a bot that hung come back, before or after a sweep has selected its call. `Kill` is
`docker kill` and `docker rm -f`: it removes the container or, as nobody looks at the
exit codes, leaves it there, and then `missed` has it. Crashes drop the loop and its
tasks and leave containers, rows and files. `lost` has the terminal calls whose
dispatcher a fault has hit: the crash of its runner, its task's death or the abort of
the sweep that was at it.

**AudioRetention.** Actors are the tasks and the main loop; each may be inside
`enforce_retention`. `Select` is both queries, `Reclaim` the `FOR UPDATE SKIP
LOCKED` by id, `DeleteObject`, `NullUrl` and `RollBack` the body of its loop.
`Land` writes the terminal status and `audio_url` in one commit, as the code does.
`keepDone` is chosen once: `AUDIO_RETENTION_DAYS` above 0, or the default 0.
`StoredAudio` has only a call's status, whether its row names the object, whether the
object exists and whether its window is over; the mapping reads the first two off the
row, `stored` is `object`, and `due` is `Due`, the two queries without their NOT NULL.

**WebhookDelivery.** `Sign` is the read of `dispatch_webhook` and the head of
`deliver`; `Flush`, `Post`, `Sleep` are the body of its loop, `Commit` the commit.
`disp[d].seen` is the session's copy of `webhook_attempts`. `waited` and `spent` are the
seconds since the timestamp was signed, before the row lock and under it; `Waits` adds to
`waited` of whoever has signed what the holder of the lock takes, another dispatcher or
retention (`held`, from `Reclaim` to `ReclaimEnds`). `conn` is the session: once it is lost
(`LoseSession`) the next flush or the commit raises, outside the `try` at the latest, and
the row is as it was before.

**MeetingBot.** `loop` has the locals of `run_call_loop`, `clock` is `now - start`
while the bot waits and `now - admitted_at` while it records. A *sight* is what the
predicates of `bot/states*.py` return in one poll; every combination is possible as
long as a count of two or more, or "alone", is true of the meeting (`True`). The
order of the exits of one poll is in their guards: notice, dead recorder, maximum
duration, room. `Finalize` is `close()`, the silence check and the result line;
`Apply` is `apply_exit_status` up to its first commit. A stop signal is a poll that
finds one (`StopPoll`). `returned` is history: others were in the meeting at a poll of
the alone grace that read the room.

**BotProcess.** `stage` is where the one thread of the bot stands outside the loop:
`Gate` is `main` and `_run` up to the browser, `Session` the profile and
`verify_consent_identity`, `OpenMeet`/`OpenZoom`/`SetName`/`MuteMic`/`ClickJoin` are
the join, `OpenChat`/`Send`/`Missed` are `post_chat_announcement`, `JoinAudio` is
`_join_computer_audio`. `LoopPoll` and `EndProcess` are steps of `MeetingBot`;
`JoinRaises` and `Refuse` are its `Prejoin`. `mic` tells a microphone that is off from
one that is open and from one that was clicked without a look at the result; `JoinAudio`
may reset it to open and then mutes it or, on any failure, does not. `Presses` are what
`post_chat_announcement` may do with the composer: a trusted click that raises although
it has landed, the same through the DOM, and a second press when the text is still there.

**PagePoll.** `ask` is the predicate that the loop is in, `look` the locator it tries
next. `Dialog`, `Text`, `WaitingText`, `Control`, `Button` and `Alone` are one locator
each; `After` is the order in which `run_call_loop` and its Zoom twin ask. Between any
two reads `PageChanges` may change the toolbar, the dialog, a text or the count.
Whether a pattern matches the page is the state of `page`.

**Transcription.** `Start` is the choice of adapters in `main` with its refusals,
`Upload`, `MakeSource` and `Guard` what precedes the client, `Request` one
`transcribe` of the adapter with every status code class and body, `Retry`/`Backoff`
the loop of `_transcribe_with_retries`. `clock` counts from the `processing` commit,
`linkedAt` is when the presigned URL was made. **DeepgramResponse** has the
loops of `_segments_from_utterances` and `_segments_from_words` over abstract entries (a
speaker, or `Bad`, and a place in the body, which stands for times and text);
`IsTranscriptOf` says of the result alone, without a loop, what the segments of a list
of entries must be.

## 3. Runs

| Run | Instance | Shows |
|---|---|---|
| `admission` | 3 calls, 2 runners, limit 1, fair | never more than the limit have a bot or are cleared for one; claims are exclusive; a late refusal implies an overlap at the intake; the queue drains |
| `runner` | 2 calls, 1 runner, limit 2, 2 faults | the runner implements `CallLifecycle`; `done` implies stored; receivers stay right; the last copy of the audio is never deleted; only unsupervised calls are orphans |
| `runner_live` | 2 calls, limit 1, 3 faults, late bots, overruns, fair | every call ends; a webhook is tried unless a fault hits its dispatcher after the terminal commit; containers of ended calls go, but for a hung one that docker failed to remove |
| `retention` | 2 calls, both windows, 1 fault | objects are named, dangling URIs are found again, and `StoredAudio` is implemented: windows are kept |
| `retention_live` | 1 call, overrun, 1 fault, fair | what a terminal row names is deleted in the end and no longer named |
| `webhook` | 2 dispatchers, 5 attempts, 1/4/16/64/256 s, 30 s an attempt, skew 300 s, one reclaim of 95 or 96 s, lost sessions | freshness with a wait up to the slack, counts, duplicates and termination of delivery |
| `bot` | Meet and Zoom, three account modes, limits 3/5/4/7 polls, slow polls of 2 | the bot ends, in time, with a reason that fits what happened; a finished recording is kept; a live microphone has one of two causes, both on Zoom; consent signals are shown |
| `page` | both platforms, every page, any change between reads | a poll never takes a call that goes on for one that has ended |
| `transcription` | every setup; short and longest waits; 7 codes; all bodies up to 3 entries | the call lands before the cutoff; links outlive retries; answers are kept; the transcript is the answer's |
| `runner_overrun`, `retention_snapshot`, `transcript_silent` | 1 call each | the three findings below |

**Why the bounds are enough to be interesting.** Limit 1 with three requests lets two
requests overlap while a third finds the ceiling; limit 2 with two calls lets both run
at once, limit 1 refuses one. Two faults reach a crash during the recovery from a crash;
a third only lengthens the same recovery and is affordable in `runner_live`. Every
transition needs one or two actors besides the call's own task, and there are exactly
two that can meet: task and loop. Retention has three (two tasks and the loop). In
`webhook` the last attempt begins after four of 30 s and pauses of 85 s together;
`Slack` is the 95 s that a skew of 300 s leaves. Retention's lock takes just that or one
second more, which is on both sides of the boundary; waits for the other dispatcher add
to it. `waited` stops at the first second past the slack and `accepted` at two, as no
property looks beyond; one reclaim is enough, since it can fall before any flush. In
`bot` the waits for an empty room and for the alone grace are longer than the three
confirmation polls, the recording limit is longer than any of them, and polls of one or
two units make deadlines fall between polls. `Horizon` is out of reach of every bot
(`BotEnds` would fail otherwise). In `page` the page changes one part at a time and any
number of times between two reads, so every change of several parts is a path. In
`transcription` each wait is short or as long as the code allows, and `PresignTTL` is
1350 s, little more than the 2 * 670 + 5 s after which the third request may begin (the
default is 3600 s); three entries and two alternatives reach every split, merge and
malformed place of the parser. `CHECK_DEADLOCK FALSE` is used where the system stops:
all calls over and no loop in the module, or no process that goes on for ever.

**Fairness.** Weak fairness of a task's and a loop's steps: PostgreSQL, docker, storage,
provider and receiver answer or time out. Docker has no timeout in the code
(`run_docker`), so a daemon that hangs for ever is excluded by assumption. Weak fairness
of `Start`: compose restarts the runner (`restart: unless-stopped`). Strong fairness of
`StaleSelect`, `RetentionTick` and `StaleRow`: their timers in `main` come due again and
again, though other work intervenes. Strong fairness of `CountUnderLock`/`CommitClaim`
and of `DeleteObject`/`NullUrl`: failures repeat, but not every time. Weak fairness of
`Age`: time passes. A hung bot gets none, and neither does its exit, late or not. In
`WebhookDelivery` a dispatcher's steps and the end of a deletion are weakly fair;
neither `Sign` nor a sweep has to happen. In `BotProcess` the thread's steps and the
runner's `Apply` are weakly fair: every wait of the bot has a time limit. Clients,
signals, a dying recorder and a kill get none. `Transcription` and `PagePoll` state no
fairness: their properties are of safety.

**Faults that are bounded** (`MaxFaults`): runner crashes, tasks that die on an
unexpected exception, stale sweeps that abort. Unbounded: refused commits of
retention, rolled back claims and requests, failing uploads, hanging bots, `docker kill`
that fails, unanswered POSTs, lost sessions of a delivery (one of each dispatcher, which
ends it).

## 4. What the code promises and does not do

Each is a run that TLC must find violated.

1. **A late failure overwrites `done`** (`runner_overrun`; README.md:224). When a
   transcription outlives `PROCESSING_STALE_CUTOFF_S`, the stale sweep reads
   `processing`, the task commits `done` and posts it, and the sweep commits
   `failed` by primary key. The receiver has been told `done`. A bot that hung and comes
   back between the select of the sweep and its commit gives the same race without a slow
   transcription (`LateBots`).
2. **A `done` webhook can lack its `audio_url`** (`retention_snapshot`; `R`:566-567,
   README.md:134-136). The retention tick of the main loop can run between the
   commit of `done` and the read of `dispatch_webhook`.
3. **A changed response can land as an empty transcript** (`transcript_silent`;
   deepgram.py:36-39, docs/transcription.md:70-71). A `results` object with neither an
   `utterances` list nor a `words` list is a call in which nobody spoke.

Smaller disagreements, met while modelling, that have no run of their own:

* Runner. What a failed upload leaves in the bucket is named by no row (`R`:494-495
  says the failed window owns it), nor is the object of a call that the stale sweep has
  failed (`R`:98-99); `ObjectNamed` excepts both. A second runner is not harmless
  (`R`:8-9, bot/README.md:157-158): its startup sweep takes the first one's bots for
  orphans. `done` is committed before the webhook is delivered, not after
  (README.md:240). A `docker kill` that fails is not noticed (`R`:744-745, 791-792): the
  sweep goes on to `failed`, and if the bot hangs its container stays until the next
  startup (`TerminalBotReaped`), which asks docker again.
* Webhook. The timestamp is signed before the wait for the row lock, so behind a long
  deletion or another dispatcher the last attempt, or all of them, may be older than the
  skew that README.md tells receivers to enforce (`TimestampFresh` says up to which wait
  it is not). A commit that fails after a 2xx takes `webhook_delivered_at` and the
  count back (`DuplicateNeedsCause`, `AttemptsCounted`).
* Bot. An operator stop lands as `end_reason=call_ended`, not `null` (bot/README.md exit
  table, code 0), and before the recording as `bot_error:exit_0`; `join_timeout` is
  unreachable, since a bot exits 4 only after it has recorded (`ReasonFitsHistory`); on
  Meet a leave click that raises turns a finished recording into `bot_error:exit_5`, on
  Zoom it does not. bot/README.md:242 lets the bot leave when it "remains" alone for the
  grace, but a poll that cannot read the room leaves `alone_since` running.
* Consent. `post_chat_announcement` says that it returns True when the message was
  posted; it does so whatever became of the presses. A composer that is slow to clear
  posts twice, and a send click that raises after it has landed up to three times
  (`ConsentSignals`). Against "must never join with a live mic", on Zoom the effect of the
  mute click is not looked at, and joining the computer audio may reset the microphone,
  which stays live if its toggle is not found or the click fails (`LiveMicHasCause`). A stop
  during the announcement or the computer audio waits for them, which can exceed the
  10 s of `docker stop`.
* Page. states_zoom.py:176 says that chat text "must never end a live call"; it can when
  the host role is taken back (End turns into Leave) between the two reads of
  `in_call_controls`, which is why `LiveCallGoesOn` excepts that turn. On Meet
  `is_removed` and `is_call_ended` trust the text even with the leave control there.
* Transcription. docs/transcription.md:56-57 speaks of about 11 minutes; three
  attempts may take 33. base.py:59 and transcription.py:8 write the size failure as
  `transcription_failed:size_*`, the code as "audio too large: …". deepgram.py says that a
  202 is an error, but accepts one that has results.

## 5. Proofs

`Admission_proofs` proves, for every finite set of calls, any set of runners and any
limit:

* `TypeCorrect`: `Spec => []TypeOK`.
* `ClaimsExclusive` and `Ceiling`: `ClaimsAreExclusive` and `CeilingHolds`. The
  inductive invariant is `CeilingInv == TypeOK /\ ClaimsAreExclusive /\ CeilingHolds`:
  the ceiling alone is not inductive, because the claim that is about to be decided
  must be known to be of a *queued* row, which the recount then includes, and of no
  other runner's. `ShrinkKeepsCeiling` covers the steps that admit nobody.
* `RefusalIsTheRace`: `RefusalNeedsOverlap`. `IntakeFits` strengthens it: as long as
  nothing has overlapped, active rows and the one request past the check fit the
  limit together, so no recount exceeds it.

`BotRunner_proofs`, for any set of calls, any limit and number of faults:

* `TypeCorrect`; `DoneHasAudio` and `OnlyCopyIsKept` with any number of runners and with
  overruns. `StoredFits` is what makes them inductive: a task that has uploaded has a
  stored object until it is over, and it reaches the unlink only behind a terminal row.
* `OrphansAreUnsupervised`, for one runner (`OneRunner`, the head comment of `R`).
  `Supervised`: a live task has a runner, and that runner is past its startup sweep.
* `StatusesAreStrict` and `LifecycleImplemented`, for one runner, `~Overrun` and
  `~LateBots`. Writers check a status they read some steps ago, so the table alone is
  not inductive: `RunnerInv` says who may write. A row or a sweep's list names as old
  only a call that is `Doomed`: its task is over, its bot hangs with the stream still
  open, or the task is on its way to `failed` after the kill, which need not have
  succeeded for that; `TaskFits` and `LoopFits` give the status of the row at each place
  of the task and of the sweep; hence two actors that hold one row both write `failed`.
  The lemmas before `SeenFromOutside` show each step of the runner to be a move of one
  row, a webhook with the outcome of its row, or a stutter of `CallLifecycle`.
* `Truth`: whatever implements the abstract life cycle tells receivers only outcomes that
  last. `ReceiversAgree` follows from it by the refinement alone.

The hypotheses are needed: with `Overrun` the run `runner_overrun` violates the property
(finding 1), a bot that comes back late gives the same race, and with a second runner
the startup sweep takes the first one's calls for orphans (section 4). `TypeCorrect`,
`DoneHasAudio` and `OnlyCopyIsKept` need neither.

`WebhookDelivery_proofs`, for any dispatchers, attempts, back-offs and times:

* `TypeCorrect`. `TypeInv` adds `AttemptsLeft` to the types: that `n` stays within
  `webhook_max_attempts` needs that who backs off has an attempt left.
* `DeliveredIsTaken` and `NothingAfterAnswer` from `AnswersFit`: an answer below 500
  leaves its dispatcher at the commit or beyond.
* `DuplicatesHaveCause` from `OneDelivery`: while nothing has gone wrong one dispatcher
  is at work, on a row that is not delivered, and a POST that was taken is committed or
  about to be. That is why *exactly once* needs none of the four mishaps: overlap, crash,
  lost session, lost answer.
* `TimestampsAreFresh`, if slack, attempts and pauses before the last attempt fit the skew
  together (`SkewCovers`, a condition on the constants; `DefaultsAreCovered` shows
  that the defaults of the settings leave 95 s). `SpentFits`: the seconds under the lock are
  the schedule's at its attempt, whoever else had the lock before and for how long.
* `AttemptsAreCounted`, for any number of dispatchers. `CountBounded` holds always: the
  session's copy of the counter and the row never exceed the sum of all POSTs, plus one
  that is out. `CountFits`: without an overlap, a crash or a lost session the copy *is* it.

`AudioRetention_proofs`, for any calls and number of faults: `TypeCorrect` with and
without overruns, and, under `~Overrun`, `ObjectsAreNamed`, `DanglingIsFound`,
`WindowIsKept` (no object goes before its window, a part of what `retention` checks as
`ImplementsPromise`) and `PromiseImplemented`. The re-claim of a row does not look at its
status again, so the window rests on an invariant about everybody, `Settled`: a task is
alone with a call that has not landed and is gone before the cutoff (`TasksInTime`); an
actor in its webhook holds up the window (`BusyIsFresh`); an object precedes the row that
names it (`StoredFirst`); what retention has selected stays due or loses its object, and
what it has claimed is still named (`DueKept`). None of them is inductive without the
others. Each `...Goes` lemma says where one step takes its actor; `AllowedKeeps` covers
all steps that change no row or object. `PromiseImplemented` maps each step to one of
`StoredAudio` or to a stutter (the `...Shows` lemmas): an upload that leaves something is
`Store`, a landing or a stale commit `End`, a deletion of what is there `Delete`, a null
`Forget`. It says what the three properties together do not: nothing is stored again
after the end, only a named object is deleted, and no row forgets an object that still
exists. With overruns the assumption fails, and finding 1 is the reason.

`Transcription_proofs`, for any waits within the assumptions and any bodies: `TypeCorrect`;
`LandsBeforeCutoff` and `LinkOutlivesRetries` (`Elapsed` bounds the clock at each place of
the task by the age of the link and the number of attempts, `Linked` says that the link
is as old as the upload and the HEAD took; neither bound follows without counting the
attempts); `FirstAnswerStands` from `AnswersFit`, an answer is there only once the call
has landed; and `TranscriptsAreFaithful`, for bodies with any number of entries.
`Faithful` is the invariant of the parser's loop after `n` entries: what the segments
hold is among these entries (`Sourced`), in their order (`Ordered`), all that parse are
there (`Complete`), and each segment spans its text (`Shaped`). An entry is dropped, opens
a segment or makes the last one longer: `DropKeeps`, `NewKeeps`, `ExtendKeeps`.

Two of these arguments are inductions over data, the sum over the dispatchers and the
loop over the entries. The library's induction theorems take an operator as a parameter,
which the provers cannot instantiate; `InductionBySet` has the same principle for a *set*
of numbers, and follows from `WFMin` of the library. The recursive functions are shown to
exist with it (`SumsExist`, `LoopExists`) before they are unfolded.

`MeetingBot_proofs`, for any timeouts of at least 1 and any number of confirmations:
`TypeCorrect`, `BoundOnRecording`, `ReasonIsTrue` (from `HistoryFits`: each exit
remembers enough of what the loop saw), `AloneIsTrue` (from `GraceFits`: while the grace
runs no read poll has found others) and `RecordingsAreKept` (from `KeptFits`: an outcome
after others were counted is clean unless silent or broken). They are stated over
`Init /\ [][Next]_vars`, so that `BotProcess_proofs` can use them:

* `ProcessImplementsLoop`: every step of `BotProcess` is one of `MeetingBot` or leaves
  its state alone. It is proved and not model-checked, since the refinement as a
  property of `bot` would exceed the time of a run.
* `ProcessKeepsPromises`: therefore join, announcement and computer audio cost a call
  none of the four promises.
* `ProcessTypeCorrect`, `MicIsMuted` and `ConsentIsSignalled` from `ProcessInv`: the
  stage fits the loop (`StageFits`), the name is fixed behind the session check
  (`NameFits`), the microphone is dealt with before the join control and only the audio
  join can bring it back (`MicFits`), and nothing is posted outside of the announcement
  (`ChatFits`).

`PagePoll_proofs`: `CallGoesOn` (from `CalmPoll`: what has been answered so far in a poll
in which the toolbar was always there) and `PollIsASight` (from `CountsAreShown`: each
answer about the room was on the page at some moment of the poll). The second licenses
`MeetingBot`'s atomic poll.

The assumptions are the named `ASSUME`s of the modules: `Calls` is finite, `NoCall` is no
call, `Limit` is a natural number (`Admission`); a limit and a number of faults, and
sentinels that are no call or runner (`BotRunner`); `MaxAttempts` is positive, `Backoff` a
non-empty list of times, skew, slack and the times of the lock are natural numbers, and
the dispatchers are finitely many, as the call's task and the main loop are
(`WebhookDelivery`); the main loop is no call (`AudioRetention`); a request
ends within connect and read timeout, the three together leave the slack that the comment
of the cutoff names, the link outlives two requests and their back-offs, and a body is a
list of entries of which no two stand at one place, which is what a place is
(`Transcription`; httpx applies its timeout to each phase, so the first of them is an
assumption about the network, not a fact of the code); the timeouts of the bot are
positive, as `_env_float` enforces (`MeetingBot`).

Every invariant and action property of section 3 that holds is proved. Only
model-checked is liveness, which the provers do not reach: `QueueDrains`, `EveryCallEnds`,
`WebhookTried`, `TerminalBotReaped`, `AudioReclaimed`, `DispatchEnds`, `BotEnds`.

## 6. Not modelled

* Selector and text patterns, login, stealth, human-like input (`bot/selectors*.py`,
  `bot/login.py`, …): matching on two web sites' pages and input timing. `PagePoll`
  takes as input whether a pattern matches, and a count or "alone" that is on the page is
  taken as true of the meeting. The RMS computation is likewise an input (`ok`,
  `silent`, `unreadable`).
* The key layout of the bucket and the partial copies of the local adapter, beyond that a
  failed upload may leave something.
* Chrome profile copies, spawn arguments, the health endpoint and its heartbeat: reads
  and files on which no status depends.
* Eight hazards of `PROJECT.json` have no property, each with the reason: no step of the
  code could do better (a second runner, a crash before the dispatch, an object that no
  row names, a scratch WAV, a poll that cannot read the room and leaves `alone_since`),
  the order at stake is fixed before the model begins (a status set from the bot's
  output), or it is outside the models (a docker daemon that never answers, the
  heartbeat while the main loop delivers webhooks).
* httpx applies its timeout to each phase of a request; `AttemptTime` bounds a whole
  POST. A wait for the row lock beyond the slack makes a timestamp too old; `TimestampFresh`
  says so by excepting these waits, whoever had the lock.
* Deployment scripts, configuration, schemas, logging, migrations.

## 7. Plan

Order of work: the most important behaviour first.

1. Done: `CallStatus`, `Admission`, `BotRunner` with its refinement, `AudioRetention`,
   `WebhookDelivery`, `MeetingBot`, `BotProcess`, `PagePoll`, `Transcription`, and the
   proofs of section 5.
2. Next modules: `Restore` (`deploy/restore.sh`: stop, dump, restore, start and what a
   failure in between leaves); the storage adapters (upload, idempotent delete, partial
   local copies) as a refinement of the object in `AudioRetention`.
3. Abstract specifications: `CallLifecycle` and `StoredAudio` are done; an *at most
   once without mishaps* delivery that `WebhookDelivery` implements is not.
4. Theorems: the delivery of 3 as a step simulation; what of the status machine and of
   the stored audio survives overruns and a second runner.
