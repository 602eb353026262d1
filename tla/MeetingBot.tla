------------------------------ MODULE MeetingBot ------------------------------
(***************************************************************************)
(* One meeting bot from its start to the row it leaves: the join, the call *)
(* loop of Meet (bot/listeners.py) or Zoom (bot/listeners_zoom.py), the    *)
(* silence check and exit code of the process (bot/join_meet.py and        *)
(* bot/join_zoom.py), and what the runner makes of the code                *)
(* (apply_exit_status of workers/bot_runner.py).                           *)
(*                                                                         *)
(* One poll of the page is one step.  It reads a sight of the page, which  *)
(* is whatever the page shows within what is true of the meeting, and then *)
(* takes up to SlowPoll units of time.                                     *)
(***************************************************************************)
EXTENDS Integers, PageSight

CONSTANTS
  WaitingRoom, EmptyRoom, AloneGrace, MaxRecord,   \* Timeouts
  Confirm,                                         \* ENDED_CONFIRMATION_POLLS
  SlowPoll,    \* bound: the longest that one poll takes
  Horizon      \* bound: the clock goes no further; no bot lives that long

ASSUME TimeoutsAssumption == {WaitingRoom, EmptyRoom, AloneGrace, MaxRecord} \subseteq Nat \ {0}
ASSUME PollsAssumption == {Confirm, SlowPoll} \subseteq Nat \ {0}
ASSUME HorizonAssumption ==
  Horizon \in Nat /\ Horizon > WaitingRoom + MaxRecord + 2 * SlowPoll

VARIABLES
  platform,  \* BOT_PLATFORM
  pc,        \* where the bot stands
  clock,     \* now - start, and once it records now - admitted_at
  recorder,  \* the parec process
  loop,      \* the other locals of run_call_loop
  outcome,   \* BotOutcome, then the exit code that main makes of it
  row,       \* the call's row: its status and why it ended
  returned,  \* history: others were in the meeting at a poll since alone_since that
             \* read the room
  mishap     \* history: something raised, died, was killed or was unreadable

vars == <<platform, pc, clock, recorder, loop, outcome, row, returned, mishap>>

-------------------------------------------------------------------------------
Never == -1

EndReasons == {"none", "call_ended", "removed", "alone", "give_up"}

FailureReasons == {"never_admitted", "no_show", "join_timeout", "consent_missing",
                   "silent_recording", "bot_error"}

\* Meet reads the room only when is_admitted; Zoom whenever the toolbar shows.
ReadsRoom(s) ==
  \/ s.controls = "in_call"
  \/ platform = "zoom" /\ s.controls = "contradiction"

\* A count of two or more and a lone bot are read off a page that is right; no
\* chat copy passes for the page's own text about an empty room.
True(s, others) == /\ s.room = "others" => others
                   /\ s.room = "alone" => ~others

Locals == [aloneSince : -1..Horizon, unknownSince : -1..Horizon,
           missed : 0..(Confirm - 1), sawOthers : BOOLEAN]

Fresh(saw) == [aloneSince |-> Never, unknownSince |-> Never, missed |-> 0, sawOthers |-> saw]

Outcome(code, end, recorded) == [code |-> code, end |-> end, recorded |-> recorded]

\* main keeps exit 5 and no outcome when _run raises.
Raised == Outcome(5, "none", FALSE)

Started == recorder # "off"

Init ==
  /\ platform \in {"meet", "zoom"}
  /\ pc = "prejoin" /\ clock = 0 /\ recorder = "off"
  /\ loop = Fresh(FALSE)
  /\ outcome = Raised
  /\ row = [status |-> "joining", why |-> "none"]
  /\ returned = FALSE /\ mishap = FALSE

-------------------------------------------------------------------------------
\* Ways to return from the loop.  All of them stop the recorder.
Return(result) ==
  /\ pc' = "finalize" /\ outcome' = result
  /\ recorder' = IF Started THEN "stopped" ELSE "off"
  /\ loop' = Fresh(loop.sawOthers)
  /\ UNCHANGED <<platform, clock, row, returned>>

\* _finish_recording: Meet's click on the leave control can raise; Zoom's is
\* caught.
LeaveAndReturn(code, end) ==
  \/ Return(Outcome(code, end, TRUE)) /\ UNCHANGED mishap
  \/ platform = "meet" /\ Return(Raised) /\ mishap' = TRUE

\* A clock that would pass the horizon turns round in its last values.
Later(d) == IF clock + d <= Horizon THEN clock + d ELSE Horizon - SlowPoll

\* The recording goes on with new locals after d units of time.
Continue(locals, others, read, d) ==
  /\ loop' = locals
  /\ clock' = Later(d)
  /\ returned' = (/\ Never \notin {locals.aloneSince, loop.aloneSince}
                  /\ returned \/ (others /\ read))
  /\ UNCHANGED <<platform, pc, recorder, outcome, row, mishap>>

-------------------------------------------------------------------------------
\* The consent gate, the walls and missing controls before the join click.
Prejoin ==
  /\ pc = "prejoin"
  /\ \/ pc' = "poll" /\ UNCHANGED <<platform, clock, recorder, loop, outcome, row,
                                    returned, mishap>>
     \/ \E code \in {5, 6} : Return(Outcome(code, "none", FALSE)) /\ UNCHANGED mishap
     \/ Return(Raised) /\ mishap' = TRUE

\* A signal has come by the time the poll begins.
StopPoll ==
  /\ pc = "poll"
  /\ IF Started THEN LeaveAndReturn(0, "none")
     ELSE Return(Outcome(0, "none", FALSE)) /\ UNCHANGED mishap

Waiting == pc = "poll" /\ ~Started

\* is_admitted: recorder.start() raises, or the recording and its clock begin;
\* the runner marks the row when it reads "recording started", which is before
\* it sees the exit.
Admit(s, d) ==
  /\ Waiting /\ s.controls = "in_call"
  /\ \/ Return(Outcome(5, "none", FALSE)) /\ mishap' = TRUE
     \/ /\ recorder' = "running"
        /\ row' = [row EXCEPT !.status = "recording"]
        /\ clock' = d
        /\ loop' = [Fresh(FALSE) EXCEPT !.unknownSince = 0]
        /\ UNCHANGED <<platform, pc, outcome, returned, mishap>>

\* Mutant: a wait that shows the knocking screen does not run out.
WaitIsOverUnlessKnocking(s) == clock >= WaitingRoom /\ s.controls # "contradiction"

WaitIsOver(s) == clock >= WaitingRoom

Wait(s, d) ==
  /\ Waiting /\ s.controls # "in_call"
  /\ \/ s.blocked /\ Return(Outcome(5, "none", FALSE)) /\ UNCHANGED mishap
     \/ ~s.blocked /\ WaitIsOver(s) /\ Return(Outcome(2, "none", FALSE)) /\ UNCHANGED mishap
     \/ /\ ~s.blocked /\ ~WaitIsOver(s)
        /\ clock' = Later(d)
        /\ UNCHANGED <<platform, pc, recorder, loop, outcome, row, returned, mishap>>

Recording == pc = "poll" /\ Started

\* The removal and the end notices come before everything else.
Notice(s) ==
  /\ Recording /\ UNCHANGED mishap
  /\ \/ s.notice = "removed" /\ Return(Outcome(3, "removed", TRUE))
     \/ s.notice = "ended" /\ Return(Outcome(0, "call_ended", TRUE))

RecorderDead(s) ==
  /\ Recording /\ s.notice = "none" /\ recorder = "dead"
  /\ LeaveAndReturn(5, "none")

\* Mutant: the limit is looked at only with the participants.
TooLongInRoom(s) == clock >= MaxRecord /\ ReadsRoom(s)

TooLong(s) == clock >= MaxRecord

GiveUp(s) ==
  /\ Recording /\ s.notice = "none" /\ recorder = "running" /\ TooLong(s)
  /\ LeaveAndReturn(0, "give_up")

\* Polls that get to look for the participants.
Looks(s) ==
  Recording /\ s.notice = "none" /\ recorder = "running" /\ ~TooLong(s)

\* Mutant: an unknown count leaves the grace running.
LocalsAfterKeepGrace(s) ==
  CASE s.room = "others" ->
         [loop EXCEPT !.missed = 0, !.sawOthers = TRUE, !.aloneSince = Never, !.unknownSince = Never]
    [] s.room = "alone" /\ loop.sawOthers ->
         [loop EXCEPT !.missed = 0, !.aloneSince = IF @ = Never THEN clock ELSE @]
    [] s.room = "alone" /\ ~loop.sawOthers -> [loop EXCEPT !.missed = 0, !.unknownSince = Never]
    [] s.room = "unknown" /\ loop.sawOthers -> [loop EXCEPT !.missed = 0, !.unknownSince = Never]
    [] OTHER -> [loop EXCEPT !.missed = 0, !.unknownSince = IF @ = Never THEN clock ELSE @]

\* The locals after a poll that has read the room.
LocalsAfter(s) ==
  CASE s.room = "others" ->
         [loop EXCEPT !.missed = 0, !.sawOthers = TRUE, !.aloneSince = Never, !.unknownSince = Never]
    [] s.room = "alone" /\ loop.sawOthers ->
         [loop EXCEPT !.missed = 0, !.aloneSince = IF @ = Never THEN clock ELSE @]
    [] s.room = "alone" /\ ~loop.sawOthers -> [loop EXCEPT !.missed = 0, !.unknownSince = Never]
    [] s.room = "unknown" /\ loop.sawOthers ->
         [loop EXCEPT !.missed = 0, !.aloneSince = Never, !.unknownSince = Never]
    [] OTHER -> [loop EXCEPT !.missed = 0, !.unknownSince = IF @ = Never THEN clock ELSE @]

\* The three ways in which the room itself ends the call.
GraceOver(s) ==
  /\ s.room = "alone" /\ loop.sawOthers
  /\ loop.aloneSince # Never /\ clock - loop.aloneSince >= AloneGrace

RoomStayedEmpty(s) ==
  s.room = "alone" /\ ~loop.sawOthers /\ clock >= EmptyRoom

RoomStayedUnknown(s) ==
  /\ s.room = "unknown" /\ ~loop.sawOthers
  /\ clock - LocalsAfter(s).unknownSince >= EmptyRoom

ReadRoom(s, others, d) ==
  /\ Looks(s) /\ ReadsRoom(s)
  /\ \/ GraceOver(s) /\ LeaveAndReturn(0, "alone")
     \/ RoomStayedEmpty(s) /\ LeaveAndReturn(4, "none")
     \/ RoomStayedUnknown(s) /\ LeaveAndReturn(5, "none")
     \/ /\ ~GraceOver(s) /\ ~RoomStayedEmpty(s) /\ ~RoomStayedUnknown(s)
        /\ Continue(LocalsAfter(s), others, TRUE, d)

\* Mutant: one more poll than ENDED_CONFIRMATION_POLLS.
ConfirmedLate(missed) == missed > Confirm

Confirmed(missed) == missed >= Confirm

\* No room to read: on Meet a leave control behind a knocking text keeps the
\* call, and polls without a control are counted on both platforms.
MissRoom(s, others, d) ==
  /\ Looks(s) /\ ~ReadsRoom(s)
  /\ LET missed == IF s.controls = "contradiction" THEN 0 ELSE loop.missed + 1
     IN  \/ /\ Confirmed(missed)
            /\ Return(Outcome(0, "call_ended", TRUE)) /\ UNCHANGED mishap
         \/ /\ ~Confirmed(missed)
            /\ Continue([loop EXCEPT !.missed = missed], others, FALSE, d)

\* A predicate or a click raises out of the loop (the page is gone).
PollRaises ==
  pc = "poll" /\ Return(Raised) /\ mishap' = TRUE

Poll ==
  \/ StopPoll
  \/ PollRaises
  \/ \E s \in Sights, others \in BOOLEAN, d \in 1..SlowPoll :
       /\ True(s, others)
       /\ \/ Admit(s, d) \/ Wait(s, d)
          \/ Notice(s) \/ RecorderDead(s) \/ GiveUp(s)
          \/ ReadRoom(s, others, d) \/ MissRoom(s, others, d)

\* parec dies on its own.
RecorderDies ==
  /\ pc = "poll" /\ recorder = "running"
  /\ recorder' = "dead" /\ mishap' = TRUE
  /\ UNCHANGED <<platform, pc, clock, loop, outcome, row, returned>>

-------------------------------------------------------------------------------
\* close() of _run, which can raise, _finalize_recording and _emit_result.
Finalize ==
  /\ pc = "finalize" /\ pc' = "exited"
  /\ \/ outcome' = Raised /\ mishap' = TRUE
     \/ /\ outcome.code # 0 \/ ~outcome.recorded
        /\ UNCHANGED <<outcome, mishap>>
     \/ /\ outcome.code = 0 /\ outcome.recorded
        /\ \/ UNCHANGED <<outcome, mishap>>                                \* ok
           \/ outcome' = [outcome EXCEPT !.code = 7] /\ UNCHANGED mishap   \* silent
           \/ outcome' = [outcome EXCEPT !.code = 5] /\ mishap' = TRUE     \* unreadable
  /\ UNCHANGED <<platform, clock, recorder, loop, row, returned>>

\* docker kill, or the container's memory: an exit with no result line.
Killed ==
  /\ pc \in {"prejoin", "poll", "finalize"}
  /\ pc' = "exited" /\ mishap' = TRUE
  /\ outcome' = Outcome(137, "none", FALSE)
  /\ recorder' = IF Started THEN "stopped" ELSE "off"
  /\ loop' = Fresh(loop.sawOthers)
  /\ UNCHANGED <<platform, clock, row, returned>>

\* Mutant: an exit 4 is a no-show whether or not the bot has recorded.
FailureReasonSwapped(code, status) ==
  CASE code = 2 -> "never_admitted"
    [] code = 4 -> IF status = "recording" THEN "join_timeout" ELSE "no_show"
    [] code = 6 -> "consent_missing"
    [] code = 7 -> "silent_recording"
    [] OTHER -> "bot_error"

\* _failure_reason, without the exit code that bot_error carries.
FailureReason(code, status) ==
  CASE code = 2 -> "never_admitted"
    [] code = 4 -> IF status = "recording" THEN "no_show" ELSE "join_timeout"
    [] code = 6 -> "consent_missing"
    [] code = 7 -> "silent_recording"
    [] OTHER -> "bot_error"

\* Mutant: only exit 0 is clean, and the recording of a removed bot is lost.
CleanZero == row.status = "recording" /\ outcome.code = 0

\* clean or alone_via_silence of apply_exit_status
Clean ==
  /\ row.status = "recording"
  /\ outcome.code \in {0, 3} \/ (outcome.code = 7 /\ outcome.end = "alone")

\* apply_exit_status up to its first commit.
Apply ==
  /\ pc = "exited" /\ pc' = "applied"
  /\ row' = IF Clean
            THEN [status |-> "processing",
                  why |-> IF outcome.code = 3 THEN "removed"
                          ELSE IF outcome.end = "none" THEN "call_ended" ELSE outcome.end]
            ELSE [status |-> "failed", why |-> FailureReason(outcome.code, row.status)]
  /\ UNCHANGED <<platform, clock, recorder, loop, outcome, returned, mishap>>

BotStep == Prejoin \/ Poll \/ Finalize

Next == BotStep \/ Apply \/ RecorderDies \/ Killed

\* Every wait of the bot has a time limit, and the runner reads its output.
Spec == Init /\ [][Next]_vars /\ WF_vars(BotStep) /\ WF_vars(Apply)

-------------------------------------------------------------------------------
\* Types of the bot's and the row's state.
TypeOK ==
  /\ platform \in {"meet", "zoom"}
  /\ pc \in {"prejoin", "poll", "finalize", "exited", "applied"}
  /\ clock \in 0..Horizon
  /\ recorder \in {"off", "running", "dead", "stopped"}
  /\ loop \in Locals
  /\ outcome \in [code : {0, 2, 3, 4, 5, 6, 7, 137}, end : EndReasons, recorded : BOOLEAN]
  /\ row \in [status : {"joining", "recording", "processing", "failed"},
              why : EndReasons \cup FailureReasons]
  /\ returned \in BOOLEAN
  /\ mishap \in BOOLEAN

\* BOT_MAX_RECORD_DURATION: whatever the page shows or hides, the loop is out of
\* a recording one slow poll after the limit.
RecordingBounded ==
  Recording => clock < MaxRecord + SlowPoll

\* bot/README.md, "Join lifecycle": the alone path needs two participants seen
\* first, and in the grace no poll that read the room, not even one that could not
\* count, was made while others were in the meeting.
AloneIsWitnessed ==
  outcome.end = "alone" =>
    loop.sawOthers /\ ~returned

\* The row says of the call what has happened in it: no_show is a recording in
\* which no other participant was counted, never_admitted has no recording, and
\* a join_timeout does not exist.
ReasonFitsHistory ==
  /\ row.why \in {"never_admitted", "consent_missing"} => ~Started
  /\ row.why = "no_show" => Started /\ ~loop.sawOthers
  /\ row.why = "alone" => loop.sawOthers
  /\ row.why = "give_up" => clock >= MaxRecord
  /\ row.why # "join_timeout"

\* A recording in which others were counted fails only when it is silent or
\* something broke: no ordinary end of a call, and no removal, loses it.
RecordingIsKept ==
  row.status = "failed" /\ loop.sawOthers /\ ~mishap
    => row.why = "silent_recording" /\ outcome.end # "alone"

\* The bot always ends and its call gets a verdict, whatever the page shows.
BotEnds == <>(pc = "applied")
===============================================================================
