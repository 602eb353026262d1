--------------------------- MODULE MeetingBot_proofs ---------------------------
(***************************************************************************)
(* Proofs about one bot in its meeting: the types, the bound on a          *)
(* recording and the reason that the row gives, for any timeouts and any   *)
(* page.                                                                   *)
(***************************************************************************)
EXTENDS MeetingBot, TLAPS

USE TimeoutsAssumption, PollsAssumption, HorizonAssumption

\* The exit codes of main, and the one of a container that was killed.
Codes == {0, 2, 3, 4, 5, 6, 7, 137}

Results == [code : Codes, end : EndReasons, recorded : BOOLEAN]

\* A clock that advances stays a clock.
LEMMA LaterIsClock ==
  ASSUME clock \in 0..Horizon, NEW d \in 1..SlowPoll
  PROVE  Later(d) \in 0..Horizon
BY DEF Later

LEMMA FreshIsLocals == ASSUME NEW saw \in BOOLEAN PROVE Fresh(saw) \in Locals
BY DEF Fresh, Locals, Never

\* Whatever makes the bot return leaves a typed state.
LEMMA ReturnTyped ==
  ASSUME TypeOK, NEW result \in Results, Return(result), mishap' \in BOOLEAN
  PROVE  TypeOK'
<1>1. loop.sawOthers \in BOOLEAN
  BY DEF TypeOK, Locals
<1> QED
  BY <1>1, FreshIsLocals DEF Return, TypeOK, Results, Codes, Started

\* The ways to return that the polls have are returns with a result.
LEMMA LeaveTyped ==
  ASSUME TypeOK, NEW code \in Codes, NEW end \in EndReasons, LeaveAndReturn(code, end)
  PROVE  TypeOK'
<1>1. Outcome(code, end, TRUE) \in Results /\ Raised \in Results
  BY DEF Outcome, Raised, Results, Codes, EndReasons
<1> QED
  BY <1>1, ReturnTyped DEF LeaveAndReturn, TypeOK

LEMMA ResultsTyped ==
  \A code \in Codes, end \in EndReasons, recorded \in BOOLEAN :
    Outcome(code, end, recorded) \in Results
BY DEF Outcome, Results

LEMMA RaisedTyped == Raised \in Results
BY DEF Raised, Outcome, Results, Codes, EndReasons

\* The locals after a poll that has read the room.
LEMMA LocalsAfterTyped ==
  ASSUME TypeOK, NEW s \in Sights
  PROVE  LocalsAfter(s) \in Locals
<1>1. 0 \in 0..(Confirm - 1) /\ clock \in -1..Horizon /\ Never \in -1..Horizon
  BY DEF TypeOK, Never
<1>2. s.room \in {"others", "alone", "unknown"} /\ loop \in Locals
  BY DEF Sights, TypeOK
<1>3. CASE s.room = "others"
  BY <1>1, <1>2, <1>3 DEF LocalsAfter, Locals
<1>4. CASE s.room = "alone"
  BY <1>1, <1>2, <1>4 DEF LocalsAfter, Locals
<1>5. CASE s.room = "unknown"
  BY <1>1, <1>2, <1>5 DEF LocalsAfter, Locals
<1> QED
  BY <1>2, <1>3, <1>4, <1>5

LEMMA ContinueTyped ==
  ASSUME TypeOK, NEW locals \in Locals, NEW others \in BOOLEAN, NEW read \in BOOLEAN,
         NEW d \in 1..SlowPoll, Continue(locals, others, read, d)
  PROVE  TypeOK'
BY LaterIsClock DEF Continue, TypeOK
-------------------------------------------------------------------------------
LEMMA TypeInit == Init => TypeOK
<1> SUFFICES ASSUME Init PROVE TypeOK
  OBVIOUS
<1>1. loop \in Locals
  BY FreshIsLocals DEF Init
<1>2. outcome \in Results
  BY RaisedTyped DEF Init
<1>3. row \in [status : {"joining", "recording", "processing", "failed"},
              why : EndReasons \cup FailureReasons]
  BY DEF Init, EndReasons
<1> QED
  <2>1. outcome \in [code : {0, 2, 3, 4, 5, 6, 7, 137}, end : EndReasons, recorded : BOOLEAN]
    BY <1>2 DEF Results, Codes
  <2>2. clock \in 0..Horizon
    BY DEF Init
  <2> QED
    BY <1>1, <1>3, <2>1, <2>2 DEF Init, TypeOK

\* Each poll, whatever it sees and however long it takes.
LEMMA PollTyped == TypeOK /\ Poll => TypeOK'
<1> SUFFICES ASSUME TypeOK, Poll PROVE TypeOK'
  OBVIOUS
<1> USE DEF Codes, EndReasons
<1>1. CASE StopPoll
  <2>1. CASE Started /\ LeaveAndReturn(0, "none")
    BY <2>1, LeaveTyped
  <2>2. CASE Return(Outcome(0, "none", FALSE)) /\ UNCHANGED mishap
    BY <2>2, ReturnTyped, ResultsTyped DEF TypeOK
  <2> QED
    BY <1>1, <2>1, <2>2 DEF StopPoll
<1>2. CASE PollRaises
  BY <1>2, ReturnTyped, RaisedTyped DEF PollRaises
<1>3. ASSUME NEW s \in Sights, NEW others \in BOOLEAN, NEW d \in 1..SlowPoll,
             \/ Admit(s, d) \/ Wait(s, d)
             \/ Notice(s) \/ RecorderDead(s) \/ GiveUp(s)
             \/ ReadRoom(s, others, d) \/ MissRoom(s, others, d)
      PROVE  TypeOK'
  <2>1. CASE Admit(s, d)
    <3>1. CASE Return(Outcome(5, "none", FALSE)) /\ mishap' = TRUE
      BY <3>1, ReturnTyped, ResultsTyped
    <3>2. [Fresh(FALSE) EXCEPT !.unknownSince = 0] \in Locals
      <4>1. 0 \in -1..Horizon
        OBVIOUS
      <4> QED
        BY <4>1, FreshIsLocals DEF Locals
    <3>3. [row EXCEPT !.status = "recording"]
            \in [status : {"joining", "recording", "processing", "failed"},
                 why : EndReasons \cup FailureReasons]
      BY DEF TypeOK
    <3>4. d \in 0..Horizon
      OBVIOUS
    <3>5. CASE ~(Return(Outcome(5, "none", FALSE)) /\ mishap' = TRUE)
      <4>1. /\ recorder' = "running" /\ clock' = d
            /\ row' = [row EXCEPT !.status = "recording"]
            /\ loop' = [Fresh(FALSE) EXCEPT !.unknownSince = 0]
            /\ UNCHANGED <<platform, pc, outcome, returned, mishap>>
        BY <2>1, <3>5 DEF Admit
      <4> QED
        BY <3>2, <3>3, <3>4, <4>1 DEF TypeOK
    <3> QED
      BY <3>1, <3>5
  <2>2. CASE Wait(s, d)
    <3>1. CASE \E code \in {2, 5} : Return(Outcome(code, "none", FALSE)) /\ UNCHANGED mishap
      BY <3>1, ReturnTyped, ResultsTyped DEF TypeOK
    <3>2. CASE clock' = Later(d) /\ UNCHANGED <<platform, pc, recorder, loop, outcome, row, returned, mishap>>
      BY <3>2, LaterIsClock DEF TypeOK
    <3> QED
      BY <2>2, <3>1, <3>2 DEF Wait
  <2>3. CASE Notice(s)
    BY <2>3, ReturnTyped, ResultsTyped DEF Notice, TypeOK
  <2>4. CASE RecorderDead(s)
    BY <2>4, LeaveTyped DEF RecorderDead
  <2>5. CASE GiveUp(s)
    BY <2>5, LeaveTyped DEF GiveUp
  <2>6. CASE ReadRoom(s, others, d)
    BY <2>6, LeaveTyped, LocalsAfterTyped, ContinueTyped DEF ReadRoom
  <2>7. CASE MissRoom(s, others, d)
    <3> DEFINE missed == IF s.controls = "contradiction" THEN 0 ELSE loop.missed + 1
    <3>1. CASE Return(Outcome(0, "call_ended", TRUE)) /\ UNCHANGED mishap
      BY <3>1, ReturnTyped, ResultsTyped DEF TypeOK
    <3>2. ASSUME ~Confirmed(missed) PROVE [loop EXCEPT !.missed = missed] \in Locals
      BY <3>2 DEF Confirmed, Locals, TypeOK
    <3> QED
      BY <2>7, <3>1, <3>2, ContinueTyped DEF MissRoom
  <2> QED
    BY <1>3, <2>1, <2>2, <2>3, <2>4, <2>5, <2>6, <2>7
<1> QED
  BY <1>1, <1>2, <1>3 DEF Poll

LEMMA TypeStep == TypeOK /\ [Next]_vars => TypeOK'
<1> SUFFICES ASSUME TypeOK, [Next]_vars PROVE TypeOK'
  OBVIOUS
<1> USE DEF Codes, EndReasons
<1>1. CASE Prejoin
  <2>1. CASE \E code \in {5, 6} : Return(Outcome(code, "none", FALSE)) /\ UNCHANGED mishap
    BY <2>1, ReturnTyped, ResultsTyped DEF TypeOK
  <2>2. CASE Return(Raised) /\ mishap' = TRUE
    BY <2>2, ReturnTyped, RaisedTyped
  <2>3. CASE pc' = "poll" /\ UNCHANGED <<platform, clock, recorder, loop, outcome, row, returned, mishap>>
    BY <2>3 DEF TypeOK
  <2> QED
    BY <1>1, <2>1, <2>2, <2>3 DEF Prejoin
<1>2. CASE Poll
  BY <1>2, PollTyped
<1>3. CASE Finalize
  <2>1. outcome' \in Results
    BY <1>3, RaisedTyped DEF Finalize, TypeOK, Results
  <2>2. mishap' \in BOOLEAN
    BY <1>3 DEF Finalize, TypeOK
  <2>3. pc' = "exited" /\ UNCHANGED <<platform, clock, recorder, loop, row, returned>>
    BY <1>3 DEF Finalize
  <2> QED
    BY <2>1, <2>2, <2>3 DEF TypeOK, Results
<1>4. CASE Apply
  <2>1. row'.why \in EndReasons \cup FailureReasons
    BY <1>4 DEF Apply, FailureReason, FailureReasons, TypeOK
  <2> QED
    BY <1>4, <2>1 DEF Apply, TypeOK
<1>5. CASE RecorderDies
  BY <1>5 DEF RecorderDies, TypeOK
<1>6. CASE Killed
  <2>1. Fresh(loop.sawOthers) \in Locals /\ Outcome(137, "none", FALSE) \in Results
    BY FreshIsLocals, ResultsTyped DEF TypeOK, Locals
  <2>2. recorder' \in {"off", "running", "dead", "stopped"} /\ pc' = "exited" /\ mishap' = TRUE
    BY <1>6 DEF Killed
  <2>3. /\ loop' = Fresh(loop.sawOthers) /\ outcome' = Outcome(137, "none", FALSE)
        /\ UNCHANGED <<platform, clock, row, returned>>
    BY <1>6 DEF Killed
  <2>4. outcome' \in [code : {0, 2, 3, 4, 5, 6, 7, 137}, end : EndReasons, recorded : BOOLEAN]
    <3>1. outcome' \in Results
      BY <2>1, <2>3
    <3> QED
      BY <3>1 DEF Results
  <2> QED
    BY <2>1, <2>2, <2>3, <2>4 DEF TypeOK
<1>7. CASE UNCHANGED vars
  BY <1>7 DEF vars, TypeOK
<1> QED
  BY <1>1, <1>2, <1>3, <1>4, <1>5, <1>6, <1>7 DEF Next, BotStep

\* The state of the bot and of the row keeps its types.
THEOREM TypeCorrect == Spec => []TypeOK
BY TypeInit, TypeStep, PTL DEF Spec

-------------------------------------------------------------------------------
(* The result of a bot fits what has happened in its call, from the return of  *)
(* the loop to the row.                                                       *)
HistoryFits ==
  /\ pc = "prejoin" => recorder = "off"
  /\ pc \in {"prejoin", "poll"} => outcome = Raised
  /\ pc # "applied" => row.why = "none" /\ (row.status = "recording" <=> Started)
  /\ outcome.code \in {2, 6} => ~Started
  /\ outcome.code = 4 => Started /\ ~loop.sawOthers
  /\ outcome.end = "alone" => loop.sawOthers
  /\ outcome.end = "give_up" => clock >= MaxRecord

\* A return with a result that fits the call keeps the history.
LEMMA ReturnFits ==
  ASSUME TypeOK, HistoryFits, pc # "applied", NEW result, Return(result),
         result.code \in {2, 6} => ~Started,
         result.code = 4 => Started /\ ~loop.sawOthers,
         result.end = "alone" => loop.sawOthers,
         result.end = "give_up" => clock >= MaxRecord
  PROVE  HistoryFits'
<1>1. /\ outcome' = result /\ pc' = "finalize" /\ Started' = Started
      /\ loop'.sawOthers = loop.sawOthers /\ UNCHANGED <<clock, row>>
  BY DEF Return, Started, Fresh
<1> QED
  BY <1>1 DEF HistoryFits

LEMMA RaisedFits ==
  ASSUME TypeOK, HistoryFits, pc # "applied", Return(Raised)
  PROVE  HistoryFits'
BY ReturnFits DEF Raised, Outcome

LEMMA LeaveFits ==
  ASSUME TypeOK, HistoryFits, pc # "applied", NEW code, NEW end, LeaveAndReturn(code, end),
         code \notin {2, 6}, code = 4 => Started /\ ~loop.sawOthers,
         end = "alone" => loop.sawOthers, end = "give_up" => clock >= MaxRecord
  PROVE  HistoryFits'
BY ReturnFits, RaisedFits DEF LeaveAndReturn, Outcome

LEMMA HistoryInit == Init => HistoryFits
BY DEF Init, HistoryFits, Raised, Outcome, Started

LEMMA HistoryStep == TypeOK /\ HistoryFits /\ [Next]_vars => HistoryFits'
<1> SUFFICES ASSUME TypeOK, HistoryFits, [Next]_vars PROVE HistoryFits'
  OBVIOUS
<1>1. ASSUME NEW locals, NEW others, NEW read, NEW d, Recording, Continue(locals, others, read, d)
      PROVE  HistoryFits'
  BY <1>1 DEF Continue, Recording, HistoryFits, Raised, Outcome, Started
<1>2. CASE Prejoin
  <2>1. CASE pc' = "poll" /\ UNCHANGED <<platform, clock, recorder, loop, outcome, row, returned, mishap>>
    BY <1>2, <2>1 DEF Prejoin, HistoryFits, Started
  <2>2. CASE \E code \in {5, 6} : Return(Outcome(code, "none", FALSE)) /\ UNCHANGED mishap
    BY <1>2, <2>2, ReturnFits DEF Prejoin, HistoryFits, Started, Outcome
  <2> QED
    BY <1>2, <2>1, <2>2, RaisedFits DEF Prejoin
<1>3. CASE Poll
  <2>1. CASE StopPoll
    BY <2>1, LeaveFits, ReturnFits DEF StopPoll, Outcome
  <2>2. CASE PollRaises
    BY <2>2, RaisedFits DEF PollRaises
  <2>3. ASSUME NEW s \in Sights, NEW others \in BOOLEAN, NEW d \in 1..SlowPoll,
               \/ Admit(s, d) \/ Wait(s, d)
               \/ Notice(s) \/ RecorderDead(s) \/ GiveUp(s)
               \/ ReadRoom(s, others, d) \/ MissRoom(s, others, d)
        PROVE  HistoryFits'
    <3>1. CASE Admit(s, d)
      <4>1. CASE Return(Outcome(5, "none", FALSE))
        BY <3>1, <4>1, ReturnFits DEF Admit, Waiting, Outcome
      <4>2. CASE ~Return(Outcome(5, "none", FALSE))
        <5>1. row'.status = "recording" /\ row'.why = row.why
          BY <3>1, <4>2 DEF Admit, TypeOK
        <5>2. pc = "poll" /\ recorder' = "running" /\ UNCHANGED <<pc, outcome>>
          BY <3>1, <4>2 DEF Admit, Waiting
        <5>3. Started' /\ outcome'.code = 5 /\ outcome'.end = "none"
          BY <5>2 DEF HistoryFits, Started, Raised, Outcome
        <5> QED
          BY <5>1, <5>2, <5>3 DEF HistoryFits
      <4> QED
        BY <4>1, <4>2
    <3>2. CASE Wait(s, d)
      <4>1. CASE \E code \in {2, 5} : Return(Outcome(code, "none", FALSE))
        BY <3>2, <4>1, ReturnFits DEF Wait, Waiting, Outcome
      <4>2. CASE UNCHANGED <<platform, pc, recorder, loop, outcome, row, returned, mishap>>
        BY <3>2, <4>2 DEF Wait, Waiting, HistoryFits, Started, Raised, Outcome
      <4> QED
        BY <3>2, <4>1, <4>2 DEF Wait
    <3>3. CASE Notice(s)
      BY <3>3, ReturnFits DEF Notice, Recording, Outcome
    <3>4. CASE RecorderDead(s)
      BY <3>4, LeaveFits DEF RecorderDead, Recording
    <3>5. CASE GiveUp(s)
      BY <3>5, LeaveFits DEF GiveUp, Recording, TooLong
    <3>6. CASE ReadRoom(s, others, d)
      <4>1. pc = "poll" /\ Started
        BY <3>6 DEF ReadRoom, Looks, Recording
      <4>2. CASE GraceOver(s) /\ LeaveAndReturn(0, "alone")
        BY <4>1, <4>2, LeaveFits DEF GraceOver
      <4>3. CASE RoomStayedEmpty(s) /\ LeaveAndReturn(4, "none")
        BY <4>1, <4>3, LeaveFits DEF RoomStayedEmpty
      <4>4. CASE RoomStayedUnknown(s) /\ LeaveAndReturn(5, "none")
        BY <4>1, <4>4, LeaveFits
      <4> QED
        BY <1>1, <3>6, <4>1, <4>2, <4>3, <4>4 DEF ReadRoom, Recording
    <3>7. CASE MissRoom(s, others, d)
      <4>1. Recording
        BY <3>7 DEF MissRoom, Looks
      <4>2. CASE Return(Outcome(0, "call_ended", TRUE))
        BY <4>1, <4>2, ReturnFits DEF Recording, Outcome
      <4> QED
        BY <1>1, <3>7, <4>1, <4>2 DEF MissRoom
    <3> QED
      BY <2>3, <3>1, <3>2, <3>3, <3>4, <3>5, <3>6, <3>7
  <2> QED
    BY <1>3, <2>1, <2>2, <2>3 DEF Poll
<1>4. CASE Finalize
  <2>1. \/ outcome' = Raised \/ outcome' = outcome
        \/ \E code \in {5, 7} : outcome' = [outcome EXCEPT !.code = code]
    BY <1>4 DEF Finalize
  <2>2. /\ outcome'.code \in {2, 6} => outcome.code \in {2, 6}
        /\ outcome'.code = 4 => outcome.code = 4
        /\ outcome'.end \in {"alone", "give_up"} => outcome'.end = outcome.end
    BY <2>1 DEF Raised, Outcome, TypeOK
  <2> QED
    BY <1>4, <2>2 DEF Finalize, HistoryFits, Started
<1>5. CASE Apply
  BY <1>5 DEF Apply, HistoryFits, Started
<1>6. CASE RecorderDies
  BY <1>6 DEF RecorderDies, HistoryFits, Started, Raised, Outcome
<1>7. CASE Killed
  <2>1. loop'.sawOthers = loop.sawOthers /\ outcome'.code = 137 /\ outcome'.end = "none"
    BY <1>7 DEF Killed, Fresh, Outcome
  <2>2. pc # "applied" /\ pc' = "exited" /\ Started' = Started /\ row' = row
    BY <1>7 DEF Killed, Started
  <2> QED
    BY <2>1, <2>2 DEF HistoryFits
<1>8. CASE UNCHANGED vars
  BY <1>8 DEF vars, HistoryFits, Started
<1> QED
  BY <1>2, <1>3, <1>4, <1>5, <1>6, <1>7, <1>8 DEF Next, BotStep

-------------------------------------------------------------------------------
(* Time passes only in a poll that has found the limit not yet reached, and a *)
(* poll takes at most SlowPoll.                                               *)
LEMMA BoundedStep == TypeOK /\ HistoryFits /\ RecordingBounded /\ [Next]_vars => RecordingBounded'
<1> SUFFICES ASSUME TypeOK, HistoryFits, RecordingBounded, [Next]_vars, Recording' PROVE clock' < MaxRecord + SlowPoll
  BY DEF RecordingBounded
<1> USE DEF Recording, Started, TypeOK
<1>1. ASSUME NEW locals, NEW others, NEW read, NEW d \in 1..SlowPoll, NEW s,
             Looks(s), Continue(locals, others, read, d)
      PROVE  clock' < MaxRecord + SlowPoll
  <2>1. clock < MaxRecord
    BY <1>1 DEF Looks, TooLong
  <2>2. clock' = clock + d
    BY <1>1, <2>1 DEF Continue, Later
  <2> QED
    BY <2>1, <2>2
<1>2. CASE Poll
  <2>1. CASE StopPoll \/ PollRaises
    BY <1>2, <2>1 DEF StopPoll, PollRaises, LeaveAndReturn, Return
  <2>2. ASSUME NEW s \in Sights, NEW others \in BOOLEAN, NEW d \in 1..SlowPoll,
               \/ Admit(s, d) \/ Wait(s, d)
               \/ Notice(s) \/ RecorderDead(s) \/ GiveUp(s)
               \/ ReadRoom(s, others, d) \/ MissRoom(s, others, d)
        PROVE  clock' < MaxRecord + SlowPoll
    <3>1. CASE Admit(s, d)
      BY <3>1 DEF Admit, Waiting, Return
    <3>2. CASE Wait(s, d)
      BY <3>2 DEF Wait, Waiting, Return
    <3>3. CASE Notice(s) \/ RecorderDead(s) \/ GiveUp(s)
      BY <3>3 DEF Notice, RecorderDead, GiveUp, LeaveAndReturn, Return
    <3>4. CASE ReadRoom(s, others, d)
      BY <3>4, <1>1 DEF ReadRoom, LeaveAndReturn, Return
    <3>5. CASE MissRoom(s, others, d)
      BY <3>5, <1>1 DEF MissRoom, Return
    <3> QED
      BY <2>2, <3>1, <3>2, <3>3, <3>4, <3>5
  <2> QED
    BY <1>2, <2>1, <2>2 DEF Poll
<1>3. CASE Prejoin \/ Finalize \/ Apply \/ Killed
  <2>1. CASE Prejoin
    BY <2>1 DEF Prejoin, Return, HistoryFits
  <2> QED
    BY <1>3, <2>1 DEF Finalize, Apply, Killed
<1>4. CASE RecorderDies \/ UNCHANGED vars
  BY <1>4 DEF RecorderDies, RecordingBounded, vars
<1> QED
  BY <1>2, <1>3, <1>4 DEF Next, BotStep

LEMMA LoopIsBounded == Init /\ [][Next]_vars => []RecordingBounded
<1>1. Init => RecordingBounded
  BY DEF Init, RecordingBounded, Recording, Started
<1> QED
  BY <1>1, TypeInit, TypeStep, HistoryInit, HistoryStep, BoundedStep, PTL

\* BOT_MAX_RECORD_DURATION: whatever the page shows or hides, no recording goes on
\* for longer than one slow poll after the limit.
THEOREM BoundOnRecording == Spec => []RecordingBounded
BY LoopIsBounded, PTL DEF Spec

LEMMA LoopReasonFits == Init /\ [][Next]_vars => []ReasonFitsHistory
<1> DEFINE AppliedFits == pc = "applied" => ReasonFitsHistory
<1>1. TypeOK /\ HistoryFits /\ AppliedFits /\ [Next]_vars => AppliedFits'
  <2> SUFFICES ASSUME TypeOK, HistoryFits, AppliedFits, [Next]_vars, pc' = "applied"
               PROVE  ReasonFitsHistory'
    OBVIOUS
  <2>1. CASE Apply
    <3>1. UNCHANGED <<clock, recorder, loop, outcome>> /\ Started' = Started
      BY <2>1 DEF Apply, Started
    <3>2. CASE Clean
      <4>1. row'.why \in {"removed", "call_ended", outcome.end}
        BY <2>1, <3>2 DEF Apply
      <4>2. outcome.end \in EndReasons
        BY DEF TypeOK
      <4> QED
        BY <3>1, <4>1, <4>2 DEF ReasonFitsHistory, HistoryFits, EndReasons
    <3>3. CASE ~Clean
      <4>1. row'.why = FailureReason(outcome.code, row.status)
        BY <2>1, <3>3 DEF Apply
      <4>2. /\ pc # "applied" /\ row.status = "recording" <=> Started
        BY <2>1 DEF Apply, HistoryFits
      <4>3. CASE outcome.code = 2
        BY <3>1, <4>1, <4>3 DEF FailureReason, ReasonFitsHistory, HistoryFits
      <4>4. CASE outcome.code = 4
        BY <2>1, <3>1, <4>1, <4>4 DEF FailureReason, ReasonFitsHistory, HistoryFits, Apply
      <4>5. CASE outcome.code = 6
        BY <3>1, <4>1, <4>5 DEF FailureReason, ReasonFitsHistory, HistoryFits
      <4>6. CASE outcome.code \notin {2, 4, 6}
        BY <3>1, <4>1, <4>6 DEF FailureReason, ReasonFitsHistory
      <4> QED
        BY <4>3, <4>4, <4>5, <4>6
    <3> QED
      BY <3>2, <3>3
  <2>2. CASE UNCHANGED vars
    BY <2>2 DEF vars, ReasonFitsHistory, Started
  <2>3. CASE Poll
    <3>1. pc = "poll"
      BY <2>3 DEF Poll, StopPoll, PollRaises, Admit, Wait, Notice, RecorderDead, GiveUp, ReadRoom,
                  MissRoom, Looks, Recording, Waiting
    <3>2. ASSUME NEW s, NEW others, NEW d, Admit(s, d) \/ Wait(s, d) PROVE pc' \in {"poll", "finalize"}
      BY <3>1, <3>2 DEF Admit, Wait, Return
    <3>3. ASSUME NEW s, NEW others, NEW d, ReadRoom(s, others, d) \/ MissRoom(s, others, d)
          PROVE  pc' \in {"poll", "finalize"}
      BY <3>1, <3>3 DEF ReadRoom, MissRoom, LeaveAndReturn, Return, Continue
    <3>4. ASSUME NEW s, Notice(s) \/ RecorderDead(s) \/ GiveUp(s) PROVE pc' = "finalize"
      BY <3>4 DEF Notice, RecorderDead, GiveUp, LeaveAndReturn, Return
    <3>5. CASE StopPoll \/ PollRaises
      BY <3>5 DEF StopPoll, PollRaises, LeaveAndReturn, Return
    <3> QED
      BY <2>3, <3>2, <3>3, <3>4, <3>5 DEF Poll
  <2>4. CASE Prejoin \/ Finalize \/ RecorderDies \/ Killed
    BY <2>4 DEF Prejoin, Finalize, RecorderDies, Killed, Return
  <2> QED
    BY <2>1, <2>2, <2>3, <2>4 DEF Next, BotStep
<1>2. TypeOK /\ HistoryFits /\ AppliedFits => ReasonFitsHistory
  BY DEF HistoryFits, ReasonFitsHistory
<1>3. Init => AppliedFits
  BY DEF Init
<1> QED
  BY <1>1, <1>2, <1>3, TypeInit, TypeStep, HistoryInit, HistoryStep, PTL

\* The row says of the call what has happened in it, for any timeouts.
THEOREM ReasonIsTrue == Spec => []ReasonFitsHistory
BY LoopReasonFits, PTL DEF Spec

-------------------------------------------------------------------------------
(* A poll that reads the room while others are in the meeting ends the grace. *)
GraceFits ==
  /\ ~returned
  /\ loop.aloneSince # Never => loop.sawOthers

LEMMA GraceContinue ==
  ASSUME TypeOK, GraceFits, NEW s \in Sights, NEW others \in BOOLEAN, NEW d, True(s, others),
         Continue(LocalsAfter(s), others, TRUE, d)
  PROVE  GraceFits'
<1>1. loop' = LocalsAfter(s) /\ s.room \in {"others", "alone", "unknown"} /\ loop \in Locals
  BY DEF Continue, Sights, TypeOK
<1>2. CASE s.room = "others"
  <2>1. loop'.aloneSince = Never
    BY <1>1, <1>2 DEF LocalsAfter, Locals
  <2> QED
    BY <1>1, <2>1 DEF Continue, GraceFits
<1>3. CASE s.room = "alone"
  <2>1. loop'.sawOthers = loop.sawOthers /\ (~loop.sawOthers => loop'.aloneSince = loop.aloneSince)
    BY <1>1, <1>3 DEF LocalsAfter, Locals
  <2>2. ~others
    BY <1>3 DEF True
  <2> QED
    BY <2>1, <2>2 DEF Continue, GraceFits
<1>4. CASE s.room = "unknown"
  <2>1. loop'.aloneSince = Never
    BY <1>1, <1>4 DEF LocalsAfter, Locals, GraceFits
  <2> QED
    BY <1>1, <2>1 DEF Continue, GraceFits
<1> QED
  BY <1>1, <1>2, <1>3, <1>4

LEMMA GraceStep == TypeOK /\ GraceFits /\ [Next]_vars => GraceFits'
<1> SUFFICES ASSUME TypeOK, GraceFits, [Next]_vars PROVE GraceFits'
  OBVIOUS
<1>1. ASSUME NEW result, Return(result) PROVE GraceFits'
  BY <1>1 DEF Return, GraceFits, Fresh
<1>2. CASE UNCHANGED <<loop, returned>>
  BY <1>2 DEF GraceFits
<1>3. CASE Poll
  <2>1. CASE StopPoll \/ PollRaises
    BY <1>1, <2>1 DEF StopPoll, PollRaises, LeaveAndReturn
  <2>2. ASSUME NEW s \in Sights, NEW others \in BOOLEAN, NEW d \in 1..SlowPoll, True(s, others),
               \/ Admit(s, d) \/ Wait(s, d)
               \/ Notice(s) \/ RecorderDead(s) \/ GiveUp(s)
               \/ ReadRoom(s, others, d) \/ MissRoom(s, others, d)
        PROVE  GraceFits'
    <3>1. CASE Admit(s, d)
      <4>1. CASE loop' = [Fresh(FALSE) EXCEPT !.unknownSince = 0] /\ UNCHANGED returned
        BY <4>1 DEF Fresh, GraceFits
      <4> QED
        BY <1>1, <3>1, <4>1 DEF Admit
    <3>2. CASE Wait(s, d)
      BY <1>1, <1>2, <3>2 DEF Wait
    <3>3. CASE Notice(s) \/ RecorderDead(s) \/ GiveUp(s)
      BY <1>1, <3>3 DEF Notice, RecorderDead, GiveUp, LeaveAndReturn
    <3>4. CASE ReadRoom(s, others, d)
      BY <1>1, <2>2, <3>4, GraceContinue DEF ReadRoom, LeaveAndReturn
    <3>5. ASSUME NEW missed, Continue([loop EXCEPT !.missed = missed], others, FALSE, d)
          PROVE  GraceFits'
      <4>1. loop'.aloneSince = loop.aloneSince /\ loop'.sawOthers = loop.sawOthers
        BY <3>5 DEF Continue, TypeOK, Locals
      <4> QED
        BY <3>5, <4>1 DEF Continue, GraceFits
    <3>6. CASE MissRoom(s, others, d)
      BY <1>1, <3>5, <3>6 DEF MissRoom
    <3> QED
      BY <2>2, <3>1, <3>2, <3>3, <3>4, <3>6
  <2> QED
    BY <1>3, <2>1, <2>2 DEF Poll
<1>4. CASE Prejoin
  BY <1>1, <1>2, <1>4 DEF Prejoin
<1>5. CASE Killed
  BY <1>5 DEF Killed, GraceFits, Fresh
<1>6. CASE Finalize \/ Apply \/ RecorderDies \/ UNCHANGED vars
  BY <1>2, <1>6 DEF Finalize, Apply, RecorderDies, vars
<1> QED
  BY <1>3, <1>4, <1>5, <1>6 DEF Next, BotStep

LEMMA LoopIsWitness == Init /\ [][Next]_vars => []AloneIsWitnessed
<1>1. Init => GraceFits
  BY DEF Init, GraceFits, Fresh
<1>2. HistoryFits /\ GraceFits => AloneIsWitnessed
  BY DEF HistoryFits, GraceFits, AloneIsWitnessed
<1> QED
  BY <1>1, <1>2, TypeInit, TypeStep, HistoryInit, HistoryStep, GraceStep, PTL

\* bot/README.md, "Join lifecycle": who leaves as alone has seen others before,
\* and read no room with others in it since.
THEOREM AloneIsTrue == Spec => []AloneIsWitnessed
BY LoopIsWitness, PTL DEF Spec

-------------------------------------------------------------------------------
(* A call in which others were counted, and in which nothing broke, ends with  *)
(* a code that the runner may take as clean.                                  *)
KeptFits ==
  /\ recorder = "dead" => mishap
  /\ loop.sawOthers => Started
  /\ pc \in {"finalize", "exited", "applied"} /\ loop.sawOthers /\ ~mishap
       => outcome.code \in {0, 3, 7}
  /\ pc # "applied" => row.status # "failed"
  /\ pc = "applied" => RecordingIsKept

\* A return that a mishap has caused, or that has such a code, or no others.
LEMMA ReturnKeeps ==
  ASSUME KeptFits, pc # "applied", NEW result, Return(result), mishap => mishap',
         \/ mishap' \/ ~loop.sawOthers \/ result.code \in {0, 3}
  PROVE  KeptFits'
<1>1. /\ pc' = "finalize" /\ loop'.sawOthers = loop.sawOthers /\ row' = row /\ outcome' = result
      /\ Started' = Started /\ recorder' # "dead"
  BY DEF Return, Fresh, Started
<1> QED
  BY <1>1 DEF KeptFits

LEMMA LeaveKeeps ==
  ASSUME TypeOK, KeptFits, pc # "applied", NEW code, NEW end, LeaveAndReturn(code, end),
         mishap \/ ~loop.sawOthers \/ code \in {0, 3}
  PROVE  KeptFits'
<1>1. CASE Return(Outcome(code, end, TRUE)) /\ UNCHANGED mishap
  BY <1>1, ReturnKeeps DEF Outcome
<1>2. CASE Return(Raised) /\ mishap' = TRUE
  BY <1>2, ReturnKeeps
<1> QED
  BY <1>1, <1>2 DEF LeaveAndReturn

LEMMA KeptStep == TypeOK /\ HistoryFits /\ KeptFits /\ [Next]_vars => KeptFits'
<1> SUFFICES ASSUME TypeOK, HistoryFits, KeptFits, [Next]_vars PROVE KeptFits'
  OBVIOUS
<1>1. ASSUME NEW locals, NEW others, NEW read, NEW d, Recording, Continue(locals, others, read, d)
      PROVE  KeptFits'
  BY <1>1 DEF Continue, Recording, KeptFits, Started
<1>2. CASE Prejoin
  <2>1. CASE pc' = "poll" /\ UNCHANGED <<platform, clock, recorder, loop, outcome, row, returned, mishap>>
    BY <1>2, <2>1 DEF Prejoin, KeptFits, Started
  <2>2. ~loop.sawOthers
    BY <1>2 DEF Prejoin, HistoryFits, KeptFits, Started
  <2>3. ASSUME NEW result, Return(result), mishap' = mishap \/ mishap' = TRUE PROVE KeptFits'
    BY <1>2, <2>2, <2>3, ReturnKeeps DEF Prejoin
  <2> QED
    BY <1>2, <2>1, <2>3 DEF Prejoin
<1>3. CASE Poll
  <2>1. CASE StopPoll
    BY <2>1, LeaveKeeps, ReturnKeeps DEF StopPoll, Outcome
  <2>2. CASE PollRaises
    BY <2>2, ReturnKeeps DEF PollRaises
  <2>3. ASSUME NEW s \in Sights, NEW others \in BOOLEAN, NEW d \in 1..SlowPoll,
               \/ Admit(s, d) \/ Wait(s, d)
               \/ Notice(s) \/ RecorderDead(s) \/ GiveUp(s)
               \/ ReadRoom(s, others, d) \/ MissRoom(s, others, d)
        PROVE  KeptFits'
    <3>1. CASE Admit(s, d)
      <4>1. CASE Return(Outcome(5, "none", FALSE)) /\ mishap' = TRUE
        BY <3>1, <4>1, ReturnKeeps DEF Admit, Waiting
      <4>2. CASE ~(Return(Outcome(5, "none", FALSE)) /\ mishap' = TRUE)
        <5>1. /\ pc = "poll" /\ pc' = "poll" /\ recorder' = "running"
              /\ row'.status = "recording"
          BY <3>1, <4>2 DEF Admit, Waiting, TypeOK
        <5> QED
          BY <5>1 DEF KeptFits, Started
      <4> QED
        BY <4>1, <4>2
    <3>2. CASE Wait(s, d)
      <4>1. pc = "poll" /\ ~loop.sawOthers
        BY <3>2 DEF Wait, Waiting, KeptFits
      <4>2. CASE UNCHANGED <<platform, pc, recorder, loop, outcome, row, returned, mishap>>
        BY <4>1, <4>2 DEF KeptFits, Started
      <4>3. ASSUME NEW result, Return(result), mishap' = mishap PROVE KeptFits'
        BY <4>1, <4>3, ReturnKeeps
      <4> QED
        BY <3>2, <4>2, <4>3 DEF Wait
    <3>3. CASE Notice(s)
      BY <3>3, ReturnKeeps DEF Notice, Recording, Outcome
    <3>4. CASE RecorderDead(s)
      BY <3>4, LeaveKeeps DEF RecorderDead, Recording, KeptFits
    <3>5. CASE GiveUp(s)
      BY <3>5, LeaveKeeps DEF GiveUp, Recording
    <3>6. CASE ReadRoom(s, others, d)
      <4>1. pc = "poll" /\ Recording
        BY <3>6 DEF ReadRoom, Looks, Recording
      <4>2. CASE GraceOver(s) /\ LeaveAndReturn(0, "alone")
        BY <4>1, <4>2, LeaveKeeps
      <4>3. CASE RoomStayedEmpty(s) /\ LeaveAndReturn(4, "none")
        BY <4>1, <4>3, LeaveKeeps DEF RoomStayedEmpty
      <4>4. CASE RoomStayedUnknown(s) /\ LeaveAndReturn(5, "none")
        BY <4>1, <4>4, LeaveKeeps DEF RoomStayedUnknown
      <4> QED
        BY <1>1, <3>6, <4>1, <4>2, <4>3, <4>4 DEF ReadRoom
    <3>7. CASE MissRoom(s, others, d)
      <4>1. pc = "poll" /\ Recording
        BY <3>7 DEF MissRoom, Looks, Recording
      <4>2. CASE Return(Outcome(0, "call_ended", TRUE)) /\ UNCHANGED mishap
        BY <4>1, <4>2, ReturnKeeps DEF Outcome
      <4> QED
        BY <1>1, <3>7, <4>1, <4>2 DEF MissRoom
    <3> QED
      BY <2>3, <3>1, <3>2, <3>3, <3>4, <3>5, <3>6, <3>7
  <2> QED
    BY <1>3, <2>1, <2>2, <2>3 DEF Poll
<1>4. CASE Finalize
  <2>1. /\ pc = "finalize" /\ pc' = "exited" /\ UNCHANGED <<recorder, loop, row>>
        /\ mishap => mishap'
    BY <1>4 DEF Finalize
  <2>2. ~mishap' => outcome' = outcome \/ outcome' = [outcome EXCEPT !.code = 7]
    BY <1>4 DEF Finalize
  <2>3. ~mishap' => outcome'.code \in {outcome.code, 7}
    BY <2>2 DEF TypeOK
  <2> QED
    BY <2>1, <2>3 DEF KeptFits, Started
<1>5. CASE Apply
  <2>1. /\ pc = "exited" /\ pc' = "applied"
        /\ UNCHANGED <<recorder, loop, outcome, mishap>> /\ Started' = Started
    BY <1>5 DEF Apply, Started
  <2>2. row'.status = "failed" => ~Clean /\ row'.why = FailureReason(outcome.code, row.status)
    BY <1>5 DEF Apply
  <2>3. loop.sawOthers => row.status = "recording"
    BY <2>1 DEF HistoryFits, KeptFits
  <2>4. ASSUME row'.status = "failed", loop.sawOthers, ~mishap
        PROVE  row'.why = "silent_recording" /\ outcome.end # "alone"
    <3>1. outcome.code = 7 /\ outcome.end # "alone"
      BY <2>1, <2>2, <2>3, <2>4 DEF Clean, KeptFits
    <3> QED
      BY <2>2, <2>4, <3>1 DEF FailureReason
  <2> QED
    BY <2>1, <2>4 DEF KeptFits, RecordingIsKept
<1>6. CASE RecorderDies
  BY <1>6 DEF RecorderDies, KeptFits, Started
<1>7. CASE Killed
  <2>1. /\ loop'.sawOthers = loop.sawOthers /\ pc # "applied" /\ pc' = "exited"
        /\ mishap' /\ row' = row /\ Started' = Started
    BY <1>7 DEF Killed, Fresh, Started
  <2> QED
    BY <2>1 DEF KeptFits
<1>8. CASE UNCHANGED vars
  BY <1>8 DEF vars, KeptFits, Started, RecordingIsKept
<1> QED
  BY <1>2, <1>3, <1>4, <1>5, <1>6, <1>7, <1>8 DEF Next, BotStep

LEMMA LoopKeeps == Init /\ [][Next]_vars => []RecordingIsKept
<1>1. Init => KeptFits
  BY DEF Init, KeptFits, Fresh, Started
<1>2. KeptFits => RecordingIsKept
  BY DEF KeptFits, RecordingIsKept
<1> QED
  BY <1>1, <1>2, TypeInit, TypeStep, HistoryInit, HistoryStep, KeptStep, PTL

\* No recording in which others were counted is lost to an ordinary end of its
\* call: it fails only when it is silent or when something broke.
THEOREM RecordingsAreKept == Spec => []RecordingIsKept
BY LoopKeeps, PTL DEF Spec
===============================================================================
