--------------------------- MODULE BotProcess_proofs ---------------------------
(***************************************************************************)
(* The process implements the bot of module MeetingBot: its join takes the *)
(* steps of Prejoin, and what it does between two polls is a stutter.  So  *)
(* it has what is proved of that bot.  What it adds, the microphone, the   *)
(* name and the announcement, is proved here by an invariant over the      *)
(* stages of its one thread.                                               *)
(***************************************************************************)
EXTENDS BotProcess, MeetingBot_proofs

\* A refusal before the loop is one of Prejoin's three outcomes.
LEMMA RefusalIsPrejoin ==
  ASSUME NEW code \in {5, 6}, pc = "prejoin", Refuse(code)
  PROVE  Next
BY DEF Refuse, Prejoin, BotStep, Next

\* Going on to another stage changes nothing that MeetingBot has.
LEMMA StageIsStutter ==
  ASSUME NEW next, GoTo(next)
  PROVE  UNCHANGED vars
BY DEF GoTo

\* Every step of the process is one of the loop's bot or none.
LEMMA ProcessStepIsLoop ==
  ASSUME [ProcessNext]_allVars
  PROVE  [Next]_vars
<1>1. CASE Gate
  BY <1>1, RefusalIsPrejoin, StageIsStutter DEF Gate
<1>2. CASE Session
  BY <1>2, RefusalIsPrejoin, StageIsStutter DEF Session
<1>3. CASE OpenMeet
  BY <1>3, RefusalIsPrejoin, StageIsStutter DEF OpenMeet
<1>4. CASE OpenZoom
  BY <1>4, RefusalIsPrejoin, StageIsStutter DEF OpenZoom
<1>5. CASE SetName
  BY <1>5, StageIsStutter DEF SetName
<1>6. CASE MuteMic
  BY <1>6, RefusalIsPrejoin, StageIsStutter DEF MuteMic, MicRefusal
<1>7. CASE ClickJoin
  <2>1. CASE Refuse(5)
    BY <1>7, <2>1, RefusalIsPrejoin DEF ClickJoin
  <2>2. CASE ~Refuse(5)
    BY <1>7, <2>2 DEF ClickJoin, Prejoin, BotStep, Next
  <2> QED
    BY <2>1, <2>2
<1>8. CASE JoinRaises
  BY <1>8 DEF JoinRaises, Prejoin, BotStep, Next
<1>9. CASE LoopPoll
  BY <1>9 DEF LoopPoll, BotStep, Next
<1>10. CASE Missed
  BY <1>10, StageIsStutter DEF Missed
<1>11. CASE OpenChat \/ Send \/ JoinAudio
  BY <1>11, StageIsStutter DEF OpenChat, Send, JoinAudio
<1>12. CASE EndProcess
  BY <1>12 DEF EndProcess, BotStep, Next
<1>13. CASE (Apply \/ RecorderDies \/ Killed) /\ UNCHANGED process
  BY <1>13 DEF Next
<1>14. CASE UNCHANGED allVars
  BY <1>14 DEF allVars
<1> QED
  BY <1>1, <1>2, <1>3, <1>4, <1>5, <1>6, <1>7, <1>8, <1>9, <1>10, <1>11, <1>12, <1>13,
     <1>14 DEF ProcessNext, ProcessStep

\* run_call_loop, "best-effort: an exception is logged and never affects the
\* lifecycle": the process implements the bot of the loop.
THEOREM ProcessImplementsLoop == ProcessSpec => Init /\ [][Next]_vars
<1>1. ProcessInit => Init
  BY DEF ProcessInit
<1> QED
  BY <1>1, ProcessStepIsLoop, PTL DEF ProcessSpec

\* The consent announcement and the computer audio cost a call none of what the
\* loop promises: the bound, the witnessed end, a true reason, a kept recording.
THEOREM ProcessKeepsPromises ==
  ProcessSpec => [](RecordingBounded /\ AloneIsWitnessed /\ ReasonFitsHistory /\ RecordingIsKept)
BY ProcessImplementsLoop, LoopIsBounded, LoopIsWitness, LoopReasonFits, LoopKeeps, PTL
-------------------------------------------------------------------------------
(* The stages before the click on the join control, and those after it.  The *)
(* stage stays what it was when the bot returns or is killed.                *)
BeforeJoin == {"gate", "session", "page", "client", "name", "mic", "click"}

AfterJoin == {"loop", "announce", "send", "audio"}

StageFits ==
  /\ pc = "prejoin" => stage \in BeforeJoin /\ recorder = "off"
  /\ pc = "poll" => stage \in AfterJoin
  /\ stage \in {"announce", "send", "audio"} => Started
  /\ stage = "audio" => platform = "zoom"

\* The name is fixed once the session check is over, and nothing changes it.
NameFits ==
  /\ platform = "zoom" => mode = "anonymous"
  /\ mode = "production" /\ stage \notin {"gate", "session"} => name = "fixed"

\* The microphone is muted, or on Zoom was clicked, before the join control is;
\* only the audio join of a recording on Zoom can undo it.
MicFits ==
  stage \in AfterJoin \cup {"click"} =>
    mic = "off" \/ (platform = "zoom" /\ (mic = "unproved" \/ (stage = "loop" /\ Started)))

\* Nothing is posted before the announcement's send, and the loop goes on with a
\* recording only when the announcement has ended.
ChatFits ==
  /\ ~Started \/ stage \in {"announce", "send"} => chat.posts = 0 /\ chat.end = "none"
  /\ Started /\ stage \in {"loop", "audio"} => chat.end # "none"
  /\ chat.posts <= 3
  /\ chat.posts >= 2 => chat.end \in {"repressed", "missed"}

ProcessTyped ==
  /\ platform \in {"meet", "zoom"}
  /\ stage \in BeforeJoin \cup AfterJoin
  /\ mode \in Modes /\ name \in {"none", "fixed", "other"}
  /\ mic \in {"off", "open", "unproved"}
  /\ chat \in [posts : Nat, end : {"none", "missed", "posted", "repressed"}]

ProcessInv == ProcessTyped /\ StageFits /\ NameFits /\ MicFits /\ ChatFits

LEMMA ProcessInvInit == ProcessInit => ProcessInv
BY DEF ProcessInit, Init, ProcessInv, ProcessTyped, StageFits, NameFits, MicFits, ChatFits,
       BeforeJoin, AfterJoin, Modes, Started

\* A bot that has left its loop keeps what it did.
LEMMA LeftKeeps ==
  ASSUME ProcessInv, UNCHANGED <<platform, process>>, Started' = Started,
         pc' \notin {"prejoin", "poll"}
  PROVE  ProcessInv'
BY DEF ProcessInv, ProcessTyped, StageFits, NameFits, MicFits, ChatFits, process

LEMMA ReturnLeaves ==
  ASSUME NEW result, Return(result)
  PROVE  platform' = platform /\ Started' = Started /\ pc' = "finalize"
BY DEF Return, Started

LEMMA RefusalKeeps ==
  ASSUME ProcessInv, NEW code, Refuse(code)
  PROVE  ProcessInv'
BY ReturnLeaves, LeftKeeps DEF Refuse

\* A poll returns, starts the recorder or leaves it as it is.
LEMMA PollEffect ==
  ASSUME Poll
  PROVE  /\ pc = "poll" /\ platform' = platform
         /\ \/ pc' = "finalize" /\ Started' = Started /\ ~Announces
            \/ pc' = "poll" /\ recorder' = recorder /\ ~Announces
            \/ pc' = "poll" /\ Started' /\ Announces
<1>1. ASSUME NEW result, Return(result) PROVE pc' = "finalize" /\ ~Announces
  BY <1>1 DEF Return, Announces, Started
<1>2. ASSUME NEW code, NEW end, LeaveAndReturn(code, end)
      PROVE  pc' = "finalize" /\ ~Announces /\ platform' = platform /\ Started' = Started
  BY <1>1, <1>2, ReturnLeaves DEF LeaveAndReturn
<1>3. CASE StopPoll \/ PollRaises
  BY <1>1, <1>2, <1>3, ReturnLeaves DEF StopPoll, PollRaises
<1>4. ASSUME NEW s \in Sights, NEW others \in BOOLEAN, NEW d \in 1..SlowPoll,
             \/ Admit(s, d) \/ Wait(s, d)
             \/ Notice(s) \/ RecorderDead(s) \/ GiveUp(s)
             \/ ReadRoom(s, others, d) \/ MissRoom(s, others, d)
      PROVE  /\ pc = "poll" /\ platform' = platform
             /\ \/ pc' = "finalize" /\ Started' = Started /\ ~Announces
                \/ pc' = "poll" /\ recorder' = recorder /\ ~Announces
                \/ pc' = "poll" /\ Started' /\ Announces
  <2>1. CASE Admit(s, d)
    BY <1>1, <2>1, ReturnLeaves DEF Admit, Waiting, Announces, Started
  <2>2. CASE Wait(s, d)
    BY <1>1, <2>2, ReturnLeaves DEF Wait, Waiting, Announces, Started
  <2>3. CASE Notice(s)
    BY <1>1, <2>3, ReturnLeaves DEF Notice, Recording
  <2>4. CASE RecorderDead(s) \/ GiveUp(s)
    BY <1>2, <2>4 DEF RecorderDead, GiveUp, Recording
  <2>5. ASSUME NEW locals, NEW read, Recording, Continue(locals, others, read, d)
        PROVE  pc' = "poll" /\ recorder' = recorder /\ ~Announces /\ platform' = platform
    BY <2>5 DEF Recording, Continue, Announces
  <2>6. CASE ReadRoom(s, others, d)
    BY <1>2, <2>5, <2>6 DEF ReadRoom, Looks, Recording
  <2>7. CASE MissRoom(s, others, d)
    BY <1>1, <2>5, <2>7, ReturnLeaves DEF MissRoom, Looks, Recording
  <2> QED
    BY <1>4, <2>1, <2>2, <2>3, <2>4, <2>6, <2>7
<1> QED
  BY <1>3, <1>4 DEF Poll, StopPoll, PollRaises

LEMMA ProcessInvStep == ProcessInv /\ [ProcessNext]_allVars => ProcessInv'
<1> SUFFICES ASSUME ProcessInv, [ProcessNext]_allVars PROVE ProcessInv'
  OBVIOUS
<1> USE DEF ProcessInv, ProcessTyped, StageFits, NameFits, MicFits, ChatFits, BeforeJoin,
            AfterJoin, Modes
<1>1. ASSUME NEW next, GoTo(next)
      PROVE  UNCHANGED <<platform, pc, recorder, mode>> /\ Started' = Started /\ stage' = next
  BY <1>1 DEF GoTo, vars, Started
<1>2. CASE Gate
  BY <1>1, <1>2, RefusalKeeps DEF Gate, Authenticated
<1>3. CASE Session
  <2>1. CASE Refuse(5)
    BY <2>1, RefusalKeeps
  <2>2. CASE ~Refuse(5)
    <3>1. PICK account \in {"fixed", "other"}, read \in {"fixed", "other", "unknown"} :
            /\ read \in {account, "unknown"} /\ IdentityAccepted(read)
            /\ name' = account /\ GoTo("page") /\ UNCHANGED <<mic, chat>>
      BY <1>3, <2>2 DEF Session
    <3>2. mode = "production" => account = "fixed"
      BY <3>1 DEF IdentityAccepted
    <3> QED
      BY <1>1, <1>3, <3>1, <3>2 DEF Session
  <2> QED
    BY <2>1, <2>2
<1>4. CASE OpenMeet
  BY <1>1, <1>4, RefusalKeeps DEF OpenMeet
<1>5. CASE OpenZoom
  BY <1>1, <1>5, RefusalKeeps DEF OpenZoom
<1>6. CASE SetName
  BY <1>1, <1>6 DEF SetName, Authenticated
<1>7. CASE MuteMic
  <2>1. CASE Refuse(5)
    BY <2>1, RefusalKeeps
  <2>2. CASE ~Refuse(5)
    <3>1. PICK labelled \in BOOLEAN : mic' \in Muted(mic, labelled)
      BY <1>7, <2>2 DEF MuteMic, MicRefusal
    <3>2. mic' = "off" \/ (platform = "zoom" /\ mic' = "unproved")
      BY <1>7, <3>1 DEF Muted
    <3> QED
      BY <1>1, <1>7, <2>2, <3>2 DEF MuteMic, MicRefusal
  <2> QED
    BY <2>1, <2>2
<1>8. CASE ClickJoin
  BY <1>8, RefusalKeeps DEF ClickJoin, Started
<1>9. CASE JoinRaises
  BY <1>9, ReturnLeaves, LeftKeeps DEF JoinRaises
<1>10. CASE LoopPoll
  <2>1. /\ stage = "loop" /\ Poll /\ UNCHANGED <<mode, name, mic, chat>>
        /\ stage' = IF Announces THEN "announce" ELSE "loop"
    BY <1>10 DEF LoopPoll
  <2>2. CASE pc' = "finalize" /\ Started' = Started /\ ~Announces
    BY <2>1, <2>2, PollEffect, LeftKeeps DEF process
  <2>3. CASE pc' = "poll" /\ recorder' = recorder /\ ~Announces
    BY <2>1, <2>3, PollEffect DEF Started
  <2>4. CASE pc' = "poll" /\ Started' /\ Announces
    BY <2>1, <2>4, PollEffect DEF Announces
  <2> QED
    BY <2>1, <2>2, <2>3, <2>4, PollEffect
<1>11. CASE Missed
  BY <1>1, <1>11 DEF Missed, Announcing, AfterAnnounce
<1>12. CASE OpenChat
  <2>1. /\ pc = "poll" /\ stage = "announce" /\ stage' = "send"
        /\ UNCHANGED <<platform, pc, mode, name, mic, chat>> /\ Started' = Started
    BY <1>1, <1>12 DEF OpenChat
  <2> QED
    BY <2>1
<1>13. CASE Send
  <2>1. PICK press \in Presses, again \in BOOLEAN :
          chat' = [posts |-> chat.posts + press.landed
                                        + (IF again /\ PressedAgain(press) THEN 1 ELSE 0),
                   end |-> IF press.twice \/ PressedAgain(press) THEN "repressed" ELSE "posted"]
    BY <1>13 DEF Send
  <2>2. chat.posts = 0 /\ press.landed \in 0..2 /\ (press.landed = 2 => press.twice)
    BY <1>13 DEF Send, Presses
  <2>3. /\ chat'.posts \in 0..3 /\ chat'.end \in {"posted", "repressed"}
        /\ chat'.posts >= 2 => chat'.end = "repressed"
        /\ chat' \in [posts : Nat, end : {"none", "missed", "posted", "repressed"}]
    BY <2>1, <2>2
  <2>4. /\ pc = "poll" /\ stage = "send" /\ stage' = AfterAnnounce /\ Started /\ Started'
        /\ UNCHANGED <<platform, pc, mode, name, mic>>
    BY <1>1, <1>13 DEF Send
  <2>5. stage' \in {"loop", "audio"} /\ (stage' = "audio" => platform = "zoom")
    BY <2>4 DEF AfterAnnounce
  <2> QED
    BY <2>3, <2>4, <2>5
<1>14. CASE JoinAudio
  <2>1. /\ pc = "poll" /\ stage = "audio" /\ stage' = "loop" /\ Started /\ Started'
        /\ UNCHANGED <<platform, pc, mode, name, chat>>
    BY <1>1, <1>14 DEF JoinAudio
  <2>2. platform = "zoom" /\ mic' \in {"off", "open", "unproved"}
    <3>1. platform = "zoom" /\ mic \in {"off", "open", "unproved"}
      BY <2>1
    <3> QED
      BY <1>14, <3>1 DEF JoinAudio, Muted
  <2> QED
    BY <2>1, <2>2
<1>15. CASE EndProcess
  BY <1>15, LeftKeeps DEF EndProcess, Finalize, Started
<1>16. CASE (Apply \/ Killed) /\ UNCHANGED process
  BY <1>16, LeftKeeps DEF Apply, Killed, Started
<1>17. CASE RecorderDies /\ UNCHANGED process
  BY <1>17 DEF RecorderDies, Started, process
<1>18. CASE UNCHANGED allVars
  BY <1>18 DEF allVars, vars, process, Started
<1> QED
  BY <1>2, <1>3, <1>4, <1>5, <1>6, <1>7, <1>8, <1>9, <1>10, <1>11, <1>12, <1>13, <1>14, <1>15,
     <1>16, <1>17, <1>18 DEF ProcessNext, ProcessStep

LEMMA ProcessInvariant == ProcessSpec => []ProcessInv
BY ProcessInvInit, ProcessInvStep, PTL DEF ProcessSpec

\* The process keeps its types, the counter of its posts among them.
THEOREM ProcessTypeCorrect == ProcessSpec => []ProcessTypeOK
<1>1. ProcessSpec => []TypeOK
  BY ProcessImplementsLoop, TypeInit, TypeStep, PTL
<1>2. TypeOK /\ ProcessInv => ProcessTypeOK
  BY DEF ProcessInv, ProcessTyped, ProcessTypeOK, BeforeJoin, AfterJoin
<1> QED
  BY <1>1, <1>2, ProcessInvariant, PTL

\* _mute_media, "a notetaker must never join with a live mic": on Meet none is
\* live in the meeting; on Zoom, before the audio join, only one that was clicked
\* and not looked at, and after it one that the audio join has reset.
THEOREM MicIsMuted == ProcessSpec => []LiveMicHasCause
<1>1. ProcessInv => LiveMicHasCause
  BY DEF ProcessInv, ProcessTyped, StageFits, MicFits, ChatFits, LiveMicHasCause, AudioJoined
<1> QED
  BY <1>1, ProcessInvariant, PTL

\* consent.py, "Production is strict", and run_call_loop, "exactly once": the
\* name in production, the announcement before the first poll of a recording,
\* and a second post only where the first press failed or left its text.
THEOREM ConsentIsSignalled == ProcessSpec => []ConsentSignals
<1>1. ProcessInv => ConsentSignals
  BY DEF ProcessInv, StageFits, NameFits, ChatFits, ConsentSignals, Recording, AfterJoin
<1> QED
  BY <1>1, ProcessInvariant, PTL
===============================================================================
