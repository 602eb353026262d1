------------------------------ MODULE BotProcess ------------------------------
(***************************************************************************)
(* The bot process around the call loop of module MeetingBot: main, the    *)
(* session check and the join of Meet (bot/join_meet.py) or Zoom           *)
(* (bot/join_zoom.py), and what the bot does once, between the start of    *)
(* the recording and the next poll: the consent announcement               *)
(* (bot/consent.py) and, on Zoom, the computer audio                       *)
(* (bot/listeners_zoom.py).                                                *)
(*                                                                         *)
(* The first step of MeetingBot, Prejoin, is here the stages from "gate"   *)
(* to "click".  Its other steps are taken as they are, and wait while the  *)
(* one thread of the bot is busy elsewhere.                                *)
(***************************************************************************)
EXTENDS MeetingBot

VARIABLES
  stage,  \* where the thread is: before the join, in the loop, or after its Admit
  mode,   \* BOT_AUTH_MODE, and with an account whether ENVIRONMENT is production
  name,   \* the name that the meeting sees: the fixed one or some other
  mic,    \* the microphone as the page has it: "off", "open", or open after a
          \* mute whose effect nobody has looked at ("unproved")
  chat    \* the announcement: the posts in the meeting, and how it ended

process == <<stage, mode, name, mic, chat>>

allVars == <<vars, process>>

-------------------------------------------------------------------------------
Modes == {"anonymous", "development", "production"}

Authenticated == mode # "anonymous"

ProcessInit ==
  /\ Init /\ stage = "gate"
  /\ mode \in Modes /\ (platform = "zoom" => mode = "anonymous")
  /\ name = "none" /\ mic \in {"off", "open"}
  /\ chat = [posts |-> 0, end |-> "none"]

\* The join ends before the loop, with the outcome of a wall or a refusal, or
\* with an exception that main logs.
Refuse(code) == Return(Outcome(code, "none", FALSE)) /\ UNCHANGED <<mishap, process>>

JoinRaises ==
  /\ pc = "prejoin" /\ stage # "gate"
  /\ Return(Raised) /\ mishap' = TRUE /\ UNCHANGED process

GoTo(next) == stage' = next /\ UNCHANGED <<vars, mode>>

\* main: CONSENT_ACK is looked at before everything else, then MEETING_URL.
Gate ==
  /\ pc = "prejoin" /\ stage = "gate"
  /\ \/ \E code \in {5, 6} : Refuse(code)
     \/ /\ GoTo(IF Authenticated THEN "session" ELSE "page")
        /\ UNCHANGED <<name, mic, chat>>

\* verify_consent_identity: production takes no other account and no account
\* whose name it cannot read.
IdentityAccepted(read) == read = "fixed" \/ mode # "production"

\* The profile directory and the session check of an authenticated bot.
Session ==
  /\ pc = "prejoin" /\ stage = "session"
  /\ \/ Refuse(5)
     \/ \E account \in {"fixed", "other"}, read \in {"fixed", "other", "unknown"} :
          /\ read \in {account, "unknown"}
          /\ IdentityAccepted(read)
          /\ name' = account
          /\ GoTo("page") /\ UNCHANGED <<mic, chat>>

\* Meet: the wall against anonymous guests.
OpenMeet ==
  /\ pc = "prejoin" /\ stage = "page" /\ platform = "meet"
  /\ Refuse(5) \/ (GoTo("name") /\ UNCHANGED <<name, mic, chat>>)

\* Zoom: the walls before and after the landing page, a landing page with no way
\* into the web client, and a form that does not come in time.
OpenZoom ==
  /\ pc = "prejoin" /\ platform = "zoom"
  /\ \/ stage = "page" /\ GoTo("client") /\ UNCHANGED <<name, mic, chat>>
     \/ stage = "client" /\ GoTo("name") /\ UNCHANGED <<name, mic, chat>>
     \/ stage \in {"page", "client"} /\ Refuse(5)

\* The account's name stands; a guest types the fixed name, and joins under a
\* default name when there is no field for it.
SetName ==
  /\ pc = "prejoin" /\ stage = "name"
  /\ IF Authenticated THEN name' = name ELSE name' \in {"fixed", "other"}
  /\ GoTo("mic") /\ UNCHANGED <<mic, chat>>

-------------------------------------------------------------------------------
(* What _mute_media makes of a microphone m when the toggle is found and the    *)
(* click does not fail.  Meet's toggle is found by a label that tells the       *)
(* state, and a click on it lands.  Zoom's is found by labels that need not     *)
(* tell it; it is left alone only when the label says "unmute", and the page    *)
(* may ignore the click.                                                        *)
Muted(m, labelled) ==
  IF platform = "meet" \/ (labelled /\ m = "off") THEN {"off"} ELSE {"off", "unproved"}

\* Mutant: a toggle that is not found is only warned about.
MicRefusalOptional == Refuse(5) \/ (GoTo("click") /\ UNCHANGED <<name, mic, chat>>)

\* A missing toggle, and on Zoom a click that fails.
MicRefusal == Refuse(5)

MuteMic ==
  /\ pc = "prejoin" /\ stage = "mic"
  /\ \/ MicRefusal
     \/ \E labelled \in BOOLEAN : mic' \in Muted(mic, labelled)
        /\ GoTo("click") /\ UNCHANGED <<name, chat>>

\* The camera is best effort; the join control is not.
ClickJoin ==
  /\ pc = "prejoin" /\ stage = "click"
  /\ \/ Refuse(5)
     \/ /\ pc' = "poll" /\ stage' = "loop"
        /\ UNCHANGED <<platform, clock, recorder, loop, outcome, row, returned, mishap>>
        /\ UNCHANGED <<mode, name, mic, chat>>

-------------------------------------------------------------------------------
\* Mutant: every poll of a recording announces.
AnnouncesEachPoll == recorder' = "running"

\* The poll that starts the recording; no other announces.
Announces == ~Started /\ recorder' = "running"

\* A poll of the loop.
LoopPoll ==
  /\ stage = "loop" /\ Poll
  /\ stage' = IF Announces THEN "announce" ELSE stage
  /\ UNCHANGED <<mode, name, mic, chat>>

Announcing == pc = "poll" /\ stage \in {"announce", "send"}

AfterAnnounce == IF platform = "zoom" THEN "audio" ELSE "loop"

\* A control that is not found, or an exception, perhaps after presses that the
\* page has taken: the call goes on without it.
Missed ==
  /\ Announcing
  /\ \E landed \in IF stage = "send" THEN 0..3 ELSE {0} :
       chat' = [posts |-> chat.posts + landed, end |-> "missed"]
  /\ GoTo(AfterAnnounce) /\ UNCHANGED <<name, mic>>

\* The chat is open: the trusted click or the one through the DOM has brought
\* up the composer, and the message is typed or filled in.
OpenChat ==
  /\ pc = "poll" /\ stage = "announce"
  /\ GoTo("send") /\ UNCHANGED <<name, mic, chat>>

(* Pressing send, or Enter when there is no button.  A trusted click that     *)
(* raises, perhaps after the page took it, is made again through the DOM:     *)
(* twice.  landed is how many of the presses the page took, and holds whether *)
(* the composer shows the text a second later: ignored presses leave it       *)
(* there, and so may a slow page.                                             *)
Presses ==
  {press \in [landed : 0..2, button : BOOLEAN, twice : BOOLEAN, holds : BOOLEAN] :
     /\ press.twice => press.button
     /\ press.landed = 2 => press.twice}

\* A composer that still shows the text is sent once more, through the DOM.
PressedAgain(press) == press.button /\ press.holds

\* Logged as posted whatever became of the presses.
Send ==
  /\ pc = "poll" /\ stage = "send"
  /\ \E press \in Presses, again \in BOOLEAN :
       chat' = [posts |-> chat.posts + press.landed
                                     + (IF again /\ PressedAgain(press) THEN 1 ELSE 0),
                end |-> IF press.twice \/ PressedAgain(press) THEN "repressed" ELSE "posted"]
  /\ GoTo(AfterAnnounce) /\ UNCHANGED <<name, mic>>

\* The dialog may be missing, fail or reset the microphone.  Muting it again is
\* best effort: a failure of the dialog, a missing toggle or a click that fails
\* leaves it as it is.
JoinAudio ==
  /\ pc = "poll" /\ stage = "audio"
  /\ \E reset \in {mic, "open"}, labelled \in BOOLEAN :
       mic' \in {reset} \cup Muted(reset, labelled)
  /\ GoTo("loop") /\ UNCHANGED <<name, chat>>

-------------------------------------------------------------------------------
\* close() runs only when there is a browser to close.
EndProcess ==
  /\ Finalize /\ UNCHANGED process
  /\ stage = "gate" => outcome' = outcome /\ mishap' = mishap

ProcessStep ==
  \/ Gate \/ Session \/ OpenMeet \/ OpenZoom \/ SetName \/ MuteMic \/ ClickJoin \/ JoinRaises
  \/ LoopPoll \/ Missed \/ OpenChat \/ Send \/ JoinAudio \/ EndProcess

ProcessNext ==
  \/ ProcessStep
  \/ (Apply \/ RecorderDies \/ Killed) /\ UNCHANGED process

ProcessSpec ==
  ProcessInit /\ [][ProcessNext]_allVars /\ WF_allVars(ProcessStep)
  /\ WF_allVars(Apply /\ UNCHANGED process)

-------------------------------------------------------------------------------
\* Types of the process' state, with those of the loop.
ProcessTypeOK ==
  /\ TypeOK
  /\ stage \in {"gate", "session", "page", "client", "name", "mic", "click", "loop", "announce",
                "send", "audio"}
  /\ mode \in Modes /\ name \in {"none", "fixed", "other"}
  /\ mic \in {"off", "open", "unproved"}
  /\ chat \in [posts : Nat, end : {"none", "missed", "posted", "repressed"}]

\* The recording has started, and with it the audio join is behind the bot.
AudioJoined == stage = "loop" /\ chat.end # "none"

\* _mute_media, "a notetaker must never join with a live mic", and
\* _join_computer_audio, "can reset the mic state; re-mute best-effort": on Meet
\* no microphone is live in the meeting; on Zoom one that is was clicked without
\* a look at the result, or else the audio join has reset it.
LiveMicHasCause ==
  pc = "poll" /\ mic # "off" => platform = "zoom" /\ (mic = "unproved" \/ AudioJoined)

\* consent.py, "Production is strict", and run_call_loop, "exactly once": a
\* production account in a meeting has the fixed name; the first poll of a
\* recording comes after its announcement, which a meeting sees once unless a
\* press failed or left the text in the composer, and never more than three times.
ConsentSignals ==
  /\ pc = "poll" /\ mode = "production" => name = "fixed"
  /\ Recording /\ stage = "loop" => chat.end # "none"
  /\ chat.posts <= 3
  /\ chat.posts >= 2 => chat.end \in {"repressed", "missed"}
===============================================================================
