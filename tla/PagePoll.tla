------------------------------- MODULE PagePoll -------------------------------
(***************************************************************************)
(* One poll of a recording, locator by locator: the predicates that the    *)
(* call loops ask of the page (bot/states.py on Meet, bot/states_zoom.py   *)
(* on Zoom), in the loops' order, over a page that changes between any two *)
(* reads.  Module MeetingBot takes a poll as one step that reads one sight *)
(* of the page; what a poll concludes here is such a sight.                *)
(*                                                                         *)
(* The page is what a locator can find: the toolbar's Leave or End, a      *)
(* modal notice, text that matches a pattern wherever it stands (a notice, *)
(* the chat, a caption), and the participant control.                      *)
(***************************************************************************)
EXTENDS PageSight

VARIABLES
  platform,  \* the states module in use
  page,      \* what a locator would find at this moment
  ask,       \* the predicate that the poll is in, or "over"
  look,      \* the locator that it tries next
  verdict,   \* what the predicates have answered so far
  calm,      \* history: in this poll the toolbar was always there and never turned
             \* from End back to Leave, and no modal notice came up
  shown      \* history: the counts and the alone text that the page has had in it

vars == <<platform, page, ask, look, verdict, calm, shown>>

-------------------------------------------------------------------------------
Platforms == {"meet", "zoom"}

\* Meet has one leave control; Zoom's turns into End when the bot is the host.
Toolbars(p) == {"leave", "none"} \cup (IF p = "zoom" THEN {"end"} ELSE {})

Texts == {"removed", "ended", "waiting", "alone"}

Counts == {"unknown", "one", "many"}

Pages(p) ==
  [toolbar : Toolbars(p), dialog : {"none", "removed", "ended"}, text : SUBSET Texts, count : Counts]

Terminal == {"removed", "ended"}

Asks == Terminal \cup {"admitted", "anchor", "count", "alone", "recount", "over"}

Looks == {"dialog", "text", "waiting", "leave", "end", "button", "none"}

Verdicts ==
  [removed : BOOLEAN, ended : BOOLEAN, admitted : BOOLEAN, anchor : BOOLEAN,
   count : Counts, recount : Counts, alone : BOOLEAN]

NoVerdict ==
  [removed |-> FALSE, ended |-> FALSE, admitted |-> FALSE, anchor |-> FALSE,
   count |-> "unknown", recount |-> "unknown", alone |-> FALSE]

ShownBy(pg) == {pg.count} \cup (pg.text \cap {"alone"})

Quiet(pg) == pg.toolbar # "none" /\ pg.dialog = "none"

\* Mutant: End is looked for before Leave.
ControlOrderSwapped(p) == IF p = "zoom" THEN <<"end", "leave">> ELSE <<"leave">>

\* leave_call_button of Meet, and in_call_controls of Zoom: two reads.
ControlOrder(p) == IF p = "zoom" THEN <<"leave", "end">> ELSE <<"leave">>

FirstControl == ControlOrder(platform)[1]

\* The first locator of each predicate.
FirstLook(a) ==
  CASE a \in Terminal -> IF platform = "zoom" THEN "dialog" ELSE "text"
    [] a = "admitted" -> "waiting"
    [] a = "over" -> "none"
    [] OTHER -> FirstControl

Init ==
  /\ platform \in Platforms /\ page \in Pages(platform)
  /\ ask = "removed" /\ look = FirstLook("removed")
  /\ verdict = NoVerdict
  /\ calm = Quiet(page) /\ shown = ShownBy(page)

-------------------------------------------------------------------------------
\* The page changes in one of its parts.
PageChanges ==
  /\ ask # "over"
  /\ \/ \E t \in Toolbars(platform) : page' = [page EXCEPT !.toolbar = t]
     \/ platform = "zoom" /\ \E d \in Terminal \cup {"none"} : page' = [page EXCEPT !.dialog = d]
     \/ \E t \in Texts : page' = [page EXCEPT !.text = IF t \in @ THEN @ \ {t} ELSE @ \cup {t}]
     \/ \E n \in Counts : page' = [page EXCEPT !.count = n]
  /\ calm' = (calm /\ Quiet(page') /\ ~(page.toolbar = "end" /\ page'.toolbar = "leave"))
  /\ shown' = shown \cup ShownBy(page')
  /\ UNCHANGED <<platform, ask, look, verdict>>

\* What the loop asks next; a terminal notice returns before the room is read.
After(a, v) ==
  LET heard == v.removed \/ v.ended IN
  CASE a = "removed" -> "ended"
    [] a = "ended" -> "admitted"
    [] a = "admitted" -> IF platform = "zoom" THEN "anchor"
                         ELSE IF heard THEN "over"
                         ELSE IF v.admitted THEN "count" ELSE "anchor"
    [] a = "anchor" -> IF platform = "zoom" /\ v.anchor /\ ~heard THEN "count" ELSE "over"
    [] a = "count" -> "alone"
    [] OTHER -> "over"

Answer(value) ==
  /\ verdict' = [verdict EXCEPT ![ask] = value]
  /\ ask' = After(ask, verdict')
  /\ look' = FirstLook(ask')

Proceed(to) == look' = to /\ UNCHANGED <<ask, verdict>>

\* is_removed and is_call_ended of Zoom: the dialog, over whatever toolbar.
Dialog ==
  /\ look = "dialog" /\ ask \in Terminal
  /\ IF page.dialog = ask THEN Answer(TRUE) ELSE Proceed("text")

\* Meet takes the text at its word; Zoom looks for the toolbar under it.
Text ==
  /\ look = "text" /\ ask \in Terminal
  /\ \/ ask \notin page.text /\ Answer(FALSE)
     \/ ask \in page.text /\ platform = "meet" /\ Answer(TRUE)
     \/ ask \in page.text /\ platform = "zoom" /\ Proceed(FirstControl)

\* is_admitted: the knocking text, or Zoom's two notices, override the toolbar.
WaitingText ==
  /\ look = "waiting" /\ ask = "admitted"
  /\ IF "waiting" \in page.text THEN Answer(FALSE) ELSE Proceed(FirstControl)

\* What each predicate makes of the toolbar: found or not.
Found ==
  \/ ask \in Terminal /\ Answer(FALSE)
  \/ ask \in {"admitted", "anchor"} /\ Answer(TRUE)
  \/ ask \in {"count", "recount"} /\ Proceed("button")
  \/ ask = "alone" /\ ask' = "recount" /\ look' = FirstControl /\ UNCHANGED verdict

NotFound ==
  \/ ask \in Terminal /\ Answer(TRUE)
  \/ ask \in {"admitted", "anchor", "alone"} /\ Answer(FALSE)
  \/ ask = "count" /\ Answer("unknown")
  \/ ask = "recount" /\ Proceed("text")

Control ==
  /\ look \in {"leave", "end"}
  /\ \/ page.toolbar = look /\ Found
     \/ /\ page.toolbar # look /\ platform = "zoom" /\ look = FirstControl
        /\ Proceed(ControlOrder(platform)[2])
     \/ /\ page.toolbar # look /\ ~(platform = "zoom" /\ look = FirstControl)
        /\ NotFound

\* participant_count, which bot_alone_in_call asks once more.
Button ==
  /\ look = "button" /\ ask \in {"count", "recount"}
  /\ IF ask = "count" THEN Answer(page.count)
     ELSE /\ verdict' = [verdict EXCEPT !.recount = page.count]
          /\ look' = "text" /\ UNCHANGED ask

\* bot_alone_in_call: a count of one, or no count and the alone text.
Alone ==
  /\ look = "text" /\ ask = "recount"
  /\ verdict' = [verdict EXCEPT !.alone =
       \/ verdict.recount = "one"
       \/ verdict.recount = "unknown" /\ "alone" \in page.text]
  /\ ask' = "over" /\ look' = "none"

Read ==
  /\ ask # "over"
  /\ Dialog \/ Text \/ WaitingText \/ Control \/ Button \/ Alone
  /\ UNCHANGED <<platform, page, calm, shown>>

\* The next poll.
PollAgain ==
  /\ ask = "over"
  /\ ask' = "removed" /\ look' = FirstLook("removed") /\ verdict' = NoVerdict
  /\ calm' = Quiet(page) /\ shown' = ShownBy(page)
  /\ UNCHANGED <<platform, page>>

Next == PageChanges \/ Read \/ PollAgain

Spec == Init /\ [][Next]_vars

-------------------------------------------------------------------------------
\* The sight of module MeetingBot that the poll has had.
Sight ==
  [notice |-> IF verdict.removed THEN "removed" ELSE IF verdict.ended THEN "ended" ELSE "none",
   controls |-> IF platform = "meet" /\ verdict.admitted THEN "in_call"
                ELSE IF ~verdict.anchor THEN "none"
                ELSE IF verdict.admitted THEN "in_call" ELSE "contradiction",
   blocked |-> FALSE,
   room |-> IF verdict.count = "many" THEN "others"
            ELSE IF verdict.alone THEN "alone" ELSE "unknown"]

\* Types of the page and of the poll.
TypeOK ==
  /\ platform \in Platforms /\ page \in Pages(platform)
  /\ ask \in Asks /\ look \in Looks
  /\ verdict \in Verdicts
  /\ calm \in BOOLEAN /\ shown \in SUBSET (Counts \cup {"alone"})

\* bot/README.md, "Zoom specifics", and the docstring of is_removed, "must never
\* end a live call": while the toolbar stands, be it through the bot's promotion to
\* host, and no modal notice is up, a poll misses no toolbar and on Zoom believes no
\* text.  It rests on the order of the two reads: a promotion between them is seen.
LiveCallGoesOn ==
  ask = "over" /\ calm =>
    /\ Sight.notice = "none" => Sight.controls # "none"
    /\ platform = "zoom" => Sight.notice = "none"

\* What MeetingBot takes for granted of a sight: others are in the room when the
\* page has counted two or more in this poll, and the bot is alone only when the
\* page has said so in this poll.
SightIsWitnessed ==
  ask = "over" =>
    /\ Sight \in Sights
    /\ Sight.room = "others" => "many" \in shown
    /\ Sight.room = "alone" => "one" \in shown \/ "alone" \in shown
===============================================================================
