---------------------------- MODULE PagePoll_proofs ----------------------------
(***************************************************************************)
(* Proofs about one poll of the page: its types, and that a call that goes *)
(* on is not ended by a poll.                                              *)
(***************************************************************************)
EXTENDS PagePoll, TLAPS

\* Two reads that look for End after Leave.
LEMMA ControlsInOrder ==
  /\ ControlOrder("meet") = <<"leave">>
  /\ ControlOrder("zoom") = <<"leave", "end">>
  /\ platform \in Platforms => FirstControl = "leave"
BY DEF ControlOrder, FirstControl, Platforms

\* Every state of a poll has its type.
THEOREM TypeCorrect == Spec => []TypeOK
<1>1. Init => TypeOK
  BY ControlsInOrder
  DEF Init, TypeOK, FirstLook, Asks, Looks, Terminal, NoVerdict, Verdicts, Counts, ShownBy,
      Pages, Quiet
<1>2. TypeOK /\ [Next]_vars => TypeOK'
  <2> SUFFICES ASSUME TypeOK, [Next]_vars PROVE TypeOK'
    OBVIOUS
  <2>1. CASE PageChanges
    <3>1. page' \in Pages(platform)
      BY <2>1 DEF PageChanges, TypeOK, Pages, Terminal
    <3> QED
      BY <2>1, <3>1 DEF PageChanges, TypeOK, ShownBy, Pages
  <2>2. CASE Read
    <3> USE <2>2, ControlsInOrder DEF Read, TypeOK
    <3>1. ASSUME NEW value, ask \in Asks, Answer(value), verdict' \in Verdicts
          PROVE  ask' \in Asks /\ look' \in Looks
      BY <3>1 DEF Answer, After, FirstLook, Asks, Looks, Terminal
    <3>2. CASE Dialog
      BY <3>1, <3>2 DEF Dialog, Answer, Proceed, Verdicts, Asks, Looks, Terminal
    <3>3. CASE Text
      BY <3>1, <3>3 DEF Text, Answer, Proceed, Verdicts, Asks, Looks, Terminal
    <3>4. CASE WaitingText
      BY <3>1, <3>4 DEF WaitingText, Answer, Proceed, Verdicts, Asks, Looks, Terminal
    <3>5. CASE Control
      <4>1. CASE Found
        BY <3>1, <4>1 DEF Found, Answer, Proceed, Verdicts, Asks, Looks, Terminal
      <4>2. CASE NotFound
        BY <3>1, <4>2 DEF NotFound, Answer, Proceed, Verdicts, Asks, Looks, Terminal, Counts
      <4>3. CASE Proceed(ControlOrder(platform)[2]) /\ platform = "zoom"
        BY <4>3 DEF Proceed, Looks
      <4> QED
        BY <3>5, <4>1, <4>2, <4>3 DEF Control
    <3>6. CASE Button
      <4>1. page.count \in Counts
        BY DEF Pages
      <4>2. [verdict EXCEPT !.recount = page.count] \in Verdicts
        BY <4>1 DEF Verdicts
      <4>3. ask = "count" => [verdict EXCEPT ![ask] = page.count] \in Verdicts
        BY <4>1 DEF Verdicts
      <4> QED
        BY <3>1, <3>6, <4>2, <4>3 DEF Button, Answer, Looks
    <3>7. CASE Alone
      <4> DEFINE lone == \/ verdict.recount = "one"
                         \/ verdict.recount = "unknown" /\ "alone" \in page.text
      <4>1. lone \in BOOLEAN
        OBVIOUS
      <4>2. [verdict EXCEPT !.alone = lone] \in Verdicts
        BY <4>1 DEF Verdicts
      <4> QED
        BY <3>7, <4>2 DEF Alone, Asks, Looks
    <3> QED
      BY <3>2, <3>3, <3>4, <3>5, <3>6, <3>7
  <2>3. CASE PollAgain
    BY <2>3, ControlsInOrder
    DEF PollAgain, TypeOK, FirstLook, Asks, Looks, Terminal, NoVerdict, Verdicts, Counts, ShownBy,
        Pages, Quiet
  <2>4. CASE UNCHANGED vars
    BY <2>4 DEF vars, TypeOK
  <2> QED
    BY <2>1, <2>2, <2>3, <2>4 DEF Next
<1> QED
  BY <1>1, <1>2, PTL DEF Spec

-------------------------------------------------------------------------------
(* With the toolbar always there and never turned from End to Leave, Zoom's   *)
(* second read of a predicate is made only under a toolbar that shows End; so *)
(* no predicate misses the toolbar, and none of them believes a text.         *)
CalmPoll ==
  calm =>
    /\ Quiet(page)
    /\ look = "end" => page.toolbar = "end"
    /\ platform = "zoom" => ~verdict.removed /\ ~verdict.ended
    /\ platform = "zoom" /\ ask \in {"count", "alone", "recount", "over"} => verdict.anchor
    /\ platform = "meet" /\ ask \in {"count", "alone", "recount"} => verdict.admitted
    /\ platform = "meet" /\ ask = "over" =>
         verdict.removed \/ verdict.ended \/ verdict.admitted \/ verdict.anchor

LEMMA CalmInit == Init => CalmPoll
<1> SUFFICES ASSUME Init PROVE CalmPoll
  OBVIOUS
<1>1. look # "end"
  BY DEF Init, FirstLook, Terminal
<1>2. /\ calm => Quiet(page)
      /\ ask = "removed" /\ ~verdict.removed /\ ~verdict.ended
  BY DEF Init, NoVerdict
<1> QED
  BY <1>1, <1>2 DEF CalmPoll

LEMMA CalmStep == TypeOK /\ CalmPoll /\ [Next]_vars => CalmPoll'
<1> SUFFICES ASSUME TypeOK, CalmPoll, [Next]_vars, calm' PROVE CalmPoll'
  BY DEF CalmPoll
<1>1. CASE PageChanges
  <2>1. calm /\ Quiet(page') /\ ~(page.toolbar = "end" /\ page'.toolbar = "leave")
    BY <1>1 DEF PageChanges
  <2>2. page'.toolbar \in {"leave", "end"}
    BY <1>1, <2>1 DEF PageChanges, TypeOK, Pages, Toolbars, Quiet
  <2> QED
    BY <1>1, <2>1, <2>2 DEF PageChanges, CalmPoll, Quiet
<1>2. CASE Read
  <2> USE <1>2, ControlsInOrder DEF TypeOK
  <2>1. calm /\ UNCHANGED <<platform, page, calm>>
    BY DEF Read
  <2>2. page.toolbar \in Toolbars(platform) /\ Quiet(page)
    BY <2>1 DEF CalmPoll, Pages
  <2>3. CASE Dialog
    <3>1. page.dialog # ask
      BY <2>2, <2>3 DEF Dialog, Quiet, Terminal
    <3> QED
      BY <2>1, <2>3, <3>1 DEF Dialog, Proceed, CalmPoll
  <2>4. CASE Text
    BY <2>1, <2>2, <2>4
    DEF Text, Answer, After, FirstLook, Proceed, CalmPoll, Terminal, Quiet, Verdicts
  <2>5. CASE WaitingText
    <3>1. CASE Answer(FALSE)
      <4>1. /\ verdict' = [verdict EXCEPT !.admitted = FALSE]
            /\ ask' = After("admitted", verdict')
            /\ look' = FirstLook(ask')
        BY <2>5, <3>1 DEF Answer, WaitingText
      <4>2. ask' \in {"anchor", "over"} /\ (platform = "zoom" => ask' = "anchor")
        BY <2>5, <4>1 DEF After, Verdicts
      <4>3. look' # "end"
        BY <4>1, <4>2 DEF FirstLook, Terminal
      <4>4. verdict'.removed = verdict.removed /\ verdict'.ended = verdict.ended
        BY <4>1 DEF Verdicts
      <4>5. platform = "meet" /\ ask' = "over" => verdict'.removed \/ verdict'.ended
        BY <2>5, <4>1, <4>4 DEF After, WaitingText
      <4> QED
        BY <2>1, <2>2, <4>2, <4>3, <4>4, <4>5 DEF CalmPoll, Platforms
    <3>2. CASE Proceed(FirstControl)
      BY <2>1, <2>2, <2>5, <3>2 DEF WaitingText, Proceed, CalmPoll, Quiet
    <3> QED
      BY <2>5, <3>1, <3>2 DEF WaitingText
  <2>6. CASE Control
    <3>1. CASE page.toolbar = look /\ Found
      <4>1. CASE ask \in Terminal /\ Answer(FALSE)
        BY <2>1, <2>2, <4>1
        DEF Answer, After, FirstLook, CalmPoll, Terminal, Quiet, Verdicts, Platforms
      <4>2. CASE ask \in {"admitted", "anchor"} /\ Answer(TRUE)
        <5>1. /\ ask = "admitted" => verdict'.admitted = TRUE
              /\ ask = "anchor" => verdict'.anchor = TRUE
              /\ verdict'.removed = verdict.removed /\ verdict'.ended = verdict.ended
          BY <4>2 DEF Answer, Verdicts
        <5>2. /\ ask' \in {"anchor", "count", "over"}
              /\ ask = "admitted" /\ platform = "zoom" => ask' = "anchor"
              /\ ask' = "over" /\ ask = "admitted" => verdict'.removed \/ verdict'.ended
          <6>1. ask' = After(ask, verdict')
            BY <4>2 DEF Answer
          <6>2. CASE ask = "admitted"
            BY <5>1, <6>1, <6>2 DEF After
          <6>3. CASE ask = "anchor"
            BY <6>1, <6>3 DEF After
          <6> QED
            BY <4>2, <6>2, <6>3
        <5>3. look' # "end"
          BY <4>2, <5>2 DEF Answer, FirstLook, Terminal
        <5>4. platform = "meet" /\ ask' = "count" => ask = "admitted"
          BY <4>2 DEF Answer, After, Platforms
        <5> QED
          BY <2>1, <2>2, <4>2, <5>1, <5>2, <5>3, <5>4 DEF CalmPoll, Platforms
      <4>3. CASE ask \in {"count", "recount"} /\ Proceed("button")
        BY <2>1, <2>2, <4>3 DEF Proceed, CalmPoll
      <4>4. CASE ask = "alone" /\ ask' = "recount" /\ look' = FirstControl /\ UNCHANGED verdict
        BY <2>1, <2>2, <4>4 DEF CalmPoll
      <4> QED
        BY <3>1, <4>1, <4>2, <4>3, <4>4 DEF Found
    <3>2. CASE page.toolbar # look /\ platform = "zoom" /\ look = "leave" /\ Proceed("end")
      BY <2>1, <2>2, <3>2 DEF Proceed, CalmPoll, Toolbars, Quiet
    <3>3. page.toolbar # look /\ ~(platform = "zoom" /\ look = "leave") => FALSE
      BY <2>1, <2>2, <2>6 DEF Control, CalmPoll, Toolbars, Quiet, Platforms
    <3> QED
      BY <2>6, <3>1, <3>2, <3>3 DEF Control, Platforms
  <2>7. CASE Button
    BY <2>1, <2>2, <2>7 DEF Button, Answer, After, FirstLook, CalmPoll, Terminal, Quiet, Verdicts
  <2>8. CASE Alone
    BY <2>1, <2>2, <2>8 DEF Alone, CalmPoll, Quiet, Verdicts
  <2> QED
    BY <1>2, <2>3, <2>4, <2>5, <2>6, <2>7, <2>8 DEF Read
<1>3. CASE PollAgain
  BY <1>3, ControlsInOrder DEF PollAgain, TypeOK, CalmPoll, FirstLook, NoVerdict, Terminal, Quiet
<1>4. CASE UNCHANGED vars
  BY <1>4 DEF vars, CalmPoll, Quiet
<1> QED
  BY <1>1, <1>2, <1>3, <1>4 DEF Next

\* bot/states_zoom.py, "must never end a live call": a poll of a call that goes
\* on misses no toolbar and on Zoom believes no text, whatever the page shows
\* besides, and through the bot's promotion to host.
THEOREM CallGoesOn == Spec => []LiveCallGoesOn
<1>1. TypeOK /\ CalmPoll => LiveCallGoesOn
  BY DEF TypeOK, CalmPoll, LiveCallGoesOn, Sight, Verdicts, Platforms
<1>2. Spec => [](TypeOK /\ CalmPoll)
  BY TypeCorrect, CalmInit, CalmStep, PTL DEF Spec
<1> QED
  BY <1>1, <1>2, PTL

-------------------------------------------------------------------------------
\* What the page has shown in this poll includes what it shows, and each count
\* that the poll goes by.
CountsAreShown ==
  /\ ShownBy(page) \subseteq shown
  /\ verdict.count = "many" => "many" \in shown
  /\ verdict.recount = "one" => "one" \in shown
  /\ verdict.alone => "one" \in shown \/ "alone" \in shown

LEMMA ShownInit == Init => CountsAreShown
BY DEF Init, CountsAreShown, NoVerdict

LEMMA ShownStep == TypeOK /\ CountsAreShown /\ [Next]_vars => CountsAreShown'
<1> SUFFICES ASSUME TypeOK, CountsAreShown, [Next]_vars PROVE CountsAreShown'
  OBVIOUS
<1>1. CASE PageChanges
  <2>1. shown' = shown \cup ShownBy(page') /\ verdict' = verdict
    BY <1>1 DEF PageChanges
  <2>2. ShownBy(page)' = ShownBy(page')
    BY DEF ShownBy
  <2> QED
    BY <2>1, <2>2 DEF CountsAreShown
<1>2. CASE Read
  <2>1. page' = page /\ shown' = shown /\ page.count \in shown
    BY <1>2 DEF Read, CountsAreShown, ShownBy
  <2>2. ShownBy(page)' \subseteq shown'
    BY <2>1 DEF CountsAreShown, ShownBy
  <2>3. CASE verdict' = verdict
    BY <2>1, <2>2, <2>3 DEF CountsAreShown
  <2>4. CASE \E a \in Asks, v \in BOOLEAN :
               a \in {"removed", "ended", "admitted", "anchor"} /\ verdict' = [verdict EXCEPT ![a] = v]
    BY <2>1, <2>2, <2>4 DEF CountsAreShown, TypeOK, Verdicts
  <2>5. CASE ask = "count" /\ \E n \in {page.count, "unknown"} : Answer(n)
    BY <2>1, <2>2, <2>5 DEF CountsAreShown, Answer, TypeOK, Verdicts
  <2>6. CASE verdict' = [verdict EXCEPT !.recount = page.count]
    BY <2>1, <2>2, <2>6 DEF CountsAreShown, TypeOK, Verdicts
  <2>7. CASE verdict' = [verdict EXCEPT !.alone = FALSE]
    BY <2>1, <2>2, <2>7 DEF CountsAreShown, TypeOK, Verdicts
  <2>8. CASE Alone
    <3>1. "alone" \in page.text => "alone" \in shown
      BY DEF CountsAreShown, ShownBy
    <3>2. verdict'.alone => "one" \in shown \/ "alone" \in shown
      BY <2>8, <3>1 DEF Alone, CountsAreShown, TypeOK, Verdicts
    <3>3. verdict'.count = verdict.count /\ verdict'.recount = verdict.recount
      BY <2>8 DEF Alone, TypeOK, Verdicts
    <3> QED
      BY <2>1, <2>2, <3>2, <3>3 DEF CountsAreShown
  <2>9. CASE Dialog
    BY <2>3, <2>4, <2>9 DEF Dialog, Answer, Proceed, Terminal, Asks
  <2>10. CASE Text
    BY <2>3, <2>4, <2>10 DEF Text, Answer, Proceed, Terminal, Asks
  <2>11. CASE WaitingText
    BY <2>3, <2>4, <2>11 DEF WaitingText, Answer, Proceed, Asks
  <2>12. CASE Control
    <3>1. CASE Found
      BY <2>3, <2>4, <3>1 DEF Found, Answer, Proceed, Terminal, Asks
    <3>2. CASE NotFound
      BY <2>3, <2>4, <2>5, <2>7, <3>2 DEF NotFound, Answer, Proceed, Terminal, Asks
    <3> QED
      BY <2>3, <2>12, <3>1, <3>2 DEF Control, Proceed
  <2>13. CASE Button
    BY <2>5, <2>6, <2>13 DEF Button
  <2> QED
    BY <1>2, <2>8, <2>9, <2>10, <2>11, <2>12, <2>13 DEF Read
<1>3. CASE PollAgain
  BY <1>3 DEF PollAgain, CountsAreShown, NoVerdict, ShownBy
<1>4. CASE UNCHANGED vars
  BY <1>4 DEF vars, CountsAreShown, ShownBy
<1> QED
  BY <1>1, <1>2, <1>3, <1>4 DEF Next

\* Module MeetingBot takes a poll as one sight that is true of the meeting: each
\* poll is a sight, and its room is one that the page has shown in that poll.
THEOREM PollIsASight == Spec => []SightIsWitnessed
<1>1. TypeOK /\ CountsAreShown => SightIsWitnessed
  <2> SUFFICES ASSUME TypeOK, CountsAreShown PROVE SightIsWitnessed
    OBVIOUS
  <2>1. Sight \in Sights
    BY DEF Sight, Sights
  <2> QED
    BY <2>1 DEF CountsAreShown, Sight, SightIsWitnessed
<1>2. Spec => [](TypeOK /\ CountsAreShown)
  BY TypeCorrect, ShownInit, ShownStep, PTL DEF Spec
<1> QED
  BY <1>1, <1>2, PTL
===============================================================================
