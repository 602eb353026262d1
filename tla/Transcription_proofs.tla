-------------------------- MODULE Transcription_proofs --------------------------
(***************************************************************************)
(* For any waits within the named assumptions, a call whose audio is in a  *)
(* bucket lands before PROCESSING_STALE_CUTOFF_S, and no request begins    *)
(* after its link has expired.  For any bodies, the first 2xx answer is    *)
(* the last request, and the transcript says what that answer says.        *)
(***************************************************************************)
EXTENDS Transcription, WellFoundedInduction, TLAPS

TaskPlaces == {"start", "refused", "upload", "source", "guard", "request", "backoff", "landed"}

\* What the back-offs before attempt n add up to.
Slept(n) == IF n = 0 THEN 0 ELSE IF n = 1 THEN 1 ELSE 5

Counters ==
  /\ setup \in Setups /\ pc \in TaskPlaces
  /\ clock \in Nat /\ linkedAt \in Nat /\ attempt \in {0, 1, 2}
  /\ pc \in {"start", "refused", "upload"} => clock = 0
  /\ pc \in {"start", "upload", "source", "guard"} => attempt = 0
  /\ pc = "backoff" => attempt \in {0, 1}
  /\ pc = "source" => clock \in UploadTimes

\* Production has a bucket once the runner has started.
Chosen ==
  setup.production /\ pc \notin {"start", "refused"} => setup.bucket

\* The instant of the link is the upload's and the HEAD's time.
Linked ==
  pc \in {"guard", "request", "backoff"} =>
    \E u \in UploadTimes, s \in SourceTimes : linkedAt = u + s

\* How far the clock can be at each place of the task, with a bucket.
Elapsed ==
  /\ pc = "source" => clock < 2400
  /\ pc = "guard" => clock = linkedAt
  /\ pc = "request" => clock <= linkedAt + attempt * 670 + Slept(attempt)
  /\ pc = "backoff" => clock <= linkedAt + (attempt + 1) * 670 + Slept(attempt)
  /\ pc = "landed" => clock < 2400

IInv == Counters /\ Chosen /\ Linked /\ (setup.bucket => Elapsed)

-------------------------------------------------------------------------------
\* The assumptions in numbers: what a wait can be, and what is left to the
\* upload and the HEAD.
LEMMA Waits ==
  /\ UploadTimes \subseteq Nat /\ SourceTimes \subseteq Nat
  /\ RequestTimes \subseteq Nat
  /\ setup.bucket => \A d \in RequestTimes : d <= 670
  /\ \A u \in UploadTimes, s \in SourceTimes : u + s + 2015 < 2400
  /\ \A u \in UploadTimes : u < 2400
<1>1. RequestLimit = 670
  BY DEF RequestLimit, CONNECT_TIMEOUT_S, READ_TIMEOUT_S
<1>2. UploadTimes \subseteq Nat /\ SourceTimes \subseteq Nat /\ RequestTimes \subseteq Nat
  BY TimesAssumption DEF RequestTimes
<1>3. setup.bucket => \A d \in RequestTimes : d <= 670
  BY <1>1, TimesAssumption DEF RequestTimes
<1>4. \A u \in UploadTimes, s \in SourceTimes : u + s + 2015 < 2400
  BY <1>1, <1>2, SlackAssumption DEF PROCESSING_STALE_CUTOFF_S
<1>5. \A u \in UploadTimes : u < 2400
  <2>1. PICK s \in SourceTimes : TRUE
    BY TimesAssumption
  <2> QED
    BY <2>1, <1>2, <1>4
<1> QED
  BY <1>2, <1>3, <1>4, <1>5

\* The runner starts with an empty clock.
LEMMA InitIInv == Init => IInv
  BY DEF Init, IInv, Counters, Chosen, Linked, Elapsed, TaskPlaces

\* The upload and the source take the time that the constants allow.
LEMMA UploadIInv ==
  ASSUME IInv, NEW d \in UploadTimes, Upload(d)
  PROVE  IInv'
<1>1. pc = "upload" /\ clock = 0 /\ attempt = 0 /\ d \in Nat
  BY Waits DEF Upload, IInv, Counters
<1>2. CASE pc' = "source" /\ clock' = clock + d /\ UNCHANGED <<setup, attempt, linkedAt>>
  <2>1. clock' = d /\ d < 2400
    BY <1>1, <1>2, Waits
  <2> QED
    BY <2>1, <1>1, <1>2 DEF IInv, Counters, Chosen, Linked, Elapsed, TaskPlaces
<1>3. CASE Land(Failed("upload_failed"), d)
  BY <1>1, <1>3, Waits DEF Land, IInv, Counters, Chosen, Linked, Elapsed, TaskPlaces
<1> QED
  BY <1>2, <1>3 DEF Upload

\* The link is made when the source is: its instant is the clock.
LEMMA SourceIInv ==
  ASSUME IInv, NEW d \in SourceTimes, MakeSource(d)
  PROVE  IInv'
<1>1. pc = "source" /\ attempt = 0 /\ d \in Nat /\ clock \in UploadTimes /\ clock \in Nat
  BY Waits DEF MakeSource, IInv, Counters
<1>2. CASE /\ pc' = "guard" /\ clock' = clock + d /\ linkedAt' = clock + d
           /\ UNCHANGED <<setup, attempt>>
  <2>1. Linked'
    BY <1>1, <1>2 DEF Linked
  <2> QED
    BY <2>1, <1>1, <1>2 DEF IInv, Counters, Chosen, Elapsed, TaskPlaces
<1>3. CASE Land(Failed("source_unavailable"), d)
  BY <1>1, <1>3, Waits DEF Land, IInv, Counters, Chosen, Linked, Elapsed, TaskPlaces
<1> QED
  BY <1>2, <1>3 DEF MakeSource

\* A link that is old enough is still followed by three requests in time.
LEMMA LinkIsEarly ==
  ASSUME IInv, pc \in {"guard", "request", "backoff"}
  PROVE  linkedAt + 2015 < 2400
<1>1. PICK u \in UploadTimes, s \in SourceTimes : linkedAt = u + s
  BY DEF IInv, Linked
<1> QED
  BY <1>1, Waits

\* The guard costs no time.
LEMMA GuardIInv ==
  ASSUME IInv, Guard
  PROVE  IInv'
<1>1. /\ pc = "guard" /\ attempt = 0 /\ UNCHANGED <<setup, attempt, linkedAt>>
      /\ clock \in Nat /\ linkedAt \in Nat
      /\ pc' \in {"request", "landed"} /\ clock' = clock
  BY DEF Guard, Land, IInv, Counters
<1>2. linkedAt + 2015 < 2400
  BY <1>1, LinkIsEarly
<1>3. Linked'
  BY <1>1 DEF IInv, Linked
<1>4. setup.bucket => Elapsed'
  BY <1>1, <1>2 DEF IInv, Elapsed, Slept
<1> QED
  BY <1>1, <1>3, <1>4 DEF IInv, Counters, Chosen, TaskPlaces

\* Every way out of a request lands or goes to a back-off that is not the last.
LEMMA RequestOutcomes ==
  ASSUME IInv, NEW d \in RequestTimes, Request(d)
  PROVE  /\ pc = "request" /\ UNCHANGED <<setup, attempt, linkedAt>> /\ clock' = clock + d
         /\ pc' = "landed" \/ (pc' = "backoff" /\ attempt # 2)
<1>1. ASSUME Retry(d)
      PROVE  /\ UNCHANGED <<setup, attempt, linkedAt>> /\ clock' = clock + d
             /\ pc' = "landed" \/ (pc' = "backoff" /\ attempt # 2)
  BY <1>1 DEF Retry, Land, LastAttempt, RETRY_ATTEMPTS
<1> QED
  BY <1>1 DEF Request, Unanswered, Unreadable, Refusal, Answered, Land

LEMMA RequestIInv ==
  ASSUME IInv, NEW d \in RequestTimes, Request(d)
  PROVE  IInv'
<1>1. /\ pc = "request" /\ UNCHANGED <<setup, attempt, linkedAt>> /\ clock' = clock + d
      /\ pc' = "landed" \/ (pc' = "backoff" /\ attempt # 2)
  BY RequestOutcomes
<1>2. /\ clock \in Nat /\ linkedAt \in Nat /\ d \in Nat /\ attempt \in {0, 1, 2}
      /\ setup.bucket => d <= 670
      /\ linkedAt + 2015 < 2400
  BY <1>1, Waits, LinkIsEarly DEF IInv, Counters
<1>3. Linked'
  BY <1>1 DEF IInv, Linked
<1>4. setup.bucket => Elapsed'
  <2> SUFFICES ASSUME setup.bucket PROVE Elapsed'
    OBVIOUS
  <2>1. clock <= linkedAt + attempt * 670 + Slept(attempt)
    BY <1>1 DEF IInv, Elapsed
  <2>2. clock + d <= linkedAt + (attempt + 1) * 670 + Slept(attempt)
    BY <2>1, <1>2 DEF Slept
  <2>3. clock + d < 2400
    BY <2>1, <1>2 DEF Slept
  <2> QED
    BY <2>2, <2>3, <1>1, <1>2 DEF Elapsed, Slept
<1> QED
  BY <1>1, <1>2, <1>3, <1>4 DEF IInv, Counters, Chosen, TaskPlaces

\* The sleeps before the second and the third attempt are 1 and 4 seconds.
LEMMA BackoffIInv ==
  ASSUME IInv, Backoff
  PROVE  IInv'
<1>1. /\ pc = "backoff" /\ pc' = "request" /\ UNCHANGED <<setup, linkedAt>>
      /\ clock' = clock + BACKOFF_S[attempt + 1] /\ attempt' = attempt + 1
      /\ clock \in Nat /\ linkedAt \in Nat /\ attempt \in {0, 1}
  BY DEF Backoff, IInv, Counters
<1>2. BACKOFF_S[1] = 1 /\ BACKOFF_S[2] = 4
  BY DEF BACKOFF_S
<1>3. Linked'
  BY <1>1 DEF IInv, Linked
<1>4. CASE attempt = 0
  BY <1>1, <1>2, <1>3, <1>4 DEF IInv, Counters, Chosen, Elapsed, Slept, TaskPlaces
<1>5. CASE attempt = 1
  BY <1>1, <1>2, <1>3, <1>5 DEF IInv, Counters, Chosen, Elapsed, Slept, TaskPlaces
<1> QED
  BY <1>1, <1>4, <1>5

\* The runner takes calls only with the bucket that production must have.
LEMMA StartIInv ==
  ASSUME IInv, Start
  PROVE  IInv'
<1>1. /\ pc = "start" /\ pc' \in {"upload", "refused"}
      /\ pc' = "upload" => ~StorageRefused
      /\ UNCHANGED <<setup, clock, attempt, linkedAt>>
  BY DEF Start
<1>2. ~StorageRefused /\ setup.production => setup.bucket
  BY DEF StorageRefused, IInv, Counters, Setups
<1> QED
  BY <1>1, <1>2 DEF IInv, Counters, Chosen, Linked, Elapsed, TaskPlaces

-------------------------------------------------------------------------------
\* Every step keeps the invariant.
LEMMA Inductive == Spec => []IInv
<1>1. ASSUME IInv, [Next]_vars PROVE IInv'
  <2>1. CASE Start
    BY <2>1, <1>1, StartIInv
  <2>2. CASE Guard
    BY <2>2, <1>1, GuardIInv
  <2>3. CASE Backoff
    BY <2>3, <1>1, BackoffIInv
  <2>4. CASE \E d \in UploadTimes : Upload(d)
    BY <2>4, <1>1, UploadIInv
  <2>5. CASE \E d \in SourceTimes : MakeSource(d)
    BY <2>5, <1>1, SourceIInv
  <2>6. CASE \E d \in RequestTimes : Request(d)
    BY <2>6, <1>1, RequestIInv
  <2>7. CASE UNCHANGED vars
    BY <2>7, <1>1 DEF vars, IInv, Counters, Chosen, Linked, Elapsed
  <2> QED
    BY <2>1, <2>2, <2>3, <2>4, <2>5, <2>6, <2>7, <1>1 DEF Next
<1> QED
  BY <1>1, InitIInv, PTL DEF Spec

\* The stale sweep never finds a call whose audio is in a bucket still waiting
\* for its transcript: PROCESSING_STALE_CUTOFF_S covers every retry.
THEOREM LandsBeforeCutoff == Spec => []LandsInTime
<1>1. ASSUME IInv PROVE LandsInTime
  <2> SUFFICES ASSUME setup.bucket \/ setup.production PROVE clock < 2400
    BY DEF LandsInTime, PROCESSING_STALE_CUTOFF_S
  <2>1. CASE pc \in {"start", "refused", "upload"}
    BY <1>1, <2>1 DEF IInv, Counters
  <2>2. CASE pc \in {"source", "landed"}
    BY <1>1, <2>2 DEF IInv, Chosen, Elapsed
  <2>3. CASE pc \in {"guard", "request", "backoff"}
    <3>1. /\ setup.bucket /\ Elapsed /\ linkedAt + 2015 < 2400
          /\ clock \in Nat /\ linkedAt \in Nat /\ attempt \in {0, 1, 2}
          /\ pc = "backoff" => attempt \in {0, 1}
      BY <1>1, <2>3, LinkIsEarly DEF IInv, Chosen, Counters
    <3> QED
      BY <3>1, <2>3 DEF Elapsed, Slept
  <2> QED
    BY <1>1, <2>1, <2>2, <2>3 DEF IInv, Counters, TaskPlaces
<1> QED
  BY <1>1, Inductive, PTL

\* A presigned URL that outlives two requests and their back-offs is good when
\* the third request begins.
THEOREM LinkOutlivesRetries == Spec => []LinkCoversAttempts
<1>1. ASSUME IInv PROVE LinkCoversAttempts
  <2> SUFFICES ASSUME pc = "request", setup.bucket PROVE clock - linkedAt < PresignTTL
    BY DEF LinkCoversAttempts
  <2>1. /\ clock <= linkedAt + attempt * 670 + Slept(attempt)
        /\ clock \in Nat /\ linkedAt \in Nat /\ attempt \in {0, 1, 2}
    BY <1>1 DEF IInv, Elapsed, Counters
  <2>2. PresignTTL \in Nat /\ PresignTTL > 1345
    BY LinkAssumption DEF RequestLimit, CONNECT_TIMEOUT_S, READ_TIMEOUT_S
  <2> QED
    BY <2>1, <2>2 DEF Slept
<1> QED
  BY <1>1, Inductive, PTL
-------------------------------------------------------------------------------
\* A request goes on only as long as no body has come, and the row waits for the
\* landing.
AnswersFit ==
  /\ pc # "landed" => answers = <<>> /\ row = Processing
  /\ pc = "landed" => row.status \in {"done", "failed"}
  /\ answers \in {<<>>} \cup {<<body>> : body \in Bodies}
  /\ linkedAt <= clock

LEMMA AnswersInit == Init => AnswersFit
BY DEF Init, AnswersFit

\* What lands is done or failed.
LEMMA LandFits ==
  ASSUME IInv, AnswersFit, NEW result, NEW d \in Nat, Land(result, d),
         result.status \in {"done", "failed"},
         answers' \in {<<>>} \cup {<<body>> : body \in Bodies}
  PROVE  AnswersFit'
BY DEF Land, AnswersFit, IInv, Counters

LEMMA RetryFits ==
  ASSUME IInv, AnswersFit, pc = "request", NEW d \in Nat, Retry(d), UNCHANGED answers
  PROVE  AnswersFit'
<1>1. CASE Land(Failed("attempts_exhausted"), d)
  BY <1>1, LandFits DEF Failed, AnswersFit
<1>2. CASE pc' = "backoff" /\ clock' = clock + d /\ UNCHANGED <<setup, attempt, linkedAt, row>>
  BY <1>2 DEF AnswersFit, IInv, Counters
<1> QED
  BY <1>1, <1>2 DEF Retry

LEMMA AnswersStep == ASSUME IInv, AnswersFit, [Next]_vars PROVE AnswersFit'
<1>1. CASE Start
  BY <1>1 DEF Start, AnswersFit
<1>2. CASE Guard
  <2>1. CASE Land(Failed("too_large"), 0)
    BY <1>2, <2>1, LandFits DEF Guard, Failed, AnswersFit
  <2>2. CASE Land(Done(<<>>), 0)
    BY <1>2, <2>2, LandFits DEF Guard, Done, AnswersFit
  <2>3. CASE pc' = "request" /\ UNCHANGED <<setup, clock, attempt, linkedAt, row>>
    BY <1>2, <2>3 DEF Guard, AnswersFit
  <2> QED
    BY <1>2, <2>1, <2>2, <2>3 DEF Guard
<1>3. CASE Backoff
  <2>1. attempt \in {0, 1} /\ BACKOFF_S[attempt + 1] \in {1, 4}
    BY <1>3 DEF Backoff, IInv, Counters, BACKOFF_S
  <2> QED
    BY <1>3, <2>1 DEF Backoff, AnswersFit, IInv, Counters
<1>4. ASSUME NEW d \in UploadTimes, Upload(d) PROVE AnswersFit'
  <2>1. d \in Nat
    BY Waits
  <2>2. CASE pc' = "source" /\ clock' = clock + d /\ UNCHANGED <<setup, attempt, linkedAt, answers, row>>
    BY <1>4, <2>1, <2>2 DEF Upload, AnswersFit, IInv, Counters
  <2>3. CASE Land(Failed("upload_failed"), d) /\ UNCHANGED answers
    BY <2>1, <2>3, LandFits DEF Failed, AnswersFit
  <2> QED
    BY <1>4, <2>2, <2>3 DEF Upload
<1>5. ASSUME NEW d \in SourceTimes, MakeSource(d) PROVE AnswersFit'
  <2>1. d \in Nat
    BY Waits
  <2>2. CASE /\ pc' = "guard" /\ clock' = clock + d /\ linkedAt' = clock + d
             /\ UNCHANGED <<setup, attempt, answers, row>>
    BY <1>5, <2>1, <2>2 DEF MakeSource, AnswersFit, IInv, Counters
  <2>3. CASE Land(Failed("source_unavailable"), d) /\ UNCHANGED answers
    BY <2>1, <2>3, LandFits DEF Failed, AnswersFit
  <2> QED
    BY <1>5, <2>2, <2>3 DEF MakeSource
<1>6. ASSUME NEW d \in RequestTimes, Request(d) PROVE AnswersFit'
  <2>1. d \in Nat /\ pc = "request"
    BY <1>6, Waits DEF Request
  <2>2. CASE Unanswered(d)
    BY <2>1, <2>2, RetryFits DEF Unanswered
  <2>3. CASE Unreadable(d)
    BY <2>1, <2>3, LandFits DEF Unreadable, Failed, AnswersFit
  <2>4. ASSUME NEW code \in Codes, Refusal(code, d) PROVE AnswersFit'
    BY <2>1, <2>4, RetryFits, LandFits DEF Refusal, Failed, AnswersFit
  <2>5. ASSUME NEW body \in Bodies, Answered(body, d) PROVE AnswersFit'
    <3>1. answers' = <<body>>
      BY <2>1, <2>5 DEF Answered, AnswersFit
    <3> QED
      BY <2>1, <2>5, <3>1, LandFits DEF Answered, Done, Failed
  <2> QED
    BY <1>6, <2>2, <2>3, <2>4, <2>5 DEF Request
<1>7. CASE UNCHANGED vars
  BY <1>7 DEF vars, AnswersFit
<1> QED
  BY <1>1, <1>2, <1>3, <1>4, <1>5, <1>6, <1>7 DEF Next

LEMMA AnswersInductive == Spec => [](IInv /\ AnswersFit)
BY Inductive, AnswersInit, AnswersStep, PTL DEF Spec

\* The task and the row keep their types: among them no fourth attempt, one
\* answer at most, and a verdict in the row exactly when the call has landed.
THEOREM TypeCorrect == Spec => []TypeOK
<1>1. IInv /\ AnswersFit => TypeOK
  <2> SUFFICES ASSUME IInv, AnswersFit PROVE TypeOK
    OBVIOUS
  <2>1. linkedAt \in 0..clock
    BY DEF IInv, Counters, AnswersFit
  <2>2. row.status \in {"processing", "done", "failed"} /\ (row.status = "processing" <=> pc # "landed")
    BY DEF AnswersFit, Processing
  <2> QED
    BY <2>1, <2>2 DEF IInv, Counters, AnswersFit, TypeOK, TaskPlaces, RETRY_ATTEMPTS
<1> QED
  BY <1>1, AnswersInductive, PTL

\* deepgram.py, "the synchronous response is the only copy": no step follows the
\* first 2xx, for any bodies and any times.
THEOREM FirstAnswerStands == Spec => AnswerIsKept
<1>1. ASSUME IInv, AnswersFit, [Next]_vars
      PROVE  [answers # <<>> => UNCHANGED <<attempt, answers, row>>]_vars
  <2> SUFFICES ASSUME Next, answers # <<>> PROVE FALSE
    BY <1>1
  <2>1. pc = "landed"
    BY <1>1 DEF AnswersFit
  <2> QED
    BY <2>1 DEF Next, Start, Guard, Backoff, Upload, MakeSource, Request
<1> QED
  BY <1>1, AnswersInductive, PTL DEF Spec, AnswerIsKept
-------------------------------------------------------------------------------
(* Induction over the naturals in the form of a set: WFMin of module           *)
(* WellFoundedInduction takes no operator, and the least natural outside of S  *)
(* cannot exist.                                                              *)
Less == {pair \in Nat \X Nat : pair[1] < pair[2]}

LEMMA LessIsWellFounded == IsWellFoundedOn(Less, Nat)
BY NatLessThanWellFounded, Zenon DEF OpToRel, Less

LEMMA InductionBySet ==
  ASSUME NEW S, 0 \in S, \A n \in Nat : n \in S => n + 1 \in S
  PROVE  Nat \subseteq S
<1> DEFINE T == Nat \ S
<1> SUFFICES ASSUME T # {} PROVE FALSE
  OBVIOUS
<1>1. \E x \in T : \A y \in T : <<y, x>> \notin Less
  <2>1. T \subseteq Nat
    OBVIOUS
  <2> HIDE DEF T
  <2> QED
    BY <2>1, WFMin, LessIsWellFounded
<1>2. PICK x \in T : \A y \in T : <<y, x>> \notin Less
  BY <1>1
<1>3. \A y \in T : ~(y < x)
  BY <1>2 DEF Less
<1>4. x - 1 \in Nat /\ x - 1 < x
  OBVIOUS
<1> QED
  BY <1>3, <1>4

-------------------------------------------------------------------------------
(* The loop of the parser, one entry at a time.                               *)
OneMore(segments, entry, runs) ==
  IF ~Parses(entry) THEN segments
  ELSE IF runs THEN AddWord(segments, entry)
  ELSE Append(segments, Segment(entry))

Collects(upTo, entries, runs, m) ==
  upTo = [n \in 0..m |-> IF n = 0 THEN <<>> ELSE OneMore(upTo[n - 1], entries[n], runs)]

LEMMA CollectedIsLoop ==
  ASSUME NEW entries, NEW runs
  PROVE  Collected(entries, runs)
           = (CHOOSE upTo : Collects(upTo, entries, runs, Len(entries)))[Len(entries)]
BY DEF Collected, Collects, OneMore

\* The recursion has a solution for any number of entries.
LEMMA LoopExists ==
  ASSUME NEW entries, NEW runs, NEW m \in Nat
  PROVE  \E upTo : Collects(upTo, entries, runs, m)
<1> DEFINE S == {n \in Nat : \E upTo : Collects(upTo, entries, runs, n)}
<1>1. 0 \in S
  <2> DEFINE g == [n \in 0..0 |-> <<>>]
  <2>1. Collects(g, entries, runs, 0)
    BY DEF Collects
  <2> QED
    BY <2>1
<1>2. ASSUME NEW n \in Nat, n \in S PROVE n + 1 \in S
  <2>1. PICK g : Collects(g, entries, runs, n)
    BY <1>2
  <2> DEFINE h == [k \in 0..(n + 1) |-> IF k <= n THEN g[k]
                                        ELSE OneMore(g[n], entries[n + 1], runs)]
  <2>2. \A k \in 0..n : g[k] = IF k = 0 THEN <<>> ELSE OneMore(g[k - 1], entries[k], runs)
    BY <2>1 DEF Collects
  <2>3. (\A k \in 0..n : h[k] = g[k]) /\ h[n + 1] = OneMore(g[n], entries[n + 1], runs)
    OBVIOUS
  <2>4. h = [k \in 0..(n + 1) |-> h[k]]
    OBVIOUS
  <2> HIDE DEF h
  <2>5. ASSUME NEW k \in 0..(n + 1)
        PROVE  h[k] = IF k = 0 THEN <<>> ELSE OneMore(h[k - 1], entries[k], runs)
    <3>1. CASE k = 0
      BY <2>2, <2>3, <3>1
    <3>2. CASE k \in 1..n
      <4>1. k \in 0..n /\ k - 1 \in 0..n /\ k # 0
        BY <3>2
      <4> QED
        BY <2>2, <2>3, <4>1
    <3>3. CASE k = n + 1
      <4>1. k - 1 = n /\ k # 0 /\ n \in 0..n
        BY <3>3
      <4> QED
        BY <2>3, <3>3, <4>1
    <3> QED
      BY <3>1, <3>2, <3>3
  <2>6. Collects(h, entries, runs, n + 1)
    BY <2>4, <2>5 DEF Collects
  <2> QED
    BY <2>6
<1> HIDE DEF S
<1>3. Nat \subseteq S
  BY <1>1, <1>2, InductionBySet
<1> QED
  BY <1>3 DEF S

-------------------------------------------------------------------------------
(* What the segments are after the first n entries, over their places.        *)
Spans == [speaker : Speakers, first : Places, last : Places, text : Seq(Places)]

\* Place p of segment i is that of an entry of its speaker; entry k is in some
\* segment; place p of segment i comes from an entry before that of place q of j.
HasSource(segments, entries, n, i, p) ==
  \E k \in 1..n : /\ Parses(entries[k]) /\ segments[i].text[p] = entries[k].at
                  /\ segments[i].speaker = entries[k].speaker

IsFound(segments, entries, k) ==
  \E i \in 1..Len(segments) : \E p \in 1..Len(segments[i].text) :
    segments[i].text[p] = entries[k].at

InOrder(segments, entries, n, i, j, p, q) ==
  \E k, l \in 1..n : /\ k < l /\ Parses(entries[k]) /\ Parses(entries[l])
                     /\ segments[i].text[p] = entries[k].at
                     /\ segments[j].text[q] = entries[l].at

Sourced(segments, entries, n) ==
  \A i \in 1..Len(segments) : \A p \in 1..Len(segments[i].text) :
    HasSource(segments, entries, n, i, p)

Complete(segments, entries, n) ==
  \A k \in 1..n : Parses(entries[k]) => IsFound(segments, entries, k)

Ordered(segments, entries, n) ==
  \A i, j \in 1..Len(segments) :
    \A p \in 1..Len(segments[i].text), q \in 1..Len(segments[j].text) :
      i < j \/ (i = j /\ p < q) => InOrder(segments, entries, n, i, j, p, q)

Shaped(segments, runs) ==
  \A i \in 1..Len(segments) :
    /\ Len(segments[i].text) > 0
    /\ segments[i].first = segments[i].text[1]
    /\ segments[i].last = segments[i].text[Len(segments[i].text)]
    /\ ~runs => Len(segments[i].text) = 1
    /\ runs /\ i < Len(segments) => segments[i].speaker # segments[i + 1].speaker

Faithful(segments, entries, n, runs) ==
  /\ segments \in Seq(Spans)
  /\ Sourced(segments, entries, n) /\ Complete(segments, entries, n)
  /\ Ordered(segments, entries, n) /\ Shaped(segments, runs)

\* Dropping an entry that does not parse loses nothing.
LEMMA DropKeeps ==
  ASSUME NEW entries \in Seq(Entries), NEW n \in Nat, n < Len(entries), NEW runs \in BOOLEAN,
         NEW segments, Faithful(segments, entries, n, runs), ~Parses(entries[n + 1])
  PROVE  Faithful(segments, entries, n + 1, runs)
<1>1. \A k \in 1..n : k \in 1..(n + 1)
  OBVIOUS
<1>2. \A k \in 1..(n + 1) : k \in 1..n \/ k = n + 1
  OBVIOUS
<1>3. Sourced(segments, entries, n + 1)
  BY <1>1 DEF Faithful, Sourced, HasSource
<1>4. Complete(segments, entries, n + 1)
  BY <1>2 DEF Faithful, Complete
<1>5. Ordered(segments, entries, n + 1)
  BY <1>1 DEF Faithful, Ordered, InOrder
<1> QED
  BY <1>3, <1>4, <1>5 DEF Faithful

\* A new segment at the end.
LEMMA NewKeeps ==
  ASSUME NEW entries \in Seq(Entries), NEW n \in Nat, n < Len(entries), NEW runs \in BOOLEAN,
         NEW segments, Faithful(segments, entries, n, runs), Parses(entries[n + 1]),
         runs /\ segments # <<>> =>
           segments[Len(segments)].speaker # entries[n + 1].speaker
  PROVE  Faithful(Append(segments, Segment(entries[n + 1])), entries, n + 1, runs)
<1> DEFINE e == entries[n + 1]
           new == Append(segments, Segment(e))
           L == Len(segments)
<1>1. e \in Entries /\ e.speaker \in Speakers /\ e.at \in Places
  <2>1. n + 1 \in 1..Len(entries)
    OBVIOUS
  <2>2. e \in Entries
    BY <2>1
  <2> QED
    BY <2>2 DEF Parses, Entries
<1>2. /\ Segment(e) \in Spans
      /\ Segment(e).speaker = e.speaker /\ Segment(e).first = e.at /\ Segment(e).last = e.at
      /\ Segment(e).text = <<e.at>> /\ Len(Segment(e).text) = 1 /\ Segment(e).text[1] = e.at
  BY <1>1 DEF Segment, Spans
<1>3. segments \in Seq(Spans) /\ L \in Nat /\ (L = 0 <=> segments = <<>>)
  BY DEF Faithful
<1>4. /\ new \in Seq(Spans) /\ Len(new) = L + 1 /\ new[L + 1] = Segment(e)
      /\ \A i \in 1..L : new[i] = segments[i]
  BY <1>2, <1>3
<1>5. \A k \in 1..n : k \in 1..(n + 1) /\ k < n + 1
  OBVIOUS
<1>6. \A k \in 1..(n + 1) : k \in 1..n \/ k = n + 1
  OBVIOUS
<1>7. \A i \in 1..(L + 1) : i \in 1..L \/ i = L + 1
  BY <1>3
<1>8. n + 1 \in 1..(n + 1) /\ L + 1 \in 1..(L + 1) /\ \A i \in 1..L : i \in 1..(L + 1) /\ i < L + 1
  BY <1>3
<1>9. Parses(e)
  OBVIOUS
<1> HIDE DEF new
<1>10. Sourced(new, entries, n + 1)
  <2> SUFFICES ASSUME NEW i \in 1..(L + 1), NEW p \in 1..Len(new[i].text)
               PROVE  HasSource(new, entries, n + 1, i, p)
    BY <1>4 DEF Sourced
  <2>1. CASE i \in 1..L
    <3>1. new[i] = segments[i] /\ p \in 1..Len(segments[i].text)
      BY <1>4, <2>1
    <3>2. HasSource(segments, entries, n, i, p)
      BY <2>1, <3>1 DEF Faithful, Sourced
    <3> QED
      BY <1>5, <3>1, <3>2 DEF HasSource
  <2>2. CASE i = L + 1
    <3>1. new[i].text[p] = e.at /\ new[i].speaker = e.speaker
      BY <1>2, <1>4, <2>2
    <3> QED
      BY <1>8, <1>9, <3>1 DEF HasSource
  <2> QED
    BY <1>7, <2>1, <2>2
<1>11. Complete(new, entries, n + 1)
  <2> SUFFICES ASSUME NEW k \in 1..(n + 1), Parses(entries[k])
               PROVE  IsFound(new, entries, k)
    BY <1>4 DEF Complete
  <2>1. CASE k \in 1..n
    <3>1. PICK i \in 1..L : \E p \in 1..Len(segments[i].text) :
            segments[i].text[p] = entries[k].at
      BY <2>1 DEF Faithful, Complete, IsFound
    <3>2. new[i] = segments[i] /\ i \in 1..Len(new)
      BY <1>4, <1>8
    <3> QED
      BY <3>1, <3>2 DEF IsFound
  <2>2. CASE k = n + 1
    <3>1. /\ L + 1 \in 1..Len(new) /\ 1 \in 1..Len(new[L + 1].text)
          /\ new[L + 1].text[1] = entries[k].at
      BY <1>2, <1>4, <1>8, <2>2
    <3> QED
      BY <3>1 DEF IsFound
  <2> QED
    BY <1>6, <2>1, <2>2
<1>12. Ordered(new, entries, n + 1)
  <2> SUFFICES ASSUME NEW i \in 1..(L + 1), NEW j \in 1..(L + 1), NEW p \in 1..Len(new[i].text),
                      NEW q \in 1..Len(new[j].text), i < j \/ (i = j /\ p < q)
               PROVE  InOrder(new, entries, n + 1, i, j, p, q)
    BY <1>4 DEF Ordered
  <2>1. CASE j \in 1..L
    <3>1. i \in 1..L
      BY <1>3, <2>1
    <3>2. /\ new[i] = segments[i] /\ p \in 1..Len(segments[i].text)
          /\ new[j] = segments[j] /\ q \in 1..Len(segments[j].text)
      BY <1>4, <2>1, <3>1
    <3>3. InOrder(segments, entries, n, i, j, p, q)
      BY <2>1, <3>1, <3>2 DEF Faithful, Ordered
    <3> QED
      BY <1>5, <3>2, <3>3 DEF InOrder
  <2>2. CASE j = L + 1
    <3>1. new[j].text[q] = e.at /\ q = 1
      <4>1. new[j].text = Segment(e).text
        BY <1>4, <2>2
      <4>2. q \in 1..1
        BY <1>2, <4>1
      <4> QED
        BY <1>2, <4>1, <4>2
    <3>2. i \in 1..L
      BY <1>2, <1>3, <1>4, <1>7, <2>2, <3>1
    <3>3. new[i] = segments[i] /\ p \in 1..Len(segments[i].text)
      BY <1>4, <3>2
    <3>4. HasSource(segments, entries, n, i, p)
      BY <3>2, <3>3 DEF Faithful, Sourced
    <3>5. PICK k \in 1..n : Parses(entries[k]) /\ segments[i].text[p] = entries[k].at
      BY <3>4 DEF HasSource
    <3> QED
      BY <1>5, <1>8, <1>9, <3>1, <3>3, <3>5 DEF InOrder
  <2> QED
    BY <1>7, <2>1, <2>2
<1>13. Shaped(new, runs)
  <2> SUFFICES ASSUME NEW i \in 1..(L + 1)
               PROVE  /\ Len(new[i].text) > 0
                      /\ new[i].first = new[i].text[1]
                      /\ new[i].last = new[i].text[Len(new[i].text)]
                      /\ ~runs => Len(new[i].text) = 1
                      /\ runs /\ i < L + 1 => new[i].speaker # new[i + 1].speaker
    BY <1>4 DEF Shaped
  <2>1. CASE i \in 1..L
    <3>1. /\ Len(new[i].text) > 0
          /\ new[i].first = new[i].text[1]
          /\ new[i].last = new[i].text[Len(new[i].text)]
          /\ ~runs => Len(new[i].text) = 1
      BY <1>4, <2>1 DEF Faithful, Shaped
    <3>2. CASE i < L
      <4>1. i + 1 \in 1..L
        BY <1>3, <2>1, <3>2
      <4> QED
        BY <1>4, <2>1, <3>1, <3>2, <4>1 DEF Faithful, Shaped
    <3>3. CASE i = L
      <4>1. segments # <<>> /\ new[i + 1].speaker = e.speaker /\ new[i] = segments[L]
        BY <1>2, <1>3, <1>4, <2>1, <3>3
      <4> QED
        BY <3>1, <4>1
    <3> QED
      BY <1>3, <2>1, <3>2, <3>3
  <2>2. CASE i = L + 1
    <3>1. new[i] = Segment(e) /\ ~(i < L + 1)
      BY <1>3, <1>4, <2>2
    <3>2. /\ Len(new[i].text) = 1 /\ new[i].text[1] = e.at
          /\ new[i].first = e.at /\ new[i].last = e.at
      BY <1>2, <3>1
    <3> QED
      BY <3>1, <3>2
  <2> QED
    BY <1>7, <2>1, <2>2
<1> QED
  BY <1>4, <1>10, <1>11, <1>12, <1>13 DEF Faithful, new

\* A word of the last speaker makes the last segment longer.
LEMMA ExtendKeeps ==
  ASSUME NEW entries \in Seq(Entries), NEW n \in Nat, n < Len(entries),
         NEW segments, Faithful(segments, entries, n, TRUE), Parses(entries[n + 1]),
         segments # <<>>, segments[Len(segments)].speaker = entries[n + 1].speaker
  PROVE  Faithful([segments EXCEPT ![Len(segments)].last = entries[n + 1].at,
                                   ![Len(segments)].text = Append(@, entries[n + 1].at)],
                  entries, n + 1, TRUE)
<1> DEFINE e == entries[n + 1]
           L == Len(segments)
           old == segments[L]
           grown == [old EXCEPT !.last = e.at, !.text = Append(@, e.at)]
           new == [segments EXCEPT ![L] = grown]
           M == Len(old.text)
<1>1. e \in Entries /\ e.speaker \in Speakers /\ e.at \in Places
  <2>1. n + 1 \in 1..Len(entries)
    OBVIOUS
  <2>2. e \in Entries
    BY <2>1
  <2> QED
    BY <2>2 DEF Parses, Entries
<1>2. segments \in Seq(Spans) /\ L \in Nat /\ L > 0 /\ L \in 1..L
  BY DEF Faithful
<1>3. old \in Spans /\ old.text \in Seq(Places) /\ M \in Nat /\ M > 0 /\ 1 \in 1..M
  <2>1. old \in Spans /\ M > 0
    BY <1>2 DEF Faithful, Shaped
  <2> QED
    BY <2>1 DEF Spans
<1>4. /\ Append(old.text, e.at) \in Seq(Places) /\ Len(Append(old.text, e.at)) = M + 1
      /\ Append(old.text, e.at)[M + 1] = e.at
      /\ \A p \in 1..M : Append(old.text, e.at)[p] = old.text[p]
  BY <1>1, <1>3
<1>5. /\ grown \in Spans /\ grown.speaker = old.speaker /\ grown.first = old.first
      /\ grown.last = e.at /\ grown.text = Append(old.text, e.at)
  BY <1>1, <1>3, <1>4 DEF Spans
<1> HIDE DEF grown
<1>6. /\ new \in Seq(Spans) /\ Len(new) = L /\ new[L] = grown
      /\ \A i \in 1..L : i # L => new[i] = segments[i]
  BY <1>2, <1>5
<1>7. new = [segments EXCEPT ![L].last = e.at, ![L].text = Append(@, e.at)]
  BY <1>2 DEF grown
<1>8. /\ Len(new[L].text) = M + 1 /\ new[L].text[M + 1] = e.at /\ new[L].speaker = e.speaker
      /\ new[L].first = old.first /\ new[L].last = e.at
      /\ \A p \in 1..M : new[L].text[p] = old.text[p]
  BY <1>4, <1>5, <1>6
<1> HIDE DEF new
<1>9. ASSUME NEW i \in 1..L
      PROVE  /\ new[i].speaker = segments[i].speaker /\ new[i].first = segments[i].first
             /\ Len(segments[i].text) \in Nat /\ Len(segments[i].text) > 0
             /\ \A p \in 1..Len(segments[i].text) :
                  p \in 1..Len(new[i].text) /\ new[i].text[p] = segments[i].text[p]
             /\ \A p \in 1..Len(new[i].text) :
                  p \in 1..Len(segments[i].text) \/ (i = L /\ p = M + 1)
  <2>1. CASE i = L
    BY <1>3, <1>5, <1>6, <1>8, <2>1
  <2>2. CASE i # L
    <3>1. new[i] = segments[i] /\ segments[i] \in Spans /\ Len(segments[i].text) > 0
      BY <1>2, <1>6, <2>2 DEF Faithful, Shaped
    <3> QED
      BY <3>1 DEF Spans
  <2> QED
    BY <2>1, <2>2
<1>10. \A k \in 1..n : k \in 1..(n + 1) /\ k < n + 1
  OBVIOUS
<1>11. \A k \in 1..(n + 1) : k \in 1..n \/ k = n + 1
  OBVIOUS
<1>12. n + 1 \in 1..(n + 1) /\ M + 1 \in 1..(M + 1) /\ Parses(e)
  BY <1>3
<1>13. Sourced(new, entries, n + 1)
  <2> SUFFICES ASSUME NEW i \in 1..L, NEW p \in 1..Len(new[i].text)
               PROVE  HasSource(new, entries, n + 1, i, p)
    BY <1>6 DEF Sourced
  <2>1. CASE p \in 1..Len(segments[i].text)
    <3>1. PICK k \in 1..n : /\ Parses(entries[k]) /\ segments[i].text[p] = entries[k].at
                            /\ segments[i].speaker = entries[k].speaker
      BY <2>1 DEF Faithful, Sourced, HasSource
    <3> QED
      BY <1>9, <1>10, <2>1, <3>1 DEF HasSource
  <2>2. CASE i = L /\ p = M + 1
    BY <1>8, <1>12, <2>2 DEF HasSource
  <2> QED
    BY <1>9, <2>1, <2>2
<1>14. Complete(new, entries, n + 1)
  <2> SUFFICES ASSUME NEW k \in 1..(n + 1), Parses(entries[k])
               PROVE  IsFound(new, entries, k)
    BY <1>6 DEF Complete
  <2>1. CASE k \in 1..n
    <3>1. PICK i \in 1..L : \E p \in 1..Len(segments[i].text) :
            segments[i].text[p] = entries[k].at
      BY <2>1 DEF Faithful, Complete, IsFound
    <3> QED
      BY <1>6, <1>9, <3>1 DEF IsFound
  <2>2. CASE k = n + 1
    BY <1>2, <1>6, <1>8, <1>12, <2>2 DEF IsFound
  <2> QED
    BY <1>11, <2>1, <2>2
<1>15. Ordered(new, entries, n + 1)
  <2> SUFFICES ASSUME NEW i \in 1..L, NEW j \in 1..L, NEW p \in 1..Len(new[i].text),
                      NEW q \in 1..Len(new[j].text), i < j \/ (i = j /\ p < q)
               PROVE  InOrder(new, entries, n + 1, i, j, p, q)
    BY <1>6 DEF Ordered
  <2>1. p \in 1..Len(segments[i].text)
    <3>1. CASE i = L
      <4>1. i = j /\ p < q /\ q \in 1..(M + 1)
        BY <1>2, <1>8, <3>1
      <4> QED
        BY <1>3, <3>1, <4>1
    <3>2. CASE i # L
      BY <1>9, <3>2
    <3> QED
      BY <3>1, <3>2
  <2>2. CASE q \in 1..Len(segments[j].text)
    <3>1. InOrder(segments, entries, n, i, j, p, q)
      BY <2>1, <2>2 DEF Faithful, Ordered
    <3>2. new[i].text[p] = segments[i].text[p] /\ new[j].text[q] = segments[j].text[q]
      BY <1>9, <2>1, <2>2
    <3> QED
      BY <1>10, <3>1, <3>2 DEF InOrder
  <2>3. CASE j = L /\ q = M + 1
    <3>1. PICK k \in 1..n : Parses(entries[k]) /\ segments[i].text[p] = entries[k].at
      BY <2>1 DEF Faithful, Sourced, HasSource
    <3>2. new[i].text[p] = segments[i].text[p] /\ new[j].text[q] = e.at
      BY <1>8, <1>9, <2>1, <2>3
    <3> QED
      BY <1>10, <1>12, <3>1, <3>2 DEF InOrder
  <2> QED
    BY <1>9, <2>2, <2>3
<1>16. Shaped(new, TRUE)
  <2> SUFFICES ASSUME NEW i \in 1..L
               PROVE  /\ Len(new[i].text) > 0
                      /\ new[i].first = new[i].text[1]
                      /\ new[i].last = new[i].text[Len(new[i].text)]
                      /\ i < L => new[i].speaker # new[i + 1].speaker
    BY <1>6 DEF Shaped
  <2>1. i < L => new[i].speaker # new[i + 1].speaker
    <3>1. ASSUME i < L PROVE i + 1 \in 1..L
      BY <1>2, <3>1
    <3> QED
      BY <1>9, <3>1 DEF Faithful, Shaped
  <2>2. segments[i].first = segments[i].text[1]
    BY DEF Faithful, Shaped
  <2>3. new[i].text[1] = segments[i].text[1]
    BY <1>9
  <2>4. Len(new[i].text) > 0 /\ new[i].last = new[i].text[Len(new[i].text)]
    <3>1. CASE i = L
      BY <1>3, <1>8, <3>1
    <3>2. CASE i # L
      BY <1>6, <3>2 DEF Faithful, Shaped
    <3> QED
      BY <3>1, <3>2
  <2> QED
    BY <1>9, <2>1, <2>2, <2>3, <2>4
<1> QED
  BY <1>6, <1>7, <1>13, <1>14, <1>15, <1>16 DEF Faithful

\* One entry more.
LEMMA OneMoreKeeps ==
  ASSUME NEW entries \in Seq(Entries), NEW n \in Nat, n < Len(entries), NEW runs \in BOOLEAN,
         NEW segments, Faithful(segments, entries, n, runs)
  PROVE  Faithful(OneMore(segments, entries[n + 1], runs), entries, n + 1, runs)
<1>1. CASE ~Parses(entries[n + 1])
  BY <1>1, DropKeeps DEF OneMore
<1>2. CASE /\ Parses(entries[n + 1]) /\ runs
           /\ segments # <<>> /\ segments[Len(segments)].speaker = entries[n + 1].speaker
  <2>1. runs = TRUE
    BY <1>2
  <2> QED
    BY <1>2, <2>1, ExtendKeeps DEF OneMore, AddWord
<1>3. CASE /\ Parses(entries[n + 1])
           /\ ~(runs /\ segments # <<>>
                /\ segments[Len(segments)].speaker = entries[n + 1].speaker)
  BY <1>3, NewKeeps DEF OneMore, AddWord
<1> QED
  BY <1>1, <1>2, <1>3

\* The loop as a whole, by induction over the entries.
LEMMA CollectedIsFaithful ==
  ASSUME NEW entries \in Seq(Entries), NEW runs \in BOOLEAN
  PROVE  Faithful(Collected(entries, runs), entries, Len(entries), runs)
<1> DEFINE L == Len(entries)
           upTo == CHOOSE g : Collects(g, entries, runs, L)
<1>1. L \in Nat
  OBVIOUS
<1>2. Collects(upTo, entries, runs, L)
  BY <1>1, LoopExists
<1>3. Collected(entries, runs) = upTo[L]
  BY CollectedIsLoop
<1> HIDE DEF upTo
<1>4. /\ upTo[0] = <<>>
      /\ \A n \in Nat : n < L => upTo[n + 1] = OneMore(upTo[n], entries[n + 1], runs)
  <2>1. \A n \in 0..L : upTo[n] = IF n = 0 THEN <<>> ELSE OneMore(upTo[n - 1], entries[n], runs)
    BY <1>2 DEF Collects
  <2>2. ASSUME NEW n \in Nat, n < L PROVE upTo[n + 1] = OneMore(upTo[n], entries[n + 1], runs)
    <3>1. n + 1 \in 0..L /\ n + 1 # 0 /\ (n + 1) - 1 = n
      BY <1>1, <2>2
    <3> QED
      BY <2>1, <3>1
  <2> QED
    BY <1>1, <2>1, <2>2
<1> DEFINE S == {n \in Nat : n <= L => Faithful(upTo[n], entries, n, runs)}
<1>5. 0 \in S
  <2>1. Faithful(<<>>, entries, 0, runs)
    BY DEF Faithful, Sourced, Complete, Ordered, Shaped
  <2> QED
    BY <1>4, <2>1
<1>6. ASSUME NEW n \in Nat, n \in S PROVE n + 1 \in S
  <2>1. ASSUME n + 1 <= L PROVE Faithful(upTo[n + 1], entries, n + 1, runs)
    <3>1. n < L /\ Faithful(upTo[n], entries, n, runs)
      BY <1>1, <1>6, <2>1
    <3> QED
      BY <1>4, <3>1, OneMoreKeeps
  <2> QED
    BY <2>1
<1> HIDE DEF S
<1>7. Nat \subseteq S
  BY <1>5, <1>6, InductionBySet
<1> QED
  BY <1>1, <1>3, <1>7 DEF S

\* The invariant of the loop is the reference, once no two places are the same.
LEMMA FaithfulIsTranscript ==
  ASSUME NEW body, WellPlaced(body), NEW segments,
         Faithful(segments, EntriesOf(body), Len(EntriesOf(body)), ~IsList(body.utterances))
  PROVE  IsTranscriptOf(segments, body)
<1> DEFINE entries == EntriesOf(body)
           good == {k \in DOMAIN entries : Parses(entries[k])}
           text(i) == segments[i].text
<1>1. entries \in Seq(Entries) /\ DOMAIN entries = 1..Len(entries) /\ Len(entries) \in Nat
  BY DEF WellPlaced
<1>2. \A k, l \in DOMAIN entries : entries[k].at = entries[l].at => k = l
  BY DEF WellPlaced
<1> HIDE DEF entries
<1>3. segments \in Seq(Spans) /\ DOMAIN segments = 1..Len(segments)
  BY DEF Faithful
<1>4. ASSUME NEW i \in DOMAIN segments
      PROVE  text(i) \in Seq(Places) /\ DOMAIN text(i) = 1..Len(text(i))
  <2>1. segments[i] \in Spans
    BY <1>3
  <2> QED
    BY <2>1 DEF Spans
<1>5. Faithful(segments, entries, Len(entries), ~IsList(body.utterances))
  BY DEF entries
<1>6. UNION {ToSet(text(i)) : i \in DOMAIN segments} = {entries[k].at : k \in good}
  <2>1. ASSUME NEW i \in DOMAIN segments, NEW p \in DOMAIN text(i)
        PROVE  \E k \in good : text(i)[p] = entries[k].at
    <3>1. HasSource(segments, entries, Len(entries), i, p)
      BY <1>3, <1>4, <1>5 DEF Faithful, Sourced
    <3> QED
      BY <1>1, <3>1 DEF HasSource
  <2>2. ASSUME NEW k \in good
        PROVE  \E i \in DOMAIN segments : \E p \in DOMAIN text(i) : text(i)[p] = entries[k].at
    <3>1. PICK i \in 1..Len(segments) : \E p \in 1..Len(segments[i].text) :
            segments[i].text[p] = entries[k].at
      BY <1>1, <1>5 DEF Faithful, Complete, IsFound
    <3> QED
      BY <1>3, <1>4, <3>1
  <2> HIDE DEF text, good
  <2> QED
    BY <2>1, <2>2 DEF ToSet
<1>7. ASSUME NEW i \in DOMAIN segments, NEW j \in DOMAIN segments,
             NEW p \in DOMAIN text(i), NEW q \in DOMAIN text(j), i < j \/ (i = j /\ p < q)
      PROVE  \E k, l \in good : k < l /\ text(i)[p] = entries[k].at /\ text(j)[q] = entries[l].at
  <2>1. InOrder(segments, entries, Len(entries), i, j, p, q)
    BY <1>3, <1>4, <1>5, <1>7 DEF Faithful, Ordered
  <2> QED
    BY <1>1, <2>1 DEF InOrder
<1>8. ASSUME NEW i \in DOMAIN segments
      PROVE  /\ text(i) # <<>>
             /\ segments[i].first = text(i)[1] /\ segments[i].last = text(i)[Len(text(i))]
             /\ IF IsList(body.utterances) THEN Len(text(i)) = 1
                ELSE i < Len(segments) => segments[i].speaker # segments[i + 1].speaker
  BY <1>3, <1>4, <1>5 DEF Faithful, Shaped
<1>9. ASSUME NEW i \in DOMAIN segments, NEW k \in good, entries[k].at \in ToSet(text(i))
      PROVE  entries[k].speaker = segments[i].speaker
  <2>1. PICK p \in DOMAIN text(i) : text(i)[p] = entries[k].at
    BY <1>9 DEF ToSet
  <2>2. PICK l \in 1..Len(entries) : /\ text(i)[p] = entries[l].at
                                     /\ segments[i].speaker = entries[l].speaker
    BY <1>3, <1>4, <1>5 DEF Faithful, Sourced, HasSource
  <2> QED
    BY <1>1, <1>2, <2>1, <2>2
<1> HIDE DEF text, good
<1>10. /\ \A i, j \in DOMAIN segments : \A p \in DOMAIN text(i), q \in DOMAIN text(j) :
            i < j \/ (i = j /\ p < q) =>
              \E k, l \in good :
                k < l /\ text(i)[p] = entries[k].at /\ text(j)[q] = entries[l].at
       /\ \A i \in DOMAIN segments :
            /\ text(i) # <<>>
            /\ segments[i].first = text(i)[1] /\ segments[i].last = text(i)[Len(text(i))]
            /\ \A k \in good :
                 entries[k].at \in ToSet(text(i)) => entries[k].speaker = segments[i].speaker
            /\ IF IsList(body.utterances) THEN Len(text(i)) = 1
               ELSE i < Len(segments) => segments[i].speaker # segments[i + 1].speaker
  BY <1>7, <1>8, <1>9
<1> QED
  BY <1>6, <1>10 DEF IsTranscriptOf, entries, text, good

\* parse_response: whatever parses is the transcript of its body, and is not
\* empty when the body had entries.
LEMMA ParsedIsTranscript ==
  ASSUME NEW body, WellPlaced(body), ParseResponse(body).ok
  PROVE  /\ IsTranscriptOf(ParseResponse(body).segments, body)
         /\ EntriesOf(body) # <<>> => ParseResponse(body).segments # <<>>
<1> DEFINE runs == ~IsList(body.utterances)
<1>1. runs \in BOOLEAN /\ EntriesOf(body) \in Seq(Entries)
  BY DEF WellPlaced
<1>2. ParseResponse(body) = Honest(Collected(EntriesOf(body), runs), EntriesOf(body))
  BY DEF ParseResponse, Raises, EntriesOf, SegmentsFromUtterances, SegmentsFromWords
<1>3. /\ ParseResponse(body).segments = Collected(EntriesOf(body), runs)
      /\ EntriesOf(body) # <<>> => ParseResponse(body).segments # <<>>
  BY <1>2 DEF Honest, Raises, Transcript
<1> QED
  BY <1>1, <1>3, CollectedIsFaithful, FaithfulIsTranscript

-------------------------------------------------------------------------------
\* A done call of Deepgram's carries the parse of the one body that came.
TranscriptFits ==
  row.status = "done" /\ setup.provider = "deepgram" =>
    \E body \in Bodies : /\ answers = <<body>> /\ ParseResponse(body).ok
                         /\ row.segments = ParseResponse(body).segments

\* Where a row can become done, and with what.
LEMMA DoneHasBody ==
  ASSUME AnswersFit, Next, row'.status = "done"
  PROVE  \/ setup.provider # "deepgram"
         \/ \E body \in Bodies : /\ answers' = <<body>> /\ ParseResponse(body).ok
                                 /\ row'.segments = ParseResponse(body).segments
<1>1. pc # "landed" => row.status # "done" /\ answers = <<>>
  BY DEF AnswersFit, Processing
<1>2. CASE Start \/ Backoff
  BY <1>1, <1>2 DEF Start, Backoff
<1>3. CASE Guard
  BY <1>1, <1>3 DEF Guard, Land, Failed
<1>4. ASSUME NEW d \in UploadTimes, Upload(d) PROVE FALSE
  BY <1>1, <1>4 DEF Upload, Land, Failed
<1>5. ASSUME NEW d \in SourceTimes, MakeSource(d) PROVE FALSE
  BY <1>1, <1>5 DEF MakeSource, Land, Failed
<1>6. ASSUME NEW d \in RequestTimes, Request(d)
      PROVE  \E body \in Bodies : /\ answers' = <<body>> /\ ParseResponse(body).ok
                                  /\ row'.segments = ParseResponse(body).segments
  <2>1. pc = "request" /\ answers = <<>> /\ row.status # "done"
    BY <1>1, <1>6 DEF Request
  <2>2. ~Retry(d)
    BY <2>1 DEF Retry, Land, Failed
  <2>3. PICK body \in Bodies : Answered(body, d)
    BY <1>6, <2>1, <2>2 DEF Request, Unanswered, Unreadable, Refusal, Land, Failed
  <2>4. answers' = <<body>>
    BY <2>1, <2>3 DEF Answered
  <2>5. row' = IF ParseResponse(body).ok THEN Done(ParseResponse(body).segments)
               ELSE Failed("unparsable")
    BY <2>3 DEF Answered, Land
  <2> QED
    BY <2>4, <2>5 DEF Done, Failed
<1> QED
  BY <1>2, <1>3, <1>4, <1>5, <1>6 DEF Next

LEMMA TranscriptStep == ASSUME IInv, AnswersFit, TranscriptFits, [Next]_vars PROVE TranscriptFits'
<1>1. CASE UNCHANGED vars
  BY <1>1 DEF vars, TranscriptFits
<1>2. CASE Next
  <2>1. setup' = setup
    BY <1>2 DEF Next, Start, Guard, Backoff, Upload, MakeSource, Request, Unanswered,
                Unreadable, Refusal, Answered, Retry, Land
  <2> QED
    BY <1>2, <2>1, DoneHasBody DEF TranscriptFits
<1> QED
  BY <1>1, <1>2

\* The transcript of a done call is that of the provider's answer, for any bodies
\* of any length: no entry that parses is lost, doubled, out of order or given to
\* another speaker, and entries never become an empty transcript.
THEOREM TranscriptsAreFaithful == Spec => []TranscriptFaithful
<1>1. Init => TranscriptFits
  BY DEF Init, Processing, TranscriptFits
<1>2. TranscriptFits => TranscriptFaithful
  <2> SUFFICES ASSUME TranscriptFits, row.status = "done", setup.provider = "deepgram"
               PROVE  /\ IsTranscriptOf(row.segments, answers[1])
                      /\ EntriesOf(answers[1]) # <<>> => row.segments # <<>>
    BY DEF TranscriptFaithful
  <2>1. PICK body \in Bodies : /\ answers = <<body>> /\ ParseResponse(body).ok
                               /\ row.segments = ParseResponse(body).segments
    BY DEF TranscriptFits
  <2> QED
    BY <2>1, BodiesAssumption, ParsedIsTranscript
<1> QED
  BY <1>1, <1>2, TranscriptStep, AnswersInductive, PTL DEF Spec
===============================================================================
