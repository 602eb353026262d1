----------------------------- MODULE Transcription -----------------------------
(***************************************************************************)
(* The transcription of one call, from the commit that makes it processing *)
(* to its landing: the upload, the audio source (integrations/             *)
(* object_storage), the requests under the retry policy of                 *)
(* services/transcription.py, and the parse of the answer.  The choice of  *)
(* the adapters at the start of the runner comes first.                    *)
(*                                                                         *)
(* Time is in seconds since the processing commit.  Who else writes the    *)
(* row meanwhile, and the exceptions that nothing catches, are the subject *)
(* of module BotRunner.                                                    *)
(***************************************************************************)
EXTENDS DeepgramResponse

CONSTANTS
  UploadTimes, SourceTimes,  \* how long the upload and the HEAD or stat may take
  AnswerTimes,               \* how long a request may take whose body is an URL
  FileTimes,                 \* how long one may take that streams the stored copy
  Codes, Bodies,             \* the statuses and the 2xx bodies of the provider
  PresignTTL                 \* S3_PRESIGN_TTL_SECONDS

VARIABLES
  setup,     \* ENVIRONMENT, S3_BUCKET and TRANSCRIPTION_PROVIDER
  pc,        \* where the runner's task stands
  clock,
  attempt,   \* the loop variable of _transcribe_with_retries
  linkedAt,  \* when the presigned URL was made
  answers,   \* history: the 2xx bodies that the provider has given
  row        \* status, failure reason and transcript of the call

vars == <<setup, pc, clock, attempt, linkedAt, answers, row>>

-------------------------------------------------------------------------------
\* Mutant: one attempt more than the cutoff was computed for.
FourAttempts == 4

RETRY_ATTEMPTS == 3

BACKOFF_S == <<1, 4, 16>>

CONNECT_TIMEOUT_S == 10

READ_TIMEOUT_S == 660

PROCESSING_STALE_CUTOFF_S == 2400

\* A request for which the provider fetches the audio is over in this time.
RequestLimit == CONNECT_TIMEOUT_S + READ_TIMEOUT_S

ASSUME TimesAssumption ==
  /\ UploadTimes \cup SourceTimes \cup AnswerTimes \cup FileTimes \subseteq Nat
  /\ SourceTimes # {}
  /\ \A d \in AnswerTimes : d <= RequestLimit

\* The slack that the comment of PROCESSING_STALE_CUTOFF_S leaves to the rest.
ASSUME SlackAssumption ==
  \A u \in UploadTimes, s \in SourceTimes :
    u + s + 3 * RequestLimit + 1 + 4 < PROCESSING_STALE_CUTOFF_S

\* The last of three requests starts before the link expires.
ASSUME LinkAssumption == PresignTTL \in Nat /\ PresignTTL > 2 * RequestLimit + 1 + 4

ASSUME CodesAssumption == Codes \subseteq Nat

ASSUME BodiesAssumption == \A body \in Bodies : WellPlaced(body)

-------------------------------------------------------------------------------
Setups == [production : BOOLEAN, bucket : BOOLEAN, provider : {"deepgram", "stub", "unset"}]

Processing == [status |-> "processing", reason |-> "none", segments |-> <<>>]

Done(segments) == [status |-> "done", reason |-> "none", segments |-> segments]

Failed(reason) == [status |-> "failed", reason |-> reason, segments |-> <<>>]

Init ==
  /\ setup \in Setups
  /\ pc = "start" /\ clock = 0 /\ attempt = 0 /\ linkedAt = 0
  /\ answers = <<>> /\ row = Processing

\* Each factory raises ConfigurationError for what production must not run with.
StorageRefused == setup.production /\ ~setup.bucket

TranscriptionRefused == setup.production /\ setup.provider # "deepgram"

\* Keys that are missing refuse as well, and so does a bucket that is out of
\* reach or does not echo S3_SSE in the probe.
ProbeFails == setup.bucket

KeyMissing == setup.provider = "deepgram"

\* main builds both services before it takes a call.
Start ==
  /\ pc = "start"
  /\ \/ ~StorageRefused /\ ~TranscriptionRefused /\ pc' = "upload"
     \/ /\ StorageRefused \/ TranscriptionRefused \/ ProbeFails \/ KeyMissing
        /\ pc' = "refused"
  /\ UNCHANGED <<setup, clock, attempt, linkedAt, answers, row>>

\* The call lands after d more seconds.
Land(result, d) ==
  /\ pc' = "landed" /\ row' = result /\ clock' = clock + d
  /\ UNCHANGED <<setup, attempt, linkedAt>>

\* A missing WAV, or UploadFailed, ends the call; there is no second upload.
Upload(d) ==
  /\ pc = "upload"
  /\ \/ /\ pc' = "source" /\ clock' = clock + d
        /\ UNCHANGED <<setup, attempt, linkedAt, answers, row>>
     \/ Land(Failed("upload_failed"), d) /\ UNCHANGED answers

\* The HEAD and the presigned URL of the bucket, or the stat of the local copy.
MakeSource(d) ==
  /\ pc = "source"
  /\ \/ /\ pc' = "guard" /\ clock' = clock + d /\ linkedAt' = clock + d
        /\ UNCHANGED <<setup, attempt, answers, row>>
     \/ Land(Failed("source_unavailable"), d) /\ UNCHANGED answers

\* The size guard precedes the client, whichever it is; the stub hears nothing.
Guard ==
  /\ pc = "guard"
  /\ \/ Land(Failed("too_large"), 0)
     \/ setup.provider # "deepgram" /\ Land(Done(<<>>), 0)
     \/ setup.provider = "deepgram" /\ pc' = "request"
        /\ UNCHANGED <<setup, clock, attempt, linkedAt, row>>
  /\ UNCHANGED answers

-------------------------------------------------------------------------------
RequestTimes == IF setup.bucket THEN AnswerTimes ELSE AnswerTimes \cup FileTimes

\* Mutant: the loop sleeps after the last attempt too.
LastAttemptLate == attempt = RETRY_ATTEMPTS

LastAttempt == attempt = RETRY_ATTEMPTS - 1

\* TransientTranscriptionError: back off, or give up after the last attempt.
Retry(d) ==
  \/ LastAttempt /\ Land(Failed("attempts_exhausted"), d)
  \/ /\ ~LastAttempt /\ pc' = "backoff" /\ clock' = clock + d
     /\ UNCHANGED <<setup, attempt, linkedAt, row>>

Backoff ==
  /\ pc = "backoff" /\ pc' = "request"
  /\ clock' = clock + BACKOFF_S[attempt + 1]
  /\ attempt' = attempt + 1
  /\ UNCHANGED <<setup, linkedAt, answers, row>>

\* No answer in time, or a broken connection.
Unanswered(d) == Retry(d) /\ UNCHANGED answers

\* The stored copy cannot be read while it is streamed.
Unreadable(d) == ~setup.bucket /\ Land(Failed("unreadable"), d) /\ UNCHANGED answers

Refusal(code, d) ==
  /\ \/ TransientStatus(code) /\ Retry(d)
     \/ PermanentStatus(code) /\ Land(Failed("refused"), d)
  /\ UNCHANGED answers

\* Mutant: a body that does not parse is asked for again.
AnsweredOrRetried(body, d) ==
  LET parsed == ParseResponse(body) IN
  /\ answers' = Append(answers, body)
  /\ IF parsed.ok THEN Land(Done(parsed.segments), d) ELSE Retry(d)

\* A 2xx: its body is the only copy of the transcript.
Answered(body, d) ==
  LET parsed == ParseResponse(body) IN
  /\ answers' = Append(answers, body)
  /\ Land(IF parsed.ok THEN Done(parsed.segments) ELSE Failed("unparsable"), d)

\* One attempt of DeepgramTranscriptionClient.transcribe.
Request(d) ==
  /\ pc = "request"
  /\ \/ Unanswered(d) \/ Unreadable(d)
     \/ \E code \in Codes : Refusal(code, d)
     \/ \E code \in Codes, body \in Bodies : Accepted(code) /\ Answered(body, d)

Next ==
  \/ Start \/ Guard \/ Backoff
  \/ \E d \in UploadTimes : Upload(d)
  \/ \E d \in SourceTimes : MakeSource(d)
  \/ \E d \in RequestTimes : Request(d)

Spec == Init /\ [][Next]_vars

-------------------------------------------------------------------------------
\* Types of the task's and the row's state.
TypeOK ==
  /\ setup \in Setups
  /\ pc \in {"start", "refused", "upload", "source", "guard", "request", "backoff", "landed"}
  /\ clock \in Nat /\ linkedAt \in 0..clock
  /\ attempt \in 0..(RETRY_ATTEMPTS - 1)
  /\ answers \in {<<>>} \cup {<<body>> : body \in Bodies}
  /\ row.status \in {"processing", "done", "failed"}
  /\ (row.status = "processing") = (pc # "landed")

\* PROCESSING_STALE_CUTOFF_S: with the audio in a bucket, as production always
\* has it, a call has landed before the stale sweep may fail it.
LandsInTime ==
  setup.bucket \/ setup.production => clock < PROCESSING_STALE_CUTOFF_S

\* docs/transcription.md, "Transports": the link made before the first request
\* is still good when the last one begins.
LinkCoversAttempts ==
  pc = "request" /\ setup.bucket => clock - linkedAt < PresignTTL

\* deepgram.py, "the synchronous response is the only copy": after a 2xx nothing
\* is asked again, and the row carries what that answer says.
AnswerIsKept ==
  [][answers # <<>> => UNCHANGED <<attempt, answers, row>>]_vars

\* The transcript of a done call is that of the answer: nothing lost, doubled,
\* out of order or given to another speaker, and never empty when entries came
\* back.
TranscriptFaithful ==
  row.status = "done" /\ setup.provider = "deepgram" =>
    /\ IsTranscriptOf(row.segments, answers[1])
    /\ EntriesOf(answers[1]) # <<>> => row.segments # <<>>

\* deepgram.py: "parse failures are permanent errors, never silent empty
\* results": an empty transcript is one whose body had a list to be empty.
EmptyIsHeard ==
  row.status = "done" /\ row.segments = <<>> /\ setup.provider = "deepgram" =>
    \/ IsList(answers[1].utterances)
    \/ \E i \in DOMAIN answers[1].alternatives : IsList(answers[1].alternatives[i])
===============================================================================
