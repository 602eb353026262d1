---------------------------- MODULE WebhookDelivery ----------------------------
(***************************************************************************)
(* The delivery of one terminal call's webhook (dispatch_webhook of        *)
(* workers/bot_runner.py and deliver of workers/webhook_dispatcher.py) by  *)
(* the two actors that can be in it at once, the task of the call and the  *)
(* main loop after one of its sweeps, while retention may lock the row.    *)
(*                                                                         *)
(* A dispatcher reads the row with no lock, signs one body and one         *)
(* timestamp, and takes the row lock with the first flush of               *)
(* webhook_attempts; it keeps the lock through every attempt and back-off  *)
(* until its commit, or until its database session is lost.  Retention     *)
(* keeps it while the storage provider deletes the audio.  Time is counted *)
(* in seconds, and passes in attempts, each of which takes as long as it   *)
(* can, in back-offs and in deletions.                                     *)
(***************************************************************************)
EXTENDS Naturals, Sequences, FiniteSetsExt

CONSTANTS
  Dispatchers,
  MaxAttempts,   \* settings.webhook_max_attempts
  AttemptTime,   \* bound: the longest that one client.post takes
  Backoff,       \* DEFAULT_BACKOFF_S
  Skew,          \* WEBHOOK_TIMESTAMP_SKEW, what receivers accept
  Slack,         \* what of the skew the attempts and pauses leave over
  HoldTimes,     \* how long retention may hold the row: nothing bounds it
  MaxSweeps      \* bound: reclaims of the row by retention

\* The call's task and the main loop are all the dispatchers there are.
ASSUME DispatchersAssumption == IsFiniteSet(Dispatchers)
ASSUME AttemptsAssumption == MaxAttempts \in Nat \ {0}
ASSUME TimesAssumption ==
  /\ AttemptTime \in Nat /\ Skew \in Nat /\ Slack \in Nat /\ HoldTimes \subseteq Nat
  /\ Backoff \in Seq(Nat) /\ Backoff # <<>>
ASSUME SweepsAssumption == MaxSweeps \in Nat

VARIABLES
  row,        \* committed: webhook_attempts, webhook_delivered_at is set
  disp,       \* the dispatchers; conn: the session has its connection; waited
              \* and spent: seconds since the timestamp was signed
  held,       \* retention holds the row lock
  sweeps,     \* reclaims by retention so far
  posts,      \* history: POSTs of each dispatcher
  accepted,   \* history: POSTs the receiver has taken, answered or not; bound:
              \* counted up to the second
  mishaps     \* history: which kinds of trouble the delivery has met

vars == <<row, disp, held, sweeps, posts, accepted, mishaps>>

-------------------------------------------------------------------------------
\* What client.post can come to: a 2xx, any other status below 500, a 5xx, an
\* httpx.HTTPError, or another exception, which dispatch_webhook catches.
Answers == {"2xx", "final", "5xx", "network", "raised"}

Mishaps == {"overlap", "crash", "lost_answer", "lost_session"}

Active(d) == disp[d].pc \notin {"idle", "over"}

\* Mutant: a dispatcher that has returned keeps its transaction open.
LocksKept(d) ==
  \/ disp[d].conn /\ disp[d].pc \in {"posting", "backoff", "retry", "commit"}
  \/ disp[d].pc = "over" /\ posts[d] > 0

\* The row is locked from the first flush to the commit; the server releases it
\* when the session is lost.
Locks(d) == disp[d].conn /\ disp[d].pc \in {"posting", "backoff", "retry", "commit"}

\* Nobody else has the row: no other dispatcher and no sweep of retention.
Unlocked(d) == ~held /\ \A e \in Dispatchers \ {d} : ~Locks(e)

\* Mutant: a 4xx is retried as well.
RetryableAnyError(answer) == answer \in {"final", "5xx", "network"}

Retryable(answer) == answer \in {"5xx", "network"}

\* Mutant: one attempt too many.
LastAttemptLate(n) == n > MaxAttempts

LastAttempt(n) == n >= MaxAttempts

\* Mutant: the list is indexed by the number of the attempt to come.
PauseLate(n) == Backoff[IF n + 1 < Len(Backoff) THEN n + 1 ELSE Len(Backoff)]

\* The pause after the n-th attempt; the last entry serves all later ones.
Pause(n) == Backoff[IF n < Len(Backoff) THEN n ELSE Len(Backoff)]

\* The dispatchers after the row was locked for some seconds: whoever has signed
\* and not flushed yet has waited so much longer (bound: counted up to the first
\* second past the slack).
Longer(waited, seconds) ==
  IF waited + seconds <= Slack THEN waited + seconds ELSE Slack + 1

Waits(next, seconds) ==
  [d \in Dispatchers |->
     IF disp[d].pc = "signed"
     THEN [next[d] EXCEPT !.waited = Longer(@, seconds)] ELSE next[d]]

\* What others see of the seconds that a dispatcher spends.
LockTime(d, seconds) == IF Locks(d) THEN seconds ELSE 0

\* How old the timestamp of a dispatcher is.
SignedFor(d) == disp[d].waited + disp[d].spent

Idle == [pc |-> "idle", n |-> 0, seen |-> 0, waited |-> 0, spent |-> 0,
         conn |-> TRUE, last |-> "none"]

\* The dispatcher has returned, and its session is closed.
Over == [Idle EXCEPT !.pc = "over"]

-------------------------------------------------------------------------------
Init ==
  /\ row = [attempts |-> 0, delivered |-> FALSE]
  /\ disp = [d \in Dispatchers |-> Idle]
  /\ held = FALSE
  /\ sweeps = 0
  /\ posts = [d \in Dispatchers |-> 0]
  /\ accepted = 0
  /\ mishaps = {}

\* Mutant: the dispatcher does not look whether the row is delivered already.
SignAgain(d) ==
  /\ disp[d].pc = "idle"
  /\ disp' = [disp EXCEPT ![d].pc = "signed", ![d].seen = row.attempts]
  /\ mishaps' = mishaps \cup
                  (IF \E e \in Dispatchers \ {d} : Active(e) THEN {"overlap"} ELSE {})
  /\ UNCHANGED <<row, held, sweeps, posts, accepted>>

\* dispatch_webhook and the head of deliver: the row, the body, the timestamp.
Sign(d) ==
  /\ disp[d].pc = "idle"
  /\ disp' = [disp EXCEPT ![d] = IF row.delivered THEN Over
                                 ELSE [Idle EXCEPT !.pc = "signed", !.seen = row.attempts]]
  /\ mishaps' = mishaps \cup
                  (IF \E e \in Dispatchers \ {d} : Active(e) THEN {"overlap"} ELSE {})
  /\ UNCHANGED <<row, held, sweeps, posts, accepted>>

\* Mutant: only the first attempt is counted.
FlushFirst(d) ==
  /\ disp[d].pc \in {"signed", "retry"}
  /\ \/ /\ disp[d].conn /\ Unlocked(d)
        /\ disp' = [disp EXCEPT ![d].pc = "posting", ![d].n = @ + 1,
                                ![d].seen = IF disp[d].pc = "signed" THEN @ + 1 ELSE @]
     \/ ~disp[d].conn /\ disp' = [disp EXCEPT ![d] = Over]
  /\ UNCHANGED <<row, held, sweeps, posts, accepted, mishaps>>

\* webhook_attempts += 1 on the object as it was read, and session.flush(), which
\* waits for the row lock; on a lost session it raises, and so does the commit
\* of dispatch_webhook after it.
Flush(d) ==
  /\ disp[d].pc \in {"signed", "retry"}
  /\ \/ /\ disp[d].conn /\ Unlocked(d)
        /\ disp' = [disp EXCEPT ![d].pc = "posting", ![d].n = @ + 1, ![d].seen = @ + 1]
     \/ ~disp[d].conn /\ disp' = [disp EXCEPT ![d] = Over]
  /\ UNCHANGED <<row, held, sweeps, posts, accepted, mishaps>>

\* client.post.  After a network error the receiver may have taken the POST.
Post(d) ==
  /\ disp[d].pc = "posting"
  /\ \E a \in Answers, taken \in BOOLEAN :
       /\ a = "2xx" => taken
       /\ a \in {"final", "5xx", "raised"} => ~taken
       /\ disp' = Waits([disp EXCEPT
                           ![d].last = a, ![d].spent = @ + AttemptTime,
                           ![d].pc = IF Retryable(a) /\ ~LastAttempt(disp[d].n)
                                     THEN "backoff" ELSE "commit"],
                        LockTime(d, AttemptTime))
       /\ accepted' = IF taken /\ accepted < 2 THEN accepted + 1 ELSE accepted
       /\ mishaps' = mishaps \cup
                       (IF taken /\ a = "network" THEN {"lost_answer"} ELSE {})
  /\ posts' = [posts EXCEPT ![d] = @ + 1]
  /\ UNCHANGED <<row, held, sweeps>>

Sleep(d) ==
  LET pause == Pause(disp[d].n) IN
  /\ disp[d].pc = "backoff"
  /\ disp' = Waits([disp EXCEPT ![d].pc = "retry", ![d].spent = @ + pause],
                   LockTime(d, pause))
  /\ UNCHANGED <<row, held, sweeps, posts, accepted, mishaps>>

\* Mutant: webhook_delivered_at is set for any answer that ends the delivery.
CommitAnswered(d) ==
  /\ disp[d].pc = "commit"
  /\ row' = IF disp[d].conn
            THEN [attempts |-> disp[d].seen,
                  delivered |-> row.delivered \/ disp[d].last \in {"2xx", "final"}]
            ELSE row
  /\ disp' = [disp EXCEPT ![d] = Over]
  /\ UNCHANGED <<held, sweeps, posts, accepted, mishaps>>

\* The flush after a 2xx and the commit of dispatch_webhook; on a lost session
\* they raise, and all that was flushed is rolled back: counts and delivered.
Commit(d) ==
  /\ disp[d].pc = "commit"
  /\ row' = IF disp[d].conn
            THEN [attempts |-> disp[d].seen,
                  delivered |-> row.delivered \/ disp[d].last = "2xx"]
            ELSE row
  /\ disp' = [disp EXCEPT ![d] = Over]
  /\ UNCHANGED <<held, sweeps, posts, accepted, mishaps>>

\* The session of one dispatcher is lost: its connection breaks or the server
\* ends its transaction, which stays open through minutes of back-off.
LoseSession(d) ==
  /\ Active(d) /\ disp[d].conn
  /\ disp' = [disp EXCEPT ![d].conn = FALSE]
  /\ mishaps' = mishaps \cup {"lost_session"}
  /\ UNCHANGED <<row, held, sweeps, posts, accepted>>

\* enforce_retention re-claims the terminal row with SKIP LOCKED ...
Reclaim ==
  /\ ~held /\ sweeps < MaxSweeps
  /\ \A d \in Dispatchers : ~Locks(d)
  /\ held' = TRUE
  /\ sweeps' = sweeps + 1
  /\ UNCHANGED <<row, disp, posts, accepted, mishaps>>

\* ... and lets go of it when the provider has deleted the object, or failed to.
ReclaimEnds ==
  /\ held
  /\ held' = FALSE
  /\ \E seconds \in HoldTimes : disp' = Waits(disp, seconds)
  /\ UNCHANGED <<row, sweeps, posts, accepted, mishaps>>

\* The runner dies: dispatchers and retention go, what they flushed is rolled back.
Crash ==
  /\ \E d \in Dispatchers : Active(d)
  /\ disp' = [d \in Dispatchers |-> Over]
  /\ held' = FALSE
  /\ mishaps' = mishaps \cup {"crash"}
  /\ UNCHANGED <<row, sweeps, posts, accepted>>

Deliver(d) == Flush(d) \/ Post(d) \/ Sleep(d) \/ Commit(d)

Next ==
  \/ Crash \/ Reclaim \/ ReclaimEnds
  \/ \E d \in Dispatchers : Sign(d) \/ Deliver(d) \/ LoseSession(d)

\* Attempts time out, back-offs and deletions end; nothing has to start a
\* dispatcher or a sweep.
Fairness == WF_vars(ReclaimEnds) /\ \A d \in Dispatchers : WF_vars(Deliver(d))

Spec == Init /\ [][Next]_vars /\ Fairness

-------------------------------------------------------------------------------
\* Types; n bounds the attempts of one dispatcher by webhook_max_attempts.
TypeOK ==
  /\ row \in [attempts : Nat, delivered : BOOLEAN]
  /\ disp \in [Dispatchers ->
                 [pc : {"idle", "signed", "posting", "backoff", "retry", "commit", "over"},
                  n : 0..MaxAttempts, seen : Nat, waited : Nat, spent : Nat,
                  conn : BOOLEAN, last : Answers \cup {"none"}]]
  /\ held \in BOOLEAN
  /\ sweeps \in 0..MaxSweeps
  /\ posts \in [Dispatchers -> Nat]
  /\ accepted \in 0..2
  /\ mishaps \subseteq Mishaps

\* README.md, "Webhooks": receivers should reject a timestamp older than the
\* skew.  The one that deliver signs before its first attempt is still fresh at
\* its last one, however slow each attempt was, as long as the dispatcher has not
\* waited for the row lock, of another one or of retention, beyond the slack.
TimestampFresh ==
  \A d \in Dispatchers :
    disp[d].pc = "posting" /\ disp[d].waited <= Slack => SignedFor(d) <= Skew

\* The row says delivered only if the receiver has taken a POST.
DeliveredIsTrue == row.delivered => accepted > 0

\* A receiver takes a webhook twice only if two dispatchers overlapped, a session
\* was lost or the process died before the commit, or an answer was lost.
DuplicateNeedsCause == accepted > 1 => mishaps # {}

\* deliver "increments webhook_attempts for every attempt": the row never counts
\* more than the POSTs so far, and between two dispatches it counts all of them,
\* unless a crash or a lost session has rolled a count back or an overlapping
\* dispatcher has overwritten it.
AttemptsCounted ==
  LET sum == MapThenSumSet(LAMBDA d : posts[d], Dispatchers) IN
  /\ row.attempts <= sum
  /\ (\A d \in Dispatchers : ~Active(d)) /\ mishaps \subseteq {"lost_answer"}
       => row.attempts = sum

\* A receiver that has answered below 500 hears no more from that dispatcher.
AnswerIsFinal ==
  [][\A d \in Dispatchers : disp[d].last \in {"2xx", "final"} => posts'[d] = posts[d]]_vars

\* deliver always ends, and with it the lock on the row: a dispatcher that
\* waits for another one's lock gets its turn.
DispatchEnds == \A d \in Dispatchers : Active(d) ~> disp[d].pc = "over"
===============================================================================
