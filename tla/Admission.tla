------------------------------- MODULE Admission -------------------------------
(***************************************************************************)
(* Admission of calls: POST /api/v1/calls at the intake and poll_once in   *)
(* the bot runner, which between them enforce CALL_CONCURRENCY_LIMIT.      *)
(*                                                                         *)
(* The intake counts the active rows in one statement and inserts the new  *)
(* row in another, with no lock between the two, so concurrent requests    *)
(* can queue more calls than the limit.  The claim locks the oldest queued *)
(* row (FOR UPDATE SKIP LOCKED), counts again and commits joining or       *)
(* failed.  Any number of requests and of runners interleave.              *)
(***************************************************************************)
EXTENDS CallStatus, Naturals, Sequences, FiniteSets

CONSTANTS
  Calls,      \* the calls clients ask for, one request each
  Runners,    \* the bot runner processes polling the table
  Limit,      \* settings.call_concurrency_limit
  NoCall      \* a value that is no call

ASSUME CallsAssumption == IsFiniteSet(Calls) /\ NoCall \notin Calls
ASSUME LimitAssumption == Limit \in Nat

VARIABLES
  status,     \* the committed status of each row; "absent" before the insert
  request,    \* where each POST stands
  arrivals,   \* requests that passed the check, by transaction start: the
              \* order of created_at, which is the server's now()
  claim,      \* each runner's poll_once transaction
  refusedFor, \* why the claim failed a row: "concurrency_limit", "disk_full"
  overlapped  \* history: two requests were past the check at the same time

vars == <<status, request, arrivals, claim, refusedFor, overlapped>>

-------------------------------------------------------------------------------
RequestStates == {"idle", "checked", "accepted", "conflict"}

Verdicts == {"joining", "concurrency_limit", "disk_full"}

Claims == [pc : {"idle", "locked", "counted"},
           call : Calls \cup {NoCall},
           verdict : Verdicts \cup {"none"}]

NoClaim == [pc |-> "idle", call |-> NoCall, verdict |-> "none"]

\* repo.count_active(): what one SELECT count(*) sees of the committed rows.
ActiveCalls == {c \in Calls : status[c] \in ACTIVE_STATUSES}

Checked == {c \in Calls : request[c] = "checked"}

\* Rows held FOR UPDATE by some runner's claim.
Locked(c) == \E r \in Runners : claim[r].pc # "idle" /\ claim[r].call = c

\* The calls that were given a bot and have not ended.
BotCalls == {c \in Calls : status[c] \in {"joining", "recording", "processing"}}

\* The calls a runner has decided to give a bot, commit pending.
Cleared == {c \in Calls : \E r \in Runners : /\ claim[r].pc = "counted"
                                             /\ claim[r].verdict = "joining"
                                             /\ claim[r].call = c}

\* Mutant: FOR UPDATE SKIP LOCKED forgotten.
OldestUnlocked(c) ==
  LET candidates == {d \in Calls : status[d] = "queued"}
  IN  /\ c \in candidates
      /\ \E i \in 1..Len(arrivals) :
           /\ arrivals[i] = c
           /\ \A j \in 1..(i - 1) : arrivals[j] \notin candidates

\* ORDER BY created_at LIMIT 1 FOR UPDATE SKIP LOCKED: c may be picked when
\* it is queued and unlocked and no such row arrived before it.
Oldest(c) ==
  LET candidates == {d \in Calls : status[d] = "queued" /\ ~Locked(d)}
  IN  /\ c \in candidates
      /\ \E i \in 1..Len(arrivals) :
           /\ arrivals[i] = c
           /\ \A j \in 1..(i - 1) : arrivals[j] \notin candidates

-------------------------------------------------------------------------------
Init ==
  /\ status = [c \in Calls |-> "absent"]
  /\ request = [c \in Calls |-> "idle"]
  /\ arrivals = <<>>
  /\ claim = [r \in Runners |-> NoClaim]
  /\ refusedFor = [c \in Calls |-> "none"]
  /\ overlapped = FALSE

\* CallService.create, first statement: the advisory count.
CheckIntake(c) ==
  /\ request[c] = "idle"
  /\ IF Cardinality(ActiveCalls) >= Limit
     THEN /\ request' = [request EXCEPT ![c] = "conflict"]
          /\ UNCHANGED <<arrivals, overlapped>>
     ELSE /\ request' = [request EXCEPT ![c] = "checked"]
          /\ arrivals' = Append(arrivals, c)
          /\ overlapped' = (overlapped \/ Checked # {})
  /\ UNCHANGED <<status, claim, refusedFor>>

\* CallService.create, second statement, committed by get_db.
InsertQueued(c) ==
  /\ request[c] = "checked"
  /\ request' = [request EXCEPT ![c] = "accepted"]
  /\ status' = [status EXCEPT ![c] = "queued"]
  /\ UNCHANGED <<arrivals, claim, refusedFor, overlapped>>

\* poll_once up to the row lock; with no row to claim it returns False.
LockOldest(r) ==
  /\ claim[r].pc = "idle"
  /\ \E c \in Calls :
       /\ Oldest(c)
       /\ claim' = [claim EXCEPT ![r] =
                      [pc |-> "locked", call |-> c, verdict |-> "none"]]
  /\ UNCHANGED <<status, request, arrivals, refusedFor, overlapped>>

\* Mutants: the recount leaves queued rows out; the intake's >= is reused.
VerdictOnBots(diskOk) ==
  IF Cardinality(BotCalls) >= Limit THEN "concurrency_limit"
  ELSE IF diskOk THEN "joining" ELSE "disk_full"

VerdictAtLimit(diskOk) ==
  IF Cardinality(ActiveCalls) >= Limit THEN "concurrency_limit"
  ELSE IF diskOk THEN "joining" ELSE "disk_full"

\* The ceiling, then the free-disk floor.  The count includes the locked row
\* itself and every other queued row, hence > where the intake has >=.
Verdict(diskOk) ==
  IF Cardinality(ActiveCalls) > Limit THEN "concurrency_limit"
  ELSE IF diskOk THEN "joining" ELSE "disk_full"

\* poll_once: the two checks under the row lock.
CountUnderLock(r) ==
  /\ claim[r].pc = "locked"
  /\ \E diskOk \in BOOLEAN :
       claim' = [claim EXCEPT ![r].pc = "counted", ![r].verdict = Verdict(diskOk)]
  /\ UNCHANGED <<status, request, arrivals, refusedFor, overlapped>>

\* Mutants: the verdict is written as the status; a refusal for disk space is
\* rolled back to be tried again.
CommitClaimVerdict(r) ==
  LET c == claim[r].call IN
  /\ claim[r].pc = "counted"
  /\ status' = [status EXCEPT ![c] = claim[r].verdict]
  /\ claim' = [claim EXCEPT ![r] = NoClaim]
  /\ UNCHANGED <<request, arrivals, refusedFor, overlapped>>

CommitClaimWaitsForDisk(r) ==
  LET c == claim[r].call IN
  /\ claim[r].pc = "counted"
  /\ status' = [status EXCEPT ![c] = CASE claim[r].verdict = "joining" -> "joining"
                                        [] claim[r].verdict = "disk_full" -> "queued"
                                        [] OTHER -> "failed"]
  /\ claim' = [claim EXCEPT ![r] = NoClaim]
  /\ UNCHANGED <<request, arrivals, refusedFor, overlapped>>

\* poll_once: mark_bot_started or mark_failed, and the commit.
CommitClaim(r) ==
  LET c == claim[r].call IN
  /\ claim[r].pc = "counted"
  /\ IF claim[r].verdict = "joining"
     THEN /\ status' = [status EXCEPT ![c] = "joining"]
          /\ UNCHANGED refusedFor
     ELSE /\ status' = [status EXCEPT ![c] = "failed"]
          /\ refusedFor' = [refusedFor EXCEPT ![c] = claim[r].verdict]
  /\ claim' = [claim EXCEPT ![r] = NoClaim]
  /\ UNCHANGED <<request, arrivals, overlapped>>

\* The runner dies, or its connection does, inside the claim: PostgreSQL rolls
\* the transaction back, the lock goes and the row stays queued.
LoseClaim(r) ==
  /\ claim[r].pc # "idle"
  /\ claim' = [claim EXCEPT ![r] = NoClaim]
  /\ UNCHANGED <<status, request, arrivals, refusedFor, overlapped>>

\* The request's session fails before its commit: get_db rolls back.
LoseRequest(c) ==
  /\ request[c] = "checked"
  /\ request' = [request EXCEPT ![c] = "conflict"]
  /\ UNCHANGED <<status, arrivals, claim, refusedFor, overlapped>>

\* The rest of the call's life, as far as the ceiling sees it: any legal
\* transition of a row that has a bot.  Module BotRunner has the steps, and
\* shows when the row moves by legal transitions only.
Progress(c) ==
  /\ c \in BotCalls
  /\ \E s \in LEGAL_TRANSITIONS[status[c]] : status' = [status EXCEPT ![c] = s]
  /\ UNCHANGED <<request, arrivals, claim, refusedFor, overlapped>>

Next ==
  \/ \E c \in Calls : \/ CheckIntake(c) \/ InsertQueued(c)
                      \/ LoseRequest(c) \/ Progress(c)
  \/ \E r \in Runners : \/ LockOldest(r) \/ CountUnderLock(r)
                        \/ CommitClaim(r) \/ LoseClaim(r)

Spec == Init /\ [][Next]_vars

\* A live runner keeps polling, and claims are not rolled back for ever: strong
\* fairness of the two statements after the lock says the database recovers
\* and a dead runner is restarted (restart: unless-stopped).
Fairness ==
  \A r \in Runners : /\ WF_vars(LockOldest(r))
                     /\ SF_vars(CountUnderLock(r))
                     /\ SF_vars(CommitClaim(r))

FairSpec == Spec /\ Fairness

-------------------------------------------------------------------------------
\* The types of the rows, the requests and the claims.
TypeOK ==
  /\ status \in [Calls -> CallStatuses \cup {"absent"}]
  /\ request \in [Calls -> RequestStates]
  /\ arrivals \in Seq(Calls)
  /\ claim \in [Runners -> Claims]
  /\ refusedFor \in [Calls -> {"none", "concurrency_limit", "disk_full"}]
  /\ overlapped \in BOOLEAN

\* At no time do more calls than the limit have a bot or are about to get one,
\* however many requests raced at the intake and runners at the claim: the
\* promise of poll_once's docstring ("cannot both admit past the ceiling").
CeilingHolds == Cardinality(BotCalls \cup Cleared) <= Limit

\* A call the API accepted is failed with concurrency_limit by the runner only
\* if two requests once overlapped between their count and their commit: the
\* advisory check is exact for clients that do not race.
RefusalNeedsOverlap ==
  \A c \in Calls : refusedFor[c] = "concurrency_limit" => overlapped

\* A row being claimed is queued and belongs to one claim only: what FOR UPDATE
\* SKIP LOCKED gives two runners, and the part of the inductive invariant of
\* CeilingHolds that ties claims to rows.
ClaimsAreExclusive ==
  \A r \in Runners :
    claim[r].pc # "idle" =>
      /\ claim[r].call \in Calls
      /\ status[claim[r].call] = "queued"
      /\ \A q \in Runners :
           claim[q].pc # "idle" /\ claim[q].call = claim[r].call => q = r

\* Every accepted call leaves the queue, claimed or refused: skipped locks,
\* rolled back claims and a full disk starve no row.
QueueDrains == \A c \in Calls : status[c] = "queued" ~> status[c] # "queued"
===============================================================================
