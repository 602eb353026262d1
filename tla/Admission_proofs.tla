--------------------------- MODULE Admission_proofs ---------------------------
(***************************************************************************)
(* Theorems about Admission, for any finite set of calls, any runners and  *)
(* any limit.                                                              *)
(***************************************************************************)
EXTENDS Admission, FiniteSetTheorems, TLAPS

\* The initial state has the types.
LEMMA TypeInit == Init => TypeOK
<1> SUFFICES ASSUME Init PROVE TypeOK
  OBVIOUS
<1>1. NoClaim \in Claims
  BY DEF NoClaim, Claims
<1>2. arrivals \in Seq(Calls)
  BY DEF Init
<1> QED BY <1>1, <1>2 DEF Init, TypeOK, RequestStates

\* Every step of the intake, of a claim or of a rollback keeps them.
LEMMA TypeStep == TypeOK /\ [Next]_vars => TypeOK'
<1> SUFFICES ASSUME TypeOK, [Next]_vars PROVE TypeOK'
  OBVIOUS
<1> USE DEF TypeOK
<1>1. ASSUME NEW c \in Calls, CheckIntake(c) PROVE TypeOK'
  <2>1. arrivals' \in Seq(Calls)
    BY <1>1 DEF CheckIntake
  <2>2. request' \in [Calls -> RequestStates]
    BY <1>1 DEF CheckIntake, RequestStates
  <2>3. overlapped' \in BOOLEAN
    BY <1>1 DEF CheckIntake
  <2> QED BY <1>1, <2>1, <2>2, <2>3 DEF CheckIntake
<1>2. ASSUME NEW c \in Calls, InsertQueued(c) PROVE TypeOK'
  BY <1>2 DEF InsertQueued, RequestStates, CallStatuses, ACTIVE_STATUSES
<1>3. ASSUME NEW c \in Calls, LoseRequest(c) PROVE TypeOK'
  BY <1>3 DEF LoseRequest, RequestStates
<1>4. ASSUME NEW c \in Calls, Progress(c) PROVE TypeOK'
  <2>1. PICK s \in LEGAL_TRANSITIONS[status[c]] :
          status' = [status EXCEPT ![c] = s]
    BY <1>4 DEF Progress
  <2>2. status[c] \in {"joining", "recording", "processing"}
    BY <1>4 DEF Progress, BotCalls
  <2>3. s \in CallStatuses
    BY <2>1, <2>2 DEF LEGAL_TRANSITIONS, CallStatuses, ACTIVE_STATUSES,
                      TERMINAL_STATUSES
  <2> QED BY <1>4, <2>1, <2>3 DEF Progress
<1>5. ASSUME NEW r \in Runners, LockOldest(r) PROVE TypeOK'
  BY <1>5 DEF LockOldest, Claims
<1>6. ASSUME NEW r \in Runners, CountUnderLock(r) PROVE TypeOK'
  <2>1. PICK v \in Verdicts :
          claim' = [claim EXCEPT ![r].pc = "counted", ![r].verdict = v]
    BY <1>6 DEF CountUnderLock, Verdict, Verdicts
  <2>2. claim' \in [Runners -> Claims]
    BY <2>1 DEF Claims
  <2> QED BY <1>6, <2>2 DEF CountUnderLock, Verdict
<1>7. ASSUME NEW r \in Runners, CommitClaim(r) PROVE TypeOK'
  <2>1. claim' \in [Runners -> Claims]
    BY <1>7 DEF CommitClaim, NoClaim, Claims
  <2>2. status' \in [Calls -> CallStatuses \cup {"absent"}]
    BY <1>7 DEF CommitClaim, CallStatuses, ACTIVE_STATUSES, TERMINAL_STATUSES
  <2>3. refusedFor' \in [Calls -> {"none", "concurrency_limit", "disk_full"}]
    BY <1>7 DEF CommitClaim, Claims, Verdicts
  <2> QED BY <1>7, <2>1, <2>2, <2>3 DEF CommitClaim
<1>8. ASSUME NEW r \in Runners, LoseClaim(r) PROVE TypeOK'
  BY <1>8 DEF LoseClaim, NoClaim, Claims
<1>9. CASE UNCHANGED vars
  BY <1>9 DEF vars
<1> QED
  BY <1>1, <1>2, <1>3, <1>4, <1>5, <1>6, <1>7, <1>8, <1>9 DEF Next

\* Admission keeps its types: the status, claim and request records stay in
\* the sets TypeOK names, through every intake, claim and rollback.
THEOREM TypeCorrect == Spec => []TypeOK
BY TypeInit, TypeStep, PTL DEF Spec

-------------------------------------------------------------------------------
\* The sets whose cardinality matters are finite, and a subset is no larger.
LEMMA NoLarger ==
  ASSUME NEW S, NEW T, T \subseteq Calls, S \subseteq T
  PROVE  /\ Cardinality(S) \in Nat
         /\ Cardinality(T) \in Nat
         /\ Cardinality(S) <= Cardinality(T)
<1>1. IsFiniteSet(T)
  BY CallsAssumption, FS_Subset
<1> QED BY <1>1, FS_Subset, FS_CardinalityType

\* A step that puts no call into the set of admitted ones keeps the ceiling.
LEMMA ShrinkKeepsCeiling ==
  ASSUME CeilingHolds, (BotCalls \cup Cleared)' \subseteq BotCalls \cup Cleared
  PROVE  CeilingHolds'
<1>1. BotCalls \cup Cleared \subseteq Calls
  BY DEF BotCalls, Cleared
<1>2. Cardinality((BotCalls \cup Cleared)') <= Cardinality(BotCalls \cup Cleared)
      /\ Cardinality((BotCalls \cup Cleared)') \in Nat
      /\ Cardinality(BotCalls \cup Cleared) \in Nat
  BY <1>1, NoLarger
<1> QED BY <1>2, LimitAssumption DEF CeilingHolds

\* The conjuncts of the inductive invariant: claims are exclusive and on queued
\* rows, so a decided claim's row is still in every later count.
CeilingInv == TypeOK /\ ClaimsAreExclusive /\ CeilingHolds

\* Every step keeps the three conjuncts: the recount under the lock includes the
\* claimed row, and a row under claim cannot be claimed again.
LEMMA CeilingInductive == CeilingInv /\ [Next]_vars => CeilingInv'
<1> SUFFICES ASSUME TypeOK, ClaimsAreExclusive, CeilingHolds, [Next]_vars
             PROVE  ClaimsAreExclusive' /\ CeilingHolds'
  BY TypeStep DEF CeilingInv
<1> USE DEF TypeOK
<1>1. ASSUME NEW c \in Calls,
             CheckIntake(c) \/ LoseRequest(c)
      PROVE  ClaimsAreExclusive' /\ CeilingHolds'
  <2>1. UNCHANGED <<status, claim>>
    BY <1>1 DEF CheckIntake, LoseRequest
  <2>2. (BotCalls \cup Cleared)' = BotCalls \cup Cleared
    BY <2>1 DEF BotCalls, Cleared
  <2> QED BY <2>1, <2>2, ShrinkKeepsCeiling DEF ClaimsAreExclusive
<1>2. ASSUME NEW c \in Calls, InsertQueued(c)
      PROVE  ClaimsAreExclusive' /\ CeilingHolds'
  <2>1. ClaimsAreExclusive'
    BY <1>2 DEF InsertQueued, ClaimsAreExclusive
  <2>2. (BotCalls \cup Cleared)' \subseteq BotCalls \cup Cleared
    BY <1>2 DEF InsertQueued, BotCalls, Cleared
  <2> QED BY <2>1, <2>2, ShrinkKeepsCeiling
<1>3. ASSUME NEW c \in Calls, Progress(c)
      PROVE  ClaimsAreExclusive' /\ CeilingHolds'
  <2>1. PICK s \in LEGAL_TRANSITIONS[status[c]] :
          status' = [status EXCEPT ![c] = s]
    BY <1>3 DEF Progress
  <2>2. UNCHANGED claim /\ c \in BotCalls
    BY <1>3 DEF Progress
  <2>3. ClaimsAreExclusive'
    BY <2>1, <2>2 DEF ClaimsAreExclusive, BotCalls
  <2>4. (BotCalls \cup Cleared)' \subseteq BotCalls \cup Cleared
    BY <2>1, <2>2 DEF BotCalls, Cleared
  <2> QED BY <2>3, <2>4, ShrinkKeepsCeiling
<1>4. ASSUME NEW r \in Runners, LockOldest(r)
      PROVE  ClaimsAreExclusive' /\ CeilingHolds'
  <2>1. PICK c \in Calls :
          /\ status[c] = "queued" /\ ~Locked(c)
          /\ claim' = [claim EXCEPT ![r] =
                         [pc |-> "locked", call |-> c, verdict |-> "none"]]
    BY <1>4 DEF LockOldest, Oldest
  <2>2. UNCHANGED status
    BY <1>4 DEF LockOldest
  <2>3. ClaimsAreExclusive'
    BY <2>1, <2>2 DEF ClaimsAreExclusive, Locked
  <2>4. (BotCalls \cup Cleared)' \subseteq BotCalls \cup Cleared
    BY <2>1, <2>2 DEF BotCalls, Cleared
  <2> QED BY <2>3, <2>4, ShrinkKeepsCeiling
<1>5. ASSUME NEW r \in Runners, CountUnderLock(r)
      PROVE  ClaimsAreExclusive' /\ CeilingHolds'
  <2>1. PICK v \in Verdicts :
          /\ claim' = [claim EXCEPT ![r].pc = "counted", ![r].verdict = v]
          /\ v = "joining" => ~(Cardinality(ActiveCalls) > Limit)
    BY <1>5 DEF CountUnderLock, Verdict, Verdicts
  <2>2. UNCHANGED status /\ claim[r].pc = "locked"
    BY <1>5 DEF CountUnderLock
  <2>3. ClaimsAreExclusive'
    BY <2>1, <2>2 DEF ClaimsAreExclusive, Claims
  <2>4. CASE v = "joining"
    <3>1. (BotCalls \cup Cleared)' \subseteq ActiveCalls
      BY <2>1, <2>2, <2>3
         DEF BotCalls, Cleared, ActiveCalls, ACTIVE_STATUSES, ClaimsAreExclusive
    <3>2. ActiveCalls \subseteq Calls
      BY DEF ActiveCalls
    <3>3. /\ Cardinality((BotCalls \cup Cleared)') <= Cardinality(ActiveCalls)
          /\ Cardinality((BotCalls \cup Cleared)') \in Nat
          /\ Cardinality(ActiveCalls) \in Nat
      BY <3>1, <3>2, NoLarger
    <3>4. Cardinality((BotCalls \cup Cleared)') <= Limit
      BY <3>3, <2>1, <2>4, LimitAssumption
    <3> QED BY <2>3, <3>4 DEF CeilingHolds
  <2>5. CASE v # "joining"
    <3>1. (BotCalls \cup Cleared)' \subseteq BotCalls \cup Cleared
      BY <2>1, <2>2, <2>5 DEF BotCalls, Cleared, Claims
    <3> QED BY <2>3, <3>1, ShrinkKeepsCeiling
  <2> QED BY <2>4, <2>5
<1>6. ASSUME NEW r \in Runners, CommitClaim(r)
      PROVE  ClaimsAreExclusive' /\ CeilingHolds'
  <2> DEFINE c == claim[r].call
  <2>1. /\ claim' = [claim EXCEPT ![r] = NoClaim]
        /\ c \in Calls
        /\ claim[r].pc = "counted"
        /\ \/ /\ claim[r].verdict = "joining"
              /\ status' = [status EXCEPT ![c] = "joining"]
           \/ status' = [status EXCEPT ![c] = "failed"]
    BY <1>6 DEF CommitClaim, ClaimsAreExclusive
  <2>2. ClaimsAreExclusive'
    BY <2>1 DEF ClaimsAreExclusive, NoClaim
  <2>3. (BotCalls \cup Cleared)' \subseteq BotCalls \cup Cleared
    BY <2>1 DEF BotCalls, Cleared, NoClaim
  <2> QED BY <2>2, <2>3, ShrinkKeepsCeiling
<1>7. ASSUME NEW r \in Runners, LoseClaim(r)
      PROVE  ClaimsAreExclusive' /\ CeilingHolds'
  <2>1. claim' = [claim EXCEPT ![r] = NoClaim] /\ UNCHANGED status
    BY <1>7 DEF LoseClaim
  <2>2. ClaimsAreExclusive'
    BY <2>1 DEF ClaimsAreExclusive, NoClaim
  <2>3. (BotCalls \cup Cleared)' \subseteq BotCalls \cup Cleared
    BY <2>1 DEF BotCalls, Cleared, NoClaim
  <2> QED BY <2>2, <2>3, ShrinkKeepsCeiling
<1>8. CASE UNCHANGED vars
  <2>1. UNCHANGED <<status, claim>>
    BY <1>8 DEF vars
  <2>2. (BotCalls \cup Cleared)' = BotCalls \cup Cleared
    BY <2>1 DEF BotCalls, Cleared
  <2> QED BY <2>1, <2>2, ShrinkKeepsCeiling DEF ClaimsAreExclusive
<1> QED
  BY <1>1, <1>2, <1>3, <1>4, <1>5, <1>6, <1>7, <1>8 DEF Next

\* Initially there is no row and no claim.
LEMMA CeilingInit == Init => CeilingInv
<1> SUFFICES ASSUME Init PROVE CeilingInv
  OBVIOUS
<1>1. TypeOK
  BY TypeInit
<1>2. ClaimsAreExclusive
  BY DEF Init, NoClaim, ClaimsAreExclusive
<1>3. BotCalls \cup Cleared = {}
  BY DEF Init, NoClaim, BotCalls, Cleared
<1>4. CeilingHolds
  BY <1>3, FS_EmptySet, LimitAssumption DEF CeilingHolds
<1> QED BY <1>1, <1>2, <1>4 DEF CeilingInv

\* A row in claim is queued and held by one runner, whatever the interleaving.
THEOREM ClaimsExclusive == Spec => []ClaimsAreExclusive
<1>1. CeilingInv => ClaimsAreExclusive
  BY DEF CeilingInv
<1> QED BY <1>1, CeilingInit, CeilingInductive, PTL DEF Spec

\* The concurrency ceiling: the calls with a bot and those about to get one are
\* never more than the limit, for every limit and any number of runners and
\* racing requests.
THEOREM Ceiling == Spec => []CeilingHolds
<1>1. CeilingInv => CeilingHolds
  BY DEF CeilingInv
<1> QED BY <1>1, CeilingInit, CeilingInductive, PTL DEF Spec

-------------------------------------------------------------------------------
\* What holds as long as no two requests overlapped: the rows and the one
\* request past the check fit the limit together, so no recount exceeds it.
IntakeFits ==
  ~overlapped =>
    /\ \A c, d \in Checked : c = d
    /\ Cardinality(ActiveCalls \cup Checked) <= Limit
    /\ \A r \in Runners : claim[r].verdict # "concurrency_limit"
    /\ \A c \in Calls : refusedFor[c] # "concurrency_limit"

\* A step that neither activates a row nor passes a request keeps the fit.
LEMMA FitShrinks ==
  ASSUME Cardinality(ActiveCalls \cup Checked) <= Limit,
         (ActiveCalls \cup Checked)' \subseteq ActiveCalls \cup Checked
  PROVE  Cardinality((ActiveCalls \cup Checked)') <= Limit
<1>1. ActiveCalls \cup Checked \subseteq Calls
  BY DEF ActiveCalls, Checked
<1>2. /\ Cardinality((ActiveCalls \cup Checked)')
           <= Cardinality(ActiveCalls \cup Checked)
      /\ Cardinality((ActiveCalls \cup Checked)') \in Nat
      /\ Cardinality(ActiveCalls \cup Checked) \in Nat
  BY <1>1, NoLarger
<1> QED BY <1>2, LimitAssumption

\* Every step keeps the fit while no two requests have overlapped.
LEMMA IntakeInductive ==
  TypeOK /\ ClaimsAreExclusive /\ IntakeFits /\ [Next]_vars => IntakeFits'
<1> SUFFICES ASSUME TypeOK, ClaimsAreExclusive, IntakeFits, [Next]_vars,
                    ~overlapped'
             PROVE  /\ \A c, d \in Checked' : c = d
                    /\ Cardinality((ActiveCalls \cup Checked)') <= Limit
                    /\ \A r \in Runners : claim'[r].verdict # "concurrency_limit"
                    /\ \A c \in Calls : refusedFor'[c] # "concurrency_limit"
  BY DEF IntakeFits
<1> DEFINE Goal == /\ \A c, d \in Checked' : c = d
                   /\ Cardinality((ActiveCalls \cup Checked)') <= Limit
                   /\ \A r \in Runners : claim'[r].verdict # "concurrency_limit"
                   /\ \A c \in Calls : refusedFor'[c] # "concurrency_limit"
<1>0. ~overlapped
  BY DEF Next, vars, CheckIntake, InsertQueued, LoseRequest, Progress,
         LockOldest, CountUnderLock, CommitClaim, LoseClaim, TypeOK
<1>a. /\ \A c, d \in Checked : c = d
      /\ Cardinality(ActiveCalls \cup Checked) <= Limit
      /\ \A r \in Runners : claim[r].verdict # "concurrency_limit"
      /\ \A c \in Calls : refusedFor[c] # "concurrency_limit"
  BY <1>0 DEF IntakeFits
<1> USE DEF TypeOK
<1>1. ASSUME NEW c \in Calls, CheckIntake(c) PROVE Goal
  <2>1. CASE Cardinality(ActiveCalls) >= Limit
    <3>1. /\ request' = [request EXCEPT ![c] = "conflict"]
          /\ UNCHANGED <<status, claim, refusedFor>>
      BY <1>1, <2>1 DEF CheckIntake
    <3>2. Checked' \subseteq Checked /\ ActiveCalls' = ActiveCalls
      BY <3>1 DEF Checked, ActiveCalls
    <3>3. Cardinality((ActiveCalls \cup Checked)') <= Limit
      BY <3>2, <1>a, FitShrinks
    <3> QED BY <3>1, <3>2, <3>3, <1>a
  <2>2. CASE ~(Cardinality(ActiveCalls) >= Limit)
    <3>1. /\ request' = [request EXCEPT ![c] = "checked"]
          /\ UNCHANGED <<status, claim, refusedFor>>
          /\ Checked = {}
      BY <1>1, <2>2 DEF CheckIntake
    <3>2. Checked' = {c} /\ ActiveCalls' = ActiveCalls
      BY <3>1 DEF Checked, ActiveCalls
    <3>3. IsFiniteSet(ActiveCalls) /\ Cardinality(ActiveCalls) \in Nat
      BY CallsAssumption, FS_Subset, FS_CardinalityType DEF ActiveCalls
    <3>4. \/ Cardinality(ActiveCalls \cup {c}) = Cardinality(ActiveCalls)
          \/ Cardinality(ActiveCalls \cup {c}) = Cardinality(ActiveCalls) + 1
      BY <3>3, FS_AddElement
    <3>5. Cardinality(ActiveCalls \cup {c}) <= Limit
      BY <3>3, <3>4, <2>2, LimitAssumption
    <3>6. (ActiveCalls \cup Checked)' = ActiveCalls \cup {c}
      BY <3>2
    <3> QED BY <3>1, <3>2, <3>5, <3>6, <1>a
  <2> QED BY <2>1, <2>2
<1>2. ASSUME NEW c \in Calls, InsertQueued(c) PROVE Goal
  <2>1. /\ Checked' \subseteq Checked
        /\ (ActiveCalls \cup Checked)' \subseteq ActiveCalls \cup Checked
        /\ UNCHANGED <<claim, refusedFor>>
    BY <1>2 DEF InsertQueued, Checked, ActiveCalls
  <2> QED BY <2>1, <1>a, FitShrinks
<1>3. ASSUME NEW c \in Calls, LoseRequest(c) PROVE Goal
  <2>1. /\ Checked' \subseteq Checked
        /\ (ActiveCalls \cup Checked)' \subseteq ActiveCalls \cup Checked
        /\ UNCHANGED <<claim, refusedFor>>
    BY <1>3 DEF LoseRequest, Checked, ActiveCalls
  <2> QED BY <2>1, <1>a, FitShrinks
<1>4. ASSUME NEW c \in Calls, Progress(c) PROVE Goal
  <2>1. status[c] \in ACTIVE_STATUSES
    BY <1>4 DEF Progress, BotCalls, ACTIVE_STATUSES
  <2>2. /\ Checked' = Checked
        /\ ActiveCalls' \subseteq ActiveCalls
        /\ UNCHANGED <<claim, refusedFor>>
    BY <1>4, <2>1 DEF Progress, Checked, ActiveCalls
  <2> QED BY <2>2, <1>a, FitShrinks
<1>5. ASSUME NEW r \in Runners, LockOldest(r) \/ LoseClaim(r) PROVE Goal
  <2>1. UNCHANGED <<status, request, refusedFor>>
    BY <1>5 DEF LockOldest, LoseClaim
  <2>2. \A q \in Runners : claim'[q].verdict # "concurrency_limit"
    BY <1>5, <1>a DEF LockOldest, LoseClaim, NoClaim
  <2>3. (ActiveCalls \cup Checked)' = ActiveCalls \cup Checked
        /\ Checked' = Checked
    BY <2>1 DEF ActiveCalls, Checked
  <2> QED BY <2>1, <2>2, <2>3, <1>a
<1>6. ASSUME NEW r \in Runners, CountUnderLock(r) PROVE Goal
  <2>1. UNCHANGED <<status, request, refusedFor>>
    BY <1>6 DEF CountUnderLock
  <2>2. ~(Cardinality(ActiveCalls) > Limit)
    <3>1. /\ Cardinality(ActiveCalls) <= Cardinality(ActiveCalls \cup Checked)
          /\ Cardinality(ActiveCalls) \in Nat
          /\ Cardinality(ActiveCalls \cup Checked) \in Nat
      BY NoLarger DEF ActiveCalls, Checked
    <3> QED BY <3>1, <1>a, LimitAssumption
  <2>3. PICK v \in {"joining", "disk_full"} :
          claim' = [claim EXCEPT ![r].pc = "counted", ![r].verdict = v]
    BY <1>6, <2>2 DEF CountUnderLock, Verdict
  <2>4. \A q \in Runners : claim'[q].verdict # "concurrency_limit"
    BY <2>3, <1>a DEF Claims
  <2>5. (ActiveCalls \cup Checked)' = ActiveCalls \cup Checked
        /\ Checked' = Checked
    BY <2>1 DEF ActiveCalls, Checked
  <2> QED BY <2>1, <2>4, <2>5, <1>a
<1>7. ASSUME NEW r \in Runners, CommitClaim(r) PROVE Goal
  <2> DEFINE c == claim[r].call
  <2>1. c \in Calls /\ status[c] = "queued"
    BY <1>7 DEF CommitClaim, ClaimsAreExclusive
  <2>2. UNCHANGED request /\ claim' = [claim EXCEPT ![r] = NoClaim]
    BY <1>7 DEF CommitClaim
  <2>3. \A q \in Runners : claim'[q].verdict # "concurrency_limit"
    BY <2>2, <1>a DEF NoClaim
  <2>4. \A d \in Calls : refusedFor'[d] # "concurrency_limit"
    BY <1>7, <1>a DEF CommitClaim
  <2>5. Checked' = Checked /\ ActiveCalls' \subseteq ActiveCalls
    BY <1>7, <2>1, <2>2 DEF CommitClaim, Checked, ActiveCalls, ACTIVE_STATUSES
  <2> QED BY <2>3, <2>4, <2>5, <1>a, FitShrinks
<1>8. CASE UNCHANGED vars
  <2>1. UNCHANGED <<status, request, claim, refusedFor>>
    BY <1>8 DEF vars
  <2>2. (ActiveCalls \cup Checked)' = ActiveCalls \cup Checked
        /\ Checked' = Checked
    BY <2>1 DEF ActiveCalls, Checked
  <2> QED BY <2>1, <2>2, <1>a
<1> QED
  BY <1>1, <1>2, <1>3, <1>4, <1>5, <1>6, <1>7, <1>8 DEF Next

\* Clients that do not race are never refused after they were accepted: a
\* concurrency_limit failure implies that two requests overlapped.
THEOREM RefusalIsTheRace == Spec => []RefusalNeedsOverlap
<1>1. Init => IntakeFits
  <2> SUFFICES ASSUME Init PROVE IntakeFits
    OBVIOUS
  <2>1. ActiveCalls \cup Checked = {}
    BY DEF Init, ActiveCalls, Checked, ACTIVE_STATUSES
  <2>2. Cardinality(ActiveCalls \cup Checked) <= Limit
    BY <2>1, FS_EmptySet, LimitAssumption
  <2> QED BY <2>1, <2>2 DEF Init, NoClaim, IntakeFits
<1>2. IntakeFits => RefusalNeedsOverlap
  BY DEF IntakeFits, RefusalNeedsOverlap
<1> QED
  BY <1>1, <1>2, IntakeInductive, TypeCorrect, ClaimsExclusive, PTL DEF Spec
===============================================================================
