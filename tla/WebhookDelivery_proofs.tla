------------------------- MODULE WebhookDelivery_proofs -------------------------
(***************************************************************************)
(* Theorems about the delivery of a webhook, for any dispatchers, any      *)
(* number of attempts, any times and any number of sweeps of retention.    *)
(***************************************************************************)
EXTENDS WebhookDelivery, FiniteSetTheorems, WellFoundedInduction, TLAPS

-------------------------------------------------------------------------------
\* A pause is a number of seconds: the index never leaves the list.
LEMMA PauseIsTime == ASSUME NEW n \in Nat, n > 0
                     PROVE  Pause(n) \in Nat
<1>1. Len(Backoff) \in Nat /\ Len(Backoff) > 0
  BY TimesAssumption
<1>2. (IF n < Len(Backoff) THEN n ELSE Len(Backoff)) \in 1..Len(Backoff)
  BY <1>1
<1> QED
  BY <1>2, TimesAssumption DEF Pause

\* What a dispatcher knows.
Pcs == {"idle", "signed", "posting", "backoff", "retry", "commit", "over"}

Dispatcher == [pc : Pcs, n : 0..MaxAttempts, seen : Nat, waited : Nat, spent : Nat,
               conn : BOOLEAN, last : Answers \cup {"none"}]

\* What it takes that n stays within webhook_max_attempts: who goes on to
\* another attempt has one left.
AttemptsLeft(d) ==
  /\ d.pc \in {"idle", "signed"} => d.n = 0 /\ d.last = "none"
  /\ d.pc \in {"backoff", "retry"} => d.n \in 1..(MaxAttempts - 1)
  /\ d.pc \in {"posting", "commit"} => d.n > 0

TypeInv == TypeOK /\ \A d \in Dispatchers : AttemptsLeft(disp[d])

LEMMA DispatchersAreTyped ==
  ASSUME TypeInv
  PROVE  /\ disp \in [Dispatchers -> Dispatcher]
         /\ \A d \in Dispatchers : disp[d] \in Dispatcher /\ AttemptsLeft(disp[d])
BY DEF TypeInv, TypeOK, Dispatcher, Pcs

LEMMA IdleAndOver ==
  /\ Idle \in Dispatcher /\ Idle.pc = "idle" /\ Idle.n = 0 /\ Idle.spent = 0
  /\ Idle.last = "none" /\ Idle.conn = TRUE
  /\ Over \in Dispatcher /\ Over.pc = "over" /\ Over.n = 0 /\ Over.spent = 0
  /\ Over.last = "none" /\ Over.conn = TRUE
<1>1. Idle \in Dispatcher
  BY AttemptsAssumption DEF Idle, Dispatcher, Pcs
<1>2. /\ Idle.pc = "idle" /\ Idle.n = 0 /\ Idle.spent = 0
      /\ Idle.last = "none" /\ Idle.conn = TRUE
  BY DEF Idle
<1>3. Over \in Dispatcher
  BY <1>1 DEF Over, Dispatcher, Pcs
<1>4. /\ Over.pc = "over" /\ Over.n = Idle.n /\ Over.spent = Idle.spent
      /\ Over.last = Idle.last /\ Over.conn = Idle.conn
  BY DEF Over, Idle
<1> QED
  BY <1>1, <1>2, <1>3, <1>4

\* Whoever changes one field to a value of its kind stays a dispatcher.
LEMMA OneField ==
  ASSUME NEW r \in Dispatcher
  PROVE  /\ \A pc \in Pcs : [r EXCEPT !.pc = pc] \in Dispatcher
         /\ \A n \in 0..MaxAttempts : [r EXCEPT !.n = n] \in Dispatcher
         /\ \A seen \in Nat : [r EXCEPT !.seen = seen] \in Dispatcher
         /\ \A spent \in Nat : [r EXCEPT !.spent = spent] \in Dispatcher
         /\ \A last \in Answers : [r EXCEPT !.last = last] \in Dispatcher
<1>1. \A pc \in Pcs : [r EXCEPT !.pc = pc] \in Dispatcher
  BY DEF Dispatcher
<1>2. \A n \in 0..MaxAttempts : [r EXCEPT !.n = n] \in Dispatcher
  BY DEF Dispatcher
<1>3. \A seen \in Nat : [r EXCEPT !.seen = seen] \in Dispatcher
  BY DEF Dispatcher
<1>4. \A spent \in Nat : [r EXCEPT !.spent = spent] \in Dispatcher
  BY DEF Dispatcher
<1>5. \A last \in Answers : [r EXCEPT !.last = last] \in Dispatcher
  BY DEF Dispatcher
<1> QED
  BY <1>1, <1>2, <1>3, <1>4, <1>5

LEMMA TypeInit == Init => TypeInv
<1> SUFFICES ASSUME Init PROVE TypeInv
  OBVIOUS
<1>1. disp \in [Dispatchers -> Dispatcher] /\ \A d \in Dispatchers : AttemptsLeft(disp[d])
  BY IdleAndOver DEF Init, AttemptsLeft
<1> QED
  <2>1. /\ row \in [attempts : Nat, delivered : BOOLEAN]
        /\ held \in BOOLEAN /\ sweeps \in 0..MaxSweeps
        /\ posts \in [Dispatchers -> Nat] /\ accepted \in 0..2 /\ mishaps \subseteq Mishaps
    <3>1. row \in [attempts : Nat, delivered : BOOLEAN] /\ held \in BOOLEAN
      BY DEF Init
    <3>2. sweeps \in 0..MaxSweeps /\ accepted \in 0..2
      BY SweepsAssumption DEF Init
    <3>3. posts \in [Dispatchers -> Nat] /\ mishaps \subseteq Mishaps
      BY DEF Init
    <3> QED
      BY <3>1, <3>2, <3>3
  <2> QED
    BY <1>1, <2>1 DEF TypeInv, TypeOK, Dispatcher, Pcs

-------------------------------------------------------------------------------
(* What each step does to the places, counts and times of the dispatchers. *)

\* A step leaves a dispatcher where it is, if perhaps after a longer wait.
Kept(e) ==
  /\ disp'[e].pc = disp[e].pc /\ disp'[e].n = disp[e].n /\ disp'[e].seen = disp[e].seen
  /\ disp'[e].spent = disp[e].spent /\ disp'[e].conn = disp[e].conn
  /\ disp'[e].last = disp[e].last

\* While the row is locked others wait; nothing else changes.
LEMMA WaitsKeeps ==
  ASSUME TypeInv, NEW next \in [Dispatchers -> Dispatcher], NEW seconds \in Nat
  PROVE  /\ Waits(next, seconds) \in [Dispatchers -> Dispatcher]
         /\ \A d \in Dispatchers :
              LET w == Waits(next, seconds)[d] IN
              /\ disp[d].pc # "signed" => w = next[d]
              /\ w.pc = next[d].pc /\ w.n = next[d].n /\ w.seen = next[d].seen
              /\ w.spent = next[d].spent /\ w.conn = next[d].conn /\ w.last = next[d].last
<1>1. ASSUME NEW w \in Nat PROVE Longer(w, seconds) \in Nat
  BY TimesAssumption DEF Longer
<1>2. ASSUME NEW d \in Dispatchers
      PROVE  LET w == [next[d] EXCEPT !.waited = Longer(@, seconds)] IN
             /\ w \in Dispatcher
             /\ w.pc = next[d].pc /\ w.n = next[d].n /\ w.seen = next[d].seen
             /\ w.spent = next[d].spent /\ w.conn = next[d].conn /\ w.last = next[d].last
  <2>1. next[d] \in Dispatcher
    OBVIOUS
  <2>2. Longer(next[d].waited, seconds) \in Nat
    BY <1>1, <2>1 DEF Dispatcher
  <2> QED
    BY <2>1, <2>2 DEF Dispatcher
<1> QED
  BY <1>2 DEF Waits

\* A step of a dispatcher that does not wait, in which time may pass.
LEMMA TimedStep ==
  ASSUME TypeInv, NEW d \in Dispatchers, NEW new \in Dispatcher, NEW seconds \in Nat,
         disp[d].pc # "signed", disp' = Waits([disp EXCEPT ![d] = new], seconds)
  PROVE  /\ disp' \in [Dispatchers -> Dispatcher]
         /\ disp'[d] = new /\ \A e \in Dispatchers \ {d} : Kept(e)
<1> DEFINE next == [disp EXCEPT ![d] = new]
<1>1. /\ next \in [Dispatchers -> Dispatcher] /\ next[d] = new
      /\ \A e \in Dispatchers \ {d} : next[e] = disp[e]
  BY DispatchersAreTyped
<1>2. disp' = Waits(next, seconds)
  OBVIOUS
<1> HIDE DEF next
<1>3. disp' \in [Dispatchers -> Dispatcher]
  BY <1>1, <1>2, WaitsKeeps
<1>4. disp'[d] = new
  BY <1>1, <1>2, WaitsKeeps
<1>5. ASSUME NEW e \in Dispatchers \ {d} PROVE Kept(e)
  <2>1. /\ disp'[e].pc = next[e].pc /\ disp'[e].n = next[e].n /\ disp'[e].seen = next[e].seen
        /\ disp'[e].spent = next[e].spent /\ disp'[e].conn = next[e].conn
        /\ disp'[e].last = next[e].last
    BY <1>1, <1>2, WaitsKeeps
  <2> QED
    BY <1>1, <2>1 DEF Kept
<1> QED
  BY <1>3, <1>4, <1>5

\* A step of a dispatcher that takes no time.
LEMMA QuickStep ==
  ASSUME TypeInv, NEW d \in Dispatchers, NEW new \in Dispatcher, disp' = [disp EXCEPT ![d] = new]
  PROVE  /\ disp' \in [Dispatchers -> Dispatcher]
         /\ disp'[d] = new /\ \A e \in Dispatchers \ {d} : Kept(e)
BY DispatchersAreTyped DEF Kept

LEMMA SignMoves ==
  ASSUME TypeInv, NEW d \in Dispatchers, Sign(d)
  PROVE  /\ disp' \in [Dispatchers -> Dispatcher] /\ AttemptsLeft(disp'[d])
         /\ disp[d].pc = "idle" /\ disp'[d].pc = (IF row.delivered THEN "over" ELSE "signed")
         /\ disp'[d].pc = "signed" => disp'[d].seen = row.attempts
         /\ disp'[d].spent = 0 /\ disp'[d].last = "none" /\ disp'[d].conn = TRUE
         /\ \A e \in Dispatchers \ {d} : Kept(e)
<1> DEFINE signed == [Idle EXCEPT !.pc = "signed", !.seen = row.attempts]
           new == IF row.delivered THEN Over ELSE signed
<1>1. /\ signed \in Dispatcher /\ signed.pc = "signed" /\ signed.seen = row.attempts
      /\ signed.spent = 0 /\ signed.last = "none" /\ signed.conn = TRUE /\ signed.n = 0
  BY IdleAndOver DEF Dispatcher, Pcs, TypeInv, TypeOK
<1> HIDE DEF signed
<1>2. disp' = [disp EXCEPT ![d] = new]
  BY DEF Sign, signed
<1>3. new \in Dispatcher /\ disp'[d] = new
  BY <1>1, <1>2, IdleAndOver, DispatchersAreTyped
<1>4. disp' \in [Dispatchers -> Dispatcher] /\ \A e \in Dispatchers \ {d} : Kept(e)
  BY <1>2, <1>3, QuickStep
<1> QED
  BY <1>1, <1>3, <1>4, IdleAndOver DEF Sign, AttemptsLeft

LEMMA FlushMoves ==
  ASSUME TypeInv, NEW d \in Dispatchers, Flush(d)
  PROVE  /\ disp' \in [Dispatchers -> Dispatcher] /\ AttemptsLeft(disp'[d])
         /\ disp[d].pc \in {"signed", "retry"}
         /\ \/ disp'[d] = Over /\ disp[d].conn = FALSE
            \/ /\ disp'[d].pc = "posting" /\ disp'[d].n = disp[d].n + 1
               /\ disp'[d].seen = disp[d].seen + 1 /\ disp'[d].spent = disp[d].spent
               /\ disp'[d].last = disp[d].last /\ disp'[d].conn = disp[d].conn
         /\ \A e \in Dispatchers \ {d} : Kept(e)
<1>1. disp[d].pc \in {"signed", "retry"}
  BY DEF Flush
<1>2. CASE disp[d].conn /\ disp' # [disp EXCEPT ![d] = Over]
  <2> DEFINE new == [disp[d] EXCEPT !.pc = "posting", !.n = @ + 1, !.seen = @ + 1]
  <2>1. /\ new \in Dispatcher /\ AttemptsLeft(new)
        /\ new.pc = "posting" /\ new.n = disp[d].n + 1 /\ new.seen = disp[d].seen + 1
        /\ new.spent = disp[d].spent /\ new.last = disp[d].last /\ new.conn = disp[d].conn
    <3>1. disp[d] \in Dispatcher /\ disp[d].n + 1 \in 1..MaxAttempts
      BY <1>1, DispatchersAreTyped, AttemptsAssumption DEF AttemptsLeft
    <3>2. new \in Dispatcher
      <4>1. "posting" \in Pcs /\ disp[d].n + 1 \in 0..MaxAttempts /\ disp[d].seen + 1 \in Nat
        BY <3>1 DEF Dispatcher, Pcs
      <4>2. [disp[d] EXCEPT !.pc = "posting"] \in Dispatcher
        BY <3>1, <4>1, OneField
      <4>3. [disp[d] EXCEPT !.pc = "posting", !.n = @ + 1] \in Dispatcher
        BY <4>1, <4>2, OneField
      <4> QED
        BY <4>1, <4>3, OneField
    <3>3. /\ new.pc = "posting" /\ new.n = disp[d].n + 1 /\ new.seen = disp[d].seen + 1
          /\ new.spent = disp[d].spent /\ new.last = disp[d].last /\ new.conn = disp[d].conn
      BY <3>1 DEF Dispatcher
    <3> HIDE DEF new
    <3>4. AttemptsLeft(new)
      BY <3>1, <3>3 DEF AttemptsLeft
    <3> QED
      BY <3>2, <3>3, <3>4
  <2>2. disp' = [disp EXCEPT ![d] = new]
    BY <1>2, DispatchersAreTyped DEF Flush
  <2> HIDE DEF new
  <2> QED
    BY <1>1, <2>1, <2>2, QuickStep
<1>3. CASE ~disp[d].conn /\ disp' = [disp EXCEPT ![d] = Over]
  <2>1. disp[d].conn = FALSE /\ AttemptsLeft(Over)
    BY <1>3, DispatchersAreTyped, IdleAndOver DEF Dispatcher, AttemptsLeft
  <2> QED
    BY <1>1, <1>3, <2>1, QuickStep, IdleAndOver
<1>4. \/ disp[d].conn /\ disp' # [disp EXCEPT ![d] = Over]
      \/ ~disp[d].conn /\ disp' = [disp EXCEPT ![d] = Over]
  <2>1. CASE ~disp[d].conn
    BY <2>1 DEF Flush
  <2>2. CASE disp[d].conn
    <3>1. disp' = [disp EXCEPT ![d].pc = "posting", ![d].n = @ + 1, ![d].seen = @ + 1]
      BY <2>2 DEF Flush
    <3>2. disp'[d].pc = "posting" /\ [disp EXCEPT ![d] = Over][d].pc = "over"
      BY <3>1, DispatchersAreTyped, IdleAndOver DEF Dispatcher
    <3> QED
      BY <2>2, <3>2
  <2> QED
    BY <2>1, <2>2
<1> QED
  BY <1>2, <1>3, <1>4

LEMMA PostMoves ==
  ASSUME TypeInv, NEW d \in Dispatchers, Post(d)
  PROVE  /\ disp' \in [Dispatchers -> Dispatcher] /\ AttemptsLeft(disp'[d])
         /\ disp[d].pc = "posting" /\ disp'[d].pc \in {"backoff", "commit"}
         /\ disp'[d].n = disp[d].n /\ disp'[d].seen = disp[d].seen
         /\ disp'[d].spent = disp[d].spent + AttemptTime /\ disp'[d].conn = disp[d].conn
         /\ disp'[d].last \in {"2xx", "final"} => disp'[d].pc = "commit"
         /\ disp'[d].last \in Answers
         /\ \A e \in Dispatchers \ {d} : Kept(e)
         /\ \E taken \in BOOLEAN :
              /\ disp'[d].last = "2xx" => taken
              /\ disp'[d].last \in {"final", "5xx", "raised"} => ~taken
              /\ accepted' = (IF taken /\ accepted < 2 THEN accepted + 1 ELSE accepted)
              /\ mishaps' = mishaps \cup
                   (IF taken /\ disp'[d].last = "network" THEN {"lost_answer"} ELSE {})
<1>1. PICK a \in Answers, taken \in BOOLEAN :
        /\ a = "2xx" => taken
        /\ a \in {"final", "5xx", "raised"} => ~taken
        /\ disp' = Waits([disp EXCEPT
                            ![d].last = a, ![d].spent = @ + AttemptTime,
                            ![d].pc = IF Retryable(a) /\ ~LastAttempt(disp[d].n)
                                      THEN "backoff" ELSE "commit"],
                         LockTime(d, AttemptTime))
        /\ accepted' = (IF taken /\ accepted < 2 THEN accepted + 1 ELSE accepted)
        /\ mishaps' = mishaps \cup (IF taken /\ a = "network" THEN {"lost_answer"} ELSE {})
  BY DEF Post
<1> DEFINE pc == IF Retryable(a) /\ ~LastAttempt(disp[d].n) THEN "backoff" ELSE "commit"
           new == [disp[d] EXCEPT !.last = a, !.spent = @ + AttemptTime, !.pc = pc]
           seconds == LockTime(d, AttemptTime)
<1>2. /\ disp[d] \in Dispatcher /\ disp[d].pc = "posting" /\ disp[d].n \in 1..MaxAttempts
      /\ AttemptTime \in Nat /\ seconds \in Nat
  BY DispatchersAreTyped, TimesAssumption, AttemptsAssumption DEF Post, Dispatcher, AttemptsLeft, LockTime
<1>3. /\ pc \in {"backoff", "commit"} /\ (pc = "backoff" => disp[d].n < MaxAttempts)
      /\ a \in {"2xx", "final"} => pc = "commit"
  BY <1>2, AttemptsAssumption DEF LastAttempt, Retryable
<1>4. disp' = Waits([disp EXCEPT ![d] = new], seconds)
  BY <1>1, DispatchersAreTyped
<1> HIDE DEF pc, seconds
<1>5. /\ new \in Dispatcher /\ new.pc = pc /\ new.last = a /\ new.n = disp[d].n
      /\ new.seen = disp[d].seen /\ new.spent = disp[d].spent + AttemptTime
      /\ new.conn = disp[d].conn
  <2>1. pc \in Pcs
    BY <1>3 DEF Pcs
  <2>2. new \in Dispatcher
    <3>1. disp[d].spent + AttemptTime \in Nat
      BY <1>2 DEF Dispatcher
    <3>2. [disp[d] EXCEPT !.last = a] \in Dispatcher
      BY <1>2, OneField
    <3>3. [disp[d] EXCEPT !.last = a, !.spent = @ + AttemptTime] \in Dispatcher
      BY <3>1, <3>2, OneField
    <3> QED
      BY <2>1, <3>3, OneField
  <2>3. /\ new.pc = pc /\ new.last = a /\ new.n = disp[d].n
        /\ new.seen = disp[d].seen /\ new.spent = disp[d].spent + AttemptTime
        /\ new.conn = disp[d].conn
    BY <1>2 DEF Dispatcher
  <2> QED
    BY <2>2, <2>3
<1> HIDE DEF new
<1>6. AttemptsLeft(new)
  BY <1>2, <1>3, <1>5, AttemptsAssumption DEF AttemptsLeft
<1>7. /\ disp' \in [Dispatchers -> Dispatcher] /\ disp'[d] = new
      /\ \A e \in Dispatchers \ {d} : Kept(e)
  BY <1>2, <1>4, <1>5, TimedStep
<1> QED
  BY <1>1, <1>2, <1>3, <1>5, <1>6, <1>7

LEMMA SleepMoves ==
  ASSUME TypeInv, NEW d \in Dispatchers, Sleep(d)
  PROVE  /\ disp' \in [Dispatchers -> Dispatcher] /\ AttemptsLeft(disp'[d])
         /\ disp[d].pc = "backoff" /\ disp'[d].pc = "retry" /\ Pause(disp[d].n) \in Nat
         /\ disp'[d].n = disp[d].n /\ disp'[d].seen = disp[d].seen
         /\ disp'[d].spent = disp[d].spent + Pause(disp[d].n)
         /\ disp'[d].conn = disp[d].conn /\ disp'[d].last = disp[d].last
         /\ \A e \in Dispatchers \ {d} : Kept(e)
<1> DEFINE pause == Pause(disp[d].n)
           new == [disp[d] EXCEPT !.pc = "retry", !.spent = @ + pause]
           seconds == LockTime(d, pause)
<1>1. disp[d] \in Dispatcher /\ disp[d].pc = "backoff" /\ disp[d].n \in 1..(MaxAttempts - 1)
  BY DispatchersAreTyped DEF Sleep, AttemptsLeft
<1>2. pause \in Nat
  BY <1>1, AttemptsAssumption, PauseIsTime
<1>3. disp' = Waits([disp EXCEPT ![d] = new], seconds)
  BY DispatchersAreTyped DEF Sleep
<1>4. seconds \in Nat
  BY <1>2 DEF LockTime
<1> HIDE DEF pause, seconds
<1>5. /\ new \in Dispatcher /\ new.pc = "retry" /\ new.n = disp[d].n /\ new.seen = disp[d].seen
      /\ new.spent = disp[d].spent + pause /\ new.conn = disp[d].conn /\ new.last = disp[d].last
  <2>1. new \in Dispatcher
    <3>1. "retry" \in Pcs /\ disp[d].spent + pause \in Nat
      BY <1>1, <1>2 DEF Dispatcher, Pcs
    <3>2. [disp[d] EXCEPT !.pc = "retry"] \in Dispatcher
      BY <1>1, <3>1, OneField
    <3> QED
      BY <3>1, <3>2, OneField
  <2>2. /\ new.pc = "retry" /\ new.n = disp[d].n /\ new.seen = disp[d].seen
        /\ new.spent = disp[d].spent + pause /\ new.conn = disp[d].conn /\ new.last = disp[d].last
    BY <1>1 DEF Dispatcher
  <2> QED
    BY <2>1, <2>2
<1> HIDE DEF new
<1>6. AttemptsLeft(new)
  BY <1>1, <1>5 DEF AttemptsLeft
<1>7. /\ disp' \in [Dispatchers -> Dispatcher] /\ disp'[d] = new
      /\ \A e \in Dispatchers \ {d} : Kept(e)
  BY <1>1, <1>3, <1>4, <1>5, TimedStep
<1> QED
  BY <1>1, <1>2, <1>5, <1>6, <1>7 DEF pause

LEMMA CommitMoves ==
  ASSUME TypeInv, NEW d \in Dispatchers, Commit(d)
  PROVE  /\ disp' \in [Dispatchers -> Dispatcher] /\ AttemptsLeft(disp'[d])
         /\ disp[d].pc = "commit" /\ disp'[d] = Over
         /\ \/ disp[d].conn = FALSE /\ row' = row
            \/ row' = [attempts |-> disp[d].seen,
                       delivered |-> row.delivered \/ disp[d].last = "2xx"]
         /\ \A e \in Dispatchers \ {d} : Kept(e)
<1>1. disp' = [disp EXCEPT ![d] = Over] /\ disp[d].pc = "commit"
  BY DEF Commit
<1>2. AttemptsLeft(Over) /\ Over \in Dispatcher
  BY IdleAndOver DEF AttemptsLeft
<1>3. \/ disp[d].conn = FALSE /\ row' = row
      \/ row' = [attempts |-> disp[d].seen,
                 delivered |-> row.delivered \/ disp[d].last = "2xx"]
  BY DispatchersAreTyped DEF Commit, Dispatcher
<1> QED
  BY <1>1, <1>2, <1>3, QuickStep

LEMMA LoseMoves ==
  ASSUME TypeInv, NEW d \in Dispatchers, LoseSession(d)
  PROVE  /\ disp' \in [Dispatchers -> Dispatcher] /\ AttemptsLeft(disp'[d])
         /\ disp'[d].pc = disp[d].pc /\ disp'[d].n = disp[d].n /\ disp'[d].seen = disp[d].seen
         /\ disp'[d].spent = disp[d].spent /\ disp'[d].last = disp[d].last
         /\ \A e \in Dispatchers \ {d} : Kept(e)
<1> DEFINE new == [disp[d] EXCEPT !.conn = FALSE]
<1>1. disp' = [disp EXCEPT ![d] = new]
  BY DispatchersAreTyped DEF LoseSession
<1>2. /\ new \in Dispatcher /\ new.pc = disp[d].pc /\ new.n = disp[d].n /\ new.seen = disp[d].seen
      /\ new.spent = disp[d].spent /\ new.last = disp[d].last
  BY DispatchersAreTyped DEF Dispatcher
<1> HIDE DEF new
<1>3. AttemptsLeft(new)
  BY <1>2, DispatchersAreTyped DEF AttemptsLeft
<1> QED
  BY <1>1, <1>2, <1>3, QuickStep

LEMMA SweepMoves ==
  ASSUME TypeInv, Reclaim \/ ReclaimEnds
  PROVE  /\ disp' \in [Dispatchers -> Dispatcher]
         /\ \A e \in Dispatchers : Kept(e)
         /\ UNCHANGED <<row, posts, accepted, mishaps>>
<1>1. disp \in [Dispatchers -> Dispatcher]
  BY DispatchersAreTyped
<1>2. CASE Reclaim
  BY <1>1, <1>2 DEF Reclaim, Kept
<1>3. CASE ReclaimEnds
  <2>1. PICK seconds \in HoldTimes : disp' = Waits(disp, seconds)
    BY <1>3 DEF ReclaimEnds
  <2>2. seconds \in Nat
    BY TimesAssumption
  <2>3. UNCHANGED <<row, posts, accepted, mishaps>>
    BY <1>3 DEF ReclaimEnds
  <2> QED
    BY <1>1, <2>1, <2>2, <2>3, WaitsKeeps DEF Kept
<1> QED
  BY <1>2, <1>3

LEMMA CrashMoves ==
  ASSUME Crash
  PROVE  /\ disp' \in [Dispatchers -> Dispatcher]
         /\ \A e \in Dispatchers : disp'[e] = Over
BY IdleAndOver DEF Crash

-------------------------------------------------------------------------------
\* The types follow from those of the dispatchers.
LEMMA TypeStep == ASSUME TypeInv, [Next]_vars PROVE TypeInv'
<1>1. /\ row \in [attempts : Nat, delivered : BOOLEAN]
      /\ held \in BOOLEAN /\ sweeps \in 0..MaxSweeps
      /\ posts \in [Dispatchers -> Nat] /\ accepted \in 0..2 /\ mishaps \subseteq Mishaps
      /\ \A d \in Dispatchers : disp[d] \in Dispatcher /\ AttemptsLeft(disp[d])
  BY DispatchersAreTyped DEF TypeInv, TypeOK
<1>2. SUFFICES /\ disp' \in [Dispatchers -> Dispatcher]
               /\ \A e \in Dispatchers : AttemptsLeft(disp'[e])
               /\ row' \in [attempts : Nat, delivered : BOOLEAN]
               /\ held' \in BOOLEAN /\ sweeps' \in 0..MaxSweeps
               /\ posts' \in [Dispatchers -> Nat] /\ accepted' \in 0..2 /\ mishaps' \subseteq Mishaps
  BY DEF TypeInv, TypeOK, Dispatcher, Pcs
<1>3. \A e \in Dispatchers : Kept(e) => AttemptsLeft(disp'[e])
  BY <1>1 DEF Kept, AttemptsLeft
<1>4. ASSUME NEW d \in Dispatchers, Sign(d) \/ Flush(d) \/ Sleep(d) \/ LoseSession(d)
      PROVE  /\ disp' \in [Dispatchers -> Dispatcher]
             /\ \A e \in Dispatchers : AttemptsLeft(disp'[e])
             /\ UNCHANGED <<row, held, sweeps, posts, accepted>> /\ mishaps' \subseteq Mishaps
  <2>1. /\ disp' \in [Dispatchers -> Dispatcher] /\ AttemptsLeft(disp'[d])
        /\ \A e \in Dispatchers \ {d} : Kept(e)
    BY <1>4, SignMoves, FlushMoves, SleepMoves, LoseMoves
  <2>2. UNCHANGED <<row, held, sweeps, posts, accepted>> /\ mishaps' \subseteq Mishaps
    BY <1>1, <1>4 DEF Sign, Flush, Sleep, LoseSession, Mishaps
  <2> QED
    BY <1>3, <2>1, <2>2
<1>5. ASSUME NEW d \in Dispatchers, Post(d)
      PROVE  /\ disp' \in [Dispatchers -> Dispatcher]
             /\ \A e \in Dispatchers : AttemptsLeft(disp'[e])
             /\ UNCHANGED <<row, held, sweeps>> /\ mishaps' \subseteq Mishaps
             /\ posts' \in [Dispatchers -> Nat] /\ accepted' \in 0..2
  <2>1. UNCHANGED <<row, held, sweeps>> /\ posts' \in [Dispatchers -> Nat]
    BY <1>1, <1>5 DEF Post
  <2>2. accepted' \in 0..2 /\ mishaps' \subseteq Mishaps
    <3>1. PICK taken \in BOOLEAN :
            /\ accepted' = (IF taken /\ accepted < 2 THEN accepted + 1 ELSE accepted)
            /\ mishaps' = mishaps \cup
                 (IF taken /\ disp'[d].last = "network" THEN {"lost_answer"} ELSE {})
      BY <1>5, PostMoves
    <3>2. accepted' \in 0..2
      BY <1>1, <3>1
    <3>3. mishaps' \subseteq Mishaps
      BY <1>1, <3>1 DEF Mishaps
    <3> QED
      BY <3>2, <3>3
  <2> QED
    BY <1>3, <1>5, <2>1, <2>2, PostMoves
<1>6. ASSUME NEW d \in Dispatchers, Commit(d)
      PROVE  /\ disp' \in [Dispatchers -> Dispatcher]
             /\ \A e \in Dispatchers : AttemptsLeft(disp'[e])
             /\ row' \in [attempts : Nat, delivered : BOOLEAN]
             /\ UNCHANGED <<held, sweeps, posts, accepted, mishaps>>
  <2>1. disp[d].seen \in Nat
    BY <1>1 DEF Dispatcher
  <2>2. [attempts |-> disp[d].seen, delivered |-> row.delivered \/ disp[d].last = "2xx"]
          \in [attempts : Nat, delivered : BOOLEAN]
    BY <2>1
  <2>3. row' \in [attempts : Nat, delivered : BOOLEAN]
    BY <1>1, <1>6, <2>2, CommitMoves
  <2> QED
    BY <1>3, <1>6, <2>3, CommitMoves DEF Commit
<1>7. CASE Reclaim \/ ReclaimEnds
  <2>1. held' \in BOOLEAN /\ sweeps' \in 0..MaxSweeps
    <3>1. CASE Reclaim
      BY <1>1, <3>1, SweepsAssumption DEF Reclaim
    <3>2. CASE ReclaimEnds
      BY <1>1, <3>2 DEF ReclaimEnds
    <3> QED
      BY <1>7, <3>1, <3>2
  <2> QED
    BY <1>1, <1>3, <1>7, <2>1, SweepMoves
<1>8. CASE Crash
  BY <1>1, <1>8, CrashMoves, IdleAndOver DEF Crash, AttemptsLeft, Mishaps
<1>9. CASE UNCHANGED vars
  BY <1>1, <1>9, DispatchersAreTyped DEF vars
<1> QED
  BY <1>1, <1>4, <1>5, <1>6, <1>7, <1>8, <1>9 DEF Next, Deliver

\* The delivery keeps its types; no dispatcher makes more than
\* webhook_max_attempts attempts.
THEOREM TypeCorrect == Spec => []TypeOK
<1>1. TypeInv => TypeOK
  BY DEF TypeInv
<1> QED
  BY <1>1, TypeInit, TypeStep, PTL DEF Spec

-------------------------------------------------------------------------------
\* What the last answer of a dispatcher says of its place and of the receiver.
AnswersFit ==
  /\ \A d \in Dispatchers :
       /\ disp[d].last \in {"2xx", "final"} => disp[d].pc = "commit"
       /\ disp[d].last = "2xx" => accepted > 0
  /\ DeliveredIsTrue

LEMMA AnswersInit == Init => AnswersFit
BY IdleAndOver DEF Init, AnswersFit, DeliveredIsTrue

LEMMA AnswersStep == ASSUME TypeInv, AnswersFit, [Next]_vars PROVE AnswersFit'
<1>1. accepted \in 0..2
  BY DEF TypeInv, TypeOK
<1>2. ASSUME NEW d \in Dispatchers, Sign(d) PROVE AnswersFit'
  <2>1. UNCHANGED <<row, accepted>>
    BY <1>2 DEF Sign
  <2>2. disp'[d].last = "none" /\ \A e \in Dispatchers \ {d} : Kept(e)
    BY <1>2, SignMoves
  <2> QED
    BY <2>1, <2>2 DEF AnswersFit, DeliveredIsTrue, Kept
<1>3. ASSUME NEW d \in Dispatchers, Flush(d) PROVE AnswersFit'
  <2>1. UNCHANGED <<row, accepted>>
    BY <1>3 DEF Flush
  <2>2. disp'[d].last \notin {"2xx", "final"}
    <3>1. disp[d].last \notin {"2xx", "final"}
      BY <1>3 DEF AnswersFit, Flush
    <3>2. disp'[d].last \in {"none", disp[d].last}
      BY <1>3, FlushMoves, IdleAndOver
    <3> QED
      BY <3>1, <3>2
  <2>3. \A e \in Dispatchers \ {d} : Kept(e)
    BY <1>3, FlushMoves
  <2> QED
    BY <2>1, <2>2, <2>3 DEF AnswersFit, DeliveredIsTrue, Kept
<1>4. ASSUME NEW d \in Dispatchers, Post(d) PROVE AnswersFit'
  <2>1. UNCHANGED row
    BY <1>4 DEF Post
  <2>2. PICK taken \in BOOLEAN :
          /\ disp'[d].last = "2xx" => taken
          /\ accepted' = (IF taken /\ accepted < 2 THEN accepted + 1 ELSE accepted)
    BY <1>4, PostMoves
  <2>3. accepted' >= accepted /\ (taken => accepted' > 0)
    BY <1>1, <2>2
  <2>4. /\ disp'[d].last = "2xx" => accepted' > 0
        /\ accepted > 0 => accepted' > 0
    BY <1>1, <2>2, <2>3
  <2> QED
    BY <1>4, <2>1, <2>4, PostMoves DEF AnswersFit, DeliveredIsTrue, Kept
<1>5. ASSUME NEW d \in Dispatchers, Sleep(d) PROVE AnswersFit'
  <2>1. UNCHANGED <<row, accepted>>
    BY <1>5 DEF Sleep
  <2> QED
    BY <1>5, <2>1, SleepMoves DEF AnswersFit, DeliveredIsTrue, Kept
<1>6. ASSUME NEW d \in Dispatchers, Commit(d) PROVE AnswersFit'
  <2>1. UNCHANGED accepted /\ (row'.delivered => row.delivered \/ disp[d].last = "2xx")
    BY <1>6, CommitMoves DEF Commit
  <2>2. disp'[d].last = "none"
    BY <1>6, CommitMoves, IdleAndOver
  <2> QED
    BY <1>6, <2>1, <2>2, CommitMoves DEF AnswersFit, DeliveredIsTrue, Kept
<1>7. ASSUME NEW d \in Dispatchers, LoseSession(d) PROVE AnswersFit'
  <2>1. UNCHANGED <<row, accepted>>
    BY <1>7 DEF LoseSession
  <2> QED
    BY <1>7, <2>1, LoseMoves DEF AnswersFit, DeliveredIsTrue, Kept
<1>8. CASE Reclaim \/ ReclaimEnds
  BY <1>8, SweepMoves DEF AnswersFit, DeliveredIsTrue, Kept
<1>9. CASE Crash
  BY <1>9, CrashMoves, IdleAndOver DEF Crash, AnswersFit, DeliveredIsTrue
<1>10. CASE UNCHANGED vars
  BY <1>10 DEF vars, AnswersFit, DeliveredIsTrue
<1> QED
  BY <1>2, <1>3, <1>4, <1>5, <1>6, <1>7, <1>8, <1>9, <1>10 DEF Next, Deliver

\* webhook_delivered_at is only ever set on a row whose webhook the receiver has
\* taken, whatever crashes, lost sessions and overlaps there were.
THEOREM DeliveredIsTaken == Spec => []DeliveredIsTrue
<1>1. AnswersFit => DeliveredIsTrue
  BY DEF AnswersFit
<1> QED
  BY <1>1, TypeInit, TypeStep, AnswersInit, AnswersStep, PTL DEF Spec

\* deliver returns at the first status below 500: no retry follows an answer.
THEOREM NothingAfterAnswer == Spec => AnswerIsFinal
<1>1. ASSUME TypeInv, AnswersFit, [Next]_vars
      PROVE  [\A d \in Dispatchers :
                disp[d].last \in {"2xx", "final"} => posts'[d] = posts[d]]_vars
  <2> SUFFICES ASSUME Next, NEW d \in Dispatchers, disp[d].last \in {"2xx", "final"}
               PROVE  posts'[d] = posts[d]
    BY <1>1
  <2>1. disp[d].pc # "posting"
    BY <1>1 DEF AnswersFit
  <2>2. posts \in [Dispatchers -> Nat]
    BY <1>1 DEF TypeInv, TypeOK
  <2>3. ASSUME NEW e \in Dispatchers, Post(e) PROVE posts'[d] = posts[d]
    BY <2>1, <2>2, <2>3 DEF Post
  <2>4. CASE Crash \/ Reclaim \/ ReclaimEnds
    BY <2>4 DEF Crash, Reclaim, ReclaimEnds
  <2>5. ASSUME NEW e \in Dispatchers,
               Sign(e) \/ Flush(e) \/ Sleep(e) \/ Commit(e) \/ LoseSession(e)
        PROVE  posts'[d] = posts[d]
    BY <2>5 DEF Sign, Flush, Sleep, Commit, LoseSession
  <2> QED
    BY <2>3, <2>4, <2>5 DEF Next, Deliver
<1> QED
  BY <1>1, TypeInit, TypeStep, AnswersInit, AnswersStep, PTL DEF Spec, AnswerIsFinal

-------------------------------------------------------------------------------
\* As long as nothing has gone wrong there is one dispatcher at work, on a row
\* that is not delivered and with a session of its own, and a POST that was taken
\* is about to be committed or has been.
OneDelivery ==
  mishaps = {} =>
    /\ \A d, e \in Dispatchers : Active(d) /\ Active(e) => d = e
    /\ \A d \in Dispatchers : disp[d].conn = TRUE /\ (Active(d) => ~row.delivered)
    /\ accepted \in {0, 1}
    /\ accepted = 1 => \/ row.delivered
                       \/ \E d \in Dispatchers : disp[d].pc = "commit" /\ disp[d].last = "2xx"

LEMMA OneDeliveryInit == Init => OneDelivery
BY IdleAndOver DEF Init, OneDelivery, Active

LEMMA OneDeliveryStep == ASSUME TypeInv, OneDelivery, [Next]_vars PROVE OneDelivery'
<1>1. accepted \in 0..2
  BY DEF TypeInv, TypeOK
<1> SUFFICES ASSUME mishaps' = {} PROVE OneDelivery'
  BY DEF OneDelivery
<1>2. ASSUME NEW d \in Dispatchers, Sign(d) PROVE OneDelivery'
  <2>1. /\ mishaps = {} /\ UNCHANGED <<row, accepted>>
        /\ disp[d].pc = "idle" /\ \A e \in Dispatchers \ {d} : ~Active(e)
    BY <1>2 DEF Sign
  <2>2. /\ disp'[d].pc = (IF row.delivered THEN "over" ELSE "signed") /\ disp'[d].conn = TRUE
        /\ \A e \in Dispatchers \ {d} : Kept(e)
    BY <1>2, SignMoves
  <2> QED
    BY <2>1, <2>2 DEF OneDelivery, Active, Kept
<1>3. ASSUME NEW d \in Dispatchers, Flush(d) PROVE OneDelivery'
  <2>1. mishaps = {} /\ UNCHANGED <<row, accepted>>
    BY <1>3 DEF Flush
  <2>2. disp[d].conn = TRUE
    BY <2>1 DEF OneDelivery
  <2>3. /\ disp[d].pc \in {"signed", "retry"} /\ disp'[d].pc = "posting" /\ disp'[d].conn = TRUE
        /\ \A e \in Dispatchers \ {d} : Kept(e)
    BY <1>3, <2>2, FlushMoves
  <2> QED
    BY <2>1, <2>3 DEF OneDelivery, Active, Kept
<1>4. ASSUME NEW d \in Dispatchers, Post(d) PROVE OneDelivery'
  <2>1. UNCHANGED row
    BY <1>4 DEF Post
  <2>2. PICK taken \in BOOLEAN :
          /\ disp'[d].last = "2xx" => taken
          /\ disp'[d].last \in {"final", "5xx", "raised"} => ~taken
          /\ accepted' = (IF taken /\ accepted < 2 THEN accepted + 1 ELSE accepted)
          /\ mishaps' = mishaps \cup
               (IF taken /\ disp'[d].last = "network" THEN {"lost_answer"} ELSE {})
    BY <1>4, PostMoves
  <2>3. /\ disp[d].pc = "posting" /\ disp'[d].pc \in {"backoff", "commit"}
        /\ disp'[d].conn = disp[d].conn /\ disp'[d].last \in Answers
        /\ disp'[d].last \in {"2xx", "final"} => disp'[d].pc = "commit"
        /\ \A e \in Dispatchers \ {d} : Kept(e)
    BY <1>4, PostMoves
  <2>4. mishaps = {} /\ (taken => disp'[d].last = "2xx")
    BY <2>2, <2>3 DEF Answers
  <2>5. accepted = 0
    BY <2>3, <2>4 DEF OneDelivery, Active
  <2>6. accepted' \in {0, 1} /\ (accepted' = 1 => disp'[d].pc = "commit" /\ disp'[d].last = "2xx")
    BY <2>2, <2>3, <2>4, <2>5
  <2> QED
    BY <2>1, <2>3, <2>4, <2>6 DEF OneDelivery, Active, Kept
<1>5. ASSUME NEW d \in Dispatchers, Sleep(d) PROVE OneDelivery'
  <2>1. UNCHANGED <<row, accepted, mishaps>>
    BY <1>5 DEF Sleep
  <2> QED
    BY <1>5, <2>1, SleepMoves DEF OneDelivery, Active, Kept
<1>6. ASSUME NEW d \in Dispatchers, Commit(d) PROVE OneDelivery'
  <2>1. mishaps = {} /\ UNCHANGED accepted
    BY <1>6 DEF Commit
  <2>2. /\ disp[d].pc = "commit" /\ disp'[d].pc = "over" /\ disp'[d].conn = TRUE
        /\ \A e \in Dispatchers \ {d} : Kept(e)
    BY <1>6, CommitMoves, IdleAndOver
  <2>3. row'.delivered <=> row.delivered \/ disp[d].last = "2xx"
    <3>1. disp[d].conn = TRUE
      BY <2>1 DEF OneDelivery
    <3>2. row' = [attempts |-> disp[d].seen,
                  delivered |-> row.delivered \/ disp[d].last = "2xx"]
      BY <1>6, <3>1 DEF Commit
    <3> QED
      BY <3>2
  <2> QED
    BY <2>1, <2>2, <2>3 DEF OneDelivery, Active, Kept
<1>7. ASSUME Crash \/ \E d \in Dispatchers : LoseSession(d) PROVE FALSE
  BY <1>7 DEF Crash, LoseSession
<1>8. CASE Reclaim \/ ReclaimEnds
  BY <1>8, SweepMoves DEF OneDelivery, Active, Kept
<1>9. CASE UNCHANGED vars
  BY <1>9 DEF vars, OneDelivery, Active
<1> QED
  BY <1>2, <1>3, <1>4, <1>5, <1>6, <1>7, <1>8, <1>9 DEF Next, Deliver

\* A receiver hears of a call twice only after an overlap, a crash, a lost
\* session or a lost answer: with none of them delivery is exactly once.
THEOREM DuplicatesHaveCause == Spec => []DuplicateNeedsCause
<1>1. OneDelivery => DuplicateNeedsCause
  BY DEF OneDelivery, DuplicateNeedsCause
<1> QED
  BY <1>1, TypeInit, TypeStep, OneDeliveryInit, OneDeliveryStep, PTL DEF Spec

-------------------------------------------------------------------------------
(* t[n] is how long n attempts and the pauses after them take.  The skew has   *)
(* to cover it, and the slack besides, for each attempt that another one can   *)
(* follow.                                                                     *)
Schedules ==
  {t \in [0..(MaxAttempts - 1) -> Nat] :
     /\ t[0] = 0
     /\ \A n \in 1..(MaxAttempts - 1) : t[n] = t[n - 1] + AttemptTime + Pause(n)}

SkewCovers(t) == \A n \in 0..(MaxAttempts - 1) : t[n] + Slack <= Skew

SkewCoversDelivery == \E t \in Schedules : SkewCovers(t)

\* The defaults of the settings, with 30 seconds for an attempt, leave 95 seconds.
LEMMA DefaultsAreCovered ==
  ASSUME MaxAttempts = 5, AttemptTime = 30, Backoff = <<1, 4, 16, 64, 256>>, Skew = 300,
         Slack = 95
  PROVE  SkewCoversDelivery
<1> DEFINE t == [n \in 0..4 |-> IF n = 0 THEN 0 ELSE IF n = 1 THEN 31 ELSE IF n = 2 THEN 65
                                ELSE IF n = 3 THEN 111 ELSE 205]
<1>1. /\ t \in [0..4 -> Nat]
      /\ t[0] = 0 /\ t[1] = 31 /\ t[2] = 65 /\ t[3] = 111 /\ t[4] = 205
  OBVIOUS
<1> HIDE DEF t
<1>2. Pause(1) = 1 /\ Pause(2) = 4 /\ Pause(3) = 16 /\ Pause(4) = 64
  BY DEF Pause
<1>3. \A n \in 1..4 : t[n] = t[n - 1] + 30 + Pause(n)
  BY <1>1, <1>2
<1>4. \A n \in 0..4 : t[n] + 95 <= 300
  BY <1>1
<1>5. t \in Schedules
  BY <1>1, <1>3 DEF Schedules
<1>6. SkewCovers(t)
  BY <1>4 DEF SkewCovers
<1> QED
  BY <1>5, <1>6 DEF SkewCoversDelivery

\* What a dispatcher has spent on its own attempts and pauses at each place; what
\* it waited for the row comes on top.
SpentFits(t, d) ==
  /\ d.pc \in {"idle", "signed"} => d.spent = 0
  /\ d.pc = "posting" => d.spent = t[d.n - 1]
  /\ d.pc = "backoff" => d.spent = t[d.n - 1] + AttemptTime
  /\ d.pc = "retry" => d.spent = t[d.n]

AgesFit ==
  \E t \in Schedules : SkewCovers(t) /\ \A d \in Dispatchers : SpentFits(t, disp[d])

LEMMA AgesStep == ASSUME TypeInv, AgesFit, [Next]_vars PROVE AgesFit'
<1>1. PICK t \in Schedules : SkewCovers(t) /\ \A d \in Dispatchers : SpentFits(t, disp[d])
  BY DEF AgesFit
<1> SUFFICES ASSUME NEW e \in Dispatchers PROVE SpentFits(t, disp'[e])
  BY <1>1 DEF AgesFit
<1>2. disp[e] \in Dispatcher /\ AttemptsLeft(disp[e]) /\ SpentFits(t, disp[e])
  BY <1>1, DispatchersAreTyped
<1>3. Kept(e) => SpentFits(t, disp'[e])
  BY <1>2 DEF Kept, SpentFits
<1>4. disp'[e] = Over => SpentFits(t, disp'[e])
  BY IdleAndOver DEF SpentFits
<1>5. CASE Sign(e)
  BY <1>5, SignMoves DEF SpentFits
<1>6. CASE Flush(e)
  <2>1. CASE disp'[e] = Over
    BY <1>4, <2>1
  <2>2. CASE disp'[e] # Over
    <3>1. disp[e].n \in Nat /\ (disp[e].pc = "signed" => disp[e].n = 0) /\ t[0] = 0
      BY <1>2 DEF Dispatcher, AttemptsLeft, Schedules
    <3>2. /\ disp[e].pc \in {"signed", "retry"} /\ disp'[e].pc = "posting"
          /\ disp'[e].n = disp[e].n + 1 /\ disp'[e].spent = disp[e].spent
      BY <1>6, <2>2, FlushMoves
    <3>3. disp'[e].n - 1 = disp[e].n
      BY <3>1, <3>2
    <3> QED
      BY <1>2, <3>1, <3>2, <3>3 DEF SpentFits
  <2> QED
    BY <2>1, <2>2
<1>7. CASE Post(e)
  BY <1>2, <1>7, PostMoves DEF SpentFits
<1>8. CASE Sleep(e)
  <2>1. disp[e].n \in 1..(MaxAttempts - 1) /\ disp[e].spent = t[disp[e].n - 1] + AttemptTime
    BY <1>2, <1>8, SleepMoves DEF AttemptsLeft, SpentFits
  <2>2. t[disp[e].n] = t[disp[e].n - 1] + AttemptTime + Pause(disp[e].n)
    BY <2>1 DEF Schedules
  <2>3. /\ disp'[e].pc = "retry" /\ disp'[e].n = disp[e].n
        /\ disp'[e].spent = disp[e].spent + Pause(disp[e].n)
    BY <1>8, SleepMoves
  <2> QED
    BY <2>1, <2>2, <2>3 DEF SpentFits
<1>9. CASE Commit(e)
  BY <1>4, <1>9, CommitMoves
<1>10. CASE LoseSession(e)
  BY <1>2, <1>10, LoseMoves DEF SpentFits
<1>11. ASSUME NEW d \in Dispatchers \ {e},
              Sign(d) \/ Flush(d) \/ Post(d) \/ Sleep(d) \/ Commit(d) \/ LoseSession(d)
       PROVE  SpentFits(t, disp'[e])
  BY <1>3, <1>11, SignMoves, FlushMoves, PostMoves, SleepMoves, CommitMoves, LoseMoves
<1>12. CASE Reclaim \/ ReclaimEnds
  BY <1>3, <1>12, SweepMoves
<1>13. CASE Crash
  BY <1>4, <1>13, CrashMoves
<1>14. CASE UNCHANGED vars
  BY <1>2, <1>14 DEF vars
<1> QED
  BY <1>5, <1>6, <1>7, <1>8, <1>9, <1>10, <1>11, <1>12, <1>13, <1>14 DEF Next, Deliver

\* README.md, "Webhooks": as long as the skew covers the attempts and pauses
\* before the last attempt and the slack, every POST of a dispatcher that has not
\* waited for the row longer than the slack carries a timestamp that receivers
\* accept; whose lock it waited for makes no difference.
THEOREM TimestampsAreFresh == Spec /\ SkewCoversDelivery => []TimestampFresh
<1>1. Init /\ SkewCoversDelivery => AgesFit
  BY IdleAndOver DEF Init, AgesFit, SpentFits, SkewCoversDelivery
<1>2. TypeInv /\ AgesFit => TimestampFresh
  <2> SUFFICES ASSUME TypeInv, AgesFit, NEW d \in Dispatchers, disp[d].pc = "posting",
                      disp[d].waited <= Slack
               PROVE  SignedFor(d) <= Skew
    BY DEF TimestampFresh
  <2>1. PICK t \in Schedules : SkewCovers(t) /\ SpentFits(t, disp[d])
    BY DEF AgesFit
  <2>2. disp[d].n \in 1..MaxAttempts /\ disp[d].waited \in Nat
    BY DispatchersAreTyped, AttemptsAssumption DEF Dispatcher, AttemptsLeft
  <2>3. disp[d].n - 1 \in 0..(MaxAttempts - 1)
    BY <2>2, AttemptsAssumption
  <2>4. t[disp[d].n - 1] \in Nat /\ t[disp[d].n - 1] + Slack <= Skew
    BY <2>1, <2>3 DEF SkewCovers, Schedules
  <2>5. disp[d].spent = t[disp[d].n - 1]
    BY <2>1 DEF SpentFits
  <2> QED
    BY <2>2, <2>4, <2>5, TimesAssumption DEF SignedFor
<1> QED
  BY <1>1, <1>2, TypeInit, TypeStep, AgesStep, PTL DEF Spec

-------------------------------------------------------------------------------
(* Induction over the naturals in the form of a set: WFMin of module           *)
(* WellFoundedInduction takes no operator, and the least natural outside of S  *)
(* cannot exist.                                                              *)
Less == {pair \in Nat \X Nat : pair[1] < pair[2]}

LEMMA LessIsWellFounded == IsWellFoundedOn(Less, Nat)
BY NatLessThanWellFounded, Zenon DEF OpToRel, Less

LEMMA InductionBySet ==
  ASSUME NEW S, 0 \in S, \A n \in Nat : n \in S => n + 1 \in S
  PROVE  Nat \subseteq S
<1> DEFINE T == Nat \ S
<1> SUFFICES ASSUME T # {} PROVE FALSE
  OBVIOUS
<1>1. \E x \in T : \A y \in T : <<y, x>> \notin Less
  <2>1. T \subseteq Nat
    OBVIOUS
  <2> HIDE DEF T
  <2> QED
    BY <2>1, WFMin, LessIsWellFounded
<1>2. PICK x \in T : \A y \in T : <<y, x>> \notin Less
  BY <1>1
<1>3. \A y \in T : ~(y < x)
  BY <1>2 DEF Less
<1>4. x - 1 \in Nat /\ x - 1 < x
  OBVIOUS
<1> QED
  BY <1>3, <1>4

-------------------------------------------------------------------------------
(* The sum of AttemptsCounted, unfolded: the sums of the smaller sets, each     *)
(* with one element less.                                                      *)
SumOver(f) == MapThenSumSet(LAMBDA d : f[d], Dispatchers)

One(s) == CHOOSE x \in s : TRUE

SumsOf(f, g, S) == g = [s \in S |-> IF s = {} THEN 0 ELSE f[One(s)] + g[s \ {One(s)}]]

Sums(f) == CHOOSE g : SumsOf(f, g, SUBSET Dispatchers)

UpTo(n) == {s \in SUBSET Dispatchers : Cardinality(s) <= n}

LEMMA SumIsFold == ASSUME NEW f PROVE SumOver(f) = Sums(f)[Dispatchers]
BY DEF SumOver, Sums, SumsOf, One, MapThenSumSet, MapThenFoldSet

\* Taking the chosen element away leaves a set that is smaller by one.
LEMMA OneLess ==
  ASSUME NEW s \in SUBSET Dispatchers
  PROVE  /\ Cardinality(s) \in Nat /\ (Cardinality(s) = 0 <=> s = {})
         /\ s # {} => /\ One(s) \in s /\ s \ {One(s)} \in SUBSET Dispatchers
                      /\ Cardinality(s \ {One(s)}) = Cardinality(s) - 1
<1>1. IsFiniteSet(s)
  BY DispatchersAssumption, FS_Subset
<1>2. s # {} => One(s) \in s
  BY DEF One
<1> QED
  BY <1>1, <1>2, FS_CardinalityType, FS_EmptySet, FS_RemoveElement

\* Every set of dispatchers is in the last of the sets UpTo(n).
LEMMA AllAreUpTo == SUBSET Dispatchers = UpTo(Cardinality(Dispatchers))
<1>1. \A s \in SUBSET Dispatchers : Cardinality(s) <= Cardinality(Dispatchers)
  BY DispatchersAssumption, FS_Subset
<1> QED
  BY <1>1 DEF UpTo

LEMMA UpToZero == ASSUME NEW s \in UpTo(0) PROVE s = {} /\ s \in SUBSET Dispatchers
<1>1. s \in SUBSET Dispatchers /\ Cardinality(s) <= 0
  BY DEF UpTo
<1>2. Cardinality(s) \in Nat /\ (Cardinality(s) = 0 <=> s = {})
  BY <1>1, OneLess
<1>3. Cardinality(s) = 0
  BY <1>1, <1>2
<1> QED
  BY <1>1, <1>2, <1>3

LEMMA UpToGrows == ASSUME NEW n \in Nat, NEW s \in UpTo(n) PROVE s \in UpTo(n + 1)
<1>1. s \in SUBSET Dispatchers /\ Cardinality(s) <= n
  BY DEF UpTo
<1>2. Cardinality(s) \in Nat
  BY <1>1, OneLess
<1> QED
  BY <1>1, <1>2 DEF UpTo

\* The recursion has a solution, on the empty set first and then on larger ones.
LEMMA SumsExist == ASSUME NEW f PROVE \E g : SumsOf(f, g, SUBSET Dispatchers)
<1> DEFINE S == {n \in Nat : \E g : SumsOf(f, g, UpTo(n))}
<1>1. 0 \in S
  <2> DEFINE g == [s \in UpTo(0) |-> 0]
  <2>1. \A s \in UpTo(0) : s = {}
    BY UpToZero
  <2>2. SumsOf(f, g, UpTo(0))
    BY <2>1 DEF SumsOf
  <2> QED
    BY <2>2
<1>2. ASSUME NEW n \in Nat, n \in S PROVE n + 1 \in S
  <2>1. PICK g : SumsOf(f, g, UpTo(n))
    BY <1>2
  <2> DEFINE h == [s \in UpTo(n + 1) |-> IF s = {} THEN 0 ELSE f[One(s)] + g[s \ {One(s)}]]
  <2>2. ASSUME NEW s \in UpTo(n + 1), s # {} PROVE s \ {One(s)} \in UpTo(n) /\ s \ {One(s)} \in UpTo(n + 1)
    BY <2>2, OneLess DEF UpTo
  <2>3. \A s \in UpTo(n) : s \in UpTo(n + 1) /\ h[s] = g[s]
    <3>1. \A s \in UpTo(n) : s \in UpTo(n + 1)
      BY UpToGrows
    <3>2. \A s \in UpTo(n) : g[s] = IF s = {} THEN 0 ELSE f[One(s)] + g[s \ {One(s)}]
      BY <2>1 DEF SumsOf
    <3> QED
      BY <3>1, <3>2
  <2>4. \A s \in UpTo(n + 1) : h[s] = IF s = {} THEN 0 ELSE f[One(s)] + h[s \ {One(s)}]
    BY <2>2, <2>3
  <2>5. h = [s \in UpTo(n + 1) |-> h[s]]
    OBVIOUS
  <2> HIDE DEF h
  <2>6. SumsOf(f, h, UpTo(n + 1))
    BY <2>4, <2>5 DEF SumsOf
  <2> QED
    BY <2>6
<1> HIDE DEF S
<1>3. Nat \subseteq S
  BY <1>1, <1>2, InductionBySet
<1>4. Cardinality(Dispatchers) \in S
  BY <1>3, DispatchersAssumption, FS_CardinalityType
<1> QED
  BY <1>4, AllAreUpTo DEF S

LEMMA SumsUnfold ==
  ASSUME NEW f, NEW s \in SUBSET Dispatchers
  PROVE  Sums(f)[s] = IF s = {} THEN 0 ELSE f[One(s)] + Sums(f)[s \ {One(s)}]
<1>1. SumsOf(f, Sums(f), SUBSET Dispatchers)
  BY SumsExist DEF Sums
<1> DEFINE g == Sums(f)
<1>2. g = [x \in SUBSET Dispatchers |-> IF x = {} THEN 0 ELSE f[One(x)] + g[x \ {One(x)}]]
  BY <1>1 DEF SumsOf
<1> HIDE DEF g
<1>3. g[s] = IF s = {} THEN 0 ELSE f[One(s)] + g[s \ {One(s)}]
  BY <1>2
<1> QED
  BY <1>3 DEF g

\* What adding up does: nothing sums to nothing, and one POST more to one more.
LEMMA SumCounts ==
  ASSUME NEW f \in [Dispatchers -> Nat], NEW d \in Dispatchers
  PROVE  /\ SumOver(f) \in Nat
         /\ SumOver([f EXCEPT ![d] = @ + 1]) = SumOver(f) + 1
<1> DEFINE h == [f EXCEPT ![d] = @ + 1]
           Counts(s) == /\ Sums(f)[s] \in Nat
                        /\ Sums(h)[s] = Sums(f)[s] + (IF d \in s THEN 1 ELSE 0)
           S == {n \in Nat : \A s \in UpTo(n) : Counts(s)}
<1>1. \A e \in Dispatchers : f[e] \in Nat /\ h[e] = f[e] + (IF e = d THEN 1 ELSE 0)
  OBVIOUS
<1> HIDE DEF h
<1>2. 0 \in S
  <2>1. \A s \in UpTo(0) : s = {} /\ s \in SUBSET Dispatchers
    BY UpToZero
  <2>2. ASSUME NEW s \in UpTo(0) PROVE Counts(s)
    <3>1. Sums(f)[s] = 0 /\ Sums(h)[s] = 0 /\ d \notin s
      BY <2>1, SumsUnfold
    <3> QED
      BY <3>1
  <2> QED
    BY <2>2
<1>3. ASSUME NEW n \in Nat, n \in S PROVE n + 1 \in S
  <2> SUFFICES ASSUME NEW s \in UpTo(n + 1) PROVE Counts(s)
    OBVIOUS
  <2>1. s \in SUBSET Dispatchers
    BY DEF UpTo
  <2>2. CASE s = {}
    BY <2>1, <2>2, SumsUnfold
  <2>3. CASE s # {}
    <3> DEFINE r == s \ {One(s)}
    <3>1. One(s) \in s /\ One(s) \in Dispatchers /\ r \in UpTo(n)
      BY <2>1, <2>3, OneLess DEF UpTo
    <3>2. Counts(r)
      BY <1>3, <3>1
    <3>3. Sums(f)[s] = f[One(s)] + Sums(f)[r] /\ Sums(h)[s] = h[One(s)] + Sums(h)[r]
      BY <2>1, <2>3, SumsUnfold
    <3>4. (d \in s) <=> (d \in r \/ d = One(s))
      BY <3>1
    <3>5. d = One(s) => d \notin r
      OBVIOUS
    <3> HIDE DEF r
    <3> QED
      BY <1>1, <3>1, <3>2, <3>3, <3>4, <3>5
  <2> QED
    BY <2>2, <2>3
<1>4. Nat \subseteq S
  <2> HIDE DEF S
  <2> QED
    BY <1>2, <1>3, InductionBySet
<1>5. Counts(Dispatchers)
  BY <1>4, AllAreUpTo, DispatchersAssumption, FS_CardinalityType
<1> QED
  BY <1>5, SumIsFold DEF h

LEMMA SumOfNothing == SumOver([d \in Dispatchers |-> 0]) = 0
<1> DEFINE f == [d \in Dispatchers |-> 0]
           S == {n \in Nat : \A s \in UpTo(n) : Sums(f)[s] = 0}
<1>1. 0 \in S
  <2>1. \A s \in UpTo(0) : s = {} /\ s \in SUBSET Dispatchers
    BY UpToZero
  <2> HIDE DEF f
  <2> QED
    BY <2>1, SumsUnfold
<1>2. ASSUME NEW n \in Nat, n \in S PROVE n + 1 \in S
  <2> SUFFICES ASSUME NEW s \in UpTo(n + 1) PROVE Sums(f)[s] = 0
    OBVIOUS
  <2>1. s \in SUBSET Dispatchers /\ \A e \in Dispatchers : f[e] = 0
    BY DEF UpTo
  <2> HIDE DEF f
  <2>2. CASE s = {}
    BY <2>1, <2>2, SumsUnfold
  <2>3. CASE s # {}
    <3>1. One(s) \in Dispatchers /\ s \ {One(s)} \in UpTo(n)
      BY <2>1, <2>3, OneLess DEF UpTo
    <3>2. Sums(f)[s \ {One(s)}] = 0 /\ f[One(s)] = 0
      BY <1>2, <2>1, <3>1
    <3>3. Sums(f)[s] = f[One(s)] + Sums(f)[s \ {One(s)}]
      BY <2>1, <2>3, SumsUnfold
    <3> QED
      BY <3>2, <3>3
  <2> QED
    BY <2>2, <2>3
<1>3. Nat \subseteq S
  <2> HIDE DEF S
  <2> QED
    BY <1>1, <1>2, InductionBySet
<1>4. Sums(f)[Dispatchers] = 0
  BY <1>3, AllAreUpTo, DispatchersAssumption, FS_CardinalityType
<1> HIDE DEF f
<1>5. SumOver(f) = 0
  BY <1>4, SumIsFold
<1> QED
  BY <1>5 DEF f

-------------------------------------------------------------------------------
\* Neither the row nor a dispatcher at work ever counts a POST that is not made,
\* but for the one that is about to be.
CountBounded ==
  /\ row.attempts <= SumOver(posts)
  /\ \A d \in Dispatchers : Active(d) =>
       disp[d].seen <= SumOver(posts) + (IF disp[d].pc = "posting" THEN 1 ELSE 0)

\* Without a rollback or an overlap one dispatcher at most is at work; between two
\* dispatches the row has the count, and while one is at work the dispatcher has.
CountFits ==
  mishaps \subseteq {"lost_answer"} =>
    /\ \A d, e \in Dispatchers : Active(d) /\ Active(e) => d = e
    /\ \A d \in Dispatchers : disp[d].conn = TRUE
    /\ (\A d \in Dispatchers : ~Active(d)) => row.attempts = SumOver(posts)
    /\ \A d \in Dispatchers : Active(d) =>
         disp[d].seen = SumOver(posts) + (IF disp[d].pc = "posting" THEN 1 ELSE 0)

LEMMA CountInit == Init => CountBounded /\ CountFits
<1> SUFFICES ASSUME Init PROVE CountBounded /\ CountFits
  OBVIOUS
<1>1. SumOver(posts) = 0
  BY SumOfNothing DEF Init
<1>2. row.attempts = 0 /\ \A d \in Dispatchers : disp[d].conn = TRUE /\ ~Active(d)
  BY IdleAndOver DEF Init, Active
<1> QED
  BY <1>1, <1>2 DEF CountBounded, CountFits

\* How a step of one dispatcher changes what it counts and the sum of the POSTs.
LEMMA SumSteps ==
  ASSUME TypeInv, NEW d \in Dispatchers
  PROVE  /\ SumOver(posts) \in Nat
         /\ Sign(d) \/ Flush(d) \/ Sleep(d) \/ Commit(d) \/ LoseSession(d) =>
              SumOver(posts)' = SumOver(posts)
         /\ Post(d) => SumOver(posts)' = SumOver(posts) + 1
<1>1. posts \in [Dispatchers -> Nat]
  BY DEF TypeInv, TypeOK
<1>2. SumOver(posts) \in Nat
  BY <1>1, SumCounts
<1>3. ASSUME Sign(d) \/ Flush(d) \/ Sleep(d) \/ Commit(d) \/ LoseSession(d)
      PROVE  SumOver(posts)' = SumOver(posts)
  <2>1. posts' = posts
    BY <1>3 DEF Sign, Flush, Sleep, Commit, LoseSession
  <2> QED
    BY <2>1
<1>4. ASSUME Post(d) PROVE SumOver(posts)' = SumOver(posts) + 1
  <2>1. posts' = [posts EXCEPT ![d] = @ + 1]
    BY <1>4 DEF Post
  <2> QED
    BY <1>1, <2>1, SumCounts
<1> QED
  BY <1>2, <1>3, <1>4

LEMMA CountBoundedStep == ASSUME TypeInv, CountBounded, [Next]_vars PROVE CountBounded'
<1> DEFINE sum == SumOver(posts)
<1>1. /\ row.attempts \in Nat /\ row.attempts <= sum
      /\ \A d \in Dispatchers : disp[d].seen \in Nat
      /\ \A d \in Dispatchers : Active(d) =>
           disp[d].seen <= sum + (IF disp[d].pc = "posting" THEN 1 ELSE 0)
  BY DispatchersAreTyped DEF CountBounded, TypeInv, TypeOK, Dispatcher
<1>2. ASSUME NEW d \in Dispatchers PROVE sum \in Nat
  BY SumSteps
<1>3. ASSUME NEW d \in Dispatchers,
             Sign(d) \/ Flush(d) \/ Post(d) \/ Sleep(d) \/ Commit(d) \/ LoseSession(d)
      PROVE  CountBounded'
  <2>1. /\ sum \in Nat /\ sum' \in {sum, sum + 1}
        /\ Post(d) => sum' = sum + 1
    BY <1>3, SumSteps
  <2>2. \A e \in Dispatchers \ {d} : Kept(e)
    BY <1>3, SignMoves, FlushMoves, PostMoves, SleepMoves, CommitMoves, LoseMoves
  <2> HIDE DEF sum
  <2>3. row'.attempts <= sum'
    <3>1. CASE Commit(d)
      <4>1. disp[d].seen <= sum
        <5>1. disp[d].pc = "commit" /\ Active(d)
          BY <3>1 DEF Commit, Active
        <5> QED
          BY <1>1, <5>1, <2>1
      <4>2. row'.attempts \in {row.attempts, disp[d].seen}
        BY <3>1 DEF Commit
      <4> QED
        BY <1>1, <2>1, <4>1, <4>2
    <3>2. CASE ~Commit(d)
      <4>1. UNCHANGED row
        BY <1>3, <3>2 DEF Sign, Flush, Post, Sleep, LoseSession
      <4> QED
        BY <1>1, <2>1, <4>1
    <3> QED
      BY <3>1, <3>2
  <2>4. Active(d)' => disp'[d].seen <= sum' + (IF disp'[d].pc = "posting" THEN 1 ELSE 0)
    <3>1. CASE Sign(d)
      <4>1. /\ disp'[d].pc \in {"over", "signed"}
            /\ disp'[d].pc = "signed" => disp'[d].seen = row.attempts
        BY <3>1, SignMoves
      <4> QED
        BY <1>1, <2>1, <4>1 DEF Active
    <3>2. CASE Flush(d)
      <4>1. \/ disp'[d].pc = "over"
            \/ disp'[d].pc = "posting" /\ disp'[d].seen = disp[d].seen + 1
        BY <3>2, FlushMoves, IdleAndOver
      <4>2. disp[d].seen <= sum
        <5>1. disp[d].pc \in {"signed", "retry"}
          BY <3>2, FlushMoves
        <5> QED
          BY <1>1, <2>1, <5>1 DEF Active
      <4> QED
        BY <1>1, <2>1, <4>1, <4>2 DEF Active
    <3>3. CASE Post(d)
      BY <1>1, <2>1, <3>3, PostMoves DEF Active
    <3>4. CASE Sleep(d)
      BY <1>1, <2>1, <3>4, SleepMoves DEF Active
    <3>5. CASE Commit(d)
      BY <3>5, CommitMoves, IdleAndOver DEF Active
    <3>6. CASE LoseSession(d)
      BY <1>1, <2>1, <3>6, LoseMoves DEF Active
    <3> QED
      BY <1>3, <3>1, <3>2, <3>3, <3>4, <3>5, <3>6
  <2>5. ASSUME NEW e \in Dispatchers \ {d}, Active(e)'
        PROVE  disp'[e].seen <= sum' + (IF disp'[e].pc = "posting" THEN 1 ELSE 0)
    <3>1. /\ Active(e) /\ disp'[e].seen = disp[e].seen /\ disp'[e].pc = disp[e].pc
      BY <2>2, <2>5 DEF Kept, Active
    <3> QED
      BY <1>1, <2>1, <3>1
  <2>6. \A e \in Dispatchers : Active(e)' =>
          disp'[e].seen <= sum' + (IF disp'[e].pc = "posting" THEN 1 ELSE 0)
    BY <2>4, <2>5
  <2> QED
    BY <2>3, <2>6 DEF CountBounded, sum
<1>4. ASSUME UNCHANGED posts PROVE sum' = sum
  BY <1>4
<1> HIDE DEF sum
<1>5. CASE Reclaim \/ ReclaimEnds
  BY <1>1, <1>4, <1>5, SweepMoves DEF CountBounded, Active, Kept, sum
<1>6. CASE Crash
  BY <1>1, <1>4, <1>6, CrashMoves, IdleAndOver DEF Crash, CountBounded, Active, sum
<1>7. CASE UNCHANGED vars
  BY <1>1, <1>4, <1>7 DEF vars, CountBounded, Active, sum
<1> QED
  BY <1>3, <1>5, <1>6, <1>7 DEF Next, Deliver

LEMMA CountStep == ASSUME TypeInv, CountFits, [Next]_vars PROVE CountFits'
<1> SUFFICES ASSUME mishaps' \subseteq {"lost_answer"} PROVE CountFits'
  BY DEF CountFits
<1> DEFINE sum == SumOver(posts)
<1>1. mishaps \subseteq {"lost_answer"}
  <2>1. mishaps \subseteq mishaps'
    BY DEF Next, Deliver, Sign, Flush, Post, Sleep, Commit, LoseSession, Reclaim, ReclaimEnds,
           Crash, vars
  <2> QED
    BY <2>1
<1>2. /\ \A d, e \in Dispatchers : Active(d) /\ Active(e) => d = e
      /\ \A d \in Dispatchers : disp[d].conn = TRUE
      /\ (\A d \in Dispatchers : ~Active(d)) => row.attempts = sum
      /\ \A d \in Dispatchers : Active(d) =>
           disp[d].seen = sum + (IF disp[d].pc = "posting" THEN 1 ELSE 0)
  BY <1>1 DEF CountFits
<1>3. ASSUME NEW d \in Dispatchers, Sign(d) PROVE CountFits'
  <2>1. sum \in Nat /\ SumOver(posts)' = sum
    BY <1>3, SumSteps
  <2> HIDE DEF sum
  <2>2. \A e \in Dispatchers : ~Active(e)
    BY <1>3 DEF Sign, Active
  <2>3. row.attempts = sum /\ UNCHANGED row
    BY <1>2, <1>3, <2>2 DEF Sign
  <2>4. /\ disp'[d].pc \in {"over", "signed"} /\ disp'[d].conn = TRUE
        /\ disp'[d].pc = "signed" => disp'[d].seen = sum
        /\ \A e \in Dispatchers \ {d} : Kept(e)
    BY <1>3, <2>3, SignMoves
  <2> QED
    BY <1>2, <2>1, <2>2, <2>3, <2>4 DEF CountFits, Active, Kept
<1>4. ASSUME NEW d \in Dispatchers, Flush(d) PROVE CountFits'
  <2>1. sum \in Nat /\ SumOver(posts)' = sum
    BY <1>4, SumSteps
  <2> HIDE DEF sum
  <2>2. /\ disp[d].pc \in {"signed", "retry"} /\ disp'[d].pc = "posting"
        /\ disp'[d].seen = disp[d].seen + 1 /\ disp'[d].conn = TRUE
        /\ \A e \in Dispatchers \ {d} : Kept(e)
    BY <1>2, <1>4, FlushMoves
  <2>3. disp'[d].seen = sum + 1 /\ \A e \in Dispatchers \ {d} : ~Active(e)
    BY <1>2, <2>1, <2>2 DEF Active
  <2> QED
    BY <1>2, <2>1, <2>2, <2>3 DEF CountFits, Active, Kept
<1>5. ASSUME NEW d \in Dispatchers, Post(d) PROVE CountFits'
  <2>1. sum \in Nat /\ SumOver(posts)' = sum + 1
    BY <1>5, SumSteps
  <2> HIDE DEF sum
  <2>2. /\ disp[d].pc = "posting" /\ Active(d) /\ disp'[d].pc \in {"backoff", "commit"}
        /\ disp'[d].seen = disp[d].seen /\ disp'[d].conn = TRUE
        /\ \A e \in Dispatchers \ {d} : Kept(e)
    BY <1>2, <1>5, PostMoves DEF Active
  <2>3. disp'[d].seen = sum + 1 /\ \A e \in Dispatchers \ {d} : ~Active(e)
    BY <1>2, <2>1, <2>2
  <2> QED
    BY <1>2, <2>1, <2>2, <2>3 DEF CountFits, Active, Kept
<1>6. ASSUME NEW d \in Dispatchers, Sleep(d) PROVE CountFits'
  <2>1. sum \in Nat /\ SumOver(posts)' = sum
    BY <1>6, SumSteps
  <2> HIDE DEF sum
  <2>2. /\ disp[d].pc = "backoff" /\ Active(d) /\ disp'[d].pc = "retry"
        /\ disp'[d].seen = disp[d].seen /\ disp'[d].conn = TRUE
        /\ \A e \in Dispatchers \ {d} : Kept(e)
    BY <1>2, <1>6, SleepMoves DEF Active
  <2>3. disp'[d].seen = sum /\ \A e \in Dispatchers \ {d} : ~Active(e)
    BY <1>2, <2>1, <2>2
  <2> QED
    BY <1>2, <2>1, <2>2, <2>3 DEF CountFits, Active, Kept
<1>7. ASSUME NEW d \in Dispatchers, Commit(d) PROVE CountFits'
  <2>1. sum \in Nat /\ SumOver(posts)' = sum
    BY <1>7, SumSteps
  <2> HIDE DEF sum
  <2>2. /\ disp[d].pc = "commit" /\ disp'[d].pc = "over" /\ disp'[d].conn = TRUE
        /\ \A e \in Dispatchers \ {d} : Kept(e)
    BY <1>7, CommitMoves, IdleAndOver
  <2>3. row'.attempts = disp[d].seen
    BY <1>2, <1>7 DEF Commit
  <2>4. row'.attempts = sum /\ \A e \in Dispatchers \ {d} : ~Active(e)
    BY <1>2, <2>1, <2>2, <2>3 DEF Active
  <2> QED
    BY <1>2, <2>1, <2>2, <2>4 DEF CountFits, Active, Kept
<1>8. ASSUME Crash \/ \E d \in Dispatchers : LoseSession(d) PROVE FALSE
  BY <1>8 DEF Crash, LoseSession
<1>9. ASSUME UNCHANGED posts PROVE sum' = sum
  BY <1>9
<1> HIDE DEF sum
<1>10. CASE Reclaim \/ ReclaimEnds
  BY <1>2, <1>9, <1>10, SweepMoves DEF CountFits, Active, Kept, sum
<1>11. CASE UNCHANGED vars
  BY <1>2, <1>9, <1>11 DEF vars, CountFits, Active, sum
<1> QED
  BY <1>3, <1>4, <1>5, <1>6, <1>7, <1>8, <1>10, <1>11 DEF Next, Deliver

\* deliver "increments webhook_attempts for every attempt": the row never counts a
\* POST that was not made, and with no crash, no lost session and no overlap it
\* counts every one, for any number of dispatches.
THEOREM AttemptsAreCounted == Spec => []AttemptsCounted
<1>1. CountBounded /\ CountFits => AttemptsCounted
  BY DEF CountBounded, CountFits, AttemptsCounted, SumOver
<1> QED
  BY <1>1, TypeInit, TypeStep, CountInit, CountBoundedStep, CountStep, PTL DEF Spec
===============================================================================
