------------------------- MODULE AudioRetention_proofs --------------------------
(***************************************************************************)
(* Theorems about the stored audio, for any calls and any number of        *)
(* faults: the types, and, as long as no task outlasts the stale cutoff,   *)
(* that objects are named, healed and kept for their window.               *)
(***************************************************************************)
EXTENDS AudioRetention, TLAPS

-------------------------------------------------------------------------------
\* Where an actor stands fits what it knows: a task is busy with its own call,
\* whoever works on a row has one, and who lands a call has an outcome.
Fits(r, a) ==
  /\ r.pc \in {"upload", "land", "commit"} => a \in Calls
  /\ r.pc \in {"land", "commit"} => r.outcome \in Outcomes
  /\ r.pc = "stale_commit" => a = MainLoop
  /\ r.pc \in {"stale_commit", "dispatch", "post", "posted", "delete", "null"}
       => r.call \in Calls
  /\ a \in Calls /\ r.pc \in {"upload", "land", "commit", "dispatch", "post", "posted"}
       => r.call = a

TypeInv == TypeOK /\ \A a \in Actors : Fits(proc[a], a)

LEMMA FreshIsTyped ==
  ASSUME NEW a \in Actors
  PROVE  /\ Fresh(a) \in Procs /\ Fits(Fresh(a), a)
         /\ Finished(a) \in Procs /\ Fits(Finished(a), a)
         /\ Finished(a).pc \in {"idle", "over"} /\ Finished(a).todo = {}
         /\ a \in Calls => Finished(a).pc = "over"
BY ActorsAssumption DEF Fresh, Finished, Procs, Pcs, Actors, NoSnap, Payloads,
                        CallStatuses, ACTIVE_STATUSES, Fits

\* What actors are, in parts.
LEMMA TypeParts ==
  TypeInv => /\ keepDone \in BOOLEAN /\ row \in [Calls -> Rows]
             /\ object \in [Calls -> BOOLEAN] /\ old \in [Calls -> BOOLEAN]
             /\ proc \in [Actors -> Procs] /\ posted \in [Calls -> SUBSET Payloads]
             /\ faults \in 0..MaxFaults /\ \A a \in Actors : Fits(proc[a], a)
BY DEF TypeInv, TypeOK

LEMMA Everyone == Calls \subseteq Actors /\ MainLoop \in Actors /\ MainLoop \notin Calls
BY ActorsAssumption DEF Actors

LEMMA TypeInit == Init => TypeInv
<1> SUFFICES ASSUME Init PROVE TypeInv
  OBVIOUS
<1>1. proc \in [Actors -> Procs] /\ \A a \in Actors : Fits(proc[a], a)
  BY FreshIsTyped DEF Init
<1> QED
  BY <1>1, SettingsAssumption DEF Init, TypeInv, TypeOK, Rows, Reasons

\* A step of one actor keeps the types if the place it goes to fits, and the
\* rows, the objects and the history have theirs.
LEMMA OneMoves ==
  ASSUME TypeInv, NEW a \in Actors, NEW new \in Procs, Fits(new, a),
         proc' = [proc EXCEPT ![a] = new],
         keepDone' \in BOOLEAN, row' \in [Calls -> Rows], object' \in [Calls -> BOOLEAN],
         old' \in [Calls -> BOOLEAN], posted' \in [Calls -> SUBSET Payloads],
         faults' \in 0..MaxFaults
  PROVE  TypeInv'
<1>1. proc \in [Actors -> Procs]
  BY TypeParts
<1>2. proc' \in [Actors -> Procs]
  BY <1>1
<1>3. \A b \in Actors : proc'[b] = IF b = a THEN new ELSE proc[b]
  BY <1>1
<1> QED
  BY <1>2, <1>3 DEF TypeInv, TypeOK

\* A step that only moves an actor on.
LEMMA PcMoves ==
  ASSUME TypeInv, NEW a \in Actors, NEW p \in Pcs, At(a, p)
  PROVE  \E new \in Procs : /\ proc' = [proc EXCEPT ![a] = new] /\ proc'[a] = new
                            /\ new.pc = p /\ new.call = proc[a].call
                            /\ new.outcome = proc[a].outcome /\ new.todo = proc[a].todo
<1>1. proc \in [Actors -> Procs]
  BY TypeParts
<1> DEFINE new == [proc[a] EXCEPT !.pc = p]
<1>2. /\ new \in Procs /\ new.pc = p /\ new.call = proc[a].call
      /\ new.outcome = proc[a].outcome /\ new.todo = proc[a].todo
  BY <1>1 DEF Procs
<1>3. proc' = [proc EXCEPT ![a] = new]
  BY <1>1 DEF At
<1> HIDE DEF new
<1> QED
  BY <1>1, <1>2, <1>3

\* After its webhook an actor has returned, or selects what has expired.
LEMMA AfterHookTyped ==
  ASSUME TypeInv, NEW a \in Actors, proc' = AfterHook(a)
  PROVE  \E new \in Procs : /\ proc' = [proc EXCEPT ![a] = new] /\ proc'[a] = new
                            /\ Fits(new, a)
                            /\ new.pc \in {"select", "idle", "over"}
                            /\ a \in Calls => new.pc # "idle"
                            /\ new.todo \in {proc[a].todo, {}}
<1>1. proc \in [Actors -> Procs]
  BY TypeParts
<1>2. CASE proc[a].outcome = "done"
  <2> DEFINE new == [proc[a] EXCEPT !.pc = "select", !.snap = NoSnap]
  <2>1. new \in Procs /\ new.pc = "select" /\ new.todo = proc[a].todo
    BY <1>1 DEF Procs, Pcs, NoSnap, Payloads, CallStatuses, ACTIVE_STATUSES
  <2>2. proc' = [proc EXCEPT ![a] = new]
    BY <1>1, <1>2 DEF AfterHook
  <2> HIDE DEF new
  <2>3. Fits(new, a)
    BY <2>1 DEF Fits
  <2> QED
    BY <1>1, <2>1, <2>2, <2>3
<1>3. CASE proc[a].outcome # "done"
  BY <1>1, <1>3, FreshIsTyped DEF AfterHook
<1> QED
  BY <1>2, <1>3

\* What landing does to a row.
LEMMA LandIsTyped ==
  ASSUME TypeInv, NEW c \in Calls, NEW o \in Outcomes \cup {"stale_call"},
         NEW u \in BOOLEAN, Land(c, o, u)
  PROVE  /\ row' \in [Calls -> Rows] /\ old' \in [Calls -> BOOLEAN]
         /\ row'[c].status = IF o = "done" THEN "done" ELSE "failed"
         /\ o # "done" => row'[c].reason = o
         /\ (row'[c].url <=> row[c].url \/ u) /\ ~old'[c]
         /\ \A b \in Calls \ {c} : row'[b] = row[b] /\ old'[b] = old[b]
<1>1. row \in [Calls -> Rows] /\ old \in [Calls -> BOOLEAN]
  BY TypeParts
<1> DEFINE new == [row[c] EXCEPT !.status = IF o = "done" THEN "done" ELSE "failed",
                                 !.reason = IF o = "done" THEN @ ELSE o,
                                 !.url = @ \/ u]
<1>2. /\ new \in Rows
      /\ new.status = IF o = "done" THEN "done" ELSE "failed"
      /\ o # "done" => new.reason = o
      /\ (new.url <=> row[c].url \/ u)
  BY <1>1 DEF Rows, Outcomes, Reasons
<1>3. row' = [row EXCEPT ![c] = new] /\ old' = [old EXCEPT ![c] = FALSE]
  BY <1>1 DEF Land
<1> HIDE DEF new
<1> QED
  BY <1>1, <1>2, <1>3

\* What a webhook's commit does to a row.
LEMMA CommitHookTyped ==
  ASSUME TypeInv, NEW a \in Actors, CommitHook(a)
  PROVE  /\ proc[a].call \in Calls
         /\ row' \in [Calls -> Rows] /\ old' \in [Calls -> BOOLEAN]
         /\ \A b \in Calls : /\ row'[b].status = row[b].status
                             /\ row'[b].reason = row[b].reason
                             /\ row'[b].url = row[b].url
                             /\ (old'[b] <=> old[b] /\ b # proc[a].call)
<1>1. row \in [Calls -> Rows] /\ old \in [Calls -> BOOLEAN]
  BY TypeParts
<1>2. proc[a].call \in Calls
  BY TypeParts DEF CommitHook, Fits
<1>3. PICK ok \in BOOLEAN : row' = [row EXCEPT ![proc[a].call].delivered = @ \/ ok]
  BY DEF CommitHook
<1> DEFINE new == [row[proc[a].call] EXCEPT !.delivered = @ \/ ok]
<1>4. /\ new \in Rows /\ new.status = row[proc[a].call].status
      /\ new.reason = row[proc[a].call].reason /\ new.url = row[proc[a].call].url
  BY <1>1, <1>2 DEF Rows
<1>5. row' = [row EXCEPT ![proc[a].call] = new]
  BY <1>1, <1>2, <1>3
<1> HIDE DEF new
<1>6. old' = [old EXCEPT ![proc[a].call] = FALSE]
  BY DEF CommitHook
<1> QED
  BY <1>1, <1>2, <1>4, <1>5, <1>6

\* What the end of a deletion does to a row.
LEMMA NullUrlTyped ==
  ASSUME TypeInv, NEW a \in Actors, NullUrl(a)
  PROVE  /\ proc[a].call \in Calls
         /\ row' \in [Calls -> Rows] /\ old' \in [Calls -> BOOLEAN]
         /\ \A b \in Calls : /\ row'[b].status = row[b].status
                             /\ row'[b].reason = row[b].reason
                             /\ (row'[b].url <=> row[b].url /\ b # proc[a].call)
                             /\ (old'[b] <=> old[b] /\ b # proc[a].call)
<1>1. row \in [Calls -> Rows] /\ old \in [Calls -> BOOLEAN]
  BY TypeParts
<1>2. proc[a].call \in Calls
  BY TypeParts DEF NullUrl, Fits
<1> DEFINE new == [row[proc[a].call] EXCEPT !.url = FALSE]
<1>3. row[proc[a].call] \in Rows
  BY <1>1, <1>2
<1>4. /\ new \in Rows /\ new.status = row[proc[a].call].status
      /\ new.reason = row[proc[a].call].reason /\ new.url = FALSE
  BY <1>3 DEF Rows
<1>5. row' = [row EXCEPT ![proc[a].call] = new]
  BY <1>1, <1>2 DEF NullUrl
<1> HIDE DEF new
<1>6. old' = [old EXCEPT ![proc[a].call] = FALSE]
  BY DEF NullUrl
<1>7. \A b \in Calls : row[b].url \in BOOLEAN
  BY <1>1 DEF Rows
<1> QED
  BY <1>1, <1>2, <1>4, <1>5, <1>6, <1>7

-------------------------------------------------------------------------------
(* Where each step takes its actor.                                          *)

\* The actor a goes to the place new; everyone else stays.
Goes(a, new) ==
  /\ new \in Procs /\ Fits(new, a)
  /\ proc' = [proc EXCEPT ![a] = new]

LEMMA OthersStay ==
  ASSUME TypeInv, NEW a \in Actors, NEW new, Goes(a, new)
  PROVE  proc'[a] = new /\ \A b \in Actors \ {a} : proc'[b] = proc[b]
BY TypeParts DEF Goes

LEMMA UploadGoes ==
  ASSUME TypeInv, NEW c \in Calls, Upload(c)
  PROVE  \E new : /\ Goes(c, new)
                  /\ new.pc = "land" /\ new.todo = proc[c].todo
                  /\ \E left \in BOOLEAN :
                       /\ object' = [object EXCEPT ![c] = left]
                       /\ new.outcome # "upload_failed" => left
<1>1. PICK o \in Outcomes, left \in BOOLEAN :
        /\ o # "upload_failed" => left
        /\ object' = [object EXCEPT ![c] = left]
        /\ proc' = [proc EXCEPT ![c].pc = "land", ![c].outcome = o]
  BY DEF Upload
<1> DEFINE new == [proc[c] EXCEPT !.pc = "land", !.outcome = o]
<1>2. proc' = [proc EXCEPT ![c] = new]
  BY <1>1, TypeParts, Everyone
<1>3. proc[c] \in Procs /\ proc[c].pc = "upload" /\ Fits(proc[c], c) /\ "land" \in Pcs
  BY TypeParts, Everyone DEF Upload, Pcs
<1>4. /\ new \in Procs /\ new.pc = "land" /\ new.outcome = o
      /\ new.call = proc[c].call /\ new.todo = proc[c].todo
  BY <1>3 DEF Procs
<1> HIDE DEF new
<1>5. Fits(new, c)
  BY <1>3, <1>4 DEF Fits
<1> QED
  BY <1>1, <1>2, <1>4, <1>5 DEF Goes

LEMMA ReadRowGoes ==
  ASSUME TypeInv, NEW c \in Calls, ReadRow(c)
  PROVE  \E new : /\ Goes(c, new)
                  /\ \/ /\ new.pc = "commit" /\ new.todo = proc[c].todo
                        /\ new.outcome = proc[c].outcome
                     \/ new.pc = "over" /\ new.todo = {}
<1>1. proc[c] \in Procs /\ proc[c].pc = "land" /\ Fits(proc[c], c) /\ "commit" \in Pcs
  BY TypeParts, Everyone DEF ReadRow, Pcs
<1>2. CASE Legal(row[c].status, "failed")
  <2>1. At(c, "commit")
    BY <1>2 DEF ReadRow, At
  <2>2. PICK new \in Procs : /\ proc' = [proc EXCEPT ![c] = new]
                             /\ new.pc = "commit" /\ new.call = proc[c].call
                             /\ new.outcome = proc[c].outcome /\ new.todo = proc[c].todo
    BY <1>1, <2>1, PcMoves, Everyone
  <2>3. Fits(new, c)
    BY <1>1, <2>2 DEF Fits
  <2> QED
    BY <2>2, <2>3 DEF Goes
<1>3. CASE ~Legal(row[c].status, "failed")
  BY <1>3, FreshIsTyped, Everyone DEF ReadRow, Goes
<1> QED
  BY <1>2, <1>3

\* The steps that leave an actor with its call and what it is to do there.
LEMMA StayGoes ==
  ASSUME TypeInv, NEW a \in Actors, NEW p \in {"dispatch", "posted", "null"}, At(a, p),
         p = "dispatch" => proc[a].pc \in {"commit", "stale_commit"},
         p = "posted" => proc[a].pc = "post",
         p = "null" => proc[a].pc = "delete"
  PROVE  \E new : /\ Goes(a, new) /\ new.pc = p
                  /\ new.call = proc[a].call /\ new.todo = proc[a].todo
<1>1. Fits(proc[a], a) /\ p \in Pcs /\ (a \in Calls => a # MainLoop)
  BY TypeParts, Everyone DEF Pcs
<1>2. PICK new \in Procs : /\ proc' = [proc EXCEPT ![a] = new]
                           /\ new.pc = p /\ new.call = proc[a].call
                           /\ new.todo = proc[a].todo
  BY <1>1, PcMoves
<1>3. proc[a].call \in Calls /\ (a \in Calls => proc[a].call = a \/ p = "null")
  BY <1>1, Everyone DEF Fits
<1>4. Fits(new, a)
  BY <1>2, <1>3 DEF Fits
<1> QED
  BY <1>2, <1>4 DEF Goes

LEMMA TickGoes ==
  ASSUME TypeInv, RetentionTick
  PROVE  \E new : /\ Goes(MainLoop, new) /\ new.pc = "select"
                  /\ new.todo = proc[MainLoop].todo
<1>1. At(MainLoop, "select") /\ "select" \in Pcs
  BY DEF RetentionTick, Pcs
<1>2. PICK new \in Procs : /\ proc' = [proc EXCEPT ![MainLoop] = new]
                           /\ new.pc = "select" /\ new.todo = proc[MainLoop].todo
  BY <1>1, PcMoves, Everyone
<1> QED
  BY <1>2 DEF Goes, Fits

LEMMA StaleRowGoes ==
  ASSUME TypeInv, NEW c \in Calls, StaleRow(c)
  PROVE  \E new : /\ Goes(MainLoop, new) /\ new.pc = "stale_commit"
                  /\ new.call = c /\ new.todo = proc[MainLoop].todo
<1> DEFINE new == [proc[MainLoop] EXCEPT !.pc = "stale_commit", !.call = c]
<1>1. proc' = [proc EXCEPT ![MainLoop] = new]
  BY TypeParts, Everyone DEF StaleRow
<1>2. proc[MainLoop] \in Procs /\ "stale_commit" \in Pcs
  BY TypeParts, Everyone DEF Pcs
<1>3. /\ new \in Procs /\ new.pc = "stale_commit" /\ new.call = c
      /\ new.todo = proc[MainLoop].todo
  BY <1>2 DEF Procs
<1> HIDE DEF new
<1> QED
  BY <1>1, <1>3, Everyone DEF Goes, Fits

LEMMA ReadHookGoes ==
  ASSUME TypeInv, NEW a \in Actors, ReadHook(a)
  PROVE  \E new : /\ Goes(a, new)
                  /\ \/ new.pc = "post" /\ new.call = proc[a].call
                     \/ new.pc \in {"select", "idle", "over"}
                  /\ a \in Calls => new.pc # "idle"
                  /\ new.todo \in {proc[a].todo, {}}
<1> DEFINE c == proc[a].call
<1>1. /\ proc[a] \in Procs /\ proc \in [Actors -> Procs] /\ row \in [Calls -> Rows]
      /\ Fits(proc[a], a) /\ c \in Calls /\ (a \in Calls => c = a)
  BY TypeParts DEF ReadHook, Fits
<1>2. CASE Terminal(c) /\ ~row[c].delivered
  <2> DEFINE s == [status |-> row[c].status, url |-> row[c].url]
             new == [proc[a] EXCEPT !.pc = "post", !.snap = s]
  <2>1. s \in Payloads
    BY <1>1 DEF Rows, Payloads, CallStatuses, TERMINAL_STATUSES, ACTIVE_STATUSES
  <2>2. proc' = [proc EXCEPT ![a] = new]
    BY <1>1, <1>2 DEF ReadHook
  <2> HIDE DEF s
  <2>3. new \in Procs /\ new.pc = "post" /\ new.call = c /\ new.todo = proc[a].todo
    BY <1>1, <2>1 DEF Procs, Pcs
  <2> HIDE DEF new
  <2>4. Fits(new, a)
    BY <1>1, <2>3 DEF Fits
  <2> QED
    BY <2>2, <2>3, <2>4 DEF Goes
<1>3. CASE ~(Terminal(c) /\ ~row[c].delivered)
  <2>1. proc' = AfterHook(a)
    BY <1>3 DEF ReadHook
  <2> QED
    BY <2>1, AfterHookTyped DEF Goes
<1> QED
  BY <1>2, <1>3

LEMMA CommitHookGoes ==
  ASSUME TypeInv, NEW a \in Actors, CommitHook(a)
  PROVE  \E new : /\ Goes(a, new) /\ new.pc \in {"select", "idle", "over"}
                  /\ a \in Calls => new.pc # "idle"
                  /\ new.todo \in {proc[a].todo, {}}
<1>1. proc' = AfterHook(a)
  BY DEF CommitHook
<1> QED
  BY <1>1, AfterHookTyped DEF Goes

LEMMA SelectGoes ==
  ASSUME TypeInv, NEW a \in Actors, Select(a)
  PROVE  \E new : /\ Goes(a, new) /\ new.pc = "reclaim"
                  /\ \A c \in new.todo : c \in Calls /\ Expired(c)
<1> DEFINE due == {c \in Calls : Expired(c) /\ ~Locked(c)}
           new == [proc[a] EXCEPT !.pc = "reclaim", !.todo = due]
<1>1. proc' = [proc EXCEPT ![a] = new]
  BY TypeParts DEF Select
<1>2. due \subseteq Calls /\ (\A c \in due : Expired(c)) /\ proc[a] \in Procs
  BY TypeParts
<1> HIDE DEF due
<1>3. new \in Procs /\ new.pc = "reclaim" /\ new.todo = due
  BY <1>2 DEF Procs, Pcs
<1> HIDE DEF new
<1> QED
  BY <1>1, <1>2, <1>3 DEF Goes, Fits

LEMMA ReclaimGoes ==
  ASSUME TypeInv, NEW a \in Actors, Reclaim(a)
  PROVE  \E new : /\ Goes(a, new) /\ new.todo \subseteq proc[a].todo
                  /\ \/ new.pc = "reclaim"
                     \/ new.pc = "delete" /\ new.call \in proc[a].todo
<1>1. PICK c \in proc[a].todo :
        proc' = [proc EXCEPT ![a].todo = @ \ {c},
                             ![a].call = IF Locked(c) THEN a ELSE c,
                             ![a].pc = IF Locked(c) THEN "reclaim" ELSE "delete"]
  BY DEF Reclaim
<1> DEFINE who == IF Locked(c) THEN a ELSE c
           pc == IF Locked(c) THEN "reclaim" ELSE "delete"
           left == proc[a].todo \ {c}
           new == [proc[a] EXCEPT !.todo = left, !.call = who, !.pc = pc]
<1>2. proc[a] \in Procs /\ proc[a].todo \subseteq Calls /\ c \in Calls
  BY TypeParts DEF Procs
<1>3. /\ who \in Actors /\ pc \in Pcs /\ left \in SUBSET Calls
      /\ pc = "reclaim" \/ (pc = "delete" /\ who = c)
  BY <1>2, Everyone DEF Pcs
<1>4. proc' = [proc EXCEPT ![a] = new]
  BY <1>1, TypeParts
<1>5. left \subseteq proc[a].todo
  OBVIOUS
<1> HIDE DEF who, pc, left
<1>6. new \in Procs /\ new.pc = pc /\ new.call = who /\ new.todo = left
  BY <1>2, <1>3 DEF Procs, Actors
<1> HIDE DEF new
<1> QED
  BY <1>2, <1>3, <1>4, <1>5, <1>6 DEF Goes, Fits

LEMMA DeletionGoes ==
  ASSUME TypeInv, NEW a \in Actors, NullUrl(a) \/ RollBack(a)
  PROVE  \E new : /\ Goes(a, new) /\ new.pc = "reclaim" /\ new.todo = proc[a].todo
<1> DEFINE new == [proc[a] EXCEPT !.pc = "reclaim", !.call = a]
<1>1. proc' = [proc EXCEPT ![a] = new]
  BY TypeParts DEF NullUrl, RollBack
<1>2. proc[a] \in Procs /\ "reclaim" \in Pcs
  BY TypeParts DEF Pcs
<1>3. new \in Procs /\ new.pc = "reclaim" /\ new.todo = proc[a].todo
  BY <1>2 DEF Procs, Actors
<1> HIDE DEF new
<1> QED
  BY <1>1, <1>3 DEF Goes, Fits

\* An actor that returns, or whose task has died.
LEMMA ReturnGoes ==
  ASSUME TypeInv, NEW a \in Actors, proc' = [proc EXCEPT ![a] = Finished(a)]
  PROVE  \E new : /\ Goes(a, new) /\ new.pc \in {"idle", "over"} /\ new.todo = {}
                  /\ a \in Calls => new.pc = "over"
BY FreshIsTyped DEF Goes

\* A step that takes an actor to a place that fits keeps the types, if the rows,
\* the objects and the history keep theirs.
LEMMA GoingKeepsTypes ==
  ASSUME TypeInv, NEW a \in Actors, NEW new, Goes(a, new),
         keepDone' \in BOOLEAN, row' \in [Calls -> Rows], object' \in [Calls -> BOOLEAN],
         old' \in [Calls -> BOOLEAN], posted' \in [Calls -> SUBSET Payloads],
         faults' \in 0..MaxFaults
  PROVE  TypeInv'
BY OneMoves DEF Goes

\* A step that moves one actor and changes no row, object or history.
LEMMA OnlyGoes ==
  ASSUME TypeInv, NEW a \in Actors, NEW new, Goes(a, new),
         UNCHANGED <<keepDone, row, object, old, posted>>, faults' \in 0..MaxFaults
  PROVE  TypeInv'
BY GoingKeepsTypes, TypeParts

\* The steps that land a call and those of a crash, as they are used below.
LEMMA CommitRowGoes ==
  ASSUME TypeInv, NEW c \in Calls, CommitRow(c)
  PROVE  /\ proc[c].outcome \in Outcomes
         /\ Land(c, proc[c].outcome, proc[c].outcome # "upload_failed")
         /\ \E new : /\ Goes(c, new) /\ new.pc = "dispatch"
                     /\ new.call = c /\ new.todo = proc[c].todo
<1>1. /\ proc[c].outcome \in Outcomes /\ proc[c].call = c /\ proc[c].pc = "commit"
      /\ At(c, "dispatch")
      /\ Land(c, proc[c].outcome, proc[c].outcome # "upload_failed")
  BY TypeParts, Everyone DEF CommitRow, Fits
<1> QED
  BY <1>1, StayGoes, Everyone

LEMMA StaleCommitGoes ==
  ASSUME TypeInv, StaleCommit
  PROVE  /\ proc[MainLoop].call \in Calls
         /\ Land(proc[MainLoop].call, "stale_call", FALSE)
         /\ \E new : /\ Goes(MainLoop, new) /\ new.pc = "dispatch"
                     /\ new.call = proc[MainLoop].call
                     /\ new.todo = proc[MainLoop].todo
<1>1. /\ proc[MainLoop].call \in Calls /\ proc[MainLoop].pc = "stale_commit"
      /\ At(MainLoop, "dispatch") /\ Land(proc[MainLoop].call, "stale_call", FALSE)
  BY TypeParts, Everyone DEF StaleCommit, Fits
<1> QED
  BY <1>1, StayGoes, Everyone

LEMMA DeleteGoes ==
  ASSUME TypeInv, NEW a \in Actors, DeleteObject(a)
  PROVE  /\ proc[a].call \in Calls /\ object' = [object EXCEPT ![proc[a].call] = FALSE]
         /\ \E new : /\ Goes(a, new) /\ new.pc = "null"
                     /\ new.call = proc[a].call /\ new.todo = proc[a].todo
<1>1. /\ proc[a].call \in Calls /\ proc[a].pc = "delete" /\ At(a, "null")
      /\ object' = [object EXCEPT ![proc[a].call] = FALSE]
  BY TypeParts DEF DeleteObject, Fits
<1> QED
  BY <1>1, StayGoes

LEMMA CrashGoes ==
  ASSUME TypeInv, Crash
  PROVE  \A a \in Actors : /\ proc'[a] \in Procs /\ Fits(proc'[a], a)
                           /\ proc'[a].pc \in {"idle", "over"} /\ proc'[a].todo = {}
                           /\ a \in Calls => proc'[a].pc = "over"
BY FreshIsTyped DEF Crash

LEMMA TypeStep == ASSUME TypeInv, [Next]_vars PROVE TypeInv'
<1>1. ASSUME NEW c \in Calls, Upload(c) PROVE TypeInv'
  <2>1. object' \in [Calls -> BOOLEAN]
    BY <1>1, UploadGoes, TypeParts
  <2> QED
    BY <1>1, <2>1, UploadGoes, GoingKeepsTypes, TypeParts, Everyone DEF Upload
<1>2. ASSUME NEW c \in Calls, ReadRow(c) PROVE TypeInv'
  BY <1>2, ReadRowGoes, OnlyGoes, TypeParts, Everyone DEF ReadRow
<1>3. ASSUME NEW c \in Calls, CommitRow(c) PROVE TypeInv'
  <2>1. row' \in [Calls -> Rows] /\ old' \in [Calls -> BOOLEAN]
    BY <1>3, CommitRowGoes, LandIsTyped
  <2> QED
    BY <1>3, <2>1, CommitRowGoes, GoingKeepsTypes, TypeParts, Everyone DEF CommitRow
<1>4. ASSUME NEW a \in Actors, ReadHook(a) PROVE TypeInv'
  BY <1>4, ReadHookGoes, OnlyGoes, TypeParts DEF ReadHook
<1>5. ASSUME NEW a \in Actors, Post(a) PROVE TypeInv'
  <2>1. /\ proc[a].pc = "post" /\ At(a, "posted")
        /\ proc[a].snap \in Payloads
        /\ posted' = [posted EXCEPT ![proc[a].call] = @ \cup {proc[a].snap}]
    BY <1>5, TypeParts DEF Post, Procs
  <2>2. posted' \in [Calls -> SUBSET Payloads]
    BY <2>1, TypeParts
  <2> QED
    BY <1>5, <2>1, <2>2, StayGoes, GoingKeepsTypes, TypeParts DEF Post
<1>6. ASSUME NEW a \in Actors, CommitHook(a) PROVE TypeInv'
  BY <1>6, CommitHookGoes, CommitHookTyped, GoingKeepsTypes, TypeParts DEF CommitHook
<1>7. ASSUME NEW c \in Calls, StaleRow(c) PROVE TypeInv'
  BY <1>7, StaleRowGoes, OnlyGoes, TypeParts, Everyone DEF StaleRow
<1>8. ASSUME StaleCommit PROVE TypeInv'
  <2>1. row' \in [Calls -> Rows] /\ old' \in [Calls -> BOOLEAN]
    BY <1>8, StaleCommitGoes, LandIsTyped
  <2> QED
    BY <1>8, <2>1, StaleCommitGoes, GoingKeepsTypes, TypeParts, Everyone DEF StaleCommit
<1>9. ASSUME RetentionTick PROVE TypeInv'
  BY <1>9, TickGoes, OnlyGoes, TypeParts, Everyone DEF RetentionTick
<1>10. ASSUME NEW a \in Actors, Select(a) PROVE TypeInv'
  BY <1>10, SelectGoes, OnlyGoes, TypeParts DEF Select
<1>11. ASSUME NEW a \in Actors, Reclaim(a) PROVE TypeInv'
  BY <1>11, ReclaimGoes, OnlyGoes, TypeParts DEF Reclaim
<1>12. ASSUME NEW a \in Actors, DeleteObject(a) PROVE TypeInv'
  <2>1. object' \in [Calls -> BOOLEAN]
    BY <1>12, DeleteGoes, TypeParts
  <2> QED
    BY <1>12, <2>1, DeleteGoes, GoingKeepsTypes, TypeParts DEF DeleteObject
<1>13. ASSUME NEW a \in Actors, NullUrl(a) PROVE TypeInv'
  BY <1>13, DeletionGoes, NullUrlTyped, GoingKeepsTypes, TypeParts DEF NullUrl
<1>14. ASSUME NEW a \in Actors, RollBack(a) PROVE TypeInv'
  BY <1>14, DeletionGoes, OnlyGoes, TypeParts DEF RollBack
<1>15. ASSUME NEW a \in Actors, SweepDone(a) PROVE TypeInv'
  BY <1>15, ReturnGoes, OnlyGoes, TypeParts DEF SweepDone
<1>16. ASSUME NEW c \in Calls, Age(c) PROVE TypeInv'
  BY <1>16 DEF Age, TypeInv, TypeOK
<1>17. ASSUME Crash PROVE TypeInv'
  <2>1. proc' \in [Actors -> Procs] /\ faults' \in 0..MaxFaults
    BY <1>17, CrashGoes, TypeParts, SettingsAssumption DEF Crash
  <2> QED
    BY <1>17, <2>1, CrashGoes, TypeParts DEF Crash, TypeInv, TypeOK
<1>18. ASSUME NEW c \in Calls, TaskDies(c) PROVE TypeInv'
  <2>1. faults' \in 0..MaxFaults
    BY <1>18, TypeParts, SettingsAssumption DEF TaskDies
  <2> QED
    BY <1>18, <2>1, ReturnGoes, OnlyGoes, Everyone DEF TaskDies
<1>19. ASSUME UNCHANGED vars PROVE TypeInv'
  BY <1>19 DEF vars, TypeInv, TypeOK
<1> QED
  BY <1>1, <1>2, <1>3, <1>4, <1>5, <1>6, <1>7, <1>8, <1>9, <1>10, <1>11, <1>12, <1>13,
     <1>14, <1>15, <1>16, <1>17, <1>18, <1>19
     DEF Next, TaskStep, ActorStep

\* Rows, objects and actors keep their types, with overruns and without.
THEOREM TypeCorrect == Spec => []TypeOK
<1>1. TypeInv => TypeOK
  BY DEF TypeInv
<1> QED
  BY <1>1, TypeInit, TypeStep, PTL DEF Spec

-------------------------------------------------------------------------------
(* Without overruns: who works on a row finds it as it was.                  *)

\* A task that has not landed its call is alone with it, and is gone before the
\* cutoff; the stale sweep therefore only lands calls that nobody works on.
TasksInTime ==
  /\ \A c \in Calls :
       /\ proc[c].pc \in {"upload", "land", "commit"} => row[c].status = "processing"
       /\ row[c].status = "processing" /\ old[c] => proc[c].pc = "over"
  /\ proc[MainLoop].pc = "stale_commit" =>
       row[proc[MainLoop].call].status = "processing" /\ old[proc[MainLoop].call]

\* An actor between two statements on a terminal row holds up its window.
BusyIsFresh ==
  \A c \in Calls : \A a \in Actors :
    /\ proc[a].call = c
    /\ proc[a].pc \in {"commit", "stale_commit", "dispatch", "post", "posted"}
    => row[c].status = "processing" \/ ~old[c]

\* The object is there before the row that names it lands.
StoredFirst ==
  \A c \in Calls :
    /\ proc[c].pc = "upload" => ~object[c]
    /\ proc[c].pc \in {"land", "commit"} /\ proc[c].outcome # "upload_failed" => object[c]
    /\ row[c].status = "processing" => ~row[c].url

\* What an actor of retention has selected or claimed may go: its window is over
\* and its row still names it, or its object is gone.
DueKept ==
  \A a \in Actors, c \in Calls :
    /\ c \in proc[a].todo \/ (proc[a].pc \in {"delete", "null"} /\ proc[a].call = c)
         => row[c].status # "processing" /\ (object[c] => Due(c) /\ row[c].url)
    /\ proc[a].pc = "null" /\ proc[a].call = c => ~object[c]

Settled ==
  ~Overrun /\ TasksInTime /\ BusyIsFresh /\ StoredFirst /\ DueKept
  /\ DanglingUrlHeals /\ ObjectNamed

LEMMA SettledInit == Init /\ ~Overrun => Settled
BY Everyone DEF Init, Settled, TasksInTime, BusyIsFresh, StoredFirst, DueKept,
     DanglingUrlHeals, ObjectNamed, Terminal, TERMINAL_STATUSES, Fresh

\* Where an actor may go while the rows and the objects stay as they are.
Allowed(a) ==
  /\ proc'[a].pc = "upload" => proc[a].pc = "upload"
  /\ proc'[a].pc \in {"land", "commit"} =>
       proc[a].pc \in {"land", "commit"} /\ proc'[a].outcome = proc[a].outcome
  /\ a \in Calls /\ proc[a].pc = "over" => proc'[a].pc = "over"
  /\ proc'[a].pc = "stale_commit" =>
       row[proc'[a].call].status = "processing" /\ old[proc'[a].call]
  /\ proc'[a].pc \in {"commit", "stale_commit", "dispatch", "post", "posted"} =>
       \/ row[proc'[a].call].status = "processing"
       \/ /\ proc[a].pc \in {"commit", "stale_commit", "dispatch", "post", "posted"}
          /\ proc'[a].call = proc[a].call
  /\ \A c \in Calls : c \in proc'[a].todo => c \in proc[a].todo \/ Expired(c)
  /\ proc'[a].pc = "delete" =>
       \/ proc'[a].call \in proc[a].todo
       \/ proc[a].pc = "delete" /\ proc'[a].call = proc[a].call
  /\ proc'[a].pc = "null" => proc[a].pc = "null" /\ proc'[a].call = proc[a].call

LEMMA StandingIsAllowed ==
  ASSUME Settled, NEW a \in Actors, Fits(proc[a], a), proc'[a] = proc[a]
  PROVE  Allowed(a)
BY DEF Settled, TasksInTime, Allowed, Fits

LEMMA AllowedKeeps ==
  ASSUME TypeInv, Settled, UNCHANGED <<keepDone, row, object, old>>,
         \A a \in Actors : Allowed(a)
  PROVE  Settled'
<1>1. TasksInTime'
  BY Everyone DEF Settled, TasksInTime, Allowed
<1>2. BusyIsFresh'
  BY DEF Settled, BusyIsFresh, Allowed
<1>3. StoredFirst'
  BY Everyone DEF Settled, StoredFirst, Allowed
<1>4. DueKept'
  BY DEF Settled, DueKept, Allowed, Due, Expired
<1>5. DanglingUrlHeals' /\ ObjectNamed'
  BY DEF Settled, DanglingUrlHeals, ObjectNamed, Expired, Terminal
<1> QED
  BY <1>1, <1>2, <1>3, <1>4, <1>5 DEF Settled

LEMMA GoingKeeps ==
  ASSUME TypeInv, Settled, NEW a \in Actors, NEW new, Goes(a, new), Allowed(a),
         UNCHANGED <<keepDone, row, object, old>>
  PROVE  Settled'
<1>1. \A b \in Actors : Allowed(b)
  BY OthersStay, StandingIsAllowed, TypeParts
<1> QED
  BY <1>1, AllowedKeeps

LEMMA UploadKeeps ==
  ASSUME TypeInv, Settled, NEW c \in Calls, Upload(c)
  PROVE  Settled'
<1>1. PICK new : /\ Goes(c, new)
                 /\ new.pc = "land" /\ new.todo = proc[c].todo
                 /\ \E left \in BOOLEAN :
                      /\ object' = [object EXCEPT ![c] = left]
                      /\ new.outcome # "upload_failed" => left
  BY UploadGoes
<1>2. proc'[c] = new /\ \A b \in Actors \ {c} : proc'[b] = proc[b]
  BY <1>1, OthersStay, Everyone
<1>3. /\ \A b \in Calls \ {c} : object'[b] = object[b]
      /\ new.outcome # "upload_failed" => object'[c]
  BY <1>1, TypeParts
<1>4. proc[c].pc = "upload" /\ UNCHANGED <<keepDone, row, old>>
  BY DEF Upload
<1>5. row[c].status = "processing"
  BY <1>4 DEF Settled, TasksInTime
<1>6. TasksInTime'
  BY <1>1, <1>2, <1>4, <1>5, Everyone DEF Settled, TasksInTime
<1>7. BusyIsFresh'
  BY <1>1, <1>2, <1>4 DEF Settled, BusyIsFresh
<1>8. StoredFirst'
  BY <1>1, <1>2, <1>3, <1>4, <1>5, Everyone DEF Settled, StoredFirst
<1>9. DueKept'
  BY <1>1, <1>2, <1>3, <1>4, <1>5 DEF Settled, DueKept, Due
<1>10. DanglingUrlHeals' /\ ObjectNamed'
  BY <1>3, <1>4, <1>5 DEF Settled, DanglingUrlHeals, ObjectNamed, StoredFirst, Expired,
       Terminal, TERMINAL_STATUSES
<1> QED
  BY <1>6, <1>7, <1>8, <1>9, <1>10 DEF Settled

\* A landing, by the task or by the stale sweep, of a call in processing.
LEMMA LandingKeeps ==
  ASSUME TypeInv, Settled, NEW c \in Calls, NEW o \in Outcomes \cup {"stale_call"},
         NEW u \in BOOLEAN, Land(c, o, u), row[c].status = "processing",
         NEW a \in Actors, NEW new, Goes(a, new), UNCHANGED <<keepDone, object>>,
         new.pc = "dispatch", new.call = c, new.todo = proc[a].todo,
         (u <=> o \in {"done", "transcription_failed"}), u => object[c],
         \A b \in Calls \ {a} : b = c => proc[b].pc \notin {"upload", "land", "commit"},
         a # MainLoop => (proc[MainLoop].pc = "stale_commit" => proc[MainLoop].call # c)
  PROVE  Settled'
<1>1. proc'[a] = new /\ \A b \in Actors \ {a} : proc'[b] = proc[b]
  BY OthersStay
<1>2. /\ row'[c].status = (IF o = "done" THEN "done" ELSE "failed") /\ ~old'[c]
      /\ o # "done" => row'[c].reason = o
      /\ (row'[c].url <=> row[c].url \/ u)
      /\ \A b \in Calls \ {c} : row'[b] = row[b] /\ old'[b] = old[b]
  BY LandIsTyped
<1>3. ~row[c].url
  BY DEF Settled, StoredFirst
<1>4. TasksInTime'
  <2>1. \A b \in Calls : proc'[b].pc \in {"upload", "land", "commit"}
                           => b # c /\ proc[b].pc \in {"upload", "land", "commit"}
    BY <1>1, Everyone
  <2>2. \A b \in Calls : proc[b].pc = "over" /\ b # c => proc'[b].pc = "over"
    BY <1>1, TypeParts, Everyone DEF Goes, Fits
  <2>3. proc'[MainLoop].pc = "stale_commit" =>
          /\ proc[MainLoop].pc = "stale_commit"
          /\ proc'[MainLoop].call = proc[MainLoop].call
          /\ proc[MainLoop].call \in Calls \ {c}
    BY <1>1, TypeParts, Everyone DEF Fits
  <2> QED
    BY <1>2, <2>1, <2>2, <2>3 DEF Settled, TasksInTime
<1>5. BusyIsFresh'
  BY <1>1, <1>2 DEF Settled, BusyIsFresh
<1>6. StoredFirst'
  BY <1>1, <1>2, Everyone DEF Settled, StoredFirst
<1>7. DueKept'
  BY <1>1, <1>2 DEF Settled, DueKept, Due
<1>8. DanglingUrlHeals'
  BY <1>2, <1>3 DEF Settled, DanglingUrlHeals, Expired
<1>9. ObjectNamed'
  BY <1>2, <1>3 DEF Settled, ObjectNamed, Terminal, TERMINAL_STATUSES, Outcomes
<1> QED
  BY <1>4, <1>5, <1>6, <1>7, <1>8, <1>9 DEF Settled

LEMMA CommitRowKeeps ==
  ASSUME TypeInv, Settled, NEW c \in Calls, CommitRow(c)
  PROVE  Settled'
<1> DEFINE o == proc[c].outcome
           u == o # "upload_failed"
<1>1. proc[c].pc = "commit" /\ UNCHANGED <<keepDone, object>>
  BY DEF CommitRow
<1>2. /\ o \in Outcomes /\ Land(c, o, u)
      /\ \E new : /\ Goes(c, new) /\ new.pc = "dispatch"
                  /\ new.call = c /\ new.todo = proc[c].todo
  BY CommitRowGoes
<1>3. row[c].status = "processing" /\ (u => object[c])
  BY <1>1 DEF Settled, TasksInTime, StoredFirst
<1>4. proc[MainLoop].pc = "stale_commit" => proc[MainLoop].call # c
  BY <1>1, <1>3 DEF Settled, TasksInTime
<1>5. u \in BOOLEAN /\ (u <=> o \in {"done", "transcription_failed"})
  BY <1>2 DEF Outcomes
<1> HIDE DEF o, u
<1> QED
  BY <1>1, <1>2, <1>3, <1>4, <1>5, LandingKeeps, Everyone

LEMMA StaleCommitKeeps ==
  ASSUME TypeInv, Settled, StaleCommit
  PROVE  Settled'
<1> DEFINE c == proc[MainLoop].call
<1>1. /\ c \in Calls /\ Land(c, "stale_call", FALSE)
      /\ \E new : /\ Goes(MainLoop, new) /\ new.pc = "dispatch"
                  /\ new.call = c /\ new.todo = proc[MainLoop].todo
  BY StaleCommitGoes
<1>2. proc[MainLoop].pc = "stale_commit" /\ UNCHANGED <<keepDone, object>>
  BY DEF StaleCommit
<1>3. row[c].status = "processing" /\ proc[c].pc = "over"
  BY <1>1, <1>2 DEF Settled, TasksInTime
<1>4. \A b \in Calls \ {MainLoop} : b = c => proc[b].pc \notin {"upload", "land", "commit"}
  BY <1>3
<1>5. /\ (FALSE <=> "stale_call" \in {"done", "transcription_failed"})
      /\ "stale_call" \in Outcomes \cup {"stale_call"} /\ FALSE \in BOOLEAN
  OBVIOUS
<1> HIDE DEF c
<1> QED
  BY <1>1, <1>2, <1>3, <1>4, <1>5, LandingKeeps, Everyone

LEMMA CommitHookKeeps ==
  ASSUME TypeInv, Settled, NEW a \in Actors, CommitHook(a)
  PROVE  Settled'
<1> DEFINE c == proc[a].call
<1>1. PICK new : /\ Goes(a, new) /\ new.pc \in {"select", "idle", "over"}
                 /\ a \in Calls => new.pc # "idle"
                 /\ new.todo \in {proc[a].todo, {}}
  BY CommitHookGoes
<1>2. proc'[a] = new /\ \A b \in Actors \ {a} : proc'[b] = proc[b]
  BY <1>1, OthersStay
<1>3. /\ c \in Calls
      /\ \A b \in Calls : /\ row'[b].status = row[b].status
                          /\ row'[b].reason = row[b].reason
                          /\ row'[b].url = row[b].url
                          /\ (old'[b] <=> old[b] /\ b # c)
  BY CommitHookTyped
<1>4. /\ proc[a].pc = "posted" /\ UNCHANGED <<keepDone, object>>
      /\ a \in Calls => c = a
  BY TypeParts DEF CommitHook, Fits
<1>5. c = proc[a].call /\ (row[c].status = "processing" \/ ~old[c])
  BY <1>3, <1>4 DEF Settled, BusyIsFresh
<1> HIDE DEF c
<1>6. \A b \in Calls : Due(b) => Due(b)'
  BY <1>3, <1>4, <1>5 DEF Due
<1>7. TasksInTime'
  <2>1. ASSUME proc'[MainLoop].pc = "stale_commit"
        PROVE  row'[proc'[MainLoop].call].status = "processing" /\ old'[proc'[MainLoop].call]
    <3>1. a # MainLoop /\ proc[MainLoop].pc = "stale_commit"
          /\ proc'[MainLoop].call = proc[MainLoop].call
      BY <1>1, <1>2, <2>1, Everyone
    <3>2. a \in Calls /\ c = a
      BY <1>4, <3>1 DEF Actors
    <3>3. proc[proc[MainLoop].call].pc = "over" /\ proc[MainLoop].call \in Calls
          /\ row[proc[MainLoop].call].status = "processing" /\ old[proc[MainLoop].call]
      BY <3>1, TypeParts, Everyone DEF Settled, TasksInTime, Fits
    <3> QED
      BY <1>3, <1>4, <3>1, <3>2, <3>3
  <2> QED
    BY <1>1, <1>2, <1>3, <1>4, <2>1, Everyone DEF Settled, TasksInTime
<1>8. BusyIsFresh'
  BY <1>1, <1>2, <1>3 DEF Settled, BusyIsFresh
<1>9. StoredFirst'
  BY <1>1, <1>2, <1>3, <1>4, Everyone DEF Settled, StoredFirst
<1>10. DueKept'
  BY <1>1, <1>2, <1>3, <1>4, <1>6 DEF Settled, DueKept
<1>11. DanglingUrlHeals' /\ ObjectNamed'
  BY <1>3, <1>4, <1>6 DEF Settled, DanglingUrlHeals, ObjectNamed, Expired, Due, Terminal
<1> QED
  BY <1>7, <1>8, <1>9, <1>10, <1>11 DEF Settled

LEMMA DeleteKeeps ==
  ASSUME TypeInv, Settled, NEW a \in Actors, DeleteObject(a)
  PROVE  Settled'
<1> DEFINE c == proc[a].call
<1>1. c \in Calls /\ object' = [object EXCEPT ![c] = FALSE]
  BY DeleteGoes
<1>2. PICK new : /\ Goes(a, new) /\ new.pc = "null"
                 /\ new.call = c /\ new.todo = proc[a].todo
  BY DeleteGoes
<1>3. proc'[a] = new /\ \A b \in Actors \ {a} : proc'[b] = proc[b]
  BY <1>2, OthersStay
<1>4. proc[a].pc = "delete" /\ UNCHANGED <<keepDone, row, old>>
  BY DEF DeleteObject
<1>5. \A b \in Calls : (object'[b] <=> object[b] /\ b # c)
  BY <1>1, TypeParts
<1>6. c = proc[a].call /\ row[c].status # "processing" /\ (object[c] => Due(c))
  BY <1>1, <1>4 DEF Settled, DueKept
<1> HIDE DEF c
<1>7. TasksInTime'
  BY <1>2, <1>3, <1>4, Everyone DEF Settled, TasksInTime
<1>8. BusyIsFresh'
  BY <1>2, <1>3, <1>4 DEF Settled, BusyIsFresh
<1>9. StoredFirst'
  BY <1>2, <1>3, <1>4, <1>5, <1>6, Everyone DEF Settled, StoredFirst, TasksInTime
<1>10. DueKept'
  BY <1>2, <1>3, <1>4, <1>5, <1>6 DEF Settled, DueKept, Due
<1>11. DanglingUrlHeals' /\ ObjectNamed'
  BY <1>4, <1>5, <1>6 DEF Settled, DanglingUrlHeals, ObjectNamed, Expired, Due, Terminal
<1> QED
  BY <1>7, <1>8, <1>9, <1>10, <1>11 DEF Settled

LEMMA NullUrlKeeps ==
  ASSUME TypeInv, Settled, NEW a \in Actors, NullUrl(a)
  PROVE  Settled'
<1> DEFINE c == proc[a].call
<1>1. PICK new : Goes(a, new) /\ new.pc = "reclaim" /\ new.todo = proc[a].todo
  BY DeletionGoes
<1>2. proc'[a] = new /\ \A b \in Actors \ {a} : proc'[b] = proc[b]
  BY <1>1, OthersStay
<1>3. /\ c \in Calls
      /\ \A b \in Calls : /\ row'[b].status = row[b].status
                          /\ row'[b].reason = row[b].reason
                          /\ (row'[b].url <=> row[b].url /\ b # c)
                          /\ (old'[b] <=> old[b] /\ b # c)
  BY NullUrlTyped
<1>4. proc[a].pc = "null" /\ UNCHANGED <<keepDone, object>>
  BY DEF NullUrl
<1>5. c = proc[a].call /\ ~object[c] /\ row[c].status # "processing"
  BY <1>3, <1>4 DEF Settled, DueKept
<1> HIDE DEF c
<1>6. TasksInTime'
  <2>1. proc'[MainLoop].pc = "stale_commit" =>
          /\ proc[MainLoop].pc = "stale_commit" /\ proc[MainLoop].call \in Calls
          /\ proc'[MainLoop].call = proc[MainLoop].call
    BY <1>1, <1>2, TypeParts, Everyone DEF Fits
  <2> QED
    BY <1>1, <1>2, <1>3, <1>4, <1>5, <2>1, Everyone DEF Settled, TasksInTime
<1>7. BusyIsFresh'
  BY <1>1, <1>2, <1>3 DEF Settled, BusyIsFresh
<1>8. StoredFirst'
  BY <1>1, <1>2, <1>3, <1>4, Everyone DEF Settled, StoredFirst
<1>9. DueKept'
  BY <1>1, <1>2, <1>3, <1>4, <1>5 DEF Settled, DueKept, Due
<1>10. DanglingUrlHeals' /\ ObjectNamed'
  BY <1>3, <1>4, <1>5 DEF Settled, DanglingUrlHeals, ObjectNamed, Expired, Terminal
<1> QED
  BY <1>6, <1>7, <1>8, <1>9, <1>10 DEF Settled

LEMMA AgeKeeps ==
  ASSUME TypeInv, Settled, NEW c \in Calls, Age(c)
  PROVE  Settled'
<1>1. /\ UNCHANGED <<keepDone, row, object, proc>>
      /\ IF Terminal(c) THEN ~Busy(c) ELSE Overrun \/ proc[c].pc = "over"
  BY DEF Age
<1>2. \A b \in Calls : (old'[b] <=> old[b] \/ b = c)
  BY TypeParts DEF Age
<1>3. \A b \in Calls : Due(b) => Due(b)'
  BY <1>1, <1>2 DEF Due
<1>4. row[c].status \in {"processing", "done", "failed"}
  BY TypeParts DEF Rows
<1>5. TasksInTime'
  <2>1. proc[MainLoop].pc = "stale_commit" => proc[MainLoop].call \in Calls
    BY TypeParts, Everyone DEF Fits
  <2> QED
    BY <1>1, <1>2, <1>4, <2>1 DEF Settled, TasksInTime, Terminal, TERMINAL_STATUSES
<1>6. BusyIsFresh'
  BY <1>1, <1>2, <1>4 DEF Settled, BusyIsFresh, Busy, Terminal, TERMINAL_STATUSES
<1>7. StoredFirst'
  BY <1>1 DEF Settled, StoredFirst
<1>8. DueKept'
  BY <1>1, <1>3 DEF Settled, DueKept
<1>9. DanglingUrlHeals' /\ ObjectNamed'
  BY <1>1, <1>3 DEF Settled, DanglingUrlHeals, ObjectNamed, Expired, Due, Terminal
<1> QED
  BY <1>5, <1>6, <1>7, <1>8, <1>9 DEF Settled

LEMMA SettledStep == ASSUME TypeInv, Settled, [Next]_vars PROVE Settled'
<1>1. ASSUME NEW c \in Calls, ReadRow(c) PROVE Settled'
  <2>1. PICK new : /\ Goes(c, new)
                   /\ \/ /\ new.pc = "commit" /\ new.todo = proc[c].todo
                         /\ new.outcome = proc[c].outcome
                      \/ new.pc = "over" /\ new.todo = {}
    BY <1>1, ReadRowGoes
  <2>2. /\ proc[c].pc = "land" /\ row[c].status = "processing"
        /\ UNCHANGED <<keepDone, row, object, old>>
    BY <1>1 DEF ReadRow, Settled, TasksInTime
  <2>3. new.pc = "commit" => new.call = c
    BY <2>1 DEF Goes, Fits
  <2>4. Allowed(c)
    BY <2>1, <2>2, <2>3, OthersStay, Everyone DEF Allowed
  <2> QED
    BY <2>1, <2>2, <2>4, GoingKeeps, Everyone
<1>2. ASSUME NEW a \in Actors, ReadHook(a) PROVE Settled'
  <2>1. PICK new : /\ Goes(a, new)
                   /\ \/ new.pc = "post" /\ new.call = proc[a].call
                      \/ new.pc \in {"select", "idle", "over"}
                   /\ a \in Calls => new.pc # "idle"
                   /\ new.todo \in {proc[a].todo, {}}
    BY <1>2, ReadHookGoes
  <2>2. proc[a].pc = "dispatch" /\ UNCHANGED <<keepDone, row, object, old>>
    BY <1>2 DEF ReadHook
  <2>3. Allowed(a)
    BY <2>1, <2>2, OthersStay DEF Allowed
  <2> QED
    BY <2>1, <2>2, <2>3, GoingKeeps
<1>3. ASSUME NEW a \in Actors, Post(a) PROVE Settled'
  <2>1. /\ proc[a].pc = "post" /\ At(a, "posted")
        /\ UNCHANGED <<keepDone, row, object, old>>
    BY <1>3 DEF Post
  <2>2. PICK new : /\ Goes(a, new) /\ new.pc = "posted"
                   /\ new.call = proc[a].call /\ new.todo = proc[a].todo
    BY <2>1, StayGoes
  <2>3. Allowed(a)
    BY <2>1, <2>2, OthersStay DEF Allowed
  <2> QED
    BY <2>1, <2>2, <2>3, GoingKeeps
<1>4. ASSUME NEW c \in Calls, StaleRow(c) PROVE Settled'
  <2>1. PICK new : /\ Goes(MainLoop, new) /\ new.pc = "stale_commit"
                   /\ new.call = c /\ new.todo = proc[MainLoop].todo
    BY <1>4, StaleRowGoes
  <2>2. /\ row[c].status = "processing" /\ old[c] /\ proc[MainLoop].pc = "idle"
        /\ UNCHANGED <<keepDone, row, object, old>>
    BY <1>4 DEF StaleRow
  <2>3. Allowed(MainLoop)
    BY <2>1, <2>2, OthersStay, Everyone DEF Allowed
  <2> QED
    BY <2>1, <2>2, <2>3, GoingKeeps, Everyone
<1>5. ASSUME RetentionTick PROVE Settled'
  <2>1. PICK new : /\ Goes(MainLoop, new) /\ new.pc = "select"
                   /\ new.todo = proc[MainLoop].todo
    BY <1>5, TickGoes
  <2>2. UNCHANGED <<keepDone, row, object, old>>
    BY <1>5 DEF RetentionTick
  <2>3. Allowed(MainLoop)
    BY <2>1, OthersStay, Everyone DEF Allowed
  <2> QED
    BY <2>1, <2>2, <2>3, GoingKeeps, Everyone
<1>6. ASSUME NEW a \in Actors, Select(a) PROVE Settled'
  <2>1. PICK new : /\ Goes(a, new) /\ new.pc = "reclaim"
                   /\ \A c \in new.todo : c \in Calls /\ Expired(c)
    BY <1>6, SelectGoes
  <2>2. proc[a].pc = "select" /\ UNCHANGED <<keepDone, row, object, old>>
    BY <1>6 DEF Select
  <2>3. Allowed(a)
    BY <2>1, <2>2, OthersStay DEF Allowed
  <2> QED
    BY <2>1, <2>2, <2>3, GoingKeeps
<1>7. ASSUME NEW a \in Actors, Reclaim(a) PROVE Settled'
  <2>1. PICK new : /\ Goes(a, new) /\ new.todo \subseteq proc[a].todo
                   /\ \/ new.pc = "reclaim"
                      \/ new.pc = "delete" /\ new.call \in proc[a].todo
    BY <1>7, ReclaimGoes
  <2>2. proc[a].pc = "reclaim" /\ UNCHANGED <<keepDone, row, object, old>>
    BY <1>7 DEF Reclaim
  <2>3. Allowed(a)
    BY <2>1, <2>2, OthersStay DEF Allowed
  <2> QED
    BY <2>1, <2>2, <2>3, GoingKeeps
<1>8. ASSUME NEW a \in Actors, RollBack(a) PROVE Settled'
  <2>1. PICK new : Goes(a, new) /\ new.pc = "reclaim" /\ new.todo = proc[a].todo
    BY <1>8, DeletionGoes
  <2>2. proc[a].pc \in {"delete", "null"} /\ UNCHANGED <<keepDone, row, object, old>>
    BY <1>8 DEF RollBack
  <2>3. Allowed(a)
    BY <2>1, <2>2, OthersStay DEF Allowed
  <2> QED
    BY <2>1, <2>2, <2>3, GoingKeeps
<1>9. ASSUME NEW a \in Actors, proc' = [proc EXCEPT ![a] = Finished(a)],
             UNCHANGED <<keepDone, row, object, old>>
      PROVE  Settled'
  <2>1. PICK new : /\ Goes(a, new) /\ new.pc \in {"idle", "over"} /\ new.todo = {}
                   /\ a \in Calls => new.pc = "over"
    BY <1>9, ReturnGoes
  <2>2. Allowed(a)
    BY <2>1, OthersStay DEF Allowed
  <2> QED
    BY <1>9, <2>1, <2>2, GoingKeeps
<1>10. ASSUME NEW a \in Actors, SweepDone(a) PROVE Settled'
  BY <1>9, <1>10 DEF SweepDone
<1>11. ASSUME NEW c \in Calls, TaskDies(c) PROVE Settled'
  BY <1>9, <1>11, Everyone DEF TaskDies
<1>12. ASSUME Crash PROVE Settled'
  <2>1. \A a \in Actors : Allowed(a)
    BY <1>12, CrashGoes DEF Allowed
  <2> QED
    BY <1>12, <2>1, AllowedKeeps DEF Crash
<1>13. ASSUME UNCHANGED vars PROVE Settled'
  <2>1. \A a \in Actors : Allowed(a)
    BY <1>13, StandingIsAllowed, TypeParts DEF vars
  <2> QED
    BY <1>13, <2>1, AllowedKeeps DEF vars
<1> QED
  BY <1>1, <1>2, <1>3, <1>4, <1>5, <1>6, <1>7, <1>8, <1>10, <1>11, <1>12, <1>13,
     UploadKeeps, CommitRowKeeps, StaleCommitKeeps, CommitHookKeeps, DeleteKeeps,
     NullUrlKeeps, AgeKeeps DEF Next, TaskStep, ActorStep

\* Without overruns, what a call that has ended left in the bucket is named by
\* its row, but for what a failed upload or a lost task left there.
THEOREM ObjectsAreNamed == Spec /\ ~Overrun => []ObjectNamed
<1>1. Settled => ObjectNamed
  BY DEF Settled
<1> QED
  BY <1>1, TypeInit, TypeStep, SettledInit, SettledStep, PTL DEF Spec

\* Without overruns, a row that names a deleted object is selected again.
THEOREM DanglingIsFound == Spec /\ ~Overrun => []DanglingUrlHeals
<1>1. Settled => DanglingUrlHeals
  BY DEF Settled
<1> QED
  BY <1>1, TypeInit, TypeStep, SettledInit, SettledStep, PTL DEF Spec

\* README.md, "How long audio is kept": without overruns no object is deleted
\* before the window of its row's status, although retention selects in one
\* transaction and deletes in another.
THEOREM WindowIsKept == Spec /\ ~Overrun => WindowKept
<1>1. ASSUME TypeInv, Settled, [Next]_vars
      PROVE  [\A c \in Calls : object[c] /\ ~object'[c] =>
                \/ row[c].status = "done" /\ (keepDone => old[c])
                \/ row[c].status = "failed" /\ old[c]]_vars
  <2> SUFFICES ASSUME Next, NEW c \in Calls, object[c], ~object'[c] PROVE Due(c)
    BY <1>1 DEF Due
  <2>1. ASSUME NEW b \in Calls, Upload(b) PROVE FALSE
    <3>1. proc[b].pc = "upload"
      BY <2>1 DEF Upload
    <3>2. ~object[b] /\ \A d \in Calls \ {b} : object'[d] = object[d]
      BY <1>1, <2>1, <3>1, UploadGoes, TypeParts DEF Settled, StoredFirst
    <3> QED
      BY <3>2
  <2>2. ASSUME NEW a \in Actors, DeleteObject(a) PROVE Due(c)
    <3>1. proc[a].pc = "delete" /\ object' = [object EXCEPT ![proc[a].call] = FALSE]
      BY <2>2 DEF DeleteObject
    <3>2. proc[a].call = c
      BY <1>1, <3>1, TypeParts
    <3> QED
      BY <1>1, <3>1, <3>2 DEF Settled, DueKept
  <2> QED
    BY <2>1, <2>2 DEF Next, TaskStep, ActorStep, ReadRow, CommitRow, ReadHook, Post,
         CommitHook, StaleRow, StaleCommit, RetentionTick, Select, Reclaim, NullUrl,
         RollBack, SweepDone, Age, Crash, TaskDies
<1> QED
  BY <1>1, TypeInit, TypeStep, SettledInit, SettledStep, PTL DEF Spec, WindowKept
-------------------------------------------------------------------------------
(* Rows and objects as the promise sees them.                                *)

\* The row and the object of a call look as before.
Same(c) == /\ row'[c].status = row[c].status /\ row'[c].url = row[c].url
           /\ object'[c] = object[c]

\* A step of the promise, or none, for one call.
Stored(c) == /\ row[c].status = "processing" /\ ~object[c] /\ object'[c]
             /\ row'[c].status = row[c].status /\ row'[c].url = row[c].url

Ended(c) == /\ row[c].status = "processing" /\ row'[c].status \in {"done", "failed"}
            /\ row'[c].status = "done" => row'[c].url
            /\ row'[c].url => object[c]
            /\ object'[c] = object[c]

Deleted(c) == /\ row[c].status \in {"done", "failed"}
              /\ row[c].url /\ object[c] /\ Due(c) /\ ~object'[c]
              /\ row'[c].status = row[c].status /\ row'[c].url = row[c].url

Forgotten(c) == /\ row[c].url /\ ~object[c] /\ ~row'[c].url
                /\ row'[c].status = row[c].status /\ object'[c] = object[c]

Keeps(c) == Same(c) \/ Stored(c) \/ Ended(c) \/ Deleted(c) \/ Forgotten(c)

\* What a step of retention or of a task shows of the calls.
OnlyOne ==
  \/ \A b \in Calls : Same(b)
  \/ \E c \in Calls : Keeps(c) /\ \A b \in Calls \ {c} : Same(b)

LEMMA UploadShows ==
  ASSUME TypeInv, Settled, NEW c \in Calls, Upload(c)
  PROVE  OnlyOne
<1>1. PICK left \in BOOLEAN : object' = [object EXCEPT ![c] = left]
  BY DEF Upload
<1>2. proc[c].pc = "upload" /\ row' = row
  BY DEF Upload
<1>3. row[c].status = "processing" /\ ~object[c]
  BY <1>2 DEF Settled, TasksInTime, StoredFirst
<1>4. object'[c] = left /\ object[c] = FALSE /\ \A b \in Calls \ {c} : object'[b] = object[b]
  BY <1>1, <1>3, TypeParts
<1> QED
  BY <1>2, <1>3, <1>4 DEF OnlyOne, Keeps, Same, Stored

LEMMA LandingShows ==
  ASSUME TypeInv, Settled, NEW c \in Calls, NEW o \in Outcomes \cup {"stale_call"},
         NEW u \in BOOLEAN, Land(c, o, u), row[c].status = "processing", object' = object,
         o = "done" => u, u => object[c]
  PROVE  OnlyOne
<1>1. /\ row'[c].status = (IF o = "done" THEN "done" ELSE "failed")
      /\ (row'[c].url <=> row[c].url \/ u)
      /\ \A b \in Calls \ {c} : row'[b] = row[b]
  BY LandIsTyped
<1>2. ~row[c].url
  BY DEF Settled, StoredFirst
<1>3. Ended(c)
  BY <1>1, <1>2 DEF Ended
<1> QED
  BY <1>1, <1>3 DEF OnlyOne, Keeps, Same

LEMMA DeletionShows ==
  ASSUME TypeInv, Settled, NEW a \in Actors, DeleteObject(a)
  PROVE  OnlyOne
<1> DEFINE c == proc[a].call
<1>1. c \in Calls /\ object' = [object EXCEPT ![c] = FALSE]
  BY DeleteGoes
<1>2. proc[a].pc = "delete" /\ row' = row
  BY DEF DeleteObject
<1>3. row[c].status # "processing" /\ (object[c] => Due(c) /\ row[c].url)
  BY <1>1, <1>2 DEF Settled, DueKept
<1> HIDE DEF c
<1>4. row[c].status \in {"done", "failed"}
  BY <1>1, <1>3, TypeParts DEF Rows
<1>5. object'[c] = FALSE /\ \A b \in Calls \ {c} : object'[b] = object[b]
  BY <1>1, TypeParts
<1>6. CASE object[c]
  <2>1. Deleted(c)
    BY <1>2, <1>3, <1>4, <1>5, <1>6 DEF Deleted
  <2> QED
    BY <1>1, <1>2, <1>5, <2>1 DEF OnlyOne, Keeps, Same
<1>7. CASE ~object[c]
  <2>1. object[c] = FALSE
    BY <1>1, <1>7, TypeParts
  <2> QED
    BY <1>2, <1>5, <2>1 DEF OnlyOne, Same
<1> QED
  BY <1>6, <1>7

LEMMA NullUrlShows ==
  ASSUME TypeInv, Settled, NEW a \in Actors, NullUrl(a)
  PROVE  OnlyOne
<1> DEFINE c == proc[a].call
<1>1. /\ c \in Calls /\ row' \in [Calls -> Rows]
      /\ \A b \in Calls : /\ row'[b].status = row[b].status
                          /\ (row'[b].url <=> row[b].url /\ b # c)
  BY NullUrlTyped
<1>2. proc[a].pc = "null" /\ object' = object
  BY DEF NullUrl
<1>3. ~object[c]
  BY <1>1, <1>2 DEF Settled, DueKept
<1> HIDE DEF c
<1>4. \A b \in Calls : row[b].url \in BOOLEAN /\ row'[b].url \in BOOLEAN
  BY <1>1, TypeParts DEF Rows
<1>5. \A b \in Calls \ {c} : Same(b)
  BY <1>1, <1>2, <1>4 DEF Same
<1>6. CASE row[c].url
  BY <1>1, <1>2, <1>3, <1>5, <1>6 DEF OnlyOne, Keeps, Forgotten
<1>7. CASE ~row[c].url
  <2>1. Same(c)
    BY <1>1, <1>2, <1>4, <1>7 DEF Same
  <2> QED
    BY <1>5, <2>1 DEF OnlyOne
<1> QED
  BY <1>6, <1>7

LEMMA StepShows == ASSUME TypeInv, Settled, [Next]_vars PROVE OnlyOne
<1>1. ASSUME NEW c \in Calls, CommitRow(c) PROVE OnlyOne
  <2>1. /\ proc[c].outcome \in Outcomes
        /\ Land(c, proc[c].outcome, proc[c].outcome # "upload_failed")
    BY <1>1, CommitRowGoes
  <2>2. proc[c].pc = "commit" /\ object' = object
    BY <1>1 DEF CommitRow
  <2>3. row[c].status = "processing" /\ (proc[c].outcome # "upload_failed" => object[c])
    BY <2>2 DEF Settled, TasksInTime, StoredFirst
  <2> QED
    BY <2>1, <2>2, <2>3, LandingShows
<1>2. ASSUME StaleCommit PROVE OnlyOne
  <2> DEFINE c == proc[MainLoop].call
  <2>1. c \in Calls /\ Land(c, "stale_call", FALSE)
    BY <1>2, StaleCommitGoes
  <2>2. proc[MainLoop].pc = "stale_commit" /\ object' = object
    BY <1>2 DEF StaleCommit
  <2>3. row[c].status = "processing"
    BY <2>2 DEF Settled, TasksInTime
  <2>4. "stale_call" \in Outcomes \cup {"stale_call"} /\ FALSE \in BOOLEAN
    OBVIOUS
  <2> HIDE DEF c
  <2> QED
    BY <2>1, <2>2, <2>3, <2>4, LandingShows
<1>3. ASSUME NEW a \in Actors, CommitHook(a) PROVE OnlyOne
  BY <1>3, CommitHookTyped DEF CommitHook, OnlyOne, Same
<1>4. ASSUME row' = row, object' = object PROVE OnlyOne
  BY <1>4 DEF OnlyOne, Same
<1>5. ASSUME NEW c \in Calls, ReadRow(c) \/ StaleRow(c) \/ Age(c) \/ TaskDies(c)
      PROVE  OnlyOne
  BY <1>4, <1>5 DEF ReadRow, StaleRow, Age, TaskDies
<1>6. ASSUME NEW a \in Actors, ReadHook(a) \/ Post(a) \/ Select(a) \/ Reclaim(a)
                               \/ RollBack(a) \/ SweepDone(a)
      PROVE  OnlyOne
  BY <1>4, <1>6 DEF ReadHook, Post, Select, Reclaim, RollBack, SweepDone
<1>7. CASE RetentionTick \/ Crash \/ UNCHANGED vars
  BY <1>4, <1>7 DEF RetentionTick, Crash, vars
<1> QED
  BY <1>1, <1>2, <1>3, <1>5, <1>6, <1>7, UploadShows, DeletionShows, NullUrlShows
     DEF Next, TaskStep, ActorStep

\* What shows is a step of the promise.
LEMMA ShownIsPromised ==
  ASSUME TypeInv, TypeInv', OnlyOne
  PROVE  Promise!Next
<1> DEFINE status == [c \in Calls |-> row[c].status]
           named == [c \in Calls |-> row[c].url]
           due == [c \in Calls |-> Due(c)]
<1>1. due' \in [Calls -> BOOLEAN]
  BY DEF Due
<1>2. /\ object \in [Calls -> BOOLEAN] /\ object' \in [Calls -> BOOLEAN]
      /\ \A c \in Calls : row[c].url \in BOOLEAN /\ row'[c].url \in BOOLEAN
  BY DEF TypeInv, TypeOK, Rows
<1>3. Promise!TERMINAL_STATUSES = {"done", "failed"}
  BY DEF Promise!TERMINAL_STATUSES
<1>4. CASE \A b \in Calls : Same(b)
  <2>1. status' = status /\ named' = named
    BY <1>4 DEF Same
  <2>2. object' = object
    BY <1>2, <1>4 DEF Same
  <2> QED
    BY <1>1, <2>1, <2>2 DEF Promise!Next
<1>5. ASSUME NEW c \in Calls, Keeps(c), \A b \in Calls \ {c} : Same(b)
      PROVE  Promise!Next
  <2>1. /\ status' = [status EXCEPT ![c] = row'[c].status]
        /\ named' = [named EXCEPT ![c] = row'[c].url]
    BY <1>5 DEF Same
  <2>2. object' = [object EXCEPT ![c] = object'[c]]
    BY <1>2, <1>5 DEF Same
  <2>3. status[c] = row[c].status /\ named[c] = row[c].url /\ due[c] = Due(c)
    OBVIOUS
  <2>4. CASE Same(c)
    <3>1. \A b \in Calls : Same(b)
      BY <1>5, <2>4
    <3> QED
      BY <1>4, <3>1
  <2>5. CASE Stored(c)
    <3>1. status' = status /\ named' = named
      BY <1>5, <2>5 DEF Stored, Same
    <3>2. object' = [object EXCEPT ![c] = TRUE]
      BY <1>2, <2>2, <2>5 DEF Stored
    <3>3. Promise!Store(c)
      BY <2>3, <2>5, <3>1, <3>2 DEF Promise!Store, Stored
    <3> QED
      BY <1>1, <3>3 DEF Promise!Next
  <2>6. CASE Ended(c)
    <3>1. object' = object
      BY <1>2, <1>5, <2>6 DEF Ended, Same
    <3>2. Promise!End(c)
      BY <1>2, <1>3, <2>1, <2>3, <2>6, <3>1 DEF Promise!End, Ended
    <3> QED
      BY <1>1, <3>2 DEF Promise!Next
  <2>7. CASE Deleted(c)
    <3>1. status' = status /\ named' = named
      BY <1>5, <2>7 DEF Deleted, Same
    <3>2. object' = [object EXCEPT ![c] = FALSE]
      BY <1>2, <2>2, <2>7 DEF Deleted
    <3>3. Promise!Delete(c)
      BY <1>3, <2>3, <2>7, <3>1, <3>2 DEF Promise!Delete, Deleted
    <3> QED
      BY <1>1, <3>3 DEF Promise!Next
  <2>8. CASE Forgotten(c)
    <3>1. status' = status
      BY <1>5, <2>8 DEF Forgotten, Same
    <3>2. object' = object
      BY <1>2, <1>5, <2>8 DEF Forgotten, Same
    <3>3. named' = [named EXCEPT ![c] = FALSE]
      BY <1>2, <2>1, <2>8 DEF Forgotten
    <3>4. Promise!Forget(c)
      BY <2>3, <2>8, <3>1, <3>2, <3>3 DEF Promise!Forget, Forgotten
    <3> QED
      BY <1>1, <3>4 DEF Promise!Next
  <2> QED
    BY <1>5, <2>4, <2>5, <2>6, <2>7, <2>8 DEF Keeps
<1> QED
  BY <1>4, <1>5 DEF OnlyOne

\* README.md, "How long audio is kept": without overruns tasks, sweep, retention and
\* crashes together do to the audio of each call what the promise allows.
THEOREM PromiseImplemented == Spec /\ ~Overrun => ImplementsPromise
<1>1. TypeInv /\ Init => Promise!Init
  <2> SUFFICES ASSUME TypeInv, Init PROVE Promise!Init
    OBVIOUS
  <2>1. [c \in Calls |-> Due(c)] \in [Calls -> BOOLEAN]
    BY DEF Due
  <2> QED
    BY <2>1 DEF Init, Promise!Init
<1>2. TypeInv /\ TypeInv' /\ Settled /\ [Next]_vars => [Promise!Next]_(Promise!vars)
  BY StepShows, ShownIsPromised
<1> QED
  BY <1>1, <1>2, TypeInit, TypeStep, SettledInit, SettledStep, PTL
     DEF Spec, ImplementsPromise, Promise!Spec
===============================================================================
