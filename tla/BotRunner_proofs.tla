---------------------------- MODULE BotRunner_proofs ----------------------------
(***************************************************************************)
(* For any calls, limit and faults: done means stored and the last copy of *)
(* the audio is kept; with one runner, only unsupervised calls are         *)
(* orphans; and with no overrun and no bot that comes back late besides,   *)
(* the runner implements the life cycle of module CallLifecycle, so that   *)
(* receivers are told what lasts.                                          *)
(***************************************************************************)
EXTENDS BotRunner, TLAPS

-------------------------------------------------------------------------------
(* Types. *)

\* The loop that works on a call has one.
CallNamed ==
  \A r \in Runners :
    loop[r].pc \in {"orphan_commit", "orphan_kill", "stale_row", "stale_commit",
                    "dispatch", "post", "posted"} => loop[r].call \in Calls

TypeInv == TypeOK /\ CallNamed

LEMMA StatusesAre ==
  /\ CallStatuses = {"queued", "joining", "recording", "processing", "done", "failed"}
  /\ TERMINAL_STATUSES = {"done", "failed"}
  /\ \A s \in CallStatuses, t \in CallStatuses : Legal(s, t) => s \notin TERMINAL_STATUSES
  BY DEF CallStatuses, ACTIVE_STATUSES, TERMINAL_STATUSES, Legal, LEGAL_TRANSITIONS

\* A write leaves typed rows and ages.
LEMMA WriteTypes ==
  ASSUME TypeInv, NEW c \in Calls, NEW s \in CallStatuses, NEW why,
         s = "failed" => why \in Reasons, Write(c, s, why)
  PROVE  row' \in [Calls -> Rows] /\ old' \in [Calls -> BOOLEAN]
<1>1. row[c] \in Rows
  BY DEF TypeInv, TypeOK
<1> DEFINE new == [row[c] EXCEPT !.status = s, !.reason = IF s = "failed" THEN why ELSE @]
<1>2. new \in Rows
  BY <1>1 DEF Rows
<1>3. row' = [row EXCEPT ![c] = new] /\ old' = [old EXCEPT ![c] = FALSE]
  BY DEF Write
<1> HIDE DEF new
<1> QED BY <1>2, <1>3 DEF TypeInv, TypeOK

LEMMA TaskTypes ==
  ASSUME TypeInv, NEW c \in Calls, TaskStep(c) \/ TaskDies(c)
  PROVE  task' \in [Calls -> Tasks]
<1>1. task[c] \in Tasks /\ row[c] \in Rows
  BY DEF TypeInv, TypeOK
<1>2. row[c].status \in CallStatuses
  BY <1>1 DEF Rows
<1>3. Over \in Tasks
  BY DEF Over, NoTask, Tasks, TaskPcs, CallStatuses, ACTIVE_STATUSES
<1>4. \A p \in TaskPcs : [task[c] EXCEPT !.pc = p] \in Tasks
  BY <1>1 DEF Tasks
<1>5. \A p \in TaskPcs, o \in Outcomes : [task[c] EXCEPT !.pc = p, !.outcome = o] \in Tasks
  BY <1>1 DEF Tasks
<1>6. \A p \in TaskPcs : [task[c] EXCEPT !.fired = TRUE, !.pc = p] \in Tasks
  BY <1>1 DEF Tasks
<1>7. \A p \in TaskPcs : [task[c] EXCEPT !.pc = p, !.snap = row[c].status] \in Tasks
  BY <1>1, <1>2 DEF Tasks
<1>8. SUFFICES \E new \in Tasks : task' = [task EXCEPT ![c] = new]
  BY DEF TypeInv, TypeOK
<1>9. CASE CheckJoinable(c)
  BY <1>9, <1>3, <1>4 DEF CheckJoinable, TaskPcs
<1>10. CASE SpawnBot(c)
  BY <1>10, <1>4 DEF SpawnBot, TaskAt, TaskPcs
<1>11. CASE SeeRecording(c)
  BY <1>11, <1>6 DEF SeeRecording, TaskPcs
<1>12. CASE CommitRecording(c)
  BY <1>12, <1>4 DEF CommitRecording, TaskAt, TaskPcs
<1>13. CASE ReadExit(c)
  <2> DEFINE o == IF exit[c] = "clean" /\ row[c].status = "recording"
                 THEN "processing" ELSE "bot_exit"
  <2>1. o \in Outcomes /\ "commit" \in TaskPcs
    BY DEF Outcomes, TaskPcs
  <2>2. task' = [task EXCEPT ![c] = Over] \/ task' = [task EXCEPT ![c].pc = "commit", ![c].outcome = o]
    BY <1>13 DEF ReadExit
  <2> HIDE DEF o
  <2>3. [task EXCEPT ![c].pc = "commit", ![c].outcome = o]
        = [task EXCEPT ![c] = [task[c] EXCEPT !.pc = "commit", !.outcome = o]]
    BY DEF TypeInv, TypeOK
  <2> QED BY <2>1, <2>2, <2>3, <1>3, <1>5
<1>14. CASE Upload(c)
  BY <1>14, <1>4, <1>5 DEF Upload, TaskAt, LandNext, TaskPcs, Outcomes
<1>15. CASE Transcribe(c)
  <2>1. PICK o \in {"done", "transcription_failed"} :
          task' = [task EXCEPT ![c].pc = "land", ![c].outcome = o]
    BY <1>15 DEF Transcribe, LandNext
  <2>2. o \in Outcomes /\ "land" \in TaskPcs
    BY DEF Outcomes, TaskPcs
  <2>3. [task EXCEPT ![c].pc = "land", ![c].outcome = o]
        = [task EXCEPT ![c] = [task[c] EXCEPT !.pc = "land", !.outcome = o]]
    BY DEF TypeInv, TypeOK
  <2> QED BY <2>1, <2>2, <2>3, <1>5
<1>16. CASE ReadRow(c)
  BY <1>16, <1>3, <1>4 DEF ReadRow, TaskPcs
<1>17. CASE CommitRow(c)
  BY <1>17, <1>4 DEF CommitRow, TaskAt, TaskPcs
<1>18. CASE Unlink(c)
  BY <1>18, <1>4 DEF Unlink, TaskAt, TaskPcs
<1>19. CASE TaskReadsHook(c)
  BY <1>19, <1>3, <1>7 DEF TaskReadsHook, TaskPcs
<1>20. CASE TaskPosts(c)
  BY <1>20, <1>4 DEF TaskPosts, TaskAt, TaskPcs
<1>21. CASE TaskCommitsHook(c)
  BY <1>21, <1>3 DEF TaskCommitsHook
<1>22. CASE TaskDies(c)
  BY <1>22, <1>3 DEF TaskDies
<1> QED BY <1>9, <1>10, <1>11, <1>12, <1>13, <1>14, <1>15, <1>16, <1>17, <1>18,
           <1>19, <1>20, <1>21, <1>22 DEF TaskStep

LEMMA LoopTypes ==
  ASSUME TypeInv, NEW r \in Runners, Start(r) \/ LoopStep(r) \/ StaleRaises(r)
  PROVE  loop' \in [Runners -> Loops] /\ CallNamed'
<1>1. loop[r] \in Loops /\ loop \in [Runners -> Loops] /\ row \in [Calls -> Rows]
  BY DEF TypeInv, TypeOK
<1> DEFINE Busy == {"orphan_commit", "orphan_kill", "stale_row", "stale_commit",
                    "dispatch", "post", "posted"}
           Fits(new) == new \in Loops /\ (new.pc \in Busy => new.call \in Calls)
<1>2. SUFFICES \E new : loop' = [loop EXCEPT ![r] = new] /\ Fits(new)
  BY <1>1 DEF TypeInv, CallNamed
<1>3. \A p \in LoopPcs \ Busy : Fits([loop[r] EXCEPT !.pc = p]) /\ Fits([Down EXCEPT !.pc = p])
  BY <1>1 DEF Loops, Down, CallStatuses, ACTIVE_STATUSES
<1>4. loop[r].call \in Calls => \A p \in LoopPcs : Fits([loop[r] EXCEPT !.pc = p])
  BY <1>1 DEF Loops
<1>5. \A p \in LoopPcs \ Busy, X \in SUBSET Calls :
        /\ Fits([loop[r] EXCEPT !.pc = p, !.todo = X])
        /\ Fits([Down EXCEPT !.pc = p, !.todo = X])
  BY <1>1 DEF Loops, Down, CallStatuses, ACTIVE_STATUSES
<1>6. /\ loop[r].todo \in SUBSET Calls /\ loop[r].then \in LoopPcs \ Busy
      /\ loop[r].pc \in Busy => loop[r].call \in Calls
  BY <1>1 DEF Loops, TypeInv, CallNamed, LoopPcs
<1>7. \A X \in SUBSET Calls, c \in Calls :
        Fits([loop[r] EXCEPT !.pc = "stale_row", !.todo = X, !.call = c])
  BY <1>1 DEF Loops, LoopPcs
<1>71. \A X \in SUBSET Calls, c \in Calls, p \in {"orphan_kill", "orphan_commit"} :
        Fits([loop[r] EXCEPT !.todo = X, !.call = c, !.marked = FALSE, !.pc = p])
  BY <1>1 DEF Loops, LoopPcs
<1>72. loop[r].call \in Calls =>
         /\ Fits([loop[r] EXCEPT !.pc = "orphan_kill", !.marked = TRUE])
         /\ \A s \in CallStatuses : Fits([loop[r] EXCEPT !.pc = "post", !.snap = s])
  BY <1>1 DEF Loops, LoopPcs
<1>8. \A q \in {"orphans", "stale", "tick"} :
        /\ loop[r].call \in Calls => Fits([loop[r] EXCEPT !.pc = "dispatch", !.then = q])
        /\ \A c \in Calls : Fits([loop[r] EXCEPT !.pc = "dispatch", !.call = c, !.then = q])
  BY <1>1 DEF Loops, LoopPcs
<1>0. \A c \in Calls : row[c].status \in CallStatuses
  BY <1>1 DEF Rows
<1> HIDE DEF Fits
<1>9. CASE Start(r)
  <2> DEFINE X == {c \in Calls : Up(c)}
  <2>1. X \in SUBSET Calls
    OBVIOUS
  <2>2. \/ loop' = [loop EXCEPT ![r].pc = "orphans", ![r].todo = X]
        \/ loop' = [loop EXCEPT ![r].pc = "tick"]
    BY <1>9 DEF Start, LoopAt
  <2> HIDE DEF X
  <2>3. CASE loop' = [loop EXCEPT ![r].pc = "orphans", ![r].todo = X]
    <3>1. loop' = [loop EXCEPT ![r] = [loop[r] EXCEPT !.pc = "orphans", !.todo = X]]
      BY <1>1, <2>3
    <3>2. "orphans" \in LoopPcs \ Busy
      BY DEF LoopPcs
    <3> QED BY <1>5, <2>1, <3>1, <3>2
  <2> QED BY <1>1, <1>3, <2>2, <2>3 DEF LoopPcs
<1>10. CASE OrphanRow(r)
  <2>1. PICK c \in loop[r].todo :
          loop' = [loop EXCEPT ![r].todo = @ \ {c}, ![r].call = c, ![r].marked = FALSE,
                   ![r].pc = IF Terminal(c) THEN "orphan_kill" ELSE "orphan_commit"]
    BY <1>10 DEF OrphanRow
  <2> DEFINE pc == IF Terminal(c) THEN "orphan_kill" ELSE "orphan_commit"
             X == loop[r].todo \ {c}
  <2>2. pc \in {"orphan_kill", "orphan_commit"} /\ X \in SUBSET Calls /\ c \in Calls
    BY <1>6
  <2>3. loop' = [loop EXCEPT ![r] = [loop[r] EXCEPT !.todo = X, !.call = c,
                                                   !.marked = FALSE, !.pc = pc]]
    BY <1>1, <2>1
  <2> HIDE DEF pc, X
  <2> QED BY <2>2, <2>3, <1>71
<1>11. CASE OrphanCommit(r)
  BY <1>1, <1>6, <1>72, <1>11 DEF OrphanCommit
<1>12. CASE OrphanKill(r)
  BY <1>1, <1>5, <1>6, <1>8, <1>12 DEF OrphanKill, Return, LoopPcs
<1>13. CASE OrphansDone(r)
  BY <1>1, <1>3, <1>13 DEF OrphansDone, LoopAt, LoopPcs
<1>14. CASE StaleSelect(r)
  BY <1>1, <1>5, <1>14 DEF StaleSelect, StaleCalls, LoopPcs
<1>15. CASE NotDue(r)
  BY <1>1, <1>3, <1>15 DEF NotDue, LoopAt, LoopPcs
<1>16. CASE StaleKill(r)
  <2>1. PICK c \in loop[r].todo :
          loop' = [loop EXCEPT ![r].pc = "stale_row", ![r].todo = @ \ {c}, ![r].call = c]
    BY <1>16 DEF StaleKill
  <2> DEFINE X == loop[r].todo \ {c}
  <2>2. X \in SUBSET Calls /\ c \in Calls
    BY <1>6
  <2>3. loop' = [loop EXCEPT ![r] = [loop[r] EXCEPT !.pc = "stale_row", !.todo = X, !.call = c]]
    BY <1>1, <2>1
  <2> HIDE DEF X
  <2> QED BY <2>2, <2>3, <1>7
<1>17. CASE StaleRow(r)
  BY <1>1, <1>4, <1>5, <1>6, <1>17 DEF StaleRow, Return, LoopAt, LoopPcs
<1>18. CASE StaleCommit(r)
  BY <1>1, <1>6, <1>8, <1>18 DEF StaleCommit, LoopPcs
<1>19. CASE StaleDone(r)
  BY <1>1, <1>3, <1>19 DEF StaleDone, LoopAt, LoopPcs
<1>20. CASE StaleRaises(r)
  BY <1>1, <1>3, <1>20 DEF StaleRaises, LoopPcs
<1>21. CASE Poll(r)
  <2>1. PICK c \in Calls :
          \/ loop' = [loop EXCEPT ![r].pc = "dispatch", ![r].call = c, ![r].then = "tick"]
          \/ loop' = [loop EXCEPT ![r].pc = "tick"]
    BY <1>21 DEF Poll, LoopAt
  <2>2. CASE loop' = [loop EXCEPT ![r].pc = "dispatch", ![r].call = c, ![r].then = "tick"]
    <3>1. loop' = [loop EXCEPT ![r] = [loop[r] EXCEPT !.pc = "dispatch", !.call = c, !.then = "tick"]]
      BY <1>1, <2>2
    <3> QED BY <3>1, <1>8
  <2>3. CASE loop' = [loop EXCEPT ![r].pc = "tick"]
    BY <1>1, <1>3, <2>3 DEF LoopPcs
  <2> QED BY <2>1, <2>2, <2>3
<1>22. CASE PollNothing(r)
  BY <1>1, <1>3, <1>22 DEF PollNothing, LoopAt, LoopPcs
<1>23. CASE LoopReadsHook(r)
  BY <1>1, <1>0, <1>5, <1>6, <1>72, <1>23 DEF LoopReadsHook, Return
<1>24. CASE LoopPosts(r)
  BY <1>1, <1>4, <1>6, <1>24 DEF LoopPosts, LoopAt, LoopPcs
<1>25. CASE LoopCommitsHook(r)
  BY <1>1, <1>5, <1>6, <1>25 DEF LoopCommitsHook, Return, LoopPcs
<1> QED BY <1>9, <1>10, <1>11, <1>12, <1>13, <1>14, <1>15, <1>16, <1>17, <1>18,
           <1>19, <1>20, <1>21, <1>22, <1>23, <1>24, <1>25 DEF LoopStep

LEMMA TypeStep == TypeInv /\ [Next]_vars => TypeInv'
<1> SUFFICES ASSUME TypeInv, [Next]_vars PROVE TypeInv'
  OBVIOUS
<1> USE StatusesAre, BoundsAssumption
<1>1. ASSUME NEW c \in Calls, TaskStep(c) \/ TaskDies(c) PROVE TypeInv'
  <2>1. task' \in [Calls -> Tasks]
    BY <1>1, TaskTypes
  <2>2. row[c] \in Rows /\ task[c] \in Tasks /\ hooks[c] \in SUBSET CallStatuses
    BY DEF TypeInv, TypeOK
  <2>3. row' \in [Calls -> Rows] /\ old' \in [Calls -> BOOLEAN]
    <3>1. CASE CommitRecording(c)
      BY <3>1, WriteTypes DEF CommitRecording, Reasons
    <3>2. CASE CommitRow(c)
      <4> DEFINE o == task[c].outcome
      <4>1. o \in Outcomes \cup {"none"} /\ Write(c, Target(o), o)
        BY <3>2, <2>2 DEF CommitRow, Tasks
      <4>2. Target(o) \in CallStatuses /\ (Target(o) = "failed" => o \in Reasons)
        BY <4>1 DEF Target, Outcomes, Reasons
      <4> QED BY <4>1, <4>2, WriteTypes
    <3>3. CASE TaskCommitsHook(c)
      BY <3>3, <2>2 DEF TaskCommitsHook, TypeInv, TypeOK, Rows
    <3> QED BY <1>1, <3>1, <3>2, <3>3 DEF TaskStep, CheckJoinable, SpawnBot, SeeRecording, ReadExit,
              Upload, Transcribe, ReadRow, Unlink, TaskReadsHook, TaskPosts, TaskDies, TypeInv, TypeOK
  <2>4. hooks' \in [Calls -> SUBSET CallStatuses]
    <3>1. CASE TaskPosts(c)
      BY <3>1, <2>2 DEF TaskPosts, TypeInv, TypeOK, Tasks
    <3> QED BY <1>1, <3>1 DEF TaskStep, CheckJoinable, SpawnBot, SeeRecording, ReadExit, CommitRecording,
              Upload, Transcribe, ReadRow, Unlink, TaskReadsHook, CommitRow, TaskCommitsHook, TaskDies,
              TypeInv, TypeOK
  <2>5. /\ bot' \in [Calls -> {"none", "joining", "recording", "hung"}]
        /\ exit' \in [Calls -> {"none", "clean", "fail"}]
        /\ wav' \in [Calls -> BOOLEAN]
        /\ stored' \in [Calls -> BOOLEAN]
    BY <1>1 DEF TaskStep, CheckJoinable, SpawnBot, SeeRecording, ReadExit, CommitRecording,
              Upload, Transcribe, ReadRow, Unlink, TaskReadsHook, CommitRow, TaskPosts, TaskCommitsHook,
              TaskDies, TypeInv, TypeOK
  <2>6. faults' \in 0..MaxFaults /\ loop' = loop /\ missed' = missed /\ lost' \in SUBSET Calls
    BY <1>1 DEF Strikes, TaskStep, CheckJoinable, SpawnBot, SeeRecording, ReadExit, CommitRecording,
              Upload, Transcribe, ReadRow, Unlink, TaskReadsHook, CommitRow, TaskPosts, TaskCommitsHook,
              TaskDies, TypeInv, TypeOK
  <2> QED BY <2>1, <2>3, <2>4, <2>5, <2>6 DEF TypeInv, TypeOK, CallNamed
<1>2. ASSUME NEW c \in Calls, BotRecords(c) \/ BotExits(c) \/ BotHangs(c) \/ Age(c) PROVE TypeInv'
  <2>1. CASE BotRecords(c)
    BY <2>1 DEF BotRecords, TypeInv, TypeOK, CallNamed
  <2>2. CASE BotExits(c)
    BY <2>2 DEF BotExits, TypeInv, TypeOK, CallNamed
  <2>3. CASE BotHangs(c)
    BY <2>3 DEF BotHangs, TypeInv, TypeOK, CallNamed
  <2>4. CASE Age(c)
    BY <2>4 DEF Age, TypeInv, TypeOK, CallNamed
  <2> QED BY <1>2, <2>1, <2>2, <2>3, <2>4
<1>3. ASSUME NEW r \in Runners, Start(r) \/ LoopStep(r) \/ StaleRaises(r) PROVE TypeInv'
  <2>1. loop' \in [Runners -> Loops] /\ CallNamed'
    BY <1>3, LoopTypes
  <2>2. loop[r] \in Loops /\ (loop[r].pc \in {"orphan_commit", "orphan_kill", "stale_row", "stale_commit",
                    "dispatch", "post", "posted"} => loop[r].call \in Calls)
    BY DEF TypeInv, TypeOK, CallNamed
  <2>3. row' \in [Calls -> Rows] /\ old' \in [Calls -> BOOLEAN]
    <3>1. CASE OrphanCommit(r)
      BY <3>1, <2>2, WriteTypes DEF OrphanCommit, Reasons
    <3>2. CASE StaleCommit(r)
      BY <3>2, <2>2, WriteTypes DEF StaleCommit, Reasons
    <3>3. CASE Poll(r)
      BY <3>3, WriteTypes DEF Poll, Reasons
    <3>4. CASE LoopCommitsHook(r)
      <4> DEFINE c == loop[r].call
      <4>1. c \in Calls /\ row[c] \in Rows
        BY <3>4, <2>2 DEF LoopCommitsHook, TypeInv, TypeOK
      <4>2. PICK ok \in BOOLEAN : row' = [row EXCEPT ![c].delivered = @ \/ ok]
        BY <3>4 DEF LoopCommitsHook
      <4>3. old' = [old EXCEPT ![c] = FALSE]
        BY <3>4 DEF LoopCommitsHook
      <4> HIDE DEF c
      <4>4. [row[c] EXCEPT !.delivered = @ \/ ok] \in Rows
        BY <4>1 DEF Rows
      <4> QED BY <4>1, <4>2, <4>3, <4>4 DEF TypeInv, TypeOK
    <3> QED BY <1>3, <3>1, <3>2, <3>3, <3>4 DEF Start, StaleRaises, LoopStep, OrphanRow, OrphanKill,
              OrphansDone, StaleSelect, NotDue, StaleKill, StaleRow, StaleDone, PollNothing,
              LoopReadsHook, LoopPosts, TypeInv, TypeOK
  <2>4. task' \in [Calls -> Tasks]
    <3>1. CASE Poll(r)
      <4>1. PICK c \in Calls : task' = task \/ task' = [task EXCEPT ![c].pc = "check", ![c].owner = r]
        BY <3>1 DEF Poll
      <4>2. [task[c] EXCEPT !.pc = "check", !.owner = r] \in Tasks
        <5>1. task[c] \in Tasks
          BY DEF TypeInv, TypeOK
        <5> QED BY <5>1 DEF Tasks, TaskPcs
      <4>3. [task EXCEPT ![c].pc = "check", ![c].owner = r]
            = [task EXCEPT ![c] = [task[c] EXCEPT !.pc = "check", !.owner = r]]
        BY DEF TypeInv, TypeOK
      <4> QED BY <4>1, <4>2, <4>3 DEF TypeInv, TypeOK
    <3> QED BY <1>3, <3>1 DEF Start, StaleRaises, LoopStep, OrphanRow, OrphanCommit, OrphanKill,
              OrphansDone, StaleSelect, NotDue, StaleKill, StaleRow, StaleCommit, StaleDone, PollNothing,
              LoopReadsHook, LoopPosts, LoopCommitsHook, TypeInv, TypeOK
  <2>5. bot' \in [Calls -> {"none", "joining", "recording", "hung"}] /\ exit' \in [Calls -> {"none", "clean", "fail"}]
    <3>1. ASSUME NEW c, Kill(c)
          PROVE  bot' \in [Calls -> {"none", "joining", "recording", "hung"}] /\ exit' \in [Calls -> {"none", "clean", "fail"}]
      BY <3>1 DEF Kill, TypeInv, TypeOK
    <3>2. CASE OrphanKill(r) \/ StaleKill(r)
      BY <3>1, <3>2 DEF OrphanKill, StaleKill
    <3> QED BY <1>3, <3>2 DEF Start, StaleRaises, LoopStep, OrphanRow, OrphanCommit,
              OrphansDone, StaleSelect, NotDue, StaleRow, StaleCommit, StaleDone, Poll, PollNothing,
              LoopReadsHook, LoopPosts, LoopCommitsHook, TypeInv, TypeOK
  <2>6. hooks' \in [Calls -> SUBSET CallStatuses]
    <3>1. CASE LoopPosts(r)
      BY <3>1, <2>2 DEF LoopPosts, TypeInv, TypeOK, Loops
    <3> QED BY <1>3, <3>1 DEF Start, StaleRaises, LoopStep, OrphanRow, OrphanCommit, OrphanKill,
              OrphansDone, StaleSelect, NotDue, StaleKill, StaleRow, StaleCommit, StaleDone, Poll, PollNothing,
              LoopReadsHook, LoopCommitsHook, TypeInv, TypeOK
  <2>7. /\ wav' = wav /\ stored' = stored /\ faults' \in 0..MaxFaults
        /\ missed' \in SUBSET Calls /\ lost' \in SUBSET Calls
    <3>1. faults \in 0..MaxFaults /\ missed \in SUBSET Calls /\ lost \in SUBSET Calls
      BY DEF TypeInv, TypeOK
    <3>5. \A c \in Calls : Kill(c) => missed' \in SUBSET Calls
      BY <3>1 DEF Kill
    <3>6. loop[r].todo \in SUBSET Calls
      BY <2>2 DEF Loops
    <3>2. CASE StaleRaises(r)
      BY <3>1, <3>2 DEF StaleRaises, Strikes
    <3>3. CASE Start(r)
      BY <3>1, <3>3 DEF Start
    <3>4. CASE LoopStep(r)
      BY <2>2, <3>1, <3>4, <3>5, <3>6 DEF LoopStep, OrphanRow, OrphanCommit, OrphanKill,
              OrphansDone, StaleSelect, NotDue, StaleKill, StaleRow, StaleCommit, StaleDone, Poll, PollNothing,
              LoopReadsHook, LoopPosts, LoopCommitsHook
    <3> QED BY <1>3, <3>2, <3>3, <3>4
  <2> QED BY <2>1, <2>3, <2>4, <2>5, <2>6, <2>7 DEF TypeInv, TypeOK
<1>4. ASSUME NEW r \in Runners, Crash(r) PROVE TypeInv'
  <2>1. Over \in Tasks /\ Down \in Loops /\ Down.pc = "down"
    BY DEF Over, NoTask, Tasks, TaskPcs, Down, Loops, LoopPcs
  <2>2. task' \in [Calls -> Tasks]
    BY <1>4, <2>1 DEF Crash, TypeInv, TypeOK
  <2>3. loop' \in [Runners -> Loops] /\ CallNamed'
    BY <1>4, <2>1 DEF Crash, TypeInv, TypeOK, CallNamed
  <2> QED BY <1>4, <2>2, <2>3 DEF Crash, Strikes, TypeInv, TypeOK
<1>5. CASE UNCHANGED vars
  BY <1>5 DEF vars, TypeInv, TypeOK, CallNamed
<1> QED BY <1>1, <1>2, <1>3, <1>4, <1>5 DEF Next

LEMMA InitTypes == Init => TypeInv
<1> SUFFICES ASSUME Init PROVE TypeInv
  OBVIOUS
<1>1. NoTask \in Tasks /\ Down \in Loops /\ Down.pc = "down"
  BY DEF NoTask, Tasks, TaskPcs, Down, Loops, LoopPcs, CallStatuses, ACTIVE_STATUSES
<1>2. [status |-> "queued", reason |-> "none", delivered |-> FALSE] \in Rows
  BY DEF Rows, Reasons, CallStatuses, ACTIVE_STATUSES
<1>3. row \in [Calls -> Rows] /\ task \in [Calls -> Tasks] /\ loop \in [Runners -> Loops] /\ CallNamed
  BY <1>1, <1>2 DEF Init, CallNamed
<1>4. faults \in 0..MaxFaults
  BY BoundsAssumption DEF Init
<1> QED BY <1>3, <1>4 DEF Init, TypeInv, TypeOK

\* Rows, containers, tasks and loops keep their types, for any calls, runners,
\* limit and number of faults, with overruns and late bots and without.
THEOREM TypeCorrect == Spec => []TypeOK
<1>1. Spec => []TypeInv
  BY InitTypes, TypeStep, PTL DEF Spec
<1> QED BY <1>1, PTL DEF TypeInv

-------------------------------------------------------------------------------
(* What a step does to the rows. *)

LEMMA WriteMoves ==
  ASSUME TypeInv, NEW c \in Calls, NEW s, NEW why, Write(c, s, why)
  PROVE  /\ row'[c].status = s /\ ~old'[c]
         /\ row'[c].reason \in {row[c].reason, why}
         /\ \A d \in Calls \ {c} : row'[d] = row[d] /\ old'[d] = old[d]
  BY DEF Write, TypeInv, TypeOK, Rows

LEMMA HookMoves ==
  ASSUME TypeInv, NEW c \in Calls,
         \E ok \in BOOLEAN : row' = [row EXCEPT ![c].delivered = @ \/ ok]
  PROVE  \A d \in Calls : row'[d].status = row[d].status /\ row'[d].reason = row[d].reason
  BY DEF TypeInv, TypeOK, Rows

\* The main loop fails calls or claims a queued one; what it does not claim keeps
\* its task, and it touches no audio.
LEMMA LoopEffect ==
  ASSUME TypeInv, NEW r \in Runners, Start(r) \/ LoopStep(r) \/ StaleRaises(r)
  PROVE  /\ wav' = wav /\ stored' = stored
         /\ \A d \in Calls :
              \/ row'[d].status = row[d].status /\ task'[d] = task[d]
              \/ row'[d].status = "failed" /\ task'[d] = task[d]
              \/ /\ row[d].status = "queued" /\ row'[d].status = "joining"
                 /\ task'[d] = [task[d] EXCEPT !.pc = "check", !.owner = r]
<1>1. loop[r].pc \in {"orphan_commit", "stale_commit", "posted"} => loop[r].call \in Calls
  BY DEF TypeInv, CallNamed
<1>2. CASE OrphanCommit(r)
  <2> DEFINE c == loop[r].call
  <2>1. c \in Calls /\ \E why : Write(c, "failed", why)
    BY <1>1, <1>2 DEF OrphanCommit
  <2>2. task' = task /\ wav' = wav /\ stored' = stored
    BY <1>2 DEF OrphanCommit
  <2> HIDE DEF c
  <2>3. row'[c].status = "failed" /\ \A d \in Calls \ {c} : row'[d] = row[d]
    BY <2>1, WriteMoves
  <2> QED BY <2>1, <2>2, <2>3
<1>3. CASE StaleCommit(r)
  <2> DEFINE c == loop[r].call
  <2>1. c \in Calls /\ \E why : Write(c, "failed", why)
    BY <1>1, <1>3 DEF StaleCommit
  <2>2. task' = task /\ wav' = wav /\ stored' = stored
    BY <1>3 DEF StaleCommit
  <2> HIDE DEF c
  <2>3. row'[c].status = "failed" /\ \A d \in Calls \ {c} : row'[d] = row[d]
    BY <2>1, WriteMoves
  <2> QED BY <2>1, <2>2, <2>3
<1>4. CASE LoopCommitsHook(r)
  BY <1>1, <1>4, HookMoves DEF LoopCommitsHook
<1>5. CASE Poll(r)
  <2>1. PICK c \in Calls :
          /\ row[c].status = "queued"
          /\ \/ (\E why : Write(c, "failed", why)) /\ task' = task
             \/ Write(c, "joining", "none") /\ task' = [task EXCEPT ![c].pc = "check", ![c].owner = r]
    BY <1>5 DEF Poll
  <2>2. [task EXCEPT ![c].pc = "check", ![c].owner = r]
        = [task EXCEPT ![c] = [task[c] EXCEPT !.pc = "check", !.owner = r]]
    BY DEF TypeInv, TypeOK
  <2>3. task \in [Calls -> Tasks]
    BY DEF TypeInv, TypeOK
  <2>4. wav' = wav /\ stored' = stored
    BY <1>5 DEF Poll
  <2>5. CASE (\E why : Write(c, "failed", why)) /\ task' = task
    BY <2>4, <2>5, WriteMoves
  <2>6. CASE Write(c, "joining", "none") /\ task' = [task EXCEPT ![c] = [task[c] EXCEPT !.pc = "check", !.owner = r]]
    <3>1. row'[c].status = "joining" /\ \A d \in Calls \ {c} : row'[d] = row[d]
      BY <2>6, WriteMoves
    <3>2. task'[c] = [task[c] EXCEPT !.pc = "check", !.owner = r] /\ \A d \in Calls \ {c} : task'[d] = task[d]
      BY <2>3, <2>6
    <3> QED BY <2>1, <2>4, <3>1, <3>2
  <2> QED BY <2>1, <2>2, <2>5, <2>6
<1> QED BY <1>2, <1>3, <1>4, <1>5 DEF Start, StaleRaises, LoopStep, OrphanRow, OrphanKill,
           OrphansDone, StaleSelect, NotDue, StaleKill, StaleRow, StaleDone, PollNothing,
           LoopReadsHook, LoopPosts

-------------------------------------------------------------------------------
(* The audio is stored before the row says done, and outlives its only copy. *)

\* What this task has uploaded, by the place it has reached.
Uploaded(c) ==
  \/ task[c].pc \in {"transcribe", "unlink"}
  \/ task[c].pc \in {"land", "commit"} /\ task[c].outcome \in {"done", "transcription_failed"}

StoredFits(c) ==
  /\ row[c].status = "queued" => task[c].pc = "none"
  /\ row[c].status = "done" \/ Uploaded(c) => stored[c]
  /\ task[c].pc = "unlink" => Terminal(c)

AudioInv == TypeInv /\ \A c \in Calls : StoredFits(c)

LEMMA AudioStep == AudioInv /\ [Next]_vars => AudioInv'
<1> SUFFICES ASSUME AudioInv, [Next]_vars PROVE AudioInv'
  OBVIOUS
<1>0. TypeInv /\ TypeInv'
  BY TypeStep DEF AudioInv
<1> USE StatusesAre DEF StoredFits, Uploaded, Terminal
<1>1. SUFFICES ASSUME NEW d \in Calls PROVE StoredFits(d)'
  BY <1>0 DEF AudioInv
<1>2. StoredFits(d) /\ task[d] \in Tasks /\ task \in [Calls -> Tasks]
  BY <1>0 DEF AudioInv, TypeInv, TypeOK
<1>3. ASSUME NEW c \in Calls, TaskStep(c) \/ TaskDies(c) PROVE StoredFits(d)'
  <2>1. CASE CheckJoinable(c)
    BY <1>2, <2>1 DEF CheckJoinable, Over, NoTask, Tasks
  <2>2. CASE SpawnBot(c)
    BY <1>2, <2>2 DEF SpawnBot, TaskAt, Tasks
  <2>3. CASE SeeRecording(c)
    BY <1>2, <2>3 DEF SeeRecording, Tasks
  <2>4. CASE CommitRecording(c)
    <3>1. row'[c].status = "recording" /\ \A e \in Calls \ {c} : row'[e] = row[e]
      BY <1>0, <2>4, WriteMoves DEF CommitRecording
    <3> QED BY <1>2, <2>4, <3>1 DEF CommitRecording, TaskAt, Tasks
  <2>5. CASE ReadExit(c)
    BY <1>2, <2>5 DEF ReadExit, Over, NoTask, Tasks
  <2>6. CASE Upload(c)
    BY <1>0, <1>2, <2>6 DEF Upload, TaskAt, LandNext, Tasks, TypeInv, TypeOK
  <2>7. CASE Transcribe(c)
    BY <1>2, <2>7 DEF Transcribe, LandNext, Tasks
  <2>8. CASE ReadRow(c)
    BY <1>2, <2>8 DEF ReadRow, Over, NoTask, Tasks
  <2>9. CASE CommitRow(c)
    <3>1. row'[c].status = Target(task[c].outcome) /\ \A e \in Calls \ {c} : row'[e] = row[e]
      BY <1>0, <2>9, WriteMoves DEF CommitRow
    <3>2. task[c].pc = "commit" /\ stored' = stored
      BY <2>9 DEF CommitRow
    <3>3. /\ \A e \in Calls \ {c} : task'[e] = task[e]
          /\ task'[c].pc = CASE task[c].outcome = "processing" -> "upload"
                 [] task[c].outcome \in {"done", "transcription_failed"} -> "unlink"
                 [] OTHER -> "dispatch"
      BY <1>2, <2>9 DEF CommitRow, TaskAt, Tasks
    <3> QED BY <1>2, <3>1, <3>2, <3>3 DEF Target
  <2>10. CASE Unlink(c)
    BY <1>2, <2>10 DEF Unlink, TaskAt, Tasks
  <2>11. CASE TaskReadsHook(c)
    BY <1>2, <2>11 DEF TaskReadsHook, Over, NoTask, Tasks
  <2>12. CASE TaskPosts(c)
    BY <1>2, <2>12 DEF TaskPosts, TaskAt, Tasks
  <2>13. CASE TaskCommitsHook(c)
    BY <1>0, <1>2, <2>13, HookMoves DEF TaskCommitsHook, Over, NoTask, Tasks
  <2>14. CASE TaskDies(c)
    BY <1>2, <2>14 DEF TaskDies, Live, Over, NoTask, Tasks
  <2> QED BY <1>3, <2>1, <2>2, <2>3, <2>4, <2>5, <2>6, <2>7, <2>8, <2>9, <2>10, <2>11,
             <2>12, <2>13, <2>14 DEF TaskStep
<1>4. ASSUME NEW c \in Calls, BotRecords(c) \/ BotExits(c) \/ BotHangs(c) \/ Age(c)
      PROVE  StoredFits(d)'
  BY <1>2, <1>4 DEF BotRecords, BotExits, BotHangs, Age
<1>5. ASSUME NEW r \in Runners, Start(r) \/ LoopStep(r) \/ StaleRaises(r)
      PROVE  StoredFits(d)'
  <2>1. /\ stored' = stored
        /\ \/ row'[d].status = row[d].status /\ task'[d] = task[d]
           \/ row'[d].status = "failed" /\ task'[d] = task[d]
           \/ /\ row[d].status = "queued" /\ row'[d].status = "joining"
              /\ task'[d] = [task[d] EXCEPT !.pc = "check", !.owner = r]
    BY <1>0, <1>5, LoopEffect
  <2> QED BY <1>2, <2>1 DEF Tasks
<1>6. ASSUME NEW r \in Runners, Crash(r) PROVE StoredFits(d)'
  BY <1>2, <1>6 DEF Crash, Live, Over, NoTask
<1>7. CASE UNCHANGED vars
  BY <1>2, <1>7 DEF vars
<1> QED BY <1>3, <1>4, <1>5, <1>6, <1>7 DEF Next

LEMMA AudioInvariant == Spec => []AudioInv
<1>1. Init => AudioInv
  BY InitTypes DEF Init, AudioInv, StoredFits, Uploaded, Terminal, NoTask, TERMINAL_STATUSES
<1> QED BY <1>1, AudioStep, PTL DEF Spec

\* A row says done only of a call whose audio is stored, whatever interleaving of
\* tasks, sweeps, crashes and runners has led there.
THEOREM DoneHasAudio == Spec => []DoneIsStored
<1>1. AudioInv => DoneIsStored
  BY DEF AudioInv, StoredFits, DoneIsStored
<1> QED BY <1>1, AudioInvariant, PTL

\* No step deletes the only copy of the audio, with any number of runners and
\* with overruns and late bots: the scratch WAV goes when the object is stored and the row ended.
THEOREM OnlyCopyIsKept == Spec => AudioKept
<1>1. AudioInv /\ AudioInv' /\ [Next]_vars
      => [\A c \in Calls : wav[c] /\ ~wav'[c] => stored[c] /\ Terminal(c)]_vars
  <2> SUFFICES ASSUME AudioInv, Next, NEW d \in Calls, wav[d], ~wav'[d]
               PROVE  stored[d] /\ Terminal(d)
    BY DEF vars
  <2>1. wav' # wav
    OBVIOUS
  <2>2. PICK c \in Calls : Unlink(c) \/ BotRecords(c)
    <3>1. ASSUME NEW c \in Calls, TaskStep(c), ~Unlink(c) PROVE FALSE
      BY <2>1, <3>1 DEF TaskStep, CheckJoinable, SpawnBot, SeeRecording, ReadExit, CommitRecording,
              Upload, Transcribe, ReadRow, TaskReadsHook, CommitRow, TaskPosts, TaskCommitsHook
    <3>2. ASSUME NEW r \in Runners, Start(r) \/ LoopStep(r) \/ StaleRaises(r) PROVE FALSE
      BY <2>1, <3>2, LoopEffect DEF AudioInv
    <3> QED BY <2>1, <3>1, <3>2 DEF Next, TaskDies, BotExits, BotHangs, Age, Crash
  <2>3. wav \in [Calls -> BOOLEAN]
    BY DEF AudioInv, TypeInv, TypeOK
  <2>4. CASE Unlink(c)
    BY <2>3, <2>4 DEF Unlink, AudioInv, StoredFits, Uploaded
  <2>5. CASE BotRecords(c)
    BY <2>3, <2>5 DEF BotRecords
  <2> QED BY <2>2, <2>4, <2>5
<1> QED BY <1>1, AudioInvariant, PTL DEF Spec, AudioKept

-------------------------------------------------------------------------------
(* The supported configuration is exactly one runner (the head comment of  *)
(* bot_runner.py); it knows whom it supervises.                            *)

OneRunner == \A r, s \in Runners : r = s

\* Before its first tick, or in the middle of the orphan sweep.
Starting(r) ==
  \/ loop[r].pc \in {"down", "orphans", "orphan_commit", "orphan_kill"}
  \/ loop[r].pc \in {"dispatch", "post", "posted"} /\ loop[r].then = "orphans"

Supervised(c) ==
  Live(c) => task[c].owner \in Runners /\ \A r \in Runners : ~Starting(r)

SupervisedInv == TypeInv /\ OneRunner /\ \A c \in Calls : Supervised(c)

\* A task that steps is alive; it leaves the loops and all other calls alone.
LEMMA TaskFrame ==
  ASSUME TypeInv, NEW c \in Calls, TaskStep(c) \/ TaskDies(c)
  PROVE  /\ Live(c) /\ loop' = loop
         /\ task'[c] = Over \/ task'[c].owner = task[c].owner
         /\ \A d \in Calls \ {c} : /\ task'[d] = task[d] /\ row'[d] = row[d]
                                   /\ old'[d] = old[d] /\ bot'[d] = bot[d]
                                   /\ exit'[d] = exit[d] /\ wav'[d] = wav[d]
<1>0. /\ task[c] \in Tasks /\ task \in [Calls -> Tasks] /\ row \in [Calls -> Rows]
      /\ old \in [Calls -> BOOLEAN] /\ wav \in [Calls -> BOOLEAN]
      /\ bot \in [Calls -> {"none", "joining", "recording", "hung"}]
      /\ exit \in [Calls -> {"none", "clean", "fail"}]
  BY DEF TypeInv, TypeOK
<1> USE DEF Live, Tasks
<1>1. CASE CheckJoinable(c)
  BY <1>0, <1>1 DEF CheckJoinable
<1>2. CASE SpawnBot(c)
  BY <1>0, <1>2 DEF SpawnBot, TaskAt
<1>3. CASE SeeRecording(c)
  BY <1>0, <1>3 DEF SeeRecording
<1>4. CASE CommitRecording(c)
  BY <1>0, <1>4 DEF CommitRecording, TaskAt, Write
<1>5. CASE ReadExit(c)
  BY <1>0, <1>5 DEF ReadExit
<1>6. CASE Upload(c)
  BY <1>0, <1>6 DEF Upload, TaskAt, LandNext
<1>7. CASE Transcribe(c)
  BY <1>0, <1>7 DEF Transcribe, LandNext
<1>8. CASE ReadRow(c)
  BY <1>0, <1>8 DEF ReadRow
<1>9. CASE CommitRow(c)
  BY <1>0, <1>9 DEF CommitRow, TaskAt, Write
<1>10. CASE Unlink(c)
  BY <1>0, <1>10 DEF Unlink, TaskAt
<1>11. CASE TaskReadsHook(c)
  BY <1>0, <1>11 DEF TaskReadsHook
<1>12. CASE TaskPosts(c)
  BY <1>0, <1>12 DEF TaskPosts, TaskAt
<1>13. CASE TaskCommitsHook(c)
  BY <1>0, <1>13 DEF TaskCommitsHook
<1>14. CASE TaskDies(c)
  BY <1>0, <1>14 DEF TaskDies
<1> QED BY <1>1, <1>2, <1>3, <1>4, <1>5, <1>6, <1>7, <1>8, <1>9, <1>10, <1>11, <1>12, <1>13, <1>14 DEF TaskStep

LEMMA SupervisedStep == SupervisedInv /\ [Next]_vars => SupervisedInv'
<1> SUFFICES ASSUME SupervisedInv, [Next]_vars PROVE SupervisedInv'
  OBVIOUS
<1>0. TypeInv /\ TypeInv' /\ OneRunner
  BY TypeStep DEF SupervisedInv
<1>1. SUFFICES ASSUME NEW d \in Calls, Live(d)'
               PROVE  task'[d].owner \in Runners /\ \A s \in Runners : ~Starting(s)'
  BY <1>0 DEF SupervisedInv, Supervised, OneRunner
<1>2. Supervised(d)
  BY DEF SupervisedInv
<1>3. Over.pc = "over"
  BY DEF Over, NoTask
<1>4. ASSUME NEW c \in Calls, TaskStep(c) \/ TaskDies(c)
      PROVE  task'[d].owner \in Runners /\ \A s \in Runners : ~Starting(s)'
  BY <1>0, <1>1, <1>2, <1>3, <1>4, TaskFrame DEF Supervised, Starting, Live
<1>5. ASSUME NEW c \in Calls, BotRecords(c) \/ BotExits(c) \/ BotHangs(c) \/ Age(c)
      PROVE  task'[d].owner \in Runners /\ \A s \in Runners : ~Starting(s)'
  BY <1>1, <1>2, <1>5 DEF BotRecords, BotExits, BotHangs, Age, Supervised, Starting, Live
<1>6. ASSUME NEW r \in Runners, Start(r) \/ LoopStep(r) \/ StaleRaises(r)
      PROVE  task'[d].owner \in Runners /\ \A s \in Runners : ~Starting(s)'
  <2>1. loop \in [Runners -> Loops] /\ loop[r] \in Loops /\ task[d] \in Tasks
    BY <1>0 DEF TypeInv, TypeOK
  <2>2. \A s \in Runners : s = r
    BY <1>0 DEF OneRunner
  <2>3. ASSUME ~Starting(r) PROVE ~Starting(r)'
    <3>0. loop[r].pc \notin {"down", "orphans", "orphan_commit", "orphan_kill"}
          /\ (loop[r].pc \in {"dispatch", "post", "posted"} => loop[r].then # "orphans")
      BY <2>3 DEF Starting
    <3>18. \A q : Return(r, q) => loop'[r].pc = q
      BY <2>1 DEF Return, Down
    <3> USE DEF Starting
    <3>1. CASE Start(r)
      BY <2>1, <3>0, <3>1 DEF Start, LoopAt, Loops
    <3>2. CASE OrphanRow(r)
      BY <2>1, <3>0, <3>2 DEF OrphanRow, Loops
    <3>3. CASE OrphanCommit(r)
      BY <2>1, <3>0, <3>3 DEF OrphanCommit, Loops
    <3>4. CASE OrphanKill(r)
      BY <2>1, <3>0, <3>4 DEF OrphanKill, Return, Loops
    <3>5. CASE OrphansDone(r)
      BY <2>1, <3>0, <3>5 DEF OrphansDone, LoopAt, Loops
    <3>6. CASE StaleSelect(r)
      BY <2>1, <3>0, <3>6 DEF StaleSelect, Loops
    <3>7. CASE NotDue(r)
      BY <2>1, <3>0, <3>7 DEF NotDue, LoopAt, Loops
    <3>8. CASE StaleKill(r)
      BY <2>1, <3>0, <3>8 DEF StaleKill, Loops
    <3>9. CASE StaleRow(r)
      BY <2>1, <3>0, <3>9, <3>18 DEF StaleRow, LoopAt, Loops
    <3>10. CASE StaleCommit(r)
      BY <2>1, <3>0, <3>10 DEF StaleCommit, Loops
    <3>11. CASE StaleDone(r)
      BY <2>1, <3>0, <3>11 DEF StaleDone, LoopAt, Loops
    <3>12. CASE StaleRaises(r)
      BY <2>1, <3>0, <3>12 DEF StaleRaises, Down, Loops
    <3>13. CASE Poll(r)
      BY <2>1, <3>0, <3>13 DEF Poll, LoopAt, Loops
    <3>14. CASE PollNothing(r)
      BY <2>1, <3>0, <3>14 DEF PollNothing, LoopAt, Loops
    <3>15. CASE LoopReadsHook(r)
      <4>1. CASE Return(r, loop[r].then)
        <5>1. loop[r].then \in {"stale", "tick"}
          BY <2>1, <3>0, <3>15 DEF Loops, LoopReadsHook
        <5> QED BY <3>18, <4>1, <5>1
      <4>2. CASE ~Return(r, loop[r].then)
        <5> DEFINE s == row[loop[r].call].status
        <5>1. loop' = [loop EXCEPT ![r].pc = "post", ![r].snap = s]
          BY <3>15, <4>2 DEF LoopReadsHook
        <5> HIDE DEF s
        <5> QED BY <2>1, <3>0, <3>15, <5>1 DEF Loops, LoopReadsHook
      <4> QED BY <4>1, <4>2
    <3>16. CASE LoopPosts(r)
      BY <2>1, <3>0, <3>16 DEF LoopPosts, LoopAt, Loops
    <3>17. CASE LoopCommitsHook(r)
      BY <2>1, <3>0, <3>17 DEF LoopCommitsHook, Return, Down, Loops
    <3> QED BY <1>6, <3>1, <3>2, <3>3, <3>4, <3>5, <3>6, <3>7, <3>8, <3>9, <3>10, <3>11, <3>12, <3>13, <3>14, <3>15, <3>16, <3>17 DEF LoopStep
  <2>4. CASE Poll(r) /\ ~Live(d)
    <3>1. task[d].pc \in {"none", "over"} /\ loop[r].pc = "poll"
      BY <2>4 DEF Live, Poll
    <3>2. task'[d] = task[d] \/ task'[d] = [task[d] EXCEPT !.pc = "check", !.owner = r]
      BY <1>0, <1>6, LoopEffect
    <3>3. task'[d].owner = r
      BY <1>1, <2>1, <2>4, <3>2 DEF Live, Tasks
    <3>4. ~Starting(r)
      BY <3>1 DEF Starting
    <3> QED BY <2>2, <2>3, <3>3, <3>4
  <2>5. CASE Live(d)
    <3>1. task'[d].owner \in Runners
      <4>1. task'[d] = task[d] \/ task'[d] = [task[d] EXCEPT !.pc = "check", !.owner = r]
        BY <1>0, <1>6, LoopEffect
      <4> QED BY <1>2, <2>1, <2>5, <4>1 DEF Supervised, Tasks
    <3> QED BY <1>2, <2>2, <2>3, <2>5, <3>1 DEF Supervised
  <2>6. CASE ~Poll(r) /\ ~Live(d)
    <3>1. task' = task
      BY <1>6, <2>6 DEF Start, StaleRaises, LoopStep, OrphanRow, OrphanCommit, OrphanKill,
              OrphansDone, StaleSelect, NotDue, StaleKill, StaleRow, StaleCommit, StaleDone, PollNothing,
              LoopReadsHook, LoopPosts, LoopCommitsHook
    <3> QED BY <1>1, <2>6, <3>1 DEF Live
  <2> QED BY <2>4, <2>5, <2>6
<1>7. ASSUME NEW r \in Runners, Crash(r)
      PROVE  task'[d].owner \in Runners /\ \A s \in Runners : ~Starting(s)'
  BY <1>0, <1>1, <1>2, <1>3, <1>7 DEF Crash, Supervised, OneRunner, Live
<1>8. CASE UNCHANGED vars
  BY <1>1, <1>2, <1>8 DEF vars, Supervised, Starting, Live
<1> QED BY <1>4, <1>5, <1>6, <1>7, <1>8 DEF Next

LEMMA SupervisedInvariant == Spec /\ OneRunner => []SupervisedInv
<1>1. Init /\ OneRunner => SupervisedInv
  BY InitTypes DEF Init, SupervisedInv, Supervised, Live, NoTask
<1> QED BY <1>1, SupervisedStep, PTL DEF Spec

\* With one runner the startup sweep fails no call that a task still serves: the
\* tasks of the run before are gone and this run has not begun any.
THEOREM OrphansAreUnsupervised == Spec /\ OneRunner => OrphansOnly
<1>1. SupervisedInv /\ [Next]_vars
      => [\A c \in Calls :
            row'[c].reason = "worker_restart" /\ row[c].reason # "worker_restart"
              => ~Live(c)]_vars
  <2> SUFFICES ASSUME SupervisedInv, Next, NEW d \in Calls,
                      row'[d].reason = "worker_restart", row[d].reason # "worker_restart"
               PROVE  ~Live(d)
    BY DEF vars
  <2>0. TypeInv /\ Supervised(d) /\ row[d] \in Rows
    BY DEF SupervisedInv, TypeInv, TypeOK
  <2>1. ASSUME NEW c \in Calls, TaskStep(c) \/ TaskDies(c) PROVE FALSE
    <3>1. d = c
      BY <2>0, <2>1, TaskFrame
    <3>2. task[c] \in Tasks
      BY <2>0 DEF TypeInv, TypeOK
    <3>3. CASE CommitRecording(c)
      BY <2>0, <3>1, <3>3, WriteMoves DEF CommitRecording
    <3>4. CASE CommitRow(c)
      <4>1. row'[c].reason \in {row[c].reason, task[c].outcome}
        BY <2>0, <3>4, WriteMoves DEF CommitRow
      <4> QED BY <3>1, <3>2, <4>1 DEF Tasks, Outcomes
    <3>5. CASE TaskCommitsHook(c)
      BY <2>0, <3>5, HookMoves DEF TaskCommitsHook
    <3> QED BY <2>1, <3>3, <3>4, <3>5 DEF TaskStep, CheckJoinable, SpawnBot, SeeRecording, ReadExit,
              Upload, Transcribe, ReadRow, Unlink, TaskReadsHook, TaskPosts, TaskDies
  <2>2. PICK r \in Runners : Start(r) \/ LoopStep(r) \/ StaleRaises(r)
    BY <2>1 DEF Next, BotRecords, BotExits, BotHangs, Age, Crash
  <2>3. CASE OrphanCommit(r)
    BY <2>0, <2>3 DEF OrphanCommit, Supervised, Starting
  <2>4. CASE StaleCommit(r)
    <3> DEFINE c == loop[r].call
    <3>1. c \in Calls /\ Write(c, "failed", "stale_call")
      BY <2>0, <2>4 DEF StaleCommit, TypeInv, CallNamed
    <3> HIDE DEF c
    <3>2. row'[c].reason \in {row[c].reason, "stale_call"} /\ \A e \in Calls \ {c} : row'[e] = row[e]
      BY <2>0, <3>1, WriteMoves
    <3> QED BY <3>2
  <2>5. CASE LoopCommitsHook(r)
    BY <2>0, <2>5, HookMoves DEF LoopCommitsHook, TypeInv, CallNamed
  <2>6. CASE Poll(r)
    <3>1. PICK c \in Calls : \E s : \E why \in {"concurrency_limit", "disk_full", "none"} : Write(c, s, why)
      BY <2>6 DEF Poll
    <3>2. PICK why \in {"concurrency_limit", "disk_full", "none"} :
            row'[c].reason \in {row[c].reason, why} /\ \A e \in Calls \ {c} : row'[e] = row[e]
      BY <2>0, <3>1, WriteMoves
    <3> QED BY <3>2
  <2> QED BY <2>2, <2>3, <2>4, <2>5, <2>6 DEF Start, StaleRaises, LoopStep, OrphanRow, OrphanKill,
           OrphansDone, StaleSelect, NotDue, StaleKill, StaleRow, StaleDone, PollNothing,
           LoopReadsHook, LoopPosts
<1> QED BY <1>1, SupervisedInvariant, PTL DEF Spec, OrphansOnly

-------------------------------------------------------------------------------
(* Who may write a row: with one runner, no overrun and no bot that comes back *)
(* late, task and sweep agree.                                             *)

\* What the stale sweep may take c for: its task is over, waits for a bot that
\* hangs and has nothing else to do, or is on the one way to failed.
Doomed(c) ==
  \/ task[c].pc = "over"
  \/ task[c].pc = "stream" /\ bot[c] = "hung" /\ (wav[c] => task[c].fired)
  \/ task[c].pc = "stream" /\ exit[c] = "fail" /\ (wav[c] => task[c].fired)
  \/ task[c].pc = "commit" /\ task[c].outcome = "bot_exit"
  \/ task[c].pc \in {"dispatch", "post", "posted"} /\ row[c].status = "failed"

\* A container runs only after its spawn, and has not returned yet.
Contained(c) ==
  /\ task[c].pc \in {"none", "check", "spawn"} => ~Up(c) /\ exit[c] = "none"
  /\ Up(c) => exit[c] = "none"

\* What ages, and what a sweep has on its list, is doomed.
SweptFits(c) ==
  (old[c] \/ \E r \in Runners : c \in loop[r].todo) => Doomed(c)

\* The status of the row at each place of the task.
TaskFits(c) ==
  LET pc == task[c].pc
      s  == row[c].status
      o  == task[c].outcome
  IN  /\ pc = "none" => s \in {"queued", "failed"}
      /\ pc \in {"check", "spawn", "record"} => s = "joining"
      /\ pc = "stream" => s \in {"joining", "recording"} \/ (s = "failed" /\ Doomed(c))
      /\ pc \in {"upload", "transcribe", "land"} => s = "processing"
      /\ pc = "land" => o \in {"done", "upload_failed", "transcription_failed"}
      /\ pc = "commit" =>
           \/ o = "processing" /\ s = "recording"
           \/ o \in {"done", "upload_failed", "transcription_failed"} /\ s = "processing"
           \/ o = "bot_exit" /\ s \in {"joining", "recording", "failed"}
      /\ pc \in {"unlink", "dispatch", "post", "posted"} => Terminal(c)
      /\ pc \in {"post", "posted"} => task[c].snap = s

\* The call of a sweep between its steps, and what a webhook in flight says.
LoopFits(r) ==
  LET c == loop[r].call IN
  /\ loop[r].pc \in {"orphan_commit", "orphan_kill"} => task[c].pc = "over"
  /\ loop[r].pc = "orphan_commit" => ~Terminal(c)
  /\ loop[r].pc \in {"stale_row", "stale_commit"} => Doomed(c)
  /\ loop[r].pc = "stale_commit" => row[c].status \in Claimed \cup {"failed"}
  /\ loop[r].pc \in {"post", "posted"} => Terminal(c) /\ loop[r].snap = row[c].status

RunnerInv ==
  /\ AudioInv /\ SupervisedInv /\ ~Overrun /\ ~LateBots
  /\ \A c \in Calls : Contained(c) /\ SweptFits(c) /\ TaskFits(c)
  /\ \A r \in Runners : LoopFits(r)

\* Legal moves of one row; a terminal status is final.
Moves(s, t) == t = s \/ Legal(s, t)

LEMMA MovesAre ==
  /\ Legal("joining", "recording") /\ Legal("recording", "processing")
  /\ Legal("processing", "done") /\ Legal("queued", "joining")
  /\ \A s \in CallStatuses \ TERMINAL_STATUSES : Legal(s, "failed")
  /\ \A t \in CallStatuses : Legal("joining", t) => t \in {"recording", "failed"}
  /\ \A t \in CallStatuses : ~Legal("done", t) /\ ~Legal("failed", t)
  /\ \A s \in CallStatuses : Legal(s, "recording") => s = "joining"
  BY DEF Legal, LEGAL_TRANSITIONS, CallStatuses, ACTIVE_STATUSES, TERMINAL_STATUSES

\* A step of a task: its row moves along the table, the invariants of its call
\* hold after it, and a doomed task can only go on to its end.
LEMMA TaskServes ==
  ASSUME RunnerInv, NEW c \in Calls, TaskStep(c) \/ TaskDies(c)
  PROVE  /\ Moves(row[c].status, row'[c].status)
         /\ Contained(c)' /\ TaskFits(c)'
         /\ Doomed(c) => Doomed(c)'
         /\ Doomed(c) => row'[c].status \in {row[c].status, "failed"}
         /\ old'[c] => old[c]
<1>0. /\ task[c] \in Tasks /\ task \in [Calls -> Tasks] /\ row \in [Calls -> Rows]
      /\ row[c].status \in CallStatuses
      /\ old \in [Calls -> BOOLEAN] /\ wav \in [Calls -> BOOLEAN]
      /\ bot \in [Calls -> {"none", "joining", "recording", "hung"}]
      /\ exit \in [Calls -> {"none", "clean", "fail"}]
  BY DEF RunnerInv, AudioInv, TypeInv, TypeOK, Rows
<1>1. Contained(c) /\ TaskFits(c) /\ TypeInv
  BY DEF RunnerInv, AudioInv
<1>2. CommitRecording(c) => row'[c].status = "recording" /\ ~old'[c]
  BY <1>1, WriteMoves DEF CommitRecording
<1>3. CommitRow(c) => row'[c].status = Target(task[c].outcome) /\ ~old'[c]
  BY <1>1, WriteMoves DEF CommitRow
<1> USE StatusesAre, MovesAre DEF Tasks, Moves, Contained, TaskFits, Doomed, Terminal, Over,
        NoTask, Target, Up
<1>10. CASE CheckJoinable(c)
  BY <1>0, <1>1, <1>10 DEF CheckJoinable
<1>11. CASE SpawnBot(c)
  BY <1>0, <1>1, <1>11 DEF SpawnBot, TaskAt
<1>12. CASE SeeRecording(c)
  BY <1>0, <1>1, <1>12 DEF SeeRecording
<1>13. CASE CommitRecording(c)
  BY <1>0, <1>1, <1>2, <1>13 DEF CommitRecording, TaskAt
<1>14. CASE ReadExit(c)
  BY <1>0, <1>1, <1>14 DEF ReadExit
<1>15. CASE Upload(c)
  BY <1>0, <1>1, <1>15 DEF Upload, TaskAt, LandNext
<1>16. CASE Transcribe(c)
  BY <1>0, <1>1, <1>16 DEF Transcribe, LandNext
<1>17. CASE ReadRow(c)
  BY <1>0, <1>1, <1>17 DEF ReadRow
<1>18. CASE CommitRow(c)
  BY <1>0, <1>1, <1>3, <1>18 DEF CommitRow, TaskAt
<1>19. CASE Unlink(c)
  BY <1>0, <1>1, <1>19 DEF Unlink, TaskAt
<1>20. CASE TaskReadsHook(c)
  BY <1>0, <1>1, <1>20 DEF TaskReadsHook, Undelivered
<1>21. CASE TaskPosts(c)
  BY <1>0, <1>1, <1>21 DEF TaskPosts, TaskAt
<1>22. CASE TaskCommitsHook(c)
  BY <1>0, <1>1, HookMoves, <1>22 DEF TaskCommitsHook
<1>23. CASE TaskDies(c)
  BY <1>0, <1>1, <1>23 DEF TaskDies
<1> QED BY <1>1, TaskFrame, <1>10, <1>11, <1>12, <1>13, <1>14, <1>15, <1>16, <1>17, <1>18, <1>19, <1>20, <1>21, <1>22, <1>23 DEF TaskStep

\* docker kill and rm -f of one container, or their failure.
LEMMA KillMoves ==
  ASSUME TypeInv, NEW c \in Calls, Kill(c)
  PROVE  /\ \/ bot'[c] = "none" /\ (exit'[c] = IF Up(c) THEN "fail" ELSE exit[c])
            \/ bot'[c] = bot[c] /\ exit'[c] = exit[c]
         /\ \A d \in Calls \ {c} : bot'[d] = bot[d] /\ exit'[d] = exit[d]
  BY DEF TypeInv, TypeOK, Kill, Up

\* What a step of the loop does to a call and its task.
LEMMA LoopServes ==
  ASSUME RunnerInv, NEW r \in Runners, Start(r) \/ LoopStep(r) \/ StaleRaises(r),
         NEW d \in Calls
  PROVE  /\ Moves(row[d].status, row'[d].status)
         /\ Contained(d)' /\ TaskFits(d)'
         /\ Doomed(d) => Doomed(d)'
         /\ old'[d] => old[d]
         /\ task[d].pc = "over" => task'[d].pc = "over"
<1>0. /\ task[d] \in Tasks /\ task \in [Calls -> Tasks] /\ row \in [Calls -> Rows]
      /\ row[d].status \in CallStatuses /\ old \in [Calls -> BOOLEAN]
      /\ loop[r] \in Loops
  BY DEF RunnerInv, AudioInv, TypeInv, TypeOK, Rows
<1>1. /\ Contained(d) /\ TaskFits(d) /\ TypeInv /\ LoopFits(r) /\ SweptFits(d)
      /\ row[d].status = "queued" => task[d].pc = "none"
  BY DEF RunnerInv, AudioInv, StoredFits
<1>2. loop[r].pc \in {"orphan_commit", "orphan_kill", "stale_row", "stale_commit",
                    "dispatch", "post", "posted"} => loop[r].call \in Calls
  BY <1>1 DEF TypeInv, CallNamed
<1> USE StatusesAre, MovesAre DEF Tasks, Moves, Contained, TaskFits, Doomed, Terminal, Up
<1>3. CASE OrphanCommit(r)
  <2> DEFINE c == loop[r].call
  <2>1. c \in Calls /\ Write(c, "failed", "worker_restart") /\ task[c].pc = "over" /\ ~Terminal(c)
    BY <1>1, <1>2, <1>3 DEF OrphanCommit, LoopFits
  <2>2. task' = task /\ bot' = bot /\ exit' = exit /\ wav' = wav
    BY <1>3 DEF OrphanCommit
  <2> HIDE DEF c
  <2>3. row'[c].status = "failed" /\ ~old'[c]
        /\ \A e \in Calls \ {c} : row'[e] = row[e] /\ old'[e] = old[e]
    BY <1>1, <2>1, WriteMoves
  <2> QED BY <1>0, <1>1, <2>1, <2>2, <2>3
<1>4. CASE StaleCommit(r)
  <2> DEFINE c == loop[r].call
  <2>1. c \in Calls /\ Write(c, "failed", "stale_call") /\ Doomed(c)
        /\ row[c].status \in Claimed \cup {"failed"}
    BY <1>1, <1>2, <1>4 DEF StaleCommit, LoopFits
  <2>2. task' = task /\ bot' = bot /\ exit' = exit /\ wav' = wav
    BY <1>4 DEF StaleCommit
  <2> HIDE DEF c
  <2>3. row'[c].status = "failed" /\ ~old'[c]
        /\ \A e \in Calls \ {c} : row'[e] = row[e] /\ old'[e] = old[e]
    BY <1>1, <2>1, WriteMoves
  <2> QED BY <1>0, <1>1, <2>1, <2>2, <2>3 DEF Claimed
<1>5. CASE Poll(r)
  <2>1. PICK c \in Calls :
          /\ row[c].status = "queued"
          /\ \/ (\E why : Write(c, "failed", why)) /\ task' = task
             \/ Write(c, "joining", "none") /\ task' = [task EXCEPT ![c].pc = "check", ![c].owner = r]
    BY <1>5 DEF Poll
  <2>2. bot' = bot /\ exit' = exit /\ wav' = wav
    BY <1>5 DEF Poll
  <2>3. CASE (\E why : Write(c, "failed", why)) /\ task' = task
    <3>1. row'[c].status = "failed" /\ ~old'[c]
          /\ \A e \in Calls \ {c} : row'[e] = row[e] /\ old'[e] = old[e]
      BY <1>1, <2>3, WriteMoves
    <3> QED BY <1>0, <1>1, <2>1, <2>2, <2>3, <3>1
  <2>4. CASE Write(c, "joining", "none") /\ task' = [task EXCEPT ![c].pc = "check", ![c].owner = r]
    <3>1. row'[c].status = "joining" /\ ~old'[c]
          /\ \A e \in Calls \ {c} : row'[e] = row[e] /\ old'[e] = old[e]
      BY <1>1, <2>4, WriteMoves
    <3>2. \A e \in Calls \ {c} : task'[e] = task[e]
      BY <1>0, <2>4
    <3>3. CASE d = c
      <4>1. task'[d].pc = "check"
        BY <1>0, <2>4, <3>3
      <4> QED BY <1>0, <1>1, <2>1, <2>2, <3>1, <3>3, <4>1
    <3> QED BY <1>0, <1>1, <2>2, <3>1, <3>2, <3>3
  <2> QED BY <2>1, <2>3, <2>4
<1>6. CASE LoopCommitsHook(r)
  <2> DEFINE c == loop[r].call
  <2>1. c \in Calls /\ (\E ok \in BOOLEAN : row' = [row EXCEPT ![c].delivered = @ \/ ok])
        /\ old' = [old EXCEPT ![c] = FALSE]
    BY <1>2, <1>6 DEF LoopCommitsHook
  <2>2. task' = task /\ bot' = bot /\ exit' = exit /\ wav' = wav
    BY <1>6 DEF LoopCommitsHook
  <2> HIDE DEF c
  <2>3. row'[d].status = row[d].status
    BY <1>1, <2>1, HookMoves
  <2> QED BY <1>0, <1>1, <2>1, <2>2, <2>3
<1>7. CASE OrphanKill(r) \/ StaleKill(r)
  <2>1. PICK c \in Calls : Kill(c)
    <3>1. loop[r].todo \subseteq Calls
      BY <1>0 DEF Loops
    <3> QED BY <1>2, <1>7, <3>1 DEF OrphanKill, StaleKill
  <2>2. task' = task /\ row' = row /\ old' = old /\ wav' = wav
    BY <1>7 DEF OrphanKill, StaleKill
  <2>3. /\ \/ bot'[c] = "none" /\ (exit'[c] = IF bot[c] # "none" THEN "fail" ELSE exit[c])
           \/ bot'[c] = bot[c] /\ exit'[c] = exit[c]
        /\ \A e \in Calls \ {c} : bot'[e] = bot[e] /\ exit'[e] = exit[e]
    BY <1>1, <2>1, KillMoves
  <2> QED BY <1>0, <1>1, <2>1, <2>2, <2>3
<1>8. CASE UNCHANGED <<row, old, bot, exit, wav, task>>
  BY <1>0, <1>1, <1>8
<1> QED BY <1>3, <1>4, <1>5, <1>6, <1>7, <1>8 DEF LoopStep, Start, OrphanRow, OrphansDone, StaleSelect, NotDue, StaleRow, StaleDone, StaleRaises, PollNothing, LoopReadsHook, LoopPosts

\* Before the first tick no call has a task at work.
LEMMA StartingAlone ==
  ASSUME RunnerInv, NEW r \in Runners, Starting(r), NEW d \in Calls
  PROVE  task[d].pc \in {"none", "over"}
  BY DEF RunnerInv, SupervisedInv, Supervised, Live

\* What is on the list of a sweep is doomed.
LEMMA ListedFits ==
  ASSUME RunnerInv, NEW r \in Runners, NEW d \in loop[r].todo
  PROVE  d \in Calls /\ Doomed(d)
<1>1. loop[r].todo \subseteq Calls
  BY DEF RunnerInv, AudioInv, TypeInv, TypeOK, Loops
<1> QED BY <1>1 DEF RunnerInv, SweptFits

\* Nothing else gets onto the list.
LEMMA ListKept ==
  ASSUME RunnerInv, NEW r \in Runners, Start(r) \/ LoopStep(r) \/ StaleRaises(r),
         NEW d \in loop'[r].todo
  PROVE  d \in Calls /\ Doomed(d)
<1>0. loop \in [Runners -> Loops] /\ loop[r] \in Loops
  BY DEF RunnerInv, AudioInv, TypeInv, TypeOK
<1>1. CASE d \in loop[r].todo
  BY <1>1, ListedFits
<1>2. CASE Start(r) /\ d \notin loop[r].todo
  <2>1. \/ loop' = [loop EXCEPT ![r].pc = "orphans", ![r].todo = {c \in Calls : Up(c)}]
        \/ loop' = [loop EXCEPT ![r].pc = "tick"]
    BY <1>2 DEF Start, LoopAt
  <2>2. d \in Calls /\ Up(d)
    BY <1>0, <1>2, <2>1 DEF Loops
  <2>3. task[d].pc \in {"none", "over"}
    BY <1>2, <2>2, StartingAlone DEF Start, Starting
  <2> QED BY <2>2, <2>3 DEF RunnerInv, Contained, Doomed
<1>3. CASE StaleSelect(r)
  <2>1. d \in Calls /\ old[d]
    BY <1>0, <1>3 DEF StaleSelect, StaleCalls, Loops
  <2> QED BY <2>1 DEF RunnerInv, SweptFits
<1> USE DEF Loops
<1>4. CASE OrphanRow(r)
  BY <1>0, <1>1, <1>4 DEF OrphanRow
<1>5. CASE OrphanCommit(r)
  BY <1>0, <1>1, <1>5 DEF OrphanCommit
<1>6. CASE OrphanKill(r)
  <2>1. loop'[r].pc \in {"dispatch", "orphans"} /\ loop'[r].todo = loop[r].todo
    <3>1. CASE loop[r].marked
      BY <1>0, <3>1, <1>6 DEF OrphanKill
    <3>2. CASE ~loop[r].marked
      <4>1. Return(r, "orphans")
        BY <3>2, <1>6 DEF OrphanKill
      <4>2. loop'[r] = [Down EXCEPT !.pc = "orphans", !.todo = loop[r].todo]
        BY <1>0, <4>1 DEF Return
      <4> QED BY <4>2 DEF Down
    <3> QED BY <3>1, <3>2
  <2> QED BY <1>1, <2>1
<1>7. CASE OrphansDone(r)
  BY <1>0, <1>1, <1>7 DEF OrphansDone, LoopAt
<1>8. CASE NotDue(r)
  BY <1>0, <1>1, <1>8 DEF NotDue, LoopAt
<1>9. CASE StaleKill(r)
  BY <1>0, <1>1, <1>9 DEF StaleKill
<1>10. CASE StaleRow(r)
  BY <1>0, <1>1, <1>10 DEF StaleRow, Return, Down, LoopAt
<1>11. CASE StaleCommit(r)
  BY <1>0, <1>1, <1>11 DEF StaleCommit
<1>12. CASE StaleDone(r)
  BY <1>0, <1>1, <1>12 DEF StaleDone, LoopAt
<1>13. CASE StaleRaises(r)
  BY <1>0, <1>1, <1>13 DEF StaleRaises, Down
<1>14. CASE Poll(r)
  BY <1>0, <1>1, <1>14 DEF Poll, LoopAt
<1>15. CASE PollNothing(r)
  BY <1>0, <1>1, <1>15 DEF PollNothing, LoopAt
<1>16. CASE LoopReadsHook(r)
  BY <1>0, <1>1, <1>16 DEF LoopReadsHook, Return, Down
<1>17. CASE LoopPosts(r)
  BY <1>0, <1>1, <1>17 DEF LoopPosts, LoopAt
<1>18. CASE LoopCommitsHook(r)
  BY <1>0, <1>1, <1>18 DEF LoopCommitsHook, Return, Down
<1> QED BY <1>1, <1>2, <1>3, <1>4, <1>5, <1>6, <1>7, <1>8, <1>9, <1>10, <1>11, <1>12, <1>13, <1>14, <1>15, <1>16, <1>17, <1>18 DEF LoopStep

\* The call that the loop has between two steps stays as LoopFits says.
LEMMA LoopKeeps ==
  ASSUME RunnerInv, NEW r \in Runners, Start(r) \/ LoopStep(r) \/ StaleRaises(r)
  PROVE  LoopFits(r)'
<1>0. /\ loop \in [Runners -> Loops] /\ loop[r] \in Loops
      /\ LoopFits(r) /\ TypeInv
      /\ loop[r].pc \in {"orphan_commit", "orphan_kill", "stale_row", "stale_commit",
                        "dispatch", "post", "posted"} => loop[r].call \in Calls
  BY DEF RunnerInv, AudioInv, TypeInv, TypeOK, CallNamed
<1>1. SUFFICES ASSUME loop'[r].pc \in {"orphan_commit", "orphan_kill", "stale_row",
                                     "stale_commit", "post", "posted"}
               PROVE  LoopFits(r)'
  BY DEF LoopFits
<1>2. CASE OrphanRow(r)
  <2>1. PICK c \in loop[r].todo :
          loop' = [loop EXCEPT ![r].todo = @ \ {c}, ![r].call = c, ![r].marked = FALSE,
                   ![r].pc = IF Terminal(c) THEN "orphan_kill" ELSE "orphan_commit"]
    BY <1>2 DEF OrphanRow
  <2>2. /\ loop'[r].pc = (IF Terminal(c) THEN "orphan_kill" ELSE "orphan_commit")
        /\ loop'[r].call = c
    BY <1>0, <2>1 DEF Loops
  <2>3. c \in Calls /\ task[c].pc # "none"
    BY ListedFits DEF Doomed
  <2>4. task[c].pc = "over" /\ row' = row /\ task' = task
    BY <1>2, <2>3, StartingAlone DEF OrphanRow, Starting
  <2> QED BY <2>2, <2>4 DEF LoopFits, Terminal
<1>3. CASE OrphanCommit(r)
  <2>1. loop'[r].pc = "orphan_kill" /\ loop'[r].call = loop[r].call /\ task' = task
    BY <1>0, <1>3 DEF OrphanCommit, Loops
  <2> QED BY <1>0, <1>3, <2>1 DEF LoopFits, OrphanCommit
<1>4. CASE StaleKill(r)
  <2>1. PICK c \in loop[r].todo :
          Kill(c) /\ loop' = [loop EXCEPT ![r].pc = "stale_row", ![r].todo = @ \ {c}, ![r].call = c]
    BY <1>4 DEF StaleKill
  <2>2. loop'[r].pc = "stale_row" /\ loop'[r].call = c
    BY <1>0, <2>1 DEF Loops
  <2>3. c \in Calls /\ Doomed(c)
    BY ListedFits
  <2>4. Doomed(c)'
    BY <2>3, LoopServes
  <2> QED BY <2>2, <2>4 DEF LoopFits
<1>5. CASE StaleRow(r)
  <2>0. PICK c \in Calls : c = loop[r].call
    BY <1>0, <1>5 DEF StaleRow
  <2>1. Doomed(c) /\ row' = row
    BY <1>0, <1>5, <2>0 DEF StaleRow, LoopFits
  <2>2. Doomed(c)'
    BY <2>1, LoopServes
  <2>3. Legal(row[c].status, "failed")
    BY <1>0, <1>1, <1>5, <2>0 DEF StaleRow, Return, Down
  <2>4. loop'[r].pc = "stale_commit" /\ loop'[r].call = c
    BY <1>0, <1>5, <2>0, <2>3 DEF StaleRow, LoopAt, Loops
  <2>5. row[c].status \in CallStatuses /\ row[c].status # "queued"
    BY <2>1 DEF RunnerInv, AudioInv, StoredFits, TypeInv, TypeOK, Rows, Doomed
  <2>6. row[c].status \in Claimed
    BY <2>3, <2>5, StatusesAre DEF Claimed
  <2> QED BY <2>1, <2>2, <2>4, <2>6 DEF LoopFits
<1>6. CASE LoopReadsHook(r)
  <2> DEFINE c == loop[r].call
             s == row[c].status
  <2>1. Undelivered(c)
    BY <1>0, <1>1, <1>6 DEF LoopReadsHook, Return, Down, Loops
  <2>2. loop' = [loop EXCEPT ![r].pc = "post", ![r].snap = s] /\ Terminal(c) /\ row' = row
    BY <1>6, <2>1 DEF LoopReadsHook, Undelivered
  <2> HIDE DEF s
  <2>3. loop'[r].pc = "post" /\ loop'[r].snap = s /\ loop'[r].call = c
    BY <1>0, <2>2 DEF Loops
  <2> QED BY <2>2, <2>3 DEF LoopFits, Terminal, s
<1>7. CASE LoopPosts(r)
  <2>1. /\ loop'[r].pc = "posted" /\ loop'[r].snap = loop[r].snap /\ loop'[r].call = loop[r].call
        /\ loop[r].pc = "post" /\ row' = row
    BY <1>0, <1>7 DEF LoopPosts, LoopAt, Loops
  <2> QED BY <1>0, <2>1 DEF LoopFits, Terminal
<1> USE DEF Loops
<1>8. CASE Start(r)
  BY <1>0, <1>1, <1>8 DEF Start, LoopAt
<1>9. CASE OrphanKill(r)
  <2>1. loop'[r].pc \in {"dispatch", "orphans"} /\ loop'[r].todo = loop[r].todo
    <3>1. CASE loop[r].marked
      BY <1>0, <3>1, <1>9 DEF OrphanKill
    <3>2. CASE ~loop[r].marked
      <4>1. Return(r, "orphans")
        BY <3>2, <1>9 DEF OrphanKill
      <4>2. loop'[r] = [Down EXCEPT !.pc = "orphans", !.todo = loop[r].todo]
        BY <1>0, <4>1 DEF Return
      <4> QED BY <4>2 DEF Down
    <3> QED BY <3>1, <3>2
  <2> QED BY <1>1, <2>1
<1>10. CASE OrphansDone(r)
  BY <1>0, <1>1, <1>10 DEF OrphansDone, LoopAt
<1>11. CASE StaleSelect(r)
  BY <1>0, <1>1, <1>11 DEF StaleSelect
<1>12. CASE NotDue(r)
  BY <1>0, <1>1, <1>12 DEF NotDue, LoopAt
<1>13. CASE StaleCommit(r)
  BY <1>0, <1>1, <1>13 DEF StaleCommit
<1>14. CASE StaleDone(r)
  BY <1>0, <1>1, <1>14 DEF StaleDone, LoopAt
<1>15. CASE StaleRaises(r)
  BY <1>0, <1>1, <1>15 DEF StaleRaises, Down
<1>16. CASE Poll(r)
  BY <1>0, <1>1, <1>16 DEF Poll, LoopAt
<1>17. CASE PollNothing(r)
  BY <1>0, <1>1, <1>17 DEF PollNothing, LoopAt
<1>18. CASE LoopCommitsHook(r)
  BY <1>0, <1>1, <1>18 DEF LoopCommitsHook, Return, Down
<1> QED BY <1>2, <1>3, <1>4, <1>5, <1>6, <1>7, <1>8, <1>9, <1>10, <1>11, <1>12, <1>13, <1>14, <1>15, <1>16, <1>17, <1>18 DEF LoopStep

\* A call that no step touches stays as it is.
LEMMA Untouched ==
  ASSUME RunnerInv, NEW d \in Calls,
         task'[d] = task[d], row'[d] = row[d], old'[d] = old[d], bot'[d] = bot[d],
         exit'[d] = exit[d], wav'[d] = wav[d], loop' = loop
  PROVE  Contained(d)' /\ SweptFits(d)' /\ TaskFits(d)'
<1>1. Contained(d) /\ SweptFits(d) /\ TaskFits(d)
  BY DEF RunnerInv
<1> QED BY <1>1 DEF Contained, SweptFits, TaskFits, Doomed, Up, Terminal

LEMMA RunnerTaskStep ==
  ASSUME RunnerInv, NEW c \in Calls, TaskStep(c) \/ TaskDies(c)
  PROVE  /\ \A d \in Calls : Contained(d)' /\ SweptFits(d)' /\ TaskFits(d)'
         /\ \A r \in Runners : LoopFits(r)'
<1>0. TypeInv
  BY DEF RunnerInv, AudioInv
<1>1. /\ Live(c) /\ loop' = loop
      /\ \A d \in Calls \ {c} : /\ task'[d] = task[d] /\ row'[d] = row[d]
                                /\ old'[d] = old[d] /\ bot'[d] = bot[d]
                                /\ exit'[d] = exit[d] /\ wav'[d] = wav[d]
  BY <1>0, TaskFrame
<1>2. /\ Moves(row[c].status, row'[c].status)
      /\ Contained(c)' /\ TaskFits(c)'
      /\ Doomed(c) => Doomed(c)'
      /\ Doomed(c) => row'[c].status \in {row[c].status, "failed"}
      /\ old'[c] => old[c]
  BY TaskServes
<1>3. SweptFits(c)'
  BY <1>1, <1>2 DEF RunnerInv, SweptFits
<1>4. ASSUME NEW d \in Calls PROVE Contained(d)' /\ SweptFits(d)' /\ TaskFits(d)'
  BY <1>1, <1>2, <1>3, Untouched
<1>5. ASSUME NEW r \in Runners PROVE LoopFits(r)'
  <2>1. LoopFits(r)
    BY DEF RunnerInv
  <2>2. CASE loop[r].pc \notin {"orphan_commit", "orphan_kill", "stale_row", "stale_commit", "post", "posted"}
    BY <1>1, <2>2 DEF LoopFits
  <2>3. CASE loop[r].pc \in {"orphan_commit", "orphan_kill", "stale_row", "stale_commit", "post", "posted"}
    <3>1. PICK k \in Calls : k = loop[r].call
      BY <1>0, <2>3 DEF TypeInv, CallNamed
    <3>2. CASE k # c
      BY <1>1, <2>1, <3>1, <3>2 DEF LoopFits, Terminal, Doomed
    <3>3. CASE k = c
      <4>1. loop[r].pc \notin {"orphan_commit", "orphan_kill"}
        BY <1>1, <2>1, <3>1, <3>3 DEF LoopFits, Live
      <4>2. loop[r].pc \in {"stale_row", "stale_commit"} => Doomed(c) /\ Doomed(c)'
        BY <1>2, <2>1, <3>1, <3>3 DEF LoopFits
      <4>3. loop[r].pc = "stale_commit" => row'[c].status \in Claimed \cup {"failed"}
        BY <1>2, <2>1, <3>1, <3>3, <4>2 DEF LoopFits
      <4>4. row[c].status \in CallStatuses
        BY <1>0 DEF TypeInv, TypeOK, Rows
      <4>5. Terminal(c) => row'[c].status = row[c].status
        BY <1>2, <4>4, StatusesAre, MovesAre DEF Moves, Terminal, Legal, LEGAL_TRANSITIONS
      <4> QED BY <1>1, <2>1, <3>1, <3>3, <4>1, <4>2, <4>3, <4>5 DEF LoopFits, Terminal
    <3> QED BY <3>2, <3>3
  <2> QED BY <2>2, <2>3
<1> QED BY <1>4, <1>5

LEMMA RunnerBotStep ==
  ASSUME RunnerInv, NEW c \in Calls, BotRecords(c) \/ BotExits(c) \/ BotHangs(c) \/ Age(c)
  PROVE  /\ \A d \in Calls : Contained(d)' /\ SweptFits(d)' /\ TaskFits(d)'
         /\ \A r \in Runners : LoopFits(r)'
<1>0. /\ wav \in [Calls -> BOOLEAN] /\ old \in [Calls -> BOOLEAN]
      /\ bot \in [Calls -> {"none", "joining", "recording", "hung"}]
      /\ exit \in [Calls -> {"none", "clean", "fail"}] /\ TypeInv
  BY DEF RunnerInv, AudioInv, TypeInv, TypeOK
<1>1. row' = row /\ task' = task /\ loop' = loop
  BY DEF BotRecords, BotExits, BotHangs, Age
<1>2. \A d \in Calls \ {c} : /\ old'[d] = old[d] /\ bot'[d] = bot[d]
                            /\ exit'[d] = exit[d] /\ wav'[d] = wav[d]
  BY <1>0 DEF BotRecords, BotExits, BotHangs, Age
<1>3. Contained(c) /\ SweptFits(c) /\ TaskFits(c) /\ ~Overrun /\ ~LateBots
  BY DEF RunnerInv
<1>4. /\ Doomed(c) => Doomed(c)'
      /\ Contained(c)'
  <2> USE DEF Contained, Up, Doomed
  <2>1. CASE BotRecords(c)
    BY <1>0, <1>1, <1>3, <2>1 DEF BotRecords, Answers
  <2>2. CASE BotExits(c)
    <3>1. PICK code \in {"clean", "fail"} : exit' = [exit EXCEPT ![c] = code]
      BY <2>2 DEF BotExits
    <3> QED BY <1>0, <1>1, <1>3, <2>2, <3>1 DEF BotExits, Answers
  <2>3. CASE BotHangs(c)
    BY <1>0, <1>1, <1>3, <2>3 DEF BotHangs
  <2>4. CASE Age(c)
    BY <1>0, <1>1, <1>3, <2>4 DEF Age
  <2> QED BY <2>1, <2>2, <2>3, <2>4
<1>5. TaskFits(c)'
  BY <1>1, <1>3, <1>4 DEF TaskFits, Terminal
<1>6. old'[c] /\ ~old[c] => Doomed(c)
  <2>1. CASE Age(c)
    <3>1. Live(c) => Doomed(c)
      BY <1>3, <2>1 DEF Age, Doomed
    <3>2. ~Live(c) => task[c].pc = "over"
      BY <1>3, <2>1 DEF Age, Live, TaskFits, Claimed
    <3> QED BY <3>1, <3>2 DEF Doomed
  <2> QED BY <2>1 DEF BotRecords, BotExits, BotHangs
<1>7. SweptFits(c)'
  BY <1>1, <1>3, <1>4, <1>6 DEF SweptFits
<1>8. ASSUME NEW d \in Calls PROVE Contained(d)' /\ SweptFits(d)' /\ TaskFits(d)'
  BY <1>1, <1>2, <1>4, <1>5, <1>7, Untouched
<1>9. ASSUME NEW r \in Runners PROVE LoopFits(r)'
  <2>1. LoopFits(r)
    BY DEF RunnerInv
  <2>2. CASE loop[r].pc \notin {"stale_row", "stale_commit"}
    BY <1>1, <2>1, <2>2 DEF LoopFits, Terminal
  <2>3. CASE loop[r].pc \in {"stale_row", "stale_commit"}
    <3>1. PICK k \in Calls : k = loop[r].call
      BY <1>0, <2>3 DEF TypeInv, CallNamed
    <3>2. Doomed(k)'
      BY <1>1, <1>2, <1>4, <2>1, <2>3, <3>1 DEF LoopFits, Doomed
    <3> QED BY <1>1, <2>1, <2>3, <3>1, <3>2 DEF LoopFits
  <2> QED BY <2>2, <2>3
<1> QED BY <1>8, <1>9

LEMMA RunnerLoopStep ==
  ASSUME RunnerInv, NEW r \in Runners, Start(r) \/ LoopStep(r) \/ StaleRaises(r)
  PROVE  /\ \A d \in Calls : Contained(d)' /\ SweptFits(d)' /\ TaskFits(d)'
         /\ \A s \in Runners : LoopFits(s)'
<1>1. \A s \in Runners : s = r
  BY DEF RunnerInv, SupervisedInv, OneRunner
<1>2. ASSUME NEW d \in Calls PROVE Contained(d)' /\ SweptFits(d)' /\ TaskFits(d)'
  <2>1. /\ Contained(d)' /\ TaskFits(d)'
        /\ Doomed(d) => Doomed(d)'
        /\ old'[d] => old[d]
    BY LoopServes
  <2>2. old'[d] => Doomed(d)
    BY <2>1 DEF RunnerInv, SweptFits
  <2>3. d \in loop'[r].todo => Doomed(d)
    BY ListKept
  <2>4. SweptFits(d)'
    BY <1>1, <2>1, <2>2, <2>3 DEF SweptFits
  <2> QED BY <2>1, <2>4
<1>3. ASSUME NEW s \in Runners PROVE LoopFits(s)'
  BY <1>1, LoopKeeps
<1> QED BY <1>2, <1>3

LEMMA RunnerStep == RunnerInv /\ [Next]_vars => RunnerInv'
<1> SUFFICES ASSUME RunnerInv, [Next]_vars PROVE RunnerInv'
  OBVIOUS
<1>1. AudioInv' /\ SupervisedInv'
  BY AudioStep, SupervisedStep DEF RunnerInv
<1>2. SUFFICES /\ \A d \in Calls : Contained(d)' /\ SweptFits(d)' /\ TaskFits(d)'
               /\ \A s \in Runners : LoopFits(s)'
  BY <1>1 DEF RunnerInv
<1>3. CASE \E c \in Calls : TaskStep(c) \/ TaskDies(c)
  BY <1>3, RunnerTaskStep
<1>4. CASE \E c \in Calls : BotRecords(c) \/ BotExits(c) \/ BotHangs(c) \/ Age(c)
  BY <1>4, RunnerBotStep
<1>5. CASE \E r \in Runners : Start(r) \/ LoopStep(r) \/ StaleRaises(r)
  BY <1>5, RunnerLoopStep
<1>6. ASSUME NEW r \in Runners, Crash(r)
      PROVE  /\ \A d \in Calls : Contained(d)' /\ SweptFits(d)' /\ TaskFits(d)'
             /\ \A s \in Runners : LoopFits(s)'
  <2>1. loop \in [Runners -> Loops] /\ \A s \in Runners : s = r
    BY DEF RunnerInv, AudioInv, TypeInv, TypeOK, SupervisedInv, OneRunner
  <2>2. loop'[r] = Down /\ UNCHANGED <<row, old, bot, exit, wav>>
    BY <1>6, <2>1 DEF Crash
  <2>3. ASSUME NEW d \in Calls PROVE Contained(d)' /\ SweptFits(d)' /\ TaskFits(d)'
    <3>1. Contained(d) /\ SweptFits(d) /\ TaskFits(d)
      BY DEF RunnerInv
    <3>2. task'[d] = (IF Live(d) /\ task[d].owner = r THEN Over ELSE task[d])
      BY <1>6 DEF Crash
    <3>3. task'[d].pc = "over" \/ task'[d] = task[d]
      BY <3>2 DEF Over, NoTask
    <3>4. Doomed(d) => Doomed(d)'
      BY <2>2, <3>3 DEF Doomed
    <3>6. \A s \in Runners : loop'[s].todo = {}
      BY <2>1, <2>2 DEF Down
    <3>7. SweptFits(d)'
      BY <2>2, <3>1, <3>4, <3>6 DEF SweptFits
    <3>8. Contained(d)'
      BY <2>2, <3>1, <3>3 DEF Contained, Up
    <3>9. TaskFits(d)'
      BY <2>2, <3>1, <3>3, <3>4 DEF TaskFits, Terminal
    <3> QED BY <3>7, <3>8, <3>9
  <2>4. ASSUME NEW s \in Runners PROVE LoopFits(s)'
    BY <2>1, <2>2 DEF LoopFits, Down
  <2> QED BY <2>3, <2>4
<1>7. CASE UNCHANGED vars
  <2>1. ASSUME NEW d \in Calls PROVE Contained(d)' /\ SweptFits(d)' /\ TaskFits(d)'
    BY <1>7, Untouched DEF vars
  <2>2. ASSUME NEW s \in Runners PROVE LoopFits(s)'
    BY <1>7 DEF vars, RunnerInv, LoopFits, Terminal, Doomed
  <2> QED BY <2>1, <2>2
<1> QED BY <1>3, <1>4, <1>5, <1>6, <1>7 DEF Next

LEMMA RunnerInvariant == Spec /\ OneRunner /\ ~Overrun /\ ~LateBots => []RunnerInv
<1>1. Init => AudioInv
  BY InitTypes DEF Init, AudioInv, StoredFits, Uploaded, Terminal, NoTask, TERMINAL_STATUSES
<1>2. Init /\ OneRunner => SupervisedInv
  BY InitTypes DEF Init, SupervisedInv, Supervised, Live, NoTask
<1>3. Init => /\ \A d \in Calls : Contained(d) /\ SweptFits(d) /\ TaskFits(d)
              /\ \A r \in Runners : LoopFits(r)
  BY DEF Init, Contained, SweptFits, TaskFits, LoopFits, Up, Down, NoTask
<1>4. Init /\ OneRunner /\ ~Overrun /\ ~LateBots => RunnerInv
  BY <1>1, <1>2, <1>3 DEF RunnerInv
<1> QED BY <1>4, RunnerStep, PTL DEF Spec

-------------------------------------------------------------------------------
(* The life cycle that clients and receivers see. *)

\* A step of the loop changes the status of one call at most.
LEMMA LoopWritesOne ==
  ASSUME TypeInv, NEW r \in Runners, Start(r) \/ LoopStep(r) \/ StaleRaises(r), Calls # {}
  PROVE  \E c \in Calls : \A d \in Calls \ {c} : row'[d].status = row[d].status
<1>0. loop[r].pc \in {"orphan_commit", "stale_commit", "posted"} => loop[r].call \in Calls
  BY DEF TypeInv, CallNamed
<1>1. ASSUME NEW c \in Calls, NEW s, NEW why, Write(c, s, why)
      PROVE  \A d \in Calls \ {c} : row'[d].status = row[d].status
  BY <1>1, WriteMoves
<1>2. CASE OrphanCommit(r)
  BY <1>0, <1>1, <1>2 DEF OrphanCommit
<1>3. CASE StaleCommit(r)
  BY <1>0, <1>1, <1>3 DEF StaleCommit
<1>4. CASE Poll(r)
  BY <1>1, <1>4 DEF Poll
<1>5. CASE LoopCommitsHook(r)
  BY <1>0, <1>5, HookMoves DEF LoopCommitsHook
<1> QED BY <1>2, <1>3, <1>4, <1>5 DEF Start, StaleRaises, LoopStep, OrphanRow, OrphanKill,
           OrphansDone, StaleSelect, NotDue, StaleKill, StaleRow, StaleDone, PollNothing,
           LoopReadsHook, LoopPosts

\* Whatever the runner does is one legal move of one row, or one webhook that
\* says what its row says, or nothing that a client could see.
LEMMA SeenFromOutside ==
  ASSUME RunnerInv, Next
  PROVE  \/ hooks' = hooks /\ \A d \in Calls : row'[d].status = row[d].status
         \/ /\ hooks' = hooks
            /\ \E c \in Calls : /\ Moves(row[c].status, row'[c].status)
                               /\ \A d \in Calls \ {c} : row'[d].status = row[d].status
         \/ /\ row' = row
            /\ \E c \in Calls : /\ Terminal(c)
                               /\ hooks' = [hooks EXCEPT ![c] = @ \cup {row[c].status}]
<1>0. TypeInv
  BY DEF RunnerInv, AudioInv
<1>1. ASSUME NEW c \in Calls, TaskPosts(c)
      PROVE  /\ row' = row /\ Terminal(c)
             /\ hooks' = [hooks EXCEPT ![c] = @ \cup {row[c].status}]
  BY <1>1 DEF TaskPosts, RunnerInv, TaskFits
<1>2. ASSUME NEW c \in Calls, TaskStep(c) \/ TaskDies(c), ~TaskPosts(c)
      PROVE  /\ hooks' = hooks /\ Moves(row[c].status, row'[c].status)
             /\ \A d \in Calls \ {c} : row'[d].status = row[d].status
  <2>1. hooks' = hooks
    BY <1>2 DEF TaskStep, CheckJoinable, SpawnBot, SeeRecording, CommitRecording, ReadExit, Upload,
              Transcribe, ReadRow, CommitRow, Unlink, TaskReadsHook, TaskCommitsHook, TaskDies
  <2> QED BY <1>0, <1>2, <2>1, TaskFrame, TaskServes
<1>3. ASSUME NEW r \in Runners, LoopPosts(r)
      PROVE  /\ row' = row
             /\ \E c \in Calls : /\ Terminal(c)
                                /\ hooks' = [hooks EXCEPT ![c] = @ \cup {row[c].status}]
  BY <1>0, <1>3 DEF LoopPosts, RunnerInv, LoopFits, TypeInv, CallNamed
<1>4. ASSUME NEW r \in Runners, Start(r) \/ LoopStep(r) \/ StaleRaises(r), ~LoopPosts(r)
      PROVE  /\ hooks' = hooks
             /\ \/ \A d \in Calls : row'[d].status = row[d].status
                \/ \E c \in Calls : /\ Moves(row[c].status, row'[c].status)
                                   /\ \A d \in Calls \ {c} : row'[d].status = row[d].status
  <2>1. hooks' = hooks
    BY <1>4 DEF Start, StaleRaises, LoopStep, OrphanRow, OrphanCommit, OrphanKill,
              OrphansDone, StaleSelect, NotDue, StaleKill, StaleRow, StaleCommit, StaleDone, Poll, PollNothing,
              LoopReadsHook, LoopCommitsHook
  <2>2. CASE Calls # {}
    <3>1. PICK c \in Calls : \A d \in Calls \ {c} : row'[d].status = row[d].status
      BY <1>0, <1>4, <2>2, LoopWritesOne
    <3>2. Moves(row[c].status, row'[c].status)
      BY <1>4, LoopServes
    <3> QED BY <2>1, <3>1, <3>2
  <2> QED BY <2>1, <2>2
<1>5. CASE \/ \E c \in Calls : BotRecords(c) \/ BotExits(c) \/ BotHangs(c) \/ Age(c)
           \/ \E r \in Runners : Crash(r)
  BY <1>5 DEF BotRecords, BotExits, BotHangs, Age, Crash
<1> QED BY <1>1, <1>2, <1>3, <1>4, <1>5 DEF Next

\* The status of a call moves along the table and no write undoes another's, as
\* long as no transcription and no bot outlives the cutoff of the stale sweep.
THEOREM StatusesAreStrict == Spec /\ OneRunner /\ ~Overrun /\ ~LateBots => StrictStatusMachine
<1>1. RunnerInv /\ [Next]_vars
      => [\A c \in Calls : row'[c].status # row[c].status
                           => Legal(row[c].status, row'[c].status)]_vars
  <2> SUFFICES ASSUME RunnerInv, Next, NEW d \in Calls, row'[d].status # row[d].status
               PROVE  Legal(row[d].status, row'[d].status)
    BY DEF vars
  <2> QED BY SeenFromOutside DEF Moves
<1> QED BY <1>1, RunnerInvariant, PTL DEF Spec, StrictStatusMachine

\* The runner implements the life cycle it promises: each of its steps is a legal
\* move of one row, a webhook with the outcome of its row, or a stutter.
THEOREM LifecycleImplemented == Spec /\ OneRunner /\ ~Overrun /\ ~LateBots => ImplementsLifecycle
<1>1. Init => Lifecycle!Init
  BY DEF Init, Lifecycle!Init
<1>2. RunnerInv /\ [Next]_vars => [Lifecycle!Next]_(Lifecycle!vars)
  <2> SUFFICES ASSUME RunnerInv, [Next]_vars PROVE [Lifecycle!Next]_(Lifecycle!vars)
    OBVIOUS
  <2> DEFINE st == [c \in Calls |-> row[c].status]
  <2>1. CASE UNCHANGED vars \/ (hooks' = hooks /\ \A d \in Calls : row'[d].status = row[d].status)
    <3>1. st' = st /\ hooks' = hooks
      BY <2>1 DEF vars
    <3> QED BY <3>1 DEF Lifecycle!vars
  <2>2. ASSUME NEW c \in Calls, hooks' = hooks, Moves(row[c].status, row'[c].status),
               \A d \in Calls \ {c} : row'[d].status = row[d].status
        PROVE  [Lifecycle!Next]_(Lifecycle!vars)
    <3>1. st' = [st EXCEPT ![c] = row'[c].status]
      BY <2>2
    <3>2. CASE row'[c].status = row[c].status
      <4>1. st' = st
        BY <3>1, <3>2
      <4> QED BY <2>2, <4>1 DEF Lifecycle!vars
    <3>3. CASE row'[c].status # row[c].status
      <4>1. row'[c].status \in Lifecycle!LEGAL_TRANSITIONS[st[c]]
        BY <2>2, <3>3 DEF Moves, Legal, LEGAL_TRANSITIONS, Lifecycle!LEGAL_TRANSITIONS,
           CallStatuses, Lifecycle!CallStatuses, ACTIVE_STATUSES, Lifecycle!ACTIVE_STATUSES,
           TERMINAL_STATUSES, Lifecycle!TERMINAL_STATUSES
      <4>2. Lifecycle!Advance(c)
        BY <2>2, <3>1, <4>1 DEF Lifecycle!Advance
      <4> QED BY <4>2 DEF Lifecycle!Next
    <3> QED BY <3>2, <3>3
  <2>3. ASSUME NEW c \in Calls, row' = row, Terminal(c),
               hooks' = [hooks EXCEPT ![c] = @ \cup {row[c].status}]
        PROVE  [Lifecycle!Next]_(Lifecycle!vars)
    <3>1. Lifecycle!Tell(c)
      BY <2>3 DEF Lifecycle!Tell, Terminal, TERMINAL_STATUSES, Lifecycle!TERMINAL_STATUSES
    <3> QED BY <3>1 DEF Lifecycle!Next
  <2> QED BY <2>1, <2>2, <2>3, SeenFromOutside
<1> QED BY <1>1, <1>2, RunnerInvariant, PTL DEF Spec, ImplementsLifecycle, Lifecycle!Spec

\* In the abstract life cycle an outcome that was told is terminal, and a terminal
\* status has no successor.
LEMMA TruthStep ==
  Lifecycle!TypeOK /\ Lifecycle!ToldTheTruth /\ [Lifecycle!Next]_(Lifecycle!vars)
    => Lifecycle!TypeOK' /\ Lifecycle!ToldTheTruth'
<1> DEFINE st == [c \in Calls |-> row[c].status]
           Inv == Lifecycle!TypeOK /\ Lifecycle!ToldTheTruth
<1> SUFFICES ASSUME Inv, [Lifecycle!Next]_(Lifecycle!vars) PROVE Inv'
  OBVIOUS
<1>0. /\ Lifecycle!CallStatuses = {"queued", "joining", "recording", "processing", "done", "failed"}
      /\ Lifecycle!TERMINAL_STATUSES = {"done", "failed"}
  BY DEF Lifecycle!CallStatuses, Lifecycle!ACTIVE_STATUSES, Lifecycle!TERMINAL_STATUSES
<1>1. \A s \in Lifecycle!CallStatuses :
        /\ Lifecycle!LEGAL_TRANSITIONS[s] \subseteq Lifecycle!CallStatuses
        /\ s \in Lifecycle!TERMINAL_STATUSES => Lifecycle!LEGAL_TRANSITIONS[s] = {}
  BY <1>0 DEF Lifecycle!LEGAL_TRANSITIONS
<1>2. /\ st \in [Calls -> Lifecycle!CallStatuses]
      /\ hooks \in [Calls -> SUBSET Lifecycle!TERMINAL_STATUSES]
      /\ \A c \in Calls : hooks[c] \subseteq {st[c]}
  BY DEF Lifecycle!TypeOK, Lifecycle!ToldTheTruth
<1>3. SUFFICES /\ st' \in [Calls -> Lifecycle!CallStatuses]
               /\ hooks' \in [Calls -> SUBSET Lifecycle!TERMINAL_STATUSES]
               /\ \A c \in Calls : hooks'[c] \subseteq {st'[c]}
  BY DEF Lifecycle!TypeOK, Lifecycle!ToldTheTruth
<1>4. ASSUME NEW c \in Calls, Lifecycle!Advance(c)
      PROVE  /\ st' \in [Calls -> Lifecycle!CallStatuses]
             /\ hooks' \in [Calls -> SUBSET Lifecycle!TERMINAL_STATUSES]
             /\ \A d \in Calls : hooks'[d] \subseteq {st'[d]}
  <2>1. PICK s \in Lifecycle!LEGAL_TRANSITIONS[st[c]] : st' = [st EXCEPT ![c] = s] /\ hooks' = hooks
    BY <1>4 DEF Lifecycle!Advance
  <2> HIDE DEF st
  <2>2. s \in Lifecycle!CallStatuses /\ hooks[c] = {}
    BY <1>1, <1>2, <2>1
  <2> QED BY <1>2, <2>1, <2>2
<1>5. ASSUME NEW c \in Calls, Lifecycle!Tell(c)
      PROVE  /\ st' \in [Calls -> Lifecycle!CallStatuses]
             /\ hooks' \in [Calls -> SUBSET Lifecycle!TERMINAL_STATUSES]
             /\ \A d \in Calls : hooks'[d] \subseteq {st'[d]}
  <2>1. st' = st /\ hooks' = [hooks EXCEPT ![c] = @ \cup {st[c]}] /\ st[c] \in Lifecycle!TERMINAL_STATUSES
    BY <1>5 DEF Lifecycle!Tell
  <2> HIDE DEF st
  <2> QED BY <1>2, <2>1
<1>6. CASE UNCHANGED Lifecycle!vars
  <2>1. st' = st /\ hooks' = hooks
    BY <1>6 DEF Lifecycle!vars
  <2> HIDE DEF st
  <2> QED BY <1>2, <2>1
<1> QED BY <1>4, <1>5, <1>6 DEF Lifecycle!Next

\* Receivers are only ever told an outcome that their call keeps for good: of
\* whatever implements the life cycle, not of the runner only.
THEOREM Truth == Lifecycle!Spec => []Lifecycle!ToldTheTruth
<1>1. Lifecycle!Init => Lifecycle!TypeOK /\ Lifecycle!ToldTheTruth
  BY DEF Lifecycle!Init, Lifecycle!TypeOK, Lifecycle!ToldTheTruth, Lifecycle!CallStatuses,
     Lifecycle!ACTIVE_STATUSES
<1> QED BY <1>1, TruthStep, PTL DEF Lifecycle!Spec

\* What a receiver was told stays what the row says, by the refinement alone.
THEOREM ReceiversAgree == Spec /\ OneRunner /\ ~Overrun /\ ~LateBots => []ReceiverAgrees
<1>1. Lifecycle!ToldTheTruth => ReceiverAgrees
  BY DEF Lifecycle!ToldTheTruth, ReceiverAgrees
<1> QED BY <1>1, Truth, LifecycleImplemented, PTL DEF ImplementsLifecycle
===============================================================================
