--------------------------- MODULE StageCheckpoint ---------------------------
(***************************************************************************)
(* Stage checkpoints of a multi-agent Run and its recovery.  A Stage's       *)
(* start and end are each recorded by several durable writes (the step row,  *)
(* the checkpoint, the Stage event, the checkpoint event); the process may   *)
(* die between any two of them, or one may fail.  A cold start repairs the   *)
(* Run; Resume validates checkpoints, effects and events, makes the Run      *)
(* running, plans again and applies the plan write by write, then runs the   *)
(* tail of the collaboration, skipping the Stages whose step is complete.    *)
(* Operators settle and undo tool effects at any time.                       *)
(***************************************************************************)
EXTENDS Naturals, Sequences, SequencesExt, FiniteSets, FiniteSetsExt

CONSTANTS Roles,       \* the Stages of the tail, in order
          MaxCrashes,  \* crashes of the process
          MaxEffects   \* tool effects of the Run

ASSUME RolesAssumption == Roles \in Seq(Range(Roles)) /\ Roles # <<>> /\ IsInjective(Roles)

VARIABLES stageRun,      \* runs.status
          steps,    \* collaboration_steps in creation order: role and status
          ck,       \* the checkpoint of each step: status ("none": no row) and event cursor
          log,      \* run_events: type and Stage; an event's sequence is its index
          stageEffects,  \* tool_effects: Stage and status
          phase,    \* the live execution: off, tail, turn, failing, validated, accepted
          todo,     \* the durable writes the execution has still to make, in order, Stage by Stage
          known,    \* the steps the tail was given
          reused,   \* steps whose output the tail took instead of running the Stage
          crashes
stageVars == <<stageRun, steps, ck, log, stageEffects, phase, todo, known, reused, crashes>>

StageTerminal == {"stage.completed", "stage.failed"}
Unsettled == {"needs_reconciliation", "reconciling"}
effectsOf(s) == {stageEffects[i].status : i \in {j \in 1..Len(stageEffects) : stageEffects[j].stage = s}}
eventsOf(s, types) == {i \in 1..Len(log) : log[i].stage = s /\ log[i].type \in types}
lastStageEvent(s) == Max(eventsOf(s, StageTerminal \cup {"stage.started"}))
current == Len(steps)
completedOf(role, set) == {i \in set : steps[i].role = role /\ steps[i].status = "completed"}

runEvent(type) == [stage |-> 0, type |-> type]

StageInit ==
  /\ stageRun = "running" /\ steps = <<>> /\ ck = <<>> /\ stageEffects = <<>>
  /\ log = <<runEvent("run.started")>>
  /\ phase = "tail" /\ todo = <<>> /\ known = {} /\ reused = {} /\ crashes = 0

----------------------------------------------------------------------------
(* The writes.                                                              *)

StageUpdate(s, status) == [op |-> "step", stage |-> s, to |-> status, cursor |-> 0]
StageRunEvent(s, type) == [op |-> "event", stage |-> s, to |-> type, cursor |-> 0]
\* Cursor 0: the sequence of the Stage event written just before.
CheckpointWrite(s, status, cursor) == [op |-> "save", stage |-> s, to |-> status, cursor |-> cursor]

checkpointTransitionAllowed(from, to) ==
  \/ from = to
  \/ from = "none"
  \/ from = "prepared" /\ to \in {"executing", "needs_reconciliation"}
  \/ from = "executing" /\ to \in {"committed", "needs_reconciliation"}
  \/ from = "needs_reconciliation" /\ to = "compensated"

cursorOf(w) == IF w.cursor = 0 /\ w.to # "prepared" THEN lastStageEvent(w.stage) ELSE w.cursor

\* The inputs, the snapshot and the Tool definitions of a Stage are frozen with the Run.
ValidateCheckpointUpdate(w) ==
  /\ checkpointTransitionAllowed(ck[w.stage].status, w.to)
  /\ cursorOf(w) >= ck[w.stage].cursor

\* A Stage that ends without a checkpoint gets one first, from its open start if it has one.
RecordStageTransition(s, type) ==
  LET open == eventsOf(s, {"stage.started"})
      first == IF ck[s].status # "none" THEN <<>>
               ELSE <<CheckpointWrite(s, "prepared", IF open = {} THEN Len(log) ELSE Max(open))>>
                    \o (IF open = {} THEN <<StageRunEvent(s, "stage.started")>> ELSE <<>>)
                    \o <<CheckpointWrite(s, "executing", 0)>>
  IN IF type = "stage.started"
     THEN <<CheckpointWrite(s, "prepared", Len(log)), StageRunEvent(s, type),
            CheckpointWrite(s, "executing", 0), StageRunEvent(s, "checkpoint.captured")>>
     ELSE first \o <<StageRunEvent(s, type),
            CheckpointWrite(s, IF type = "stage.completed" THEN "committed" ELSE "needs_reconciliation", 0),
            StageRunEvent(s, "checkpoint.captured")>>

Alive == stageRun = "running" /\ phase # "off"

\* The execution's next write; SaveStageCheckpoint refuses an update that is not valid.
Write ==
  /\ Alive /\ todo # <<>>
  /\ LET w == todo[1][1] IN
     \/ w.op = "step" /\ steps' = [steps EXCEPT ![w.stage].status = w.to] /\ UNCHANGED <<ck, log>>
     \/ w.op = "event" /\ log' = Append(log, [stage |-> w.stage, type |-> w.to]) /\ UNCHANGED <<ck, steps>>
     \/ /\ w.op = "save" /\ ValidateCheckpointUpdate(w)
        /\ ck' = [ck EXCEPT ![w.stage] = [status |-> w.to, cursor |-> cursorOf(w)]]
        /\ UNCHANGED <<log, steps>>
  /\ todo' = IF Len(todo[1]) = 1 THEN Tail(todo) ELSE [todo EXCEPT ![1] = Tail(@)]
  /\ UNCHANGED <<stageRun, stageEffects, phase, known, reused, crashes>>

\* A write fails: the execution ends with its error and the Run settles as failed.
WriteFails ==
  /\ Alive /\ todo # <<>>
  /\ stageRun' = "failed" /\ phase' = "off" /\ todo' = <<>>
  /\ UNCHANGED <<steps, ck, log, stageEffects, known, reused, crashes>>

----------------------------------------------------------------------------
(* The tail.                                                                *)

Ready(p) == Alive /\ phase = p /\ todo = <<>>
\* The steps of this execution: the ones it completed itself and the ones it reused.
stageFinished == reused \cup {i \in (1..Len(steps)) \ known : steps[i].status = "completed"}
nextRole == SelectInSeq(Roles, LAMBDA r : r \notin {steps[i].role : i \in stageFinished})

latestCompletedCollaborationStep(role) == completedOf(role, known)

\* runCollaborationTail: the next Stage is taken from a completed step or created and started.
runCollaborationTail ==
  /\ Ready("tail") /\ nextRole > 0
  /\ LET r == Roles[nextRole]
         done == latestCompletedCollaborationStep(r)
     IN \/ done # {} /\ reused' = reused \cup {Max(done)} /\ UNCHANGED <<steps, ck, phase, todo>>
        \/ /\ done = {}
           /\ steps' = Append(steps, [role |-> r, status |-> "running"])
           /\ ck' = Append(ck, [status |-> "none", cursor |-> 0])
           /\ phase' = "turn"
           /\ todo' = <<RecordStageTransition(Len(steps) + 1, "stage.started")>>
           /\ UNCHANGED reused
  /\ UNCHANGED <<stageRun, log, stageEffects, known, crashes>>

\* The Turn of the Stage calls a tool with a journal; its effect is decided later.
BeginEffect ==
  /\ Ready("turn") /\ Len(stageEffects) < MaxEffects
  /\ \A i \in 1..Len(stageEffects) : stageEffects[i].status \notin {"executing", "needs_reconciliation"}
  /\ stageEffects' = Append(stageEffects, [stage |-> current, status |-> "executing"])
  /\ UNCHANGED <<stageRun, steps, ck, log, phase, todo, known, reused, crashes>>

FinishEffect ==
  /\ Ready("turn")
  /\ \E i \in 1..Len(stageEffects), s \in {"committed", "failed", "needs_reconciliation"} :
       stageEffects[i].status = "executing" /\ stageEffects' = [stageEffects EXCEPT ![i].status = s]
  /\ UNCHANGED <<stageRun, steps, ck, log, phase, todo, known, reused, crashes>>

\* The step row is completed before the Stage's end is recorded.
runWorkerStage ==
  /\ Ready("turn")
  /\ effectsOf(current) \cap {"executing", "needs_reconciliation"} = {}
  /\ todo' = << <<StageUpdate(current, "completed")>> \o RecordStageTransition(current, "stage.completed") >>
  /\ phase' = "tail"
  /\ UNCHANGED <<stageRun, steps, ck, log, stageEffects, known, reused, crashes>>

\* The Turn fails, as it must after an uncertain effect; the Run fails with it.
failCollaborationStage ==
  /\ Ready("turn") /\ "executing" \notin effectsOf(current)
  /\ todo' = << <<StageUpdate(current, "failed")>> \o RecordStageTransition(current, "stage.failed") >>
  /\ phase' = "failing"
  /\ UNCHANGED <<stageRun, steps, ck, log, stageEffects, known, reused, crashes>>

StageSettle ==
  /\ \/ Ready("tail") /\ nextRole = 0 /\ stageRun' = "completed"
     \/ Ready("failing") /\ stageRun' = "failed"
  /\ phase' = "off"
  /\ UNCHANGED <<steps, ck, log, stageEffects, todo, known, reused, crashes>>

----------------------------------------------------------------------------
(* Crash, repair and operators.                                             *)

StageCrash ==
  /\ phase # "off" /\ crashes < MaxCrashes
  /\ phase' = "off" /\ todo' = <<>> /\ known' = {} /\ reused' = {} /\ crashes' = crashes + 1
  /\ UNCHANGED <<stageRun, steps, ck, log, stageEffects>>

\* The cold start: open Stages end, running steps fail, executing effects become
\* uncertain and the Run recoverable, in one transaction.
StageRepair ==
  /\ stageRun = "running" /\ phase = "off"
  /\ stageRun' = "failed_recoverable"
  /\ LET open == {s \in 1..Len(steps) : /\ eventsOf(s, {"stage.started"}) # {}
                                        /\ eventsOf(s, StageTerminal) = {}}
     IN log' = log \o SetToSeq({[stage |-> s, type |-> "stage.failed"] : s \in open}) \o <<runEvent("run.failed")>>
  /\ steps' = [i \in 1..Len(steps) |-> IF steps[i].status = "running" THEN [steps[i] EXCEPT !.status = "failed"]
                                                                      ELSE steps[i]]
  /\ stageEffects' = [i \in 1..Len(stageEffects) |-> IF stageEffects[i].status = "executing"
                                           THEN [stageEffects[i] EXCEPT !.status = "needs_reconciliation"] ELSE stageEffects[i]]
  /\ UNCHANGED <<ck, phase, todo, known, reused, crashes>>

\* An operator confirms or compensates an uncertain effect, or undoes a committed one;
\* neither looks at the Run.
ReconcileToolEffect ==
  /\ \E i \in 1..Len(stageEffects) :
       \/ /\ stageEffects[i].status \in Unsettled
          /\ \E s \in {"committed", "failed", "compensated"} : stageEffects' = [stageEffects EXCEPT ![i].status = s]
       \/ stageEffects[i].status = "committed" /\ stageEffects' = [stageEffects EXCEPT ![i].status = "reconciling"]
  /\ UNCHANGED <<stageRun, steps, ck, log, phase, todo, known, reused, crashes>>

----------------------------------------------------------------------------
(* Resume.                                                                  *)

hasUncertainEffect(s) == effectsOf(s) \ {"committed", "compensated"} # {}

stageTerminalAfter(s) ==
  LET after == {i \in eventsOf(s, StageTerminal) : i > ck[s].cursor}
  IN IF ck[s].status \in {"prepared", "executing"} /\ after # {} THEN Min(after) ELSE 0

\* The status a Stage restores to: its checkpoint's, or what the event written after it proves.
restoresAs(s) ==
  IF stageTerminalAfter(s) = 0 THEN ck[s].status
  ELSE IF log[stageTerminalAfter(s)].type = "stage.completed" THEN "committed" ELSE "needs_reconciliation"

\* Mutant: a committed effect does not block the restore of an unfinished Stage.
planStageRestoreUnsafe(s) ==
  LET status == restoresAs(s) IN
  /\ stageTerminalAfter(s) # 0 /\ status = "committed" => ~hasUncertainEffect(s)
  /\ status \notin {"committed", "compensated"} => ~hasUncertainEffect(s)

planStageRestore(s) ==
  LET status == restoresAs(s) IN
  /\ stageTerminalAfter(s) # 0 /\ status = "committed" => ~hasUncertainEffect(s)
  /\ status # "committed" => "committed" \notin effectsOf(s)
  /\ status \notin {"committed", "compensated"} => ~hasUncertainEffect(s)

checkpointed == {s \in 1..Len(steps) : ck[s].status # "none"}
planRestore == \A s \in checkpointed : planStageRestore(s)

ValidateResume ==
  /\ stageRun = "failed_recoverable" /\ phase = "off" /\ planRestore
  /\ phase' = "validated" /\ known' = 1..Len(steps)
  /\ UNCHANGED <<stageRun, steps, ck, log, stageEffects, todo, reused, crashes>>

\* The conditional transition to running with run.resumed.
AcceptResume ==
  /\ stageRun = "failed_recoverable" /\ phase = "validated"
  /\ stageRun' = "running" /\ phase' = "accepted" /\ log' = Append(log, runEvent("run.resumed"))
  /\ UNCHANGED <<steps, ck, stageEffects, todo, known, reused, crashes>>

reconcileStageTerminal(s) ==
  LET t == stageTerminalAfter(s) IN
  IF t = 0 THEN <<>>
  ELSE IF log[t].type = "stage.completed"
       THEN (IF ck[s].status = "prepared" THEN <<CheckpointWrite(s, "executing", t)>> ELSE <<>>)
            \o <<CheckpointWrite(s, "committed", t)>>
       ELSE <<CheckpointWrite(s, "needs_reconciliation", t)>>

compensateInternalState(s) ==
  LET cursor == IF stageTerminalAfter(s) = 0 THEN ck[s].cursor ELSE stageTerminalAfter(s) IN
  <<StageRunEvent(s, "compensation.started")>>
  \o (IF restoresAs(s) = "needs_reconciliation" THEN <<>>
      ELSE <<CheckpointWrite(s, "needs_reconciliation", cursor)>>)
  \o <<CheckpointWrite(s, "compensated", cursor), StageRunEvent(s, "compensation.completed")>>

restoreWrites(s) ==
  reconcileStageTerminal(s) \o
  CASE restoresAs(s) = "committed" -> <<StageRunEvent(s, "checkpoint.restored")>>
    [] restoresAs(s) = "compensated" -> <<>>
    [] OTHER -> compensateInternalState(s)

restored == {s \in checkpointed : restoreWrites(s) # <<>>}
\* ListStageCheckpoints orders by cursor.
restoredBefore(a, b) == ck[a].cursor < ck[b].cursor \/ (ck[a].cursor = ck[b].cursor /\ a < b)
restoredAt(n) == CHOOSE s \in restored : Cardinality({r \in restored : restoredBefore(r, s)}) = n - 1

\* RestoreRun plans again; a refusal now is the error of an accepted execution.
RestoreRun ==
  /\ Ready("accepted")
  /\ \/ /\ planRestore /\ phase' = "tail" /\ UNCHANGED stageRun
        /\ todo' = [n \in 1..Cardinality(restored) |-> restoreWrites(restoredAt(n))]
     \/ ~planRestore /\ stageRun' = "failed" /\ phase' = "off" /\ todo' = <<>>
  /\ UNCHANGED <<steps, ck, log, stageEffects, known, reused, crashes>>

StageNext ==
  \/ Write \/ WriteFails \/ runCollaborationTail \/ BeginEffect \/ FinishEffect \/ runWorkerStage
  \/ failCollaborationStage \/ StageSettle \/ StageCrash \/ StageRepair \/ ReconcileToolEffect
  \/ ValidateResume \/ AcceptResume \/ RestoreRun

StageSpec == StageInit /\ [][StageNext]_stageVars

----------------------------------------------------------------------------
(* Properties.                                                              *)

\* A Stage is created again only if nothing its earlier attempt wrote is, or may
\* be, in force: Resume fails closed on committed and uncertain effects.
NoWriteRepeated ==
  \A i, j \in 1..Len(steps) : i < j /\ steps[i].role = steps[j].role =>
    effectsOf(i) \subseteq {"compensated"}

\* However often the process died while recording or restoring, no checkpoint
\* write the code makes is one SaveStageCheckpoint refuses: a refused one would
\* turn a resumable Run into a failed one.
SavesAreAccepted ==
  Alive /\ todo # <<>> /\ todo[1][1].op = "save" => ValidateCheckpointUpdate(todo[1][1])

\* A committed checkpoint proves its Stage: the step is complete, stage.completed
\* is in the stream and the cursor has passed it.
CommittedIsDurable ==
  \A s \in checkpointed : ck[s].status = "committed" =>
    /\ steps[s].status = "completed"
    /\ \E e \in eventsOf(s, {"stage.completed"}) : e <= ck[s].cursor

\* However often the Run is resumed, a Stage completes once, and the Run is
\* completed only when every Stage of the tail is.
EachStageOnce ==
  \A k \in 1..Len(Roles) :
    LET done == completedOf(Roles[k], 1..Len(steps))
    IN Cardinality(done) <= 1 /\ (stageRun = "completed" => done # {})

\* The tail only reuses Stages whose checkpoint is committed.
ReusedStageIsCommitted == \A s \in reused : todo = <<>> => ck[s].status = "committed"

\* committedEffectsInUnfinishedStages and unresolvedToolEffects: Replay offers an
\* enabled resume_run exactly when there are neither.
unfinishedStage(s) == restoresAs(s) # "committed"
resumeOffered ==
  /\ stageRun = "failed_recoverable"
  /\ \A i \in 1..Len(stageEffects) :
       /\ stageEffects[i].status \notin Unsettled
       /\ ~(stageEffects[i].stage \in checkpointed /\ unfinishedStage(stageEffects[i].stage) /\ stageEffects[i].status = "committed")

\* What Replay offers, Resume honours: the two share one notion of an effect that
\* needs reconciliation.
ResumeOfferIsHonoured == resumeOffered => planRestore

\* A checkpoint refusal leaves the Run recoverable.
RefusalKeepsRecoverable == [][RestoreRun => stageRun' # "failed"]_stageVars

\* Crash, repair and Resume at any point of a tail neither repeat a write, nor lose or
\* repeat a Stage, nor get stuck on a checkpoint the Store refuses: the first four parts above.
RestoreSafe == NoWriteRepeated /\ SavesAreAccepted /\ CommittedIsDurable /\ EachStageOnce
=============================================================================
