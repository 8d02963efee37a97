---------------------------- MODULE Clarification ----------------------------
(***************************************************************************)
(* Structured clarification of one Run.  The executing Turn commits a       *)
(* question and its private continuation together with waiting_for_user;    *)
(* an answer is saved apart from any execution; a Resume command, holding   *)
(* the Conversation writer, plans from what it reads, claims the saved      *)
(* answer under the Run's lock and continues.  The process may die at any   *)
(* step, tool effects may be committed or left uncertain by the             *)
(* continuation, and operators settle them.                                 *)
(***************************************************************************)
EXTENDS Naturals, Sequences

CONSTANTS Commands,     \* Resume commands
          Keys,         \* idempotency keys; a key stands for the answers sent with it
          None,
          MaxReceipts,  \* clarification receipts of a Run (16 in the code)
          MaxWrites     \* tool effects of the Run

ASSUME BoundsAssumption == MaxReceipts > 0 /\ None \notin Commands \cup Keys

VARIABLES mode,     \* single, multi_agent or autonomous
          clarifyRun,      \* runs.status
          turn,     \* open while a Turn has started and not ended
          stages,   \* collaboration_steps: statuses, the last one current; empty in single mode
          clars,    \* run_clarifications, in creation order
          effects,  \* tool_effects, in creation order: status, and the receipts there were before it
          clarifyExec,     \* what the live execution does: none, turn, after (the Turn is complete) or human
          resumedBy,  \* a Turn completed since the claim of the latest receipt: its output can be replayed
          writer,   \* the command that holds the Conversation writer
          plan,     \* what each command decided: none, checkpoint, finished, replay
          redone    \* a write committed since its question was exposed to a second execution
clarifyVars == <<mode, clarifyRun, turn, stages, clars, effects, clarifyExec, resumedBy, writer, plan, redone>>

ClarifyInit ==
  /\ mode \in {"single", "multi_agent", "autonomous"}
  /\ clarifyRun = "running" /\ turn = "open" /\ clarifyExec = "turn"
  /\ stages = IF mode = "single" THEN <<>> ELSE <<"running">>
  /\ clars = <<>> /\ effects = <<>> /\ resumedBy = FALSE
  /\ writer = None /\ plan = [c \in Commands |-> "none"] /\ redone = FALSE

last == Len(clars)
latest == clars[last]
setLast(s) == [stages EXCEPT ![Len(stages)] = s]
stageOf(c) == IF c.stage = 0 THEN "none" ELSE stages[c.stage]
uncertain == \E e \in 1..Len(effects) : effects[e].status \in {"executing", "reconciling"}
\* Mutant: a write is newer than the question only if another one was asked before it.
newerWriteStrict == \E e \in 1..Len(effects) : effects[e].asked > last /\ effects[e].status = "committed"

\* A committed effect created after the latest question.
newerWrite == \E e \in 1..Len(effects) : effects[e].asked >= last /\ effects[e].status = "committed"
inLastStage(s) == IF stages = <<>> THEN stages ELSE setLast(s)

----------------------------------------------------------------------------

closesTurn == "closed"

newClarification(human) ==
  [status |-> "pending", key |-> None, expired |-> FALSE, stage |-> Len(stages),
   human |-> human]

\* SuspendClarification, one transaction; a Run that Stop reached first refuses it.
SuspendClarification ==
  /\ clarifyExec = "turn" /\ ~uncertain
  /\ \/ /\ clarifyRun = "running" /\ last < MaxReceipts
        /\ clars' = Append(clars, newClarification(FALSE))
        /\ clarifyRun' = "waiting_for_user" /\ turn' = closesTurn
     \/ clarifyRun = "canceling" /\ clarifyRun' = "canceled" /\ turn' = "closed" /\ UNCHANGED clars
  /\ clarifyExec' = "none" /\ stages' = IF clarifyRun = "canceling" THEN inLastStage("failed") ELSE stages
  /\ writer' = None /\ resumedBy' = FALSE
  /\ UNCHANGED <<mode, effects, plan, redone>>

\* The textual question of an Autonomous decision; its Stage waits with it.
suspendHumanInputClarification ==
  /\ mode = "autonomous" /\ clarifyExec = "after" /\ clarifyRun = "running" /\ ~uncertain /\ last < MaxReceipts
  /\ Len(stages) < MaxReceipts + 1
  /\ stages' = Append(stages, "running")
  /\ clars' = Append(clars, [newClarification(TRUE) EXCEPT !.stage = Len(stages) + 1])
  /\ clarifyRun' = "waiting_for_user" /\ clarifyExec' = "none" /\ writer' = None /\ resumedBy' = FALSE
  /\ UNCHANGED <<mode, turn, effects, plan, redone>>

\* AnswerClarification: the answer and one user message, in one transaction; an
\* accepted answer is never replaced, a repeated one returns its receipt.
AnswerClarification(i, k) ==
  /\ clars[i].status = "pending" /\ clarifyRun = "waiting_for_user" /\ ~clars[i].expired
  /\ clars' = [clars EXCEPT ![i].status = "answered", ![i].key = k]
  /\ UNCHANGED <<mode, clarifyRun, turn, stages, effects, clarifyExec, resumedBy, writer, plan, redone>>

PassDeadline(i) ==
  /\ clars[i].status = "pending" /\ ~clars[i].expired
  /\ clars' = [clars EXCEPT ![i].expired = TRUE]
  /\ UNCHANGED <<mode, clarifyRun, turn, stages, effects, clarifyExec, resumedBy, writer, plan, redone>>

\* WithdrawOpenClarification; the handler's CancelRun, which follows, closes the Stage.
WithdrawOpenClarification(i) ==
  /\ clars[i].status = "pending" /\ clarifyRun = "waiting_for_user"
  /\ clars' = [clars EXCEPT ![i].status = "withdrawn"] /\ clarifyRun' = "canceled"
  /\ UNCHANGED <<mode, turn, stages, effects, clarifyExec, resumedBy, writer, plan, redone>>

closeCanceled ==
  /\ clarifyRun = "canceled" /\ clarifyExec = "none" /\ stages # <<>> /\ stages[Len(stages)] = "running"
  /\ stages' = setLast("failed")
  /\ UNCHANGED <<mode, clarifyRun, turn, clars, effects, clarifyExec, resumedBy, writer, plan, redone>>

\* Stop: a waiting Run is canceled at once, an executing one learns of it.
CancelRun ==
  /\ clarifyRun \in {"waiting_for_user", "running"}
  /\ clarifyRun' = IF clarifyRun = "running" /\ clarifyExec # "none" THEN "canceling" ELSE "canceled"
  /\ turn' = IF clarifyExec = "none" THEN "closed" ELSE turn
  /\ UNCHANGED <<mode, stages, clars, effects, clarifyExec, resumedBy, writer, plan, redone>>

----------------------------------------------------------------------------
\* decideClarificationResume: a finished Stage or output is reused, committed
\* writes without one fail closed.
decideClarificationResume(c) ==
  LET q == latest IN
  CASE clarifyRun # "failed_recoverable" \/ q.status # "applied" -> "checkpoint"
    [] stageOf(q) = "completed" -> "finished"
    [] stageOf(q) # "completed" /\ newerWrite -> "none"
    [] mode = "single" /\ resumedBy -> "replay"
    [] OTHER -> "checkpoint"

\* ResumeClarification up to its plan: the writer, the status read again under it,
\* the effects and the latest receipt.
prepareClarificationResume(c) ==
  /\ writer = None /\ clarifyRun \in {"waiting_for_user", "failed_recoverable"} /\ last > 0
  /\ latest.status \in {"answered", "applied"} /\ ~uncertain
  /\ decideClarificationResume(c) # "none"
  /\ plan' = [plan EXCEPT ![c] = decideClarificationResume(c)] /\ writer' = c
  /\ UNCHANGED <<mode, clarifyRun, turn, stages, clars, effects, clarifyExec, resumedBy, redone>>

\* ClaimClarification's conditions, under the Run's lock.
claimable ==
  \/ latest.status = "answered" /\ clarifyRun = "waiting_for_user"
  \/ latest.status = "applied" /\ clarifyRun = "failed_recoverable" /\ ~uncertain /\ ~newerWrite

\* ClaimClarification and the start of the continuation, or a conflict.
ClaimClarification(c) ==
  /\ writer = c /\ plan[c] # "none" /\ plan' = [plan EXCEPT ![c] = "none"]
  /\ IF claimable
     THEN LET again == plan[c] = "checkpoint" /\ ~latest.human IN
          /\ clars' = [clars EXCEPT ![last].status = "applied"]
          /\ clarifyRun' = "running"
          /\ stages' = IF stageOf(latest) = "failed" THEN [stages EXCEPT ![latest.stage] = "running"] ELSE stages
          /\ clarifyExec' = IF again THEN "turn" ELSE IF latest.human THEN "human" ELSE "after"
          /\ turn' = IF again THEN "open" ELSE turn
          /\ redone' = (redone \/ (again /\
               \E e \in 1..Len(effects) : effects[e].asked >= last /\ effects[e].status # "settled"))
          /\ UNCHANGED writer
     ELSE writer' = None /\ UNCHANGED <<clars, clarifyRun, stages, clarifyExec, turn, redone>>
  /\ UNCHANGED <<mode, effects, resumedBy>>

\* The answer to a textual question completes its Stage; the loop goes on.
resumeClarificationHumanInput ==
  /\ clarifyExec = "human" /\ clarifyRun = "running" /\ stages' = [stages EXCEPT ![latest.stage] = "completed"]
  /\ clarifyExec' = "after"
  /\ UNCHANGED <<mode, clarifyRun, turn, clars, effects, resumedBy, writer, plan, redone>>

\* The executing Turn runs a tool with a side effect: it begins, then commits.
BeginWrite ==
  /\ clarifyExec = "turn" /\ ~uncertain /\ Len(effects) < MaxWrites
  /\ effects' = Append(effects, [asked |-> last, status |-> "executing"])
  /\ UNCHANGED <<mode, clarifyRun, turn, stages, clars, clarifyExec, resumedBy, writer, plan, redone>>

CommitWrite(e) ==
  /\ clarifyExec = "turn" /\ effects[e].status = "executing" /\ effects' = [effects EXCEPT ![e].status = "committed"]
  /\ UNCHANGED <<mode, clarifyRun, turn, stages, clars, clarifyExec, resumedBy, writer, plan, redone>>

\* The Turn ends with its output, its Stage completes, a Planner waits for approval.
CompleteTurn ==
  /\ clarifyExec = "turn" /\ clarifyRun = "running" /\ ~uncertain /\ turn' = "closed" /\ stages' = inLastStage("completed")
  /\ resumedBy' = TRUE
  /\ IF mode = "multi_agent" THEN clarifyRun' = "waiting_for_user" /\ clarifyExec' = "none" /\ writer' = None
                             ELSE clarifyExec' = "after" /\ UNCHANGED <<clarifyRun, writer>>
  /\ UNCHANGED <<mode, clars, effects, plan, redone>>

\* What follows completes the Run, or starts the next Stage of the loop.
Finish ==
  /\ clarifyExec = "after"
  /\ \/ clarifyRun = "running" /\ clarifyRun' = "completed" /\ clarifyExec' = "none" /\ writer' = None /\ UNCHANGED <<turn, stages>>
     \/ /\ mode = "autonomous" /\ clarifyRun = "running" /\ Len(stages) < MaxReceipts + 1
        /\ stages' = Append(stages, "running") /\ clarifyExec' = "turn" /\ turn' = "open" /\ UNCHANGED <<clarifyRun, writer>>
  /\ UNCHANGED <<mode, clars, effects, resumedBy, plan, redone>>

\* An execution that failed or was stopped settles its Turn, Stage and Run.
failResumedClarification ==
  /\ clarifyExec # "none" /\ clarifyRun \in {"running", "canceling"}
  /\ clarifyRun' = IF clarifyRun = "canceling" THEN "canceled" ELSE "failed"
  /\ turn' = "closed" /\ stages' = IF clarifyExec = "after" THEN stages ELSE inLastStage("failed")
  /\ clarifyExec' = "none" /\ writer' = None
  /\ UNCHANGED <<mode, clars, effects, resumedBy, plan, redone>>

ClarifyCrash ==
  /\ clarifyExec # "none" \/ writer # None
  /\ clarifyExec' = "none" /\ writer' = None /\ plan' = [c \in Commands |-> "none"]
  /\ UNCHANGED <<mode, clarifyRun, turn, stages, clars, effects, resumedBy, redone>>

clarifyStale == clarifyRun \in {"running", "canceling"}

\* Cold-start repair closes what the dead process left open.
Repair ==
  /\ clarifyExec = "none" /\ clarifyStale
  /\ clarifyRun' = IF clarifyRun = "canceling" THEN "canceled" ELSE "failed_recoverable"
  /\ turn' = "closed" /\ stages' = IF stages # <<>> /\ stages[Len(stages)] = "running" THEN setLast("failed") ELSE stages
  /\ UNCHANGED <<mode, clars, effects, clarifyExec, resumedBy, writer, plan, redone>>

\* An operator begins to undo a committed write of a Run that does not execute.
BeginUndo(e) ==
  /\ clarifyExec = "none" /\ effects[e].status = "committed" /\ effects' = [effects EXCEPT ![e].status = "reconciling"]
  /\ UNCHANGED <<mode, clarifyRun, turn, stages, clars, clarifyExec, resumedBy, writer, plan, redone>>

\* An operator settles an uncertain effect, as applied or not.
Reconcile(e) ==
  /\ clarifyExec = "none" /\ effects[e].status \in {"executing", "reconciling"}
  /\ \E st \in {"committed", "settled"} : effects' = [effects EXCEPT ![e].status = st]
  /\ UNCHANGED <<mode, clarifyRun, turn, stages, clars, clarifyExec, resumedBy, writer, plan, redone>>

ClarifyNext ==
  \/ SuspendClarification \/ suspendHumanInputClarification \/ closeCanceled \/ CancelRun
  \/ \E i \in 1..last : PassDeadline(i) \/ WithdrawOpenClarification(i) \/ \E k \in Keys : AnswerClarification(i, k)
  \/ \E c \in Commands : prepareClarificationResume(c) \/ ClaimClarification(c)
  \/ resumeClarificationHumanInput \/ BeginWrite \/ CompleteTurn \/ Finish
  \/ failResumedClarification \/ ClarifyCrash \/ Repair
  \/ \E e \in 1..Len(effects) : CommitWrite(e) \/ BeginUndo(e) \/ Reconcile(e)

ClarifySpec == ClarifyInit /\ [][ClarifyNext]_clarifyVars

----------------------------------------------------------------------------
\* "A crash after this transaction cannot leave an orphan Turn on a non-running Run":
\* a Run that waits, failed or ended has no open Turn.
NoOrphanTurn == clarifyRun \notin {"running", "canceling"} => turn = "closed"

\* A saved answer is never stranded: its Run waits for the claim, or was stopped.
AnswerIsClaimable ==
  last > 0 /\ latest.status = "answered" => clarifyRun \in {"waiting_for_user", "canceled"}

\* A continuation is never executed a second time over a write committed, or left
\* uncertain, since its question, whatever happened between the plan and the claim.
NoWriteRedone == ~redone

\* "Finished stages/output are reused": a recoverable Run whose question's Stage is
\* complete can claim its applied receipt once no effect is uncertain.
FinishedStageIsReused ==
  last > 0 /\ clarifyRun = "failed_recoverable" /\ latest.status = "applied" /\ ~uncertain
    /\ stageOf(latest) = "completed" => claimable

\* Question, answer, claim and resume survive Stops, restarts and a second client:
\* the first three parts above (CreateClarification, AnswerClarification, ClaimResume).
ClarificationSafe == NoOrphanTurn /\ AnswerIsClaimable /\ NoWriteRedone
=============================================================================
