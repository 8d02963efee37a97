----------------------------- MODULE RunReplay -----------------------------
(***************************************************************************)
(* What a reader of a Run is shown.  Replay, the projection snapshot and   *)
(* the operator's attention queue are all put together from separate reads *)
(* of the Run's records, in a fixed order and without a transaction, while *)
(* the Run, its verification, its Tool effects and other operators go on   *)
(* writing (store/postgres_traces.go, httpapi/run_projection_read.go,      *)
(* httpapi/run_attention.go, projection/recovery.go and                    *)
(* projection/operator_attention.go).  The writers are the durable writes  *)
(* a reader can tell apart; how the code decides on them is modelled by    *)
(* RunLifecycle, VerificationGate, ToolEffect and StageCheckpoint.  One    *)
(* Tool effect and one Stage per Run; a blocker belongs to the             *)
(* conversation the Runs share.                                            *)
(***************************************************************************)
EXTENDS Naturals, FiniteSets, SequencesExt

CONSTANTS Runs,          \* Runs of one conversation
          Verifiers,     \* verifiers of the frozen completion contract
          MaxReplayAttempts,   \* verification attempts of a Run
          MaxWrites,     \* bound: writes of Run rows
          Reads          \* what may be asked: a subset of {"projection", "attention"}

VARIABLES replayRun,         \* Run -> its row
          replayLog,         \* Run -> types of its durable events, in order
          evidence,    \* Run -> verification evidence, in the order it was appended
          effect,      \* Run -> status of its Tool effect
          replayCheckpoint,  \* Run -> status of its Stage checkpoint
          blocked,     \* whether the latest Task State has an open blocker
          verify,      \* Run -> the verification attempt a process is making
          clock,       \* writes of Run rows so far
          reader       \* the request being served

replayVars == <<replayRun, replayLog, evidence, effect, replayCheckpoint, blocked, verify, clock, reader>>
records == <<replayRun, replayLog, evidence, effect, replayCheckpoint, blocked, verify, clock>>

NoReplay == [of |-> "none", run |-> "none", status |-> "none", verification |-> "none", updated |-> 0,
             events |-> <<>>, evidence |-> <<>>, checkpoint |-> "none", effect |-> "none", blocked |-> FALSE]
Idle == [kind |-> "none", left |-> <<>>, todo |-> <<>>, replay |-> NoReplay, replays |-> <<>>, uncertain |-> {}]

ReplayInit ==
    /\ \E started \in SUBSET Runs :
          /\ replayRun = [r \in Runs |-> [status |-> IF r \in started THEN "running" ELSE "queued", verification |-> "pending", updated |-> 0]]
          /\ replayLog = [r \in Runs |-> IF r \in started THEN <<"run.started">> ELSE <<>>]
    /\ evidence = [r \in Runs |-> <<>>]
    /\ effect = [r \in Runs |-> "none"] /\ replayCheckpoint = [r \in Runs |-> "none"]
    /\ verify = [r \in Runs |-> [on |-> FALSE, attempt |-> 0, subject |-> 0, left |-> {}, failed |-> FALSE]]
    /\ blocked = FALSE /\ clock = 0 /\ reader = Idle

-----------------------------------------------------------------------------
(* The writers. *)

stops(type) == type \in {"run.waiting", "run.failed", "run.interrupted", "run.canceled", "run.completed"}
replayActive(status) == status \in {"queued", "running"}

\* The row of a Run and the event of its transition are one transaction.
TransitionRun(r, from, to, events) ==
    /\ replayRun[r].status \in from /\ clock < MaxWrites
    /\ replayRun' = [replayRun EXCEPT ![r].status = to, ![r].updated = clock + 1]
    /\ clock' = clock + 1
    /\ replayLog' = [replayLog EXCEPT ![r] = @ \o events]

\* An effect under way when its Run is interrupted or stopped is left to the operator.
ToolEffectRequiresReconciliation(status) == status \in {"needs_reconciliation", "reconciling"}
settleEffect(r) == effect' = [effect EXCEPT ![r] = IF @ = "executing" THEN "needs_reconciliation" ELSE @]

Execute(r) ==
    /\ \/ TransitionRun(r, {"queued"}, "running", <<"run.started">>)
       \/ TransitionRun(r, {"waiting_for_user", "failed_recoverable"}, "running", <<"run.resumed">>)
          /\ ~ToolEffectRequiresReconciliation(effect[r])
    /\ UNCHANGED <<evidence, effect, replayCheckpoint, blocked, verify, reader>>

Settle(r) ==
    /\ \/ /\ ~verify[r].on
          /\ \/ TransitionRun(r, {"running"}, "waiting_for_user", <<"run.waiting">>)
             \/ TransitionRun(r, {"running"}, "failed", <<"run.failed">>)
             \/ TransitionRun(r, {"running"}, "failed", <<"budget.exceeded", "run.failed">>)
             \/ TransitionRun(r, {"running"}, "completed", <<"run.completed">>) /\ replayRun[r].verification = "passed"
       \/ TransitionRun(r, {"running"}, "failed_recoverable", <<"run.interrupted">>)
       \/ TransitionRun(r, {"queued", "running", "waiting_for_user"}, "canceled", <<"run.canceled">>)
    /\ verify' = [verify EXCEPT ![r].on = FALSE]
    /\ settleEffect(r)
    /\ UNCHANGED <<evidence, replayCheckpoint, blocked, reader>>

\* A Stage runs one external write; its completion is an event before it is a checkpoint.
StageStep(r) ==
    /\ replayRun[r].status = "running"
    /\ \/ replayCheckpoint[r] = "none" /\ replayCheckpoint' = [replayCheckpoint EXCEPT ![r] = "executing"] /\ UNCHANGED <<effect, replayLog>>
       \/ /\ replayCheckpoint[r] = "executing" /\ effect[r] = "none"
          /\ effect' = [effect EXCEPT ![r] = "executing"] /\ UNCHANGED <<replayCheckpoint, replayLog>>
       \/ /\ effect[r] = "executing" /\ \E s \in {"committed", "needs_reconciliation"} : effect' = [effect EXCEPT ![r] = s]
          /\ UNCHANGED <<replayCheckpoint, replayLog>>
       \/ /\ replayCheckpoint[r] = "executing" /\ effect[r] = "committed" /\ "stage.completed" \notin Range(replayLog[r])
          /\ replayLog' = [replayLog EXCEPT ![r] = Append(@, "stage.completed")] /\ UNCHANGED <<replayCheckpoint, effect>>
       \/ /\ replayCheckpoint[r] = "executing" /\ "stage.completed" \in Range(replayLog[r])
          /\ replayCheckpoint' = [replayCheckpoint EXCEPT ![r] = "committed"] /\ UNCHANGED <<effect, replayLog>>
    /\ UNCHANGED <<replayRun, evidence, blocked, verify, clock, reader>>

\* An operator claims an uncertain effect, and settles it.
Reconcile(r) ==
    /\ \/ effect[r] = "needs_reconciliation" /\ effect' = [effect EXCEPT ![r] = "reconciling"] /\ UNCHANGED reader
       \/ /\ effect[r] = "reconciling"
          /\ \E s \in {"committed", "failed"} : effect' = [effect EXCEPT ![r] = s]
          /\ reader' = [reader EXCEPT !.uncertain = @ \ {r}]
    /\ UNCHANGED <<replayRun, replayLog, evidence, replayCheckpoint, blocked, verify, clock>>

PublishTaskState ==
    /\ blocked' = ~blocked
    /\ UNCHANGED <<replayRun, replayLog, evidence, effect, replayCheckpoint, verify, clock, reader>>

-----------------------------------------------------------------------------
(* Verification: one attempt is a status, stale markers, one piece of evidence per verifier, a status. *)

nextAttempt(items) == Max({0} \union {items[i].attempt : i \in DOMAIN items}) + 1

UpdateRunVerificationStatus(r, status) ==
    /\ clock < MaxWrites /\ clock' = clock + 1
    /\ replayRun' = [replayRun EXCEPT ![r].verification = status, ![r].updated = clock + 1]

markStaleEvidence(items, subject, attempt) ==
    LET outdated == {i \in DOMAIN items : /\ items[i].status # "stale" /\ items[i].subject # subject
                                          /\ \A k \in DOMAIN items : items[k].supersedes # i}
    IN  items \o SetToSeq({[attempt |-> attempt, subject |-> subject, verifier |-> items[i].verifier,
                            status |-> "stale", supersedes |-> i] : i \in outdated})

\* A candidate is named by the attempt it is made for; a completed Run is verified again on its stored output.
BeginVerification(r) ==
    LET attempt == nextAttempt(evidence[r])
        subject == IF replayRun[r].status = "completed" THEN verify[r].subject ELSE attempt
    IN  /\ replayRun[r].status \in {"running", "completed"} /\ ~verify[r].on
        /\ attempt <= MaxReplayAttempts
        /\ UpdateRunVerificationStatus(r, "running")
        /\ verify' = [verify EXCEPT ![r] = [on |-> TRUE, attempt |-> attempt, subject |-> subject, left |-> Verifiers, failed |-> FALSE]]
        /\ evidence' = [evidence EXCEPT ![r] = markStaleEvidence(@, subject, attempt)]
        /\ UNCHANGED <<replayLog, effect, replayCheckpoint, blocked, reader>>

runVerifier(r, v, status) ==
    /\ verify[r].on /\ v \in verify[r].left
    /\ verify' = [verify EXCEPT ![r].left = @ \ {v}, ![r].failed = @ \/ status = "failed"]
    /\ evidence' = [evidence EXCEPT ![r] = Append(@, [attempt |-> verify[r].attempt, subject |-> verify[r].subject,
                                                     verifier |-> v, status |-> status, supersedes |-> 0])]
    /\ UNCHANGED <<replayRun, replayLog, effect, replayCheckpoint, blocked, clock, reader>>

evaluateGate(r) == IF verify[r].failed THEN "failed" ELSE "passed"

DecideVerification(r) ==
    /\ verify[r].on /\ verify[r].left = {}
    /\ UpdateRunVerificationStatus(r, evaluateGate(r))
    /\ verify' = [verify EXCEPT ![r].on = FALSE]
    /\ UNCHANGED <<replayLog, evidence, effect, replayCheckpoint, blocked, reader>>

-----------------------------------------------------------------------------
(* The readers. *)

\* Mutant: the row is read first.
projectionReadsRowFirst == <<"run", "events", "evidence">>
loadRunProjection == <<"events", "run", "evidence">>
GetRunReplay == <<"run", "events", "evidence", "checkpoints", "effects", "task_state">>

readStep(r, replay, what) ==
    CASE what = "run" -> [replay EXCEPT !.status = replayRun[r].status, !.verification = replayRun[r].verification, !.updated = replayRun[r].updated]
      [] what = "events" -> [replay EXCEPT !.events = replayLog[r]]
      [] what = "evidence" -> [replay EXCEPT !.evidence = evidence[r]]
      [] what = "checkpoints" -> [replay EXCEPT !.checkpoint = replayCheckpoint[r]]
      [] what = "effects" -> [replay EXCEPT !.effect = effect[r]]
      [] what = "task_state" -> [replay EXCEPT !.blocked = blocked]

getRunProjection(r) ==
    /\ "projection" \in Reads /\ reader.kind = "none"
    /\ reader' = [Idle EXCEPT !.kind = "projection", !.left = <<r>>, !.todo = loadRunProjection]
    /\ UNCHANGED records

\* The queue lists the Runs once, and then puts a Replay together for each.
listRunAttention ==
    /\ "attention" \in Reads /\ reader.kind = "none"
    /\ reader' = [Idle EXCEPT !.kind = "attention", !.left = SetToSeq(Runs), !.todo = GetRunReplay,
                              !.uncertain = {r \in Runs : effect[r] \in {"needs_reconciliation", "reconciling"}}]
    /\ UNCHANGED records

Read ==
    /\ reader.left # <<>>
    /\ LET r == Head(reader.left)
           replay == readStep(r, [reader.replay EXCEPT !.of = r], Head(reader.todo))
       IN  reader' = IF Len(reader.todo) > 1
                     THEN [reader EXCEPT !.todo = Tail(@), !.replay = replay]
                     ELSE [reader EXCEPT !.left = Tail(@), !.replay = NoReplay, !.replays = Append(@, replay),
                                         !.todo = IF reader.kind = "projection" THEN loadRunProjection ELSE GetRunReplay]
    /\ UNCHANGED records

\* One read that fails fails the request.
ReadFails ==
    /\ reader.left # <<>>
    /\ reader' = [Idle EXCEPT !.kind = "failed"]
    /\ UNCHANGED records

ReplayNext ==
    \/ \E r \in Runs : Execute(r) \/ Settle(r) \/ StageStep(r) \/ Reconcile(r)
    \/ \E r \in Runs : BeginVerification(r) \/ DecideVerification(r)
    \/ \E r \in Runs, v \in Verifiers, s \in {"passed", "failed"} : runVerifier(r, v, s)
    \/ PublishTaskState
    \/ \E r \in Runs : getRunProjection(r)
    \/ listRunAttention \/ Read \/ ReadFails

ReplaySpec == ReplayInit /\ [][ReplayNext]_replayVars

-----------------------------------------------------------------------------
(* What is derived from a Replay. *)

\* The subject of the latest evidence, and how much of it is still fresh.
BuildVerificationProjection(replay) ==
    LET items == replay.evidence
        verdicts == {i \in DOMAIN items : items[i].status # "stale"}
        latest == Max({0} \union verdicts)
    IN  [status |-> replay.verification,
         fresh |-> {items[i].verifier : i \in {k \in verdicts : /\ items[k].subject = items[latest].subject
                                                               /\ \A m \in DOMAIN items : items[m].supersedes # k}}]

recoveryReason(replay) ==
    CASE ToolEffectRequiresReconciliation(replay.effect) -> "tool_effect_uncertain"
      [] OTHER ->
    CASE replay.verification = "failed" -> "verification_failed"
      [] OTHER ->
    CASE replay.blocked /\ replay.status \in {"waiting_for_user", "failed", "failed_recoverable"} -> "task_blocked"
      [] OTHER ->
    CASE replay.status = "failed" /\ "budget.exceeded" \in Range(replay.events) -> "budget_exhausted"
      [] replay.status = "failed_recoverable" -> "run_recoverable"
      [] replay.status = "waiting_for_user" -> "input_required"
      [] replay.status = "failed" /\ "budget.exceeded" \notin Range(replay.events) -> "run_failed"
      [] replay.status = "canceled" -> "run_canceled"
      [] OTHER -> "none"

committedEffectsInUnfinishedStages(replay) ==
    /\ replay.status = "failed_recoverable" /\ replay.effect = "committed"
    /\ replay.checkpoint = "executing" /\ "stage.completed" \notin Range(replay.events)

recoveryActions(replay) ==
    {a \in [kind : {"reconcile_tool_effect", "resume_run", "continue_in_chat", "review_verification", "review_task_state"},
            enabled : BOOLEAN] :
        LET uncertain == ToolEffectRequiresReconciliation(replay.effect)
        IN  CASE a.kind = "reconcile_tool_effect" -> uncertain /\ a.enabled
              [] a.kind = "resume_run" -> /\ replay.status = "failed_recoverable"
                                          /\ a.enabled = (~uncertain /\ ~committedEffectsInUnfinishedStages(replay))
              [] a.kind = "continue_in_chat" -> replay.status = "waiting_for_user" /\ a.enabled = ~uncertain
              [] a.kind = "review_verification" ->
                    /\ replay.verification = "failed"
                    /\ a.enabled = (\E i \in DOMAIN replay.evidence : replay.evidence[i].status = "failed")
              [] a.kind = "review_task_state" -> replay.blocked /\ a.enabled}

attentionReason(reason) ==
    CASE reason = "tool_effect_uncertain" -> "reconciliation_required"
      [] reason = "run_recoverable" -> "recovery_available"
      [] reason \in {"input_required", "task_blocked"} -> "waiting_for_user"
      [] reason = "verification_failed" -> "verification_attention"
      [] reason = "budget_exhausted" -> "budget_exhausted"
      [] reason = "run_failed" -> "failure"
      [] OTHER -> "none"

recommendedRecoveryAction(replay) ==
    LET reason == recoveryReason(replay)
        want == CASE reason = "tool_effect_uncertain" -> "reconcile_tool_effect"
                  [] reason = "run_recoverable" -> "resume_run"
                  [] reason = "input_required" -> "continue_in_chat"
                  [] reason = "task_blocked" -> "review_task_state"
                  [] reason = "verification_failed" -> "review_verification"
                  [] OTHER -> "none"
    IN  {a \in recoveryActions(replay) : a.kind = want}

attentionPriority(reason) ==
    CASE reason = "reconciliation_required" -> 0
      [] reason = "recovery_available" -> 1
      [] reason = "waiting_for_user" -> 2
      [] reason = "verification_attention" -> 3
      [] reason = "budget_exhausted" -> 4
      [] OTHER -> 5

BuildOperatorAttention(replay) ==
    [run |-> replay.of, status |-> replay.status, updated |-> replay.updated,
     reason |-> attentionReason(recoveryReason(replay)), action |-> recommendedRecoveryAction(replay)]

BuildOperatorAttentionList(replays) ==
    LET before(a, b) == LET p == attentionPriority(a.reason) q == attentionPriority(b.reason)
                        IN  p < q \/ (p = q /\ a.updated <= b.updated)
    IN  SetToSortSeq({BuildOperatorAttention(replays[i]) : i \in {k \in DOMAIN replays :
                         attentionReason(recoveryReason(replays[k])) # "none"}}, before)

-----------------------------------------------------------------------------
(* Properties. *)

Served(kind) == reader.kind = kind /\ reader.left = <<>>

\* A projection that already holds the event with which a Run stopped never shows that Run as still active,
\* unless the Run was resumed after that event (httpapi/run_projection_read.go).
StatusDoesNotLag ==
    Served("projection") =>
        LET p == Head(reader.replays)
        IN  (p.events # <<>> /\ stops(Last(p.events)) /\ replayActive(p.status)) => Len(replayLog[p.of]) > Len(p.events)

\* A projection that says verification passed, of a row that is still the one it read, holds fresh evidence
\* of every verifier on the latest subject, however the reads fall between the steps of an attempt.
PassedHasFreshEvidence ==
    Served("projection") =>
        LET p == Head(reader.replays)
            v == BuildVerificationProjection(p)
        IN  (v.status = "passed" /\ replayRun[p.of].updated = p.updated) => v.fresh = Verifiers

\* An effect that was uncertain from the moment the queue was asked for until it was served is in it whatever
\* the status of its Run, asks for reconciliation, and stands before everything else.
UncertainEffectsComeFirst ==
    Served("attention") =>
        LET list == BuildOperatorAttentionList(reader.replays)
        IN  \A r \in reader.uncertain : \E i \in DOMAIN list :
                /\ list[i].run = r /\ list[i].reason = "reconciliation_required"
                /\ list[i].action = {[kind |-> "reconcile_tool_effect", enabled |-> TRUE]}
                /\ \A k \in 1..i : list[k].reason = "reconciliation_required"

\* The comment on BuildRecoverySummary: "A nil result keeps healthy and active Runs free of recovery noise."
ActiveRunsAreQuiet ==
    Served("attention") =>
        \A i \in DOMAIN reader.replays : LET p == reader.replays[i] IN
            (replayActive(p.status) /\ ~ToolEffectRequiresReconciliation(p.effect)) => recoveryReason(p) = "none"

\* What is read of a Run without a transaction does not contradict itself: the first three
\* parts above.
ReadsAreTruthful == StatusDoesNotLag /\ PassedHasFreshEvidence /\ UncertainEffectsComeFirst
=============================================================================
