---------------------------- MODULE DurableInput ----------------------------
(***************************************************************************)
(* The durable inbox of one Conversation.  A steer is consumed by the Run it *)
(* names at a model boundary; a follow-up starts a Run of its own.  Jobs are *)
(* the goroutines of the API process: a handler that dispatches, a Start     *)
(* that waits for the Conversation writer, an execution that holds it.  The  *)
(* process may die at any step; receipts, messages and Runs are rows.        *)
(***************************************************************************)
EXTENDS Naturals, Sequences, FiniteSets

CONSTANTS Jobs,          \* goroutines alive at a time: the admission capacity
          InputKeys,          \* idempotency keys
          InputNone,
          MaxPending,    \* queued inputs of a Conversation (16 in the code)
          MaxInputReceipts,   \* receipts ever created (the code retains 256)
          MaxRuns,
          MaxWithdrawals,
          MaxFaults      \* crashes, failed preparations and timeouts

ASSUME InputBoundsAssumption == MaxPending > 0 /\ MaxRuns > 0

VARIABLES inputs,     \* conversation_inputs in creation order; purged rows keep their place
          runs,       \* runs of the Conversation in creation order
          messages,   \* the inputs whose user message was inserted, in order
          jobs,       \* what each goroutine does
          seen,       \* receipts the executing Turn has put in a request
          exposed,    \* receipts some assembled request of their Run contained
          withdrawals, faults
inputVars == <<inputs, runs, messages, jobs, seen, exposed, withdrawals, faults>>
rows == <<inputs, runs, messages>>
budgets == <<withdrawals, faults>>

terminal == {"completed", "failed", "canceled"}
Idle == [at |-> "idle", input |-> 0, allow |-> FALSE, run |-> 0]
Job(at, input, allow, run) == [at |-> at, input |-> input, allow |-> allow, run |-> run]
Holding == {"create", "assemble", "model", "settle"}
writerFree == \A j \in Jobs : jobs[j].at \notin Holding
newRun(status, input, automatic) ==
  [status |-> status, input |-> input, automatic |-> automatic,
   after |-> IF runs = <<>> THEN "none" ELSE runs[Len(runs)].status]

InputInit ==
  /\ inputs = <<>> /\ messages = <<>> /\ seen = {} /\ exposed = {}
  /\ runs = <<[status |-> "running", input |-> 0, automatic |-> FALSE, after |-> "none"]>>
  /\ \E j \in Jobs : jobs = [k \in Jobs |-> IF k = j THEN Job("assemble", 0, FALSE, 1) ELSE Idle]
  /\ withdrawals = 0 /\ faults = 0

queuedFresh(i) == inputs[i].status = "queued" /\ inputs[i].age = "fresh"
queuedFollowups == {i \in 1..Len(inputs) : inputs[i].kind = "follow_up" /\ queuedFresh(i)}
oldest == CHOOSE i \in queuedFollowups : \A k \in queuedFollowups : i <= k
inputLatest == runs[Len(runs)].status
eligible(allow) == inputLatest = "completed" \/ (allow /\ inputLatest \in {"failed", "canceled"})

----------------------------------------------------------------------------

\* Receipts of unfinished source Runs, and those applied to an unfinished Run, survive cleanup.
retained(i) ==
  \/ runs[inputs[i].run].status \notin terminal
  \/ inputs[i].appliedTo # 0 /\ runs[inputs[i].appliedTo].status \notin terminal

purge == [i \in 1..Len(inputs) |->
  IF inputs[i].age = "week" /\ ~retained(i) THEN [inputs[i] EXCEPT !.status = "purged"] ELSE inputs[i]]

pendingOf(table) == {i \in 1..Len(table) : table[i].status = "queued" /\ table[i].age = "fresh"}

\* EnqueueRunInput, one transaction; a queued follow-up's handler then dispatches.
EnqueueRunInput(j, kind, r, key) ==
  LET table == purge
      sameKey == {i \in 1..Len(table) : table[i].key = key /\ table[i].status # "purged"}
      same(i) == table[i].kind = kind /\ table[i].run = r
      new == [kind |-> kind, run |-> r, key |-> key, status |-> "queued", age |-> "fresh", appliedTo |-> 0]
      dispatch(i, item) == IF kind = "follow_up" /\ item.status = "queued" /\ item.age = "fresh"
                           THEN [jobs EXCEPT ![j] = Job("list", 0, FALSE, 0)] ELSE jobs
  IN /\ jobs[j].at = "idle"
     /\ \/ \E i \in sameKey : same(i) /\ inputs' = table /\ jobs' = dispatch(i, table[i])
        \/ /\ sameKey = {} /\ Len(inputs) < MaxInputReceipts
           /\ kind = "steer" => runs[r].status = "running"
           /\ Cardinality(pendingOf(table)) < MaxPending
           /\ inputs' = Append(table, new) /\ jobs' = dispatch(Len(table) + 1, new)
     /\ UNCHANGED <<runs, messages, seen, exposed, budgets>>

withdrawable(i) == queuedFresh(i)

WithdrawRunInput(i) ==
  /\ withdrawable(i) /\ withdrawals < MaxWithdrawals
  /\ inputs' = [inputs EXCEPT ![i].status = "withdrawn"] /\ withdrawals' = withdrawals + 1
  /\ UNCHANGED <<runs, messages, jobs, seen, exposed, faults>>

\* Time: a receipt expires after 24 hours and may be cleaned up after seven days.
Age(i) ==
  /\ inputs[i].age # "week" /\ withdrawals < MaxWithdrawals
  /\ \E age \in {"expired", "week"} : inputs' = [inputs EXCEPT ![i].age = age]
  /\ withdrawals' = withdrawals + 1
  /\ UNCHANGED <<runs, messages, jobs, seen, exposed, faults>>

----------------------------------------------------------------------------
\* dispatchFollowup: the oldest queued follow-up, an eligible latest Run, a reservation,
\* and a goroutine that starts it.  Without one of them the dispatch ends.
dispatchFollowup(j) ==
  /\ jobs[j].at = "list"
  /\ jobs' = [jobs EXCEPT ![j] = IF queuedFollowups # {} /\ eligible(@.allow)
                                 THEN Job("wait", oldest, @.allow, 0) ELSE Idle]
  /\ UNCHANGED <<rows, seen, exposed, budgets>>

\* POST .../inputs/start, the explicit retry.
startFollowup(j) ==
  /\ jobs[j].at = "idle"
  /\ jobs' = [jobs EXCEPT ![j] = Job("list", 0, TRUE, 0)]
  /\ UNCHANGED <<rows, seen, exposed, budgets>>

\* An ordinary Send, or a Resume of the latest Run, reserved and queued for the writer.
Command(j, r) ==
  /\ jobs[j].at = "idle" /\ \A k \in Jobs : jobs[k].at # "wait" \/ jobs[k].input # 0
  /\ r = 0 \/ (r = Len(runs) /\ inputLatest \in {"waiting_for_user", "recoverable"})
  /\ jobs' = [jobs EXCEPT ![j] = Job("wait", 0, FALSE, r)]
  /\ UNCHANGED <<rows, seen, exposed, budgets>>

Acquire(j) ==
  /\ jobs[j].at = "wait" /\ writerFree
  /\ jobs' = [jobs EXCEPT ![j].at = "create"]
  /\ UNCHANGED <<rows, seen, exposed, budgets>>

executes(j, r) == [jobs EXCEPT ![j] = Job("assemble", 0, FALSE, r)]

\* The writer is released; only a Start that created its Run, or an ordinary command, dispatches.
released(j) == [jobs EXCEPT ![j] = Job("list", 0, FALSE, 0)]

\* Mutant: the transaction trusts the dispatcher's earlier look at the latest Run.
applicableUnchecked(i, allow) == queuedFollowups # {} /\ oldest = i

\* applyFollowup: the receipt is still the oldest queued one and the latest Run still allows it.
applicable(i, allow) == queuedFollowups # {} /\ oldest = i /\ eligible(allow)

\* Start of a follow-up, with the writer: receipt, message and running Run in one transaction.
CreateInputRun(j) ==
  LET i == jobs[j].input IN
  /\ jobs[j].at = "create" /\ i # 0
  /\ IF applicable(i, jobs[j].allow)
       THEN /\ Len(runs) < MaxRuns
            /\ runs' = Append(runs, newRun("running", i, ~jobs[j].allow))
            /\ messages' = Append(messages, i)
            /\ inputs' = [inputs EXCEPT ![i].status = "applied", ![i].appliedTo = Len(runs) + 1]
            /\ jobs' = executes(j, Len(runs) + 1)
       ELSE jobs' = [jobs EXCEPT ![j] = Idle] /\ UNCHANGED rows
  /\ seen' = {} /\ UNCHANGED <<exposed, budgets>>

\* Start of an ordinary Run, or Resume of a paused or recoverable one.
CreateRun(j) ==
  /\ jobs[j].at = "create" /\ jobs[j].input = 0
  /\ IF jobs[j].run = 0
       THEN /\ Len(runs) < MaxRuns
            /\ runs' = Append(runs, newRun("running", 0, FALSE))
            /\ jobs' = executes(j, Len(runs) + 1)
       ELSE IF runs[jobs[j].run].status \in {"waiting_for_user", "recoverable"}
       THEN /\ runs' = [runs EXCEPT ![jobs[j].run].status = "running"]
            /\ jobs' = executes(j, jobs[j].run)
       ELSE jobs' = released(j) /\ UNCHANGED runs
  /\ seen' = {} /\ UNCHANGED <<inputs, messages, exposed, budgets>>

----------------------------------------------------------------------------
steersFor(r) == {i \in 1..Len(inputs) : inputs[i].kind = "steer" /\ inputs[i].run = r}
queuedSteers(r) == {i \in steersFor(r) : queuedFresh(i)}
appliedSteers(r) == {i \in steersFor(r) : inputs[i].status = "applied"}
\* Receipts in the order they were accepted.
RECEIPTS(S) == {list \in [1..Cardinality(S) -> S] : \A a, b \in DOMAIN list : a < b => list[a] < list[b]}

\* ConsumeSteering: messages and applications of the queued steers in one transaction.
ConsumeSteering(r) ==
  /\ runs[r].status = "running"
  /\ \E list \in RECEIPTS(queuedSteers(r)) : messages' = messages \o list
  /\ inputs' = [i \in 1..Len(inputs) |-> IF i \in queuedSteers(r)
                  THEN [inputs[i] EXCEPT !.status = "applied", !.appliedTo = r] ELSE inputs[i]]
  /\ UNCHANGED runs
consumed(r) == appliedSteers(r) \cup queuedSteers(r)

\* Assemble: every request of the Turn loads all the Run's applied steers.
AssembleContext(j) ==
  LET r == jobs[j].run IN
  /\ jobs[j].at = "assemble" /\ ConsumeSteering(r)
  /\ seen' = seen \cup consumed(r) /\ exposed' = exposed \cup consumed(r)
  /\ jobs' = [jobs EXCEPT ![j].at = "model"] /\ UNCHANGED budgets

\* The round asks for Tools, whose batch ends before the next request, or answers; without
\* credentials, or in a text stage, the answer is final.
StreamToolRound(j) ==
  /\ jobs[j].at = "model"
  /\ \E next \in {"assemble", "settle"} : jobs' = [jobs EXCEPT ![j].at = next]
  /\ UNCHANGED <<rows, seen, exposed, budgets>>

pendingSteering(r) == consumed(r) \ seen # {}

\* checkSteering after a final answer: an unseen receipt retracts it.
checkSteering(j) ==
  LET r == jobs[j].run IN
  /\ jobs[j].at = "model" /\ ConsumeSteering(r)
  /\ jobs' = [jobs EXCEPT ![j].at = IF pendingSteering(r) THEN "assemble" ELSE "settle"]
  /\ UNCHANGED <<seen, exposed, budgets>>

\* The Run settles or pauses, or its execution meets a refused write of a stopped Run; the
\* writer is released and the queue is looked at.
InputSettle(j) ==
  LET r == jobs[j].run IN
  /\ jobs[j].at \in Holding \ {"create"}
  /\ \/ runs[r].status # "running" /\ UNCHANGED runs
     \/ /\ runs[r].status = "running"
        /\ \/ jobs[j].at = "settle" /\ runs' = [runs EXCEPT ![r].status = "completed"]
           \/ jobs[j].at = "model" /\ runs' = [runs EXCEPT ![r].status = "waiting_for_user"]
           \/ runs' = [runs EXCEPT ![r].status = "failed"]
  /\ jobs' = released(j) /\ seen' = {}
  /\ UNCHANGED <<inputs, messages, exposed, budgets>>

Stop ==
  /\ inputLatest \in {"running", "waiting_for_user", "recoverable"}
  /\ runs' = [runs EXCEPT ![Len(runs)].status = "canceled"]
  /\ UNCHANGED <<inputs, messages, jobs, seen, exposed, budgets>>

\* A preparation fails, or the wait for the writer times out; only an ordinary command that
\* held the writer dispatches.
StartFails(j) ==
  /\ jobs[j].at \in {"wait", "create", "list"} /\ faults < MaxFaults /\ faults' = faults + 1
  /\ jobs' = IF jobs[j].at = "create" /\ jobs[j].input = 0 THEN released(j)
             ELSE [jobs EXCEPT ![j] = Idle]
  /\ UNCHANGED <<rows, seen, exposed, withdrawals>>

\* The process dies; cold start repairs the Run that was executing.
InputCrash ==
  /\ faults < MaxFaults /\ faults' = faults + 1
  /\ jobs' = [j \in Jobs |-> Idle] /\ seen' = {}
  /\ IF inputLatest = "running"
       THEN \E s \in {"recoverable", "failed"} : runs' = [runs EXCEPT ![Len(runs)].status = s]
       ELSE UNCHANGED runs
  /\ UNCHANGED <<inputs, messages, exposed, withdrawals>>

InputNext ==
  \/ \E j \in Jobs, kind \in {"steer", "follow_up"}, r \in 1..Len(runs), key \in InputKeys :
       EnqueueRunInput(j, kind, r, key)
  \/ \E i \in 1..Len(inputs) : WithdrawRunInput(i) \/ Age(i)
  \/ \E j \in Jobs, r \in 0..Len(runs) : Command(j, r)
  \/ \E j \in Jobs : \/ dispatchFollowup(j) \/ startFollowup(j) \/ Acquire(j)
                     \/ CreateInputRun(j) \/ CreateRun(j) \/ AssembleContext(j)
                     \/ StreamToolRound(j) \/ checkSteering(j) \/ InputSettle(j)
                     \/ StartFails(j)
  \/ Stop \/ InputCrash

InputSpec == InputInit /\ [][InputNext]_inputVars

----------------------------------------------------------------------------
(* Two dispatches may pick one receipt.  However they interleave with withdrawals,       *)
(* retries and crashes, a follow-up starts at most one Run, its message is inserted once, *)
(* and Runs start in the order their follow-ups were accepted (postgres_followup.go).    *)
OneRunPerFollowup ==
  /\ \A a, b \in 1..Len(runs) : a < b /\ runs[a].input # 0 /\ runs[b].input # 0 => runs[a].input < runs[b].input
  /\ \A a, b \in 1..Len(messages) : messages[a] = messages[b] => a = b
  /\ \A i \in 1..Len(inputs) : (\E a \in 1..Len(messages) : messages[a] = i)
        => inputs[i].status \in {"applied", "purged"}

(* Only a completed Run is followed automatically: whatever happened between a dispatch's *)
(* look at the latest Run and its turn at the writer, a stopped or failed Run is followed  *)
(* by an explicit request alone (followup_dispatch.go, applyFollowup).                    *)
NoTaskAfterAStop ==
  \A r \in 1..Len(runs) : runs[r].input # 0 =>
    runs[r].after = "completed" \/ (~runs[r].automatic /\ runs[r].after \in {"failed", "canceled"})

(* A steer the user sees as applied reached a request of its Run before the Run completed, *)
(* even when it arrived during the final answer or a crash lost the Turn that consumed it  *)
(* (toolloop/loop.go, turn_model.go checkSteering).                                       *)
AppliedSteerIsExposed ==
  \A r \in 1..Len(runs) : runs[r].status = "completed" => appliedSteers(r) \subseteq exposed

(* Recovery rebuilds a Turn from applied receipts: none of an unfinished Run is purged, not *)
(* even a follow-up's whose source Run ended long ago (EnqueueRunInput's cleanup).         *)
RecoveryEvidenceKept ==
  \A r \in 1..Len(runs) : runs[r].status \notin terminal =>
    \A i \in 1..Len(inputs) : inputs[i].appliedTo = r => inputs[i].status = "applied"

(* Successful completion dispatches follow-ups: while the latest Run is completed, a queued *)
(* follow-up has a dispatch on its way (runcommands Start, AfterRelease, enqueueInput).     *)
FollowupNotStranded ==
  queuedFollowups # {} /\ inputLatest = "completed" => \E j \in Jobs : jobs[j].at # "idle"

(* What was consumed cannot be withdrawn and what was withdrawn or expired is never        *)
(* consumed, whichever transaction wins (WithdrawRunInput, ConsumeSteering, applyFollowup). *)
receiptsSettleOnce ==
  \A i \in 1..Len(inputs) :
    /\ inputs[i].status \in {"applied", "withdrawn"} => inputs'[i].status \in {inputs[i].status, "purged"}
    /\ inputs[i].status = "queued" /\ inputs[i].age # "fresh" => inputs'[i].status \in {"queued", "purged"}

(* An accepted input takes effect once, in order, or visibly not at all, whatever crashes *)
(* and whoever races: the four invariants above, and no receipt settles twice.            *)
InputsTakeEffectOnce ==
  /\ [](OneRunPerFollowup /\ AppliedSteerIsExposed /\ RecoveryEvidenceKept /\ NoTaskAfterAStop)
  /\ [][receiptsSettleOnce]_inputVars
=============================================================================
