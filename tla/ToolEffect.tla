----------------------------- MODULE ToolEffect -----------------------------
(***************************************************************************)
(* One record of the Tool effect journal: the executor that opens it before *)
(* it calls a handler with an external effect, the operator commands that   *)
(* reconcile it, and the cold-start repair of the Run that owns it.         *)
(*                                                                          *)
(* Handlers and reconciliation callbacks are goroutines that outlive the    *)
(* request waiting for them: a deadline or a cancellation ends the wait and *)
(* not the write.  Every journal call is one transaction and one step; a    *)
(* crash loses everything but the record, its audit events and the world.   *)
(***************************************************************************)
EXTENDS Naturals, FiniteSets

CONSTANTS Calls,      \* executor calls that carry this idempotency key
          Commands,   \* operator command ids
          Requests,   \* deliveries of commands under way at the same time
          Faults,     \* whether a journal write may fail: a set of BOOLEANs
          MaxBoots    \* bound: processes started

ASSUME ConstantsAssumption ==
  Faults \subseteq BOOLEAN /\ Faults # {} /\ MaxBoots \in Nat \ {0}

VARIABLES effect,   \* the tool_effects row
          audit,    \* ids of the reconciliation events of the Run
          applied,  \* the external effect is in force
          hand,     \* the handler goroutine
          call,     \* the executor calls
          cmd,      \* the commands operators composed
          req,      \* their deliveries
          cb,       \* the callback goroutine of each command
          run,      \* the Run: running, orphaned by a crash, or at rest
          boot, up, \* the process
          starts, confirmed, overlap  \* history: handler calls; an operator's word was
                    \* taken; a decision was taken while a write was outstanding
vars == <<effect, audit, applied, hand, call, cmd, req, cb, run, boot, up, starts, confirmed, overlap>>
history == <<starts, confirmed, overlap>>

EffectStatus == {"none", "executing", "committed", "failed", "compensated",
                 "needs_reconciliation", "reconciling"}
Result == {"none", "intent", "executed", "retried", "confirmed"}
Action == {"confirm_committed", "confirm_failed", "retry_with_same_key", "compensate",
           "verify_compensation"}
External == {"retry_with_same_key", "compensate"}
NoCommand == [action |-> "none", expected |-> 0]
IdleReq == [pc |-> "idle", command |-> "none", status |-> "none", version |-> 0, result |-> "none",
            next |-> "none", undo |-> FALSE]

Init ==
  /\ effect = [status |-> "none", version |-> 0, result |-> "none"]
  /\ audit = {} /\ applied = FALSE /\ hand = "off"
  /\ call = [c \in Calls |-> "idle"]
  /\ cmd = [c \in Commands |-> NoCommand]
  /\ req = [r \in Requests |-> IdleReq]
  /\ cb = [c \in Commands |-> "off"]
  /\ run = "running" /\ boot = 1 /\ up = TRUE
  /\ starts = 0 /\ confirmed = FALSE /\ overlap = FALSE

----------------------------------------------------------------------------
(* The journal.                                                             *)

\* updateToolEffect: every write advances the version.
updateToolEffect(status, result) ==
  effect' = [status |-> status, version |-> effect.version + 1, result |-> result]

\* A journal call that fails leaves the record as it is.
JournalFails == TRUE \in Faults /\ UNCHANGED effect

\* Mutant: an uncertain record is executed again.
canExecuteAgain == effect.status \in {"none", "needs_reconciliation"}

\* BeginToolEffect inserts the record, or returns the one that exists.
canExecute == effect.status = "none"

CompleteToolEffect ==
  IF effect.status = "executing" THEN updateToolEffect("committed", "executed") ELSE UNCHANGED effect

\* Mutants: the error is stored as the result; a late failure reopens a settled effect.
MarkToolEffectSwapped == updateToolEffect("needs_reconciliation", "error")
MarkToolEffectReopens ==
  IF effect.status # "reconciling"
  THEN updateToolEffect("needs_reconciliation", effect.result) ELSE UNCHANGED effect

MarkToolEffectNeedsReconciliation ==
  IF effect.status \in {"executing", "needs_reconciliation"}
  THEN updateToolEffect("needs_reconciliation", effect.result) ELSE UNCHANGED effect

canSaveIntent == effect.status = "executing" /\ effect.result = "none"

\* Mutant: a rejection is recorded whatever became of the record.
FailToolEffectAlways == updateToolEffect("failed", effect.result)

FailToolEffect ==
  IF effect.status = "executing" THEN updateToolEffect("failed", effect.result) ELSE UNCHANGED effect

----------------------------------------------------------------------------
(* The executor and the handler.                                            *)

Worker(c, pc) == up /\ run = "running" /\ call[c] = pc
SetCall(c, pc) == call' = [call EXCEPT ![c] = pc]
OperatorSame == UNCHANGED <<audit, cmd, req, cb>>
ProcessSame == UNCHANGED <<run, boot, up>>

\* beginSideEffect: execute, replay a committed result, or refuse.
BeginSideEffect(c) ==
  /\ Worker(c, "idle")
  /\ \/ /\ canExecute /\ updateToolEffect("executing", "none")
        /\ SetCall(c, "wait") /\ hand' = "run" /\ starts' = starts + 1
     \/ /\ ~canExecute
        /\ SetCall(c, IF effect.status = "committed" THEN "replayed" ELSE "refused")
        /\ UNCHANGED <<effect, hand, starts>>
     \/ JournalFails /\ SetCall(c, "error") /\ UNCHANGED <<hand, starts>>
  /\ UNCHANGED <<applied, confirmed, overlap>> /\ OperatorSame /\ ProcessSame

ctxDone == \A c \in Calls : call[c] # "wait"

\* A handler that keeps evidence saves it before it publishes.
HandlerIntent ==
  /\ up /\ hand = "run"
  /\ \/ canSaveIntent /\ updateToolEffect("executing", "intent") /\ hand' = "intent"
     \/ /\ ~canSaveIntent \/ TRUE \in Faults
        /\ UNCHANGED effect /\ hand' = IF ctxDone THEN "err" ELSE "reject"
  /\ UNCHANGED <<applied, call>> /\ UNCHANGED history /\ OperatorSame /\ ProcessSame

\* It gives up before publication, with an error it may prove (FailToolEffect,
\* unless the context is already done) or not.
HandlerGivesUp ==
  /\ up /\ hand \in {"run", "intent"}
  /\ hand' \in IF ctxDone THEN {"err"} ELSE {"err", "reject"}
  /\ UNCHANGED <<effect, applied, call>> /\ UNCHANGED history /\ OperatorSame /\ ProcessSame

HandlerRejects ==
  /\ up /\ hand = "reject" /\ hand' = "err"
  /\ FailToolEffect \/ JournalFails
  /\ UNCHANGED <<applied, call>> /\ UNCHANGED history /\ OperatorSame /\ ProcessSame

\* The write, which an expired context does not prevent; then its outcome.
HandlerPublishes ==
  /\ up /\ hand \in {"run", "intent"} /\ hand' \in {"ok", "err"} /\ applied' = TRUE
  /\ UNCHANGED <<effect, call>> /\ UNCHANGED history /\ OperatorSame /\ ProcessSame

\* The executor waits for the handler, the timeout or the cancellation.
ExecutorWait(c) ==
  /\ Worker(c, "wait")
  /\ \/ SetCall(c, "mark")
     \/ hand = "ok" /\ SetCall(c, "commit")
     \/ hand = "err" /\ SetCall(c, "mark_error")
  /\ UNCHANGED <<effect, applied, hand>> /\ UNCHANGED history /\ OperatorSame /\ ProcessSame

ExecutorCommit(c) ==
  /\ Worker(c, "commit")
  /\ \/ CompleteToolEffect /\ SetCall(c, IF effect.status = "executing" THEN "done" ELSE "mark")
     \/ JournalFails /\ SetCall(c, "mark")
  /\ UNCHANGED <<applied, hand>> /\ UNCHANGED history /\ OperatorSame /\ ProcessSame

\* markSideEffectUncertain drops the error of the journal.
ExecutorMark(c) ==
  /\ Worker(c, "mark") \/ Worker(c, "mark_error")
  /\ MarkToolEffectNeedsReconciliation \/ JournalFails
  /\ SetCall(c, IF call[c] = "mark" THEN "error" ELSE "check")
  /\ UNCHANGED <<applied, hand>> /\ UNCHANGED history /\ OperatorSame /\ ProcessSame

effectWasRejected == effect.status = "failed"

\* Only a record settled as failed lets the model correct its arguments and
\* call again.
ExecutorCheck(c) ==
  /\ Worker(c, "check")
  /\ SetCall(c, IF effectWasRejected THEN "not_applied" ELSE "error")
  /\ UNCHANGED <<effect, applied, hand>> /\ UNCHANGED history /\ OperatorSame /\ ProcessSame

----------------------------------------------------------------------------
(* ReconcileToolEffect.                                                     *)

ReqAt(r, pc) == up /\ req[r].pc = pc
Return(r) == req' = [req EXCEPT ![r] = IdleReq]
action(r) == cmd[req[r].command].action
WorkSame == UNCHANGED <<applied, hand, call, starts>> /\ ProcessSame

\* An operator composes a command for the version on the screen.
Compose(c) ==
  /\ up /\ cmd[c] = NoCommand /\ effect.version > 0
  /\ \E a \in Action : cmd' = [cmd EXCEPT ![c] = [action |-> a, expected |-> effect.version]]
  /\ UNCHANGED <<effect, audit, req, cb, confirmed, overlap>> /\ WorkSame

\* A command is delivered, perhaps again, and reads the record.
Deliver(r, c) ==
  /\ ReqAt(r, "idle") /\ cmd[c] # NoCommand
  /\ req' = [req EXCEPT ![r] = [IdleReq EXCEPT !.pc = "gate", !.command = c, !.status = effect.status,
                                               !.version = effect.version, !.result = effect.result]]
  /\ UNCHANGED <<effect, audit, cmd, cb, confirmed, overlap>> /\ WorkSame

committedUndo(r) == req[r].status = "committed" /\ action(r) = "compensate"

\* Neither a known command, nor a settled effect, nor an old version.
admitted(r) ==
  /\ \A k \in {"claim", "outcome"} : <<req[r].command, k>> \notin audit
  /\ \/ committedUndo(r) \/ req[r].status = "needs_reconciliation"
     \/ req[r].status = "reconciling" /\ action(r) \notin External
  /\ cmd[req[r].command].expected = req[r].version

\* The preview or the Binding may also refuse the command.
Gate(r) ==
  /\ ReqAt(r, "gate")
  /\ \/ Return(r)
     \/ /\ admitted(r)
        /\ req' = [req EXCEPT ![r].pc = IF action(r) \in External THEN "claim" ELSE "decide",
                              ![r].undo = committedUndo(r)]
  /\ UNCHANGED <<effect, audit, cmd, cb, confirmed, overlap>> /\ WorkSame

\* PrepareToolEffectReconciliation: a new event, the version the command was
\* decided on, and a status the command can leave.
reconciliationApplies(r, kind) ==
  /\ <<req[r].command, kind>> \notin audit
  /\ req[r].version = effect.version
  /\ IF kind = "claim"
     THEN \/ effect.status = "needs_reconciliation"
          \/ effect.status = "committed" /\ action(r) = "compensate"
     ELSE \/ effect.status = "reconciling"
          \/ effect.status = "needs_reconciliation" /\ action(r) \notin External

\* Claims and failed checks retain the evidence; a settlement replaces it.
reconciledResult(status, result) ==
  IF result = "none" /\ status \in {"reconciling", "needs_reconciliation"} THEN effect.result ELSE result

\* CommitToolEffectReconciliation: the record and its audit event together.
CommitToolEffectReconciliation(r, kind, status, result) ==
  /\ updateToolEffect(status, reconciledResult(status, result))
  /\ audit' = audit \cup {<<req[r].command, kind>>}

\* A handler or a callback may still write to the world.
outstanding == hand \in {"run", "intent"} \/ \E c \in Commands : cb[c] = "run"

\* The claim survives the process; only its winner starts the callback.
Claim(r) ==
  /\ ReqAt(r, "claim")
  /\ \/ /\ reconciliationApplies(r, "claim")
        /\ CommitToolEffectReconciliation(r, "claim", "reconciling", "none")
        /\ req' = [req EXCEPT ![r].pc = "callback", ![r].version = effect.version + 1,
                              ![r].status = "reconciling"]
        /\ cb' = [cb EXCEPT ![req[r].command] = "run"]
        /\ overlap' = (overlap \/ outstanding)
     \/ /\ ~reconciliationApplies(r, "claim") \/ TRUE \in Faults
        /\ Return(r) /\ UNCHANGED <<effect, audit, cb, overlap>>
  /\ UNCHANGED <<cmd, confirmed>> /\ WorkSame

\* The Binding's callback writes, or not, and returns.  A retry that succeeds
\* leaves the effect in force, a compensation that succeeds leaves it undone, and
\* one that is rejected wrote nothing.
Callback(c) ==
  /\ up /\ cb[c] = "run"
  /\ LET done == cmd[c].action = "retry_with_same_key" IN
     \/ applied' = done /\ cb' = [cb EXCEPT ![c] = "ok"]
     \/ applied' \in {applied, done} /\ cb' = [cb EXCEPT ![c] = "err"]
     \/ ~done /\ UNCHANGED applied /\ cb' = [cb EXCEPT ![c] = "rejected"]
  /\ UNCHANGED <<effect, audit, hand, call, cmd, req, run, boot, up>> /\ UNCHANGED history

DecideTo(r, status, result) ==
  req' = [req EXCEPT ![r].pc = "settle", ![r].next = status, ![r].result = result]

\* executeReconciliationAction of the operator's own decisions, and the query
\* of a compensation; one that fails keeps the status that was read.
Decide(r) ==
  /\ ReqAt(r, "decide")
  /\ \/ action(r) = "confirm_committed" /\ DecideTo(r, "committed", "confirmed")
     \/ action(r) = "confirm_failed" /\ DecideTo(r, "failed", "none")
     \/ action(r) = "verify_compensation" /\ ~applied /\ DecideTo(r, "compensated", "none")
     \/ action(r) # "confirm_failed" /\ DecideTo(r, req[r].status, "none")
  /\ overlap' = (overlap \/ outstanding)
  /\ UNCHANGED <<effect, audit, cmd, cb, confirmed>> /\ WorkSame

\* A deadline or a cancellation never releases the claim.
deadlineStatus == "reconciling"

\* boundedReconciliationAction: the callback's outcome, or the deadline.
CallbackReturns(r) ==
  /\ ReqAt(r, "callback")
  /\ LET o == cb[req[r].command]  retry == action(r) = "retry_with_same_key" IN
     \/ DecideTo(r, deadlineStatus, "none")
     \/ o = "ok" /\ retry /\ DecideTo(r, "committed", "retried")
     \/ o = "ok" /\ ~retry /\ DecideTo(r, "compensated", "none")
     \/ o = "rejected" /\ req[r].undo /\ DecideTo(r, "committed", req[r].result)
     \/ /\ o = "err" \/ (o = "rejected" /\ ~req[r].undo)
        /\ DecideTo(r, "needs_reconciliation", "none")
  /\ UNCHANGED <<effect, audit, cmd, cb, confirmed, overlap>> /\ WorkSame

Settle(r) ==
  /\ ReqAt(r, "settle") /\ Return(r)
  /\ \/ /\ reconciliationApplies(r, "outcome")
        /\ CommitToolEffectReconciliation(r, "outcome", req[r].next, req[r].result)
        /\ confirmed' = (confirmed \/ action(r) \in {"confirm_committed", "confirm_failed"})
     \/ /\ ~reconciliationApplies(r, "outcome") \/ TRUE \in Faults
        /\ UNCHANGED <<effect, audit, confirmed>>
  /\ UNCHANGED <<cmd, cb, overlap>> /\ WorkSame

----------------------------------------------------------------------------
(* The Run and the process.                                                 *)

busy == \E c \in Calls : call[c] \in {"wait", "commit", "mark", "mark_error", "check"}

\* The worker's command ends and the Run is at rest.
RunRests ==
  /\ up /\ run = "running" /\ ~busy /\ run' = "rest"
  /\ UNCHANGED <<effect, applied, hand, call, boot, up>> /\ UNCHANGED history /\ OperatorSame

ToolEffectRequiresReconciliation == effect.status \in {"needs_reconciliation", "reconciling"}

\* recover refuses while the effect is unresolved.
Resume ==
  /\ up /\ run = "rest" /\ ~ToolEffectRequiresReconciliation /\ run' = "running"
  /\ UNCHANGED <<effect, applied, hand, call, boot, up>> /\ UNCHANGED history /\ OperatorSame

\* The process dies: what its goroutines had sent has landed or not.
Crash ==
  /\ up /\ boot < MaxBoots /\ up' = FALSE
  /\ applied' \in {applied} \cup (IF hand \in {"run", "intent"} THEN {TRUE} ELSE {})
                 \cup {cmd[c].action = "retry_with_same_key" : c \in {d \in Commands : cb[d] = "run"}}
  /\ hand' = "off" /\ cb' = [c \in Commands |-> "off"]
  /\ call' = [c \in Calls |-> IF call[c] \in {"wait", "commit", "mark", "mark_error", "check"}
                              THEN "lost" ELSE call[c]]
  /\ req' = [r \in Requests |-> IdleReq]
  /\ run' = IF run = "running" THEN "orphaned" ELSE run
  /\ UNCHANGED <<effect, audit, cmd, boot>> /\ UNCHANGED history

Restart ==
  /\ ~up /\ up' = TRUE /\ boot' = boot + 1
  /\ UNCHANGED <<effect, applied, hand, call, run>> /\ UNCHANGED history /\ OperatorSame

\* Mutant: the repair leaves the effects of the Run alone.
repairedEffectUntouched == UNCHANGED effect

repairedEffect ==
  IF effect.status = "executing"
  THEN updateToolEffect("needs_reconciliation", effect.result) ELSE UNCHANGED effect

\* RepairInterruptedRun moves abandoned executing effects in its transaction.
RepairInterruptedRun ==
  /\ up /\ run = "orphaned" /\ run' = "rest" /\ repairedEffect
  /\ UNCHANGED <<applied, hand, call, boot, up>> /\ UNCHANGED history /\ OperatorSame

----------------------------------------------------------------------------
Handler == HandlerIntent \/ HandlerGivesUp \/ HandlerRejects \/ HandlerPublishes
Executor(c) == ExecutorWait(c) \/ ExecutorCommit(c) \/ ExecutorMark(c) \/ ExecutorCheck(c)
Reconcile(r) == Gate(r) \/ Claim(r) \/ Decide(r) \/ CallbackReturns(r) \/ Settle(r)

Next ==
  \/ \E c \in Calls : BeginSideEffect(c) \/ Executor(c)
  \/ Handler
  \/ \E c \in Commands : Compose(c) \/ Callback(c)
  \/ \E r \in Requests : Reconcile(r) \/ \E c \in Commands : Deliver(r, c)
  \/ RunRests \/ Resume \/ Crash \/ Restart \/ RepairInterruptedRun

Spec == Init /\ [][Next]_vars

\* The executor's timer fires, a dead process is started again, and its
\* cold start repairs the Run; operators and handlers owe nothing.
FairSpec ==
  /\ Spec
  /\ \A c \in Calls : WF_vars(Executor(c))
  /\ WF_vars(Restart) /\ WF_vars(RepairInterruptedRun)

----------------------------------------------------------------------------
EffectRecord == [status : EffectStatus, version : Nat, result : Result]
CallPC == {"idle", "wait", "commit", "mark", "mark_error", "check", "done", "replayed", "refused",
           "error", "not_applied", "lost"}
CommandRecord == [action : Action \cup {"none"}, expected : Nat]
RequestPC == {"idle", "gate", "claim", "decide", "callback", "settle"}
RequestRecord == [pc : RequestPC, command : Commands \cup {"none"}, status : EffectStatus,
                  version : Nat, result : Result, next : EffectStatus, undo : BOOLEAN]
CallbackPC == {"off", "run", "ok", "err", "rejected"}

TypeOK ==
  /\ effect \in EffectRecord /\ audit \subseteq Commands \X {"claim", "outcome"}
  /\ hand \in {"off", "run", "intent", "reject", "ok", "err"} /\ call \in [Calls -> CallPC]
  /\ cmd \in [Commands -> CommandRecord] /\ req \in [Requests -> RequestRecord]
  /\ cb \in [Commands -> CallbackPC] /\ run \in {"running", "orphaned", "rest"}
  /\ boot \in Nat /\ starts \in Nat
  /\ {applied, up, confirmed, overlap} \subseteq BOOLEAN

\* Whatever calls, crashes, repairs and resumes happen, the executor invokes
\* the handler of one idempotency key at most once.
HandlerAtMostOnce == starts <= 1

\* Two retry or compensation callbacks are under way at the same time only
\* after an operator's confirmation took the claim of the first away.
CallbackExclusive ==
  \A c, d \in Commands : cb[c] = "run" /\ cb[d] = "run" /\ c # d => confirmed

\* A final status reached without an operator's word, and without a claim or a
\* query made while a write was still outstanding, tells what is true of the world.
JournalTellsTruth ==
  ~confirmed /\ ~overlap =>
    /\ effect.status = "committed" => applied
    /\ effect.status \in {"failed", "compensated"} => ~applied

\* A call that reports its effect as not applied (EffectNotApplied), and so lets
\* the model try again, never did apply it, unless an operator confirmed so.
NotAppliedIsProven ==
  (\E c \in Calls : call[c] = "not_applied") /\ ~confirmed => ~applied /\ hand \notin {"run", "intent"}

\* Evidence and results once recorded change only in a settlement.
EvidenceRetained ==
  [][effect.result # "none" /\ effect'.result # effect.result
       => effect'.status \in {"committed", "failed", "compensated"}]_vars

\* Every write of the record is one the journal promises.
Journal == INSTANCE EffectJournal WITH status <- effect.status, version <- effect.version,
                                       result <- effect.result
ImplementsJournal == Journal!Spec

\* An attempt that was begun never stays executing: it settles, or becomes
\* visible to the operator, whatever crashes.
AttemptSurfaces == effect.status = "executing" ~> effect.status # "executing"

\* One idempotency key, one execution: the two exclusion parts above, with the types.
EffectsOnce == TypeOK /\ HandlerAtMostOnce /\ CallbackExclusive

\* What the record says and what a call reports is true of the world: the two parts above
\* (CommitToolEffect, FailToolEffect, effectWasRejected, reconciliation).
JournalIsTruthful == JournalTellsTruth /\ NotAppliedIsProven
=============================================================================
