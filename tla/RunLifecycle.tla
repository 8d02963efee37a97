---------------------------- MODULE RunLifecycle ----------------------------
(***************************************************************************)
(* The durable lifecycle of one Run: its row (status, heartbeat, execution  *)
(* segment) and its event stream, written only through the conditional      *)
(* transition of the Store, by four kinds of concurrent writers:            *)
(*                                                                          *)
(*   exec   the command that holds the Conversation writer: Start, Resume   *)
(*          or Continue with the worker it drives, or Reverify;             *)
(*   stop   Stop requests (CancelRun), which need no writer;                *)
(*   cold   the cold-start repair of a process that finds a Run whose       *)
(*          worker died with an earlier process;                            *)
(*   other  appends to the event stream by commands that leave the row      *)
(*          alone (tool-effect reconciliation, durable inputs).             *)
(*                                                                          *)
(* Every read of the row and every commit is a step of its own, so a        *)
(* decision is taken on a status that may be stale when it commits.  A      *)
(* crash loses exec, stop and cold and keeps the row and the stream.        *)
(*                                                                          *)
(* Time is counted in processes: boot numbers the process, and a heartbeat  *)
(* is the boot that wrote it (heartbeatRun therefore changes nothing).  A   *)
(* heartbeat of an earlier boot is before the startup instant of this one;  *)
(* whether it is also older than the stale timeout then is a choice.        *)
(***************************************************************************)
EXTENDS Naturals, Sequences, FiniteSets

CONSTANTS Stops,      \* concurrent Stop requests
          Contracts,  \* whether a Run may carry a completion contract: a set of BOOLEANs
          MaxBoots,   \* bound: processes started
          MaxEvents,  \* bound: stream length after which no new work begins
          MaxForeign  \* bound: stream length after which no other command appends

ASSUME ConstantsAssumption ==
  /\ Contracts \subseteq BOOLEAN /\ Contracts # {}
  /\ MaxBoots \in Nat \ {0} /\ MaxEvents \in Nat /\ MaxForeign \in Nat

VARIABLES run,      \* the runs row
          events,   \* the run_events stream
          exec,     \* the command holding the Conversation writer
          stop,     \* the Stop requests
          cold,     \* the cold-start recheck
          interrupted, \* the worker's execution context is canceled
          boot,     \* processes started so far
          up        \* this process is running
vars == <<run, events, exec, stop, cold, interrupted, boot, up>>

Status == {"queued", "running", "waiting_for_user", "canceling", "canceled",
           "completed", "failed", "failed_recoverable"}
LifecycleType == {"run.created", "run.started", "run.resumed", "run.waiting_for_user",
                  "run.cancel_requested", "run.canceled", "run.completed", "run.failed"}
\* Why a worker gave up: nothing, its own failure, context.Canceled,
\* ErrRunStateChanged; abandoned marks a command that left its Run unsettled.
Cause == {"none", "fault", "canceled", "state_changed", "abandoned"}
\* The command under way: Start, Resume or Continue, the resume of an answered
\* clarification, the same with a candidate already bound, Reverify.
Via == {"start", "resume", "answer", "replay", "reverify"}
MaxAttempts == 4   \* for range 4, in settleRun and in CancelRun
MaxRechecks == 2   \* attempt < 2, in recheck

----------------------------------------------------------------------------
(* The Store: PrepareRunTransition and what TransitionRun commits.          *)

completionSource(s) ==
  s \in {"running", "waiting_for_user", "failed_recoverable", "failed", "completed"}

validRunTransition(from, to, type) ==
  \/ type = "run.started" /\ to = "running" /\ from \in {"queued", "running"}
  \/ type = "run.resumed" /\ to = "running" /\ from \in {"waiting_for_user", "failed_recoverable"}
  \/ type = "run.cancel_requested" /\ to = "canceling" /\ from = "running"
  \/ type = "run.canceled" /\ to = "canceled" /\ from \notin {"completed", "failed"}
  \/ type = "run.completed" /\ to = "completed" /\ completionSource(from)
  \/ /\ type = "run.failed" /\ to \in {"failed", "failed_recoverable"}
     /\ completionSource(from) \/ from \in {"canceling", "queued"}
     /\ from # "completed"
  \/ /\ type = "run.waiting_for_user" /\ to = "waiting_for_user"
     /\ completionSource(from) /\ from # "completed"

\* A transition that is valid is applied only if the row still has the status
\* it was decided on; a start needs an empty stream.
applies(from, to, type) ==
  /\ validRunTransition(from, to, type)
  /\ run.status = from
  /\ run.status # to \/ type = "run.started"
  /\ type = "run.started" => events = <<>>

\* The execution segment is open (execution_started_at set) while running, and
\* entering running renews the heartbeat.
ApplyRunStatus(r, to) ==
  [r EXCEPT !.status = to,
            !.segment = IF r.status = "running" THEN to = "running" /\ r.segment
                        ELSE to = "running" \/ r.segment,
            !.heartbeat = IF to = "running" THEN boot ELSE r.heartbeat]

Event(type, status, gate) == [type |-> type, status |-> status, gate |-> gate]

\* Mutant: the first transition of a stream does not write run.created.
TransitionRunUncreated(to, type, gate) ==
  run' = ApplyRunStatus(run, to) /\ events' = Append(events, Event(type, to, gate))

\* One transaction: the row, and the event (after run.created in an empty stream).
TransitionRun(to, type, gate) ==
  /\ run' = ApplyRunStatus(run, to)
  /\ events' = Append(IF events = <<>> THEN <<Event("run.created", "queued", FALSE)>> ELSE events,
                      Event(type, to, gate))

\* CreateRunEvent of a fact that is not a lifecycle event.
Append1(type) == events' = Append(events, Event(type, "none", FALSE))

----------------------------------------------------------------------------
IdleExec == [pc |-> "idle", seen |-> "none", to |-> "none", gate |-> FALSE,
             cause |-> "none", tries |-> 0, via |-> "start"]
IdleStop == [pc |-> "idle", seen |-> "none", tries |-> 0]
ColdOff  == [pc |-> "off", seen |-> "none", cursor |-> 0, terminal |-> <<>>, tries |-> 0]

\* CreateRunWithContract: a new Run is queued; one that consumes a follow-up is
\* created running.  Its command is about to start it.
Init ==
  /\ \E s \in {"queued", "running"}, c \in Contracts :
       run = [status |-> s, segment |-> s = "running", heartbeat |-> IF s = "running" THEN 1 ELSE 0,
              contract |-> c, candidate |-> FALSE]
  /\ events = <<>>
  /\ exec = [IdleExec EXCEPT !.pc = "start", !.seen = run.status]
  /\ stop = [s \in Stops |-> IdleStop]
  /\ cold = ColdOff
  /\ interrupted = FALSE /\ boot = 1 /\ up = TRUE

At(pc) == up /\ exec.pc = pc
Goto(pc) == exec' = [exec EXCEPT !.pc = pc]
Leave == exec' = IdleExec
Abandon == exec' = [IdleExec EXCEPT !.cause = "abandoned"]

\* Enter settleRun with a target status.
Settle(to, gate, cause) ==
  exec' = [exec EXCEPT !.pc = "load", !.to = to, !.gate = gate, !.cause = cause, !.tries = 0]

StoreSame == UNCHANGED <<run, events>>
OthersSame == UNCHANGED <<stop, cold, boot, up>>

----------------------------------------------------------------------------
(* exec: Start, Resume and Continue, and the worker.                        *)

\* startRun: a starter that loses to Stop acknowledges the cancellation; any
\* other lost start only returns its error.
StartRun ==
  /\ At("start")
  /\ \/ /\ applies(exec.seen, "running", "run.started")
        /\ TransitionRun("running", "run.started", FALSE) /\ Goto("begin") /\ interrupted' = FALSE
     \/ /\ ~applies(exec.seen, "running", "run.started")
        /\ IF run.status = "canceling" THEN Settle("failed", FALSE, "canceled") ELSE Leave
        /\ StoreSame /\ UNCHANGED interrupted
  /\ OthersSame

\* recover: with the writer held, the current row decides whether the Run can
\* be resumed: ResumeRecoverable*, ResumeAutonomous and ContinueCollaboration, or,
\* when its last question was answered, ResumeClarification.
ResumeLoad ==
  /\ At("idle") /\ Len(events) < MaxEvents
  /\ run.status \in {"waiting_for_user", "failed_recoverable"}
  /\ \E via \in {"resume", "answer"} :
       exec' = [IdleExec EXCEPT !.pc = "resume", !.seen = run.status, !.via = via]
  /\ UNCHANGED interrupted /\ StoreSame /\ OthersSame

\* The preflight rejects (stale checkpoint, uncertain effect, missing step)
\* without failing the Run; a lost transition or ClaimClarification does the same.
ResumeRun ==
  /\ At("resume")
  /\ \/ /\ applies(exec.seen, "running", "run.resumed")
        /\ TransitionRun("running", "run.resumed", FALSE) /\ Goto("begin") /\ interrupted' = FALSE
     \/ Leave /\ StoreSame /\ UNCHANGED interrupted
  /\ OthersSame

\* bindRunCancellation: a cancellation context bound before the transition keeps
\* a signal that came since, one bound after it never saw the signal.  A claimed
\* clarification reads the row once more and gives up with context.Canceled.
BindCancellation ==
  /\ At("begin")
  /\ \/ Goto("work")
     \/ exec.via = "answer" /\ run.status # "running" /\ Settle("failed", FALSE, "canceled")
  /\ interrupted' = FALSE \/ UNCHANGED interrupted
  /\ StoreSame /\ OthersSame

\* Any durable event of the work itself (Stage, Turn, Model, Tool).
WorkEvent ==
  /\ At("work") /\ Len(events) < MaxEvents /\ Append1("work")
  /\ UNCHANGED <<run, exec, interrupted>> /\ OthersSame

\* stopIfCanceled: an Autonomous worker polls the row between steps.
stopIfCanceled ==
  /\ At("work") /\ run.status = "canceling"
  /\ Settle("canceled", FALSE, "none")
  /\ UNCHANGED interrupted /\ StoreSame /\ OthersSame

\* The stream ended without error: Complete persists the candidate answer with
\* its citations, then completes the Run or asks the verifiers.
Succeed ==
  /\ At("work") /\ ~(exec.via = "answer" /\ run.candidate)
  /\ Append1("work") /\ run' = [run EXCEPT !.candidate = TRUE]
  /\ IF run.contract THEN Goto("verify") ELSE Settle("completed", FALSE, "none")
  /\ UNCHANGED interrupted /\ OthersSame

\* A failure that CompleteClarification settles only if the row still runs.
FailIfRunning ==
  IF run.status = "running" THEN Settle("failed", FALSE, "fault") ELSE Abandon

\* CompleteClarification with a candidate bound before the interruption: the
\* answer is not saved again; one that differs from the candidate is an error.
CompleteClarification ==
  /\ At("work") /\ exec.via = "answer" /\ run.candidate
  /\ \/ FailIfRunning
     \/ run.contract /\ exec' = [exec EXCEPT !.pc = "verify", !.via = "replay"]
     \/ ~run.contract /\ Settle("completed", FALSE, "none")
  /\ UNCHANGED interrupted /\ StoreSame /\ OthersSame

\* The planner is done, or the decision is to ask the user: the Run waits.
AskUser ==
  /\ At("work") /\ Goto("wait")
  /\ UNCHANGED interrupted /\ StoreSame /\ OthersSame

\* The stream ended with an error: its own, or the canceled context.
WorkFailed ==
  /\ At("work")
  /\ \/ Settle("failed", FALSE, "fault")
     \/ interrupted /\ Settle("failed", FALSE, "canceled")
  /\ UNCHANGED interrupted /\ StoreSame /\ OthersSame

\* transitionRun to waiting, or SuspendClarification: decided on the running row
\* the worker was given.  When the row has moved the command fails the Run with
\* ErrRunStateChanged; ResumeFailurePolicy of an answered question only returns it.
WaitForUser ==
  /\ At("wait")
  /\ \/ /\ applies("running", "waiting_for_user", "run.waiting_for_user")
        /\ TransitionRun("waiting_for_user", "run.waiting_for_user", FALSE)
        /\ Leave \/ Goto("paused")
     \/ /\ ~applies("running", "waiting_for_user", "run.waiting_for_user") /\ StoreSame
        /\ \/ Settle("failed", FALSE, "state_changed")
           \/ exec.via = "answer" /\ Abandon
  /\ UNCHANGED interrupted /\ OthersSame

\* closeCanceledClarification: the Stage a question left open, if there is one,
\* is closed once nothing executes (its event is bounded by MaxEvents).
closeCanceledClarification ==
  \/ UNCHANGED events
  \/ /\ run.status = "canceled" /\ exec.pc \notin {"begin", "work", "wait"}
     /\ Len(events) < MaxEvents /\ Append1("work")

\* paused: a Run stopped since it was suspended gets its Stage closed.
Paused ==
  /\ At("paused") /\ closeCanceledClarification /\ Leave
  /\ UNCHANGED <<run, interrupted>> /\ OthersSame

\* Reverify: fresh verification of the bound candidate, under the same writer.
Reverify ==
  /\ At("idle") /\ Len(events) < MaxEvents
  /\ run.contract /\ run.candidate /\ run.status \notin {"completed", "canceled"}
  /\ exec' = [IdleExec EXCEPT !.pc = "verify", !.via = "reverify"]
  /\ UNCHANGED interrupted /\ StoreSame /\ OthersSame

\* verifySubject: the verifiers ran and the gate decides, the attempts are used
\* up and the candidate is rejected unseen, or the verifiers could not run.
VerifySubject ==
  /\ At("verify")
  /\ \/ \E to \in {"completed", "failed", "failed_recoverable", "waiting_for_user"} :
          Append1("verification") /\ Settle(to, TRUE, "none")
     \/ \E to \in {"failed", "waiting_for_user"} : UNCHANGED events /\ Settle(to, TRUE, "none")
     \/ /\ UNCHANGED events
        /\ \/ exec.via = "reverify" /\ Leave
           \/ exec.via = "replay" /\ FailIfRunning
           \/ exec.via \notin {"reverify", "replay"} /\ Settle("failed", FALSE, "fault")
  /\ UNCHANGED <<run, interrupted>> /\ OthersSame

----------------------------------------------------------------------------
(* settleRun: load the committed status, decide, commit; retry when another *)
(* writer moved the row in between.                                         *)

settled(status) ==
  \/ status \in {"completed", "canceled"} \/ status = exec.to
  \/ status = "failed" /\ ~exec.gate

SettleLoad ==
  /\ At("load")
  /\ IF settled(run.status) THEN Leave
     ELSE exec' = [exec EXCEPT !.pc = "commit", !.seen = run.status]
  /\ UNCHANGED interrupted /\ StoreSame /\ OthersSame

EventFor(to) ==
  CASE to = "completed" -> "run.completed" [] to = "waiting_for_user" -> "run.waiting_for_user"
    [] to = "canceled" -> "run.canceled" [] OTHER -> "run.failed"

\* Mutant: a Stop that was seen does not change the outcome.
settleTargetIgnoresStop == exec.to

\* A Stop that was seen turns every outcome but an independent failure into a cancellation.
settleTarget ==
  IF exec.seen = "canceling" /\ (exec.to # "failed" \/ exec.gate \/ exec.cause = "canceled")
  THEN "canceled" ELSE exec.to

SettleCommit ==
  /\ At("commit")
  /\ LET to == settleTarget  type == EventFor(to) IN
     \/ applies(exec.seen, to, type) /\ TransitionRun(to, type, exec.gate) /\ Leave
     \/ /\ ~applies(exec.seen, to, type) /\ StoreSame
        /\ exec' = [exec EXCEPT !.tries = exec.tries + 1,
                     !.pc = IF ~validRunTransition(exec.seen, to, type) THEN "error"
                            ELSE IF exec.tries + 1 < MaxAttempts THEN "load" ELSE "error"]
  /\ UNCHANGED interrupted /\ OthersSame

----------------------------------------------------------------------------
(* stop: CancelRun.                                                         *)

StopAt(s, pc) == up /\ stop[s].pc = pc
\* cancelActiveRun finds a context only between bind and release.
cancelActiveRun == interrupted' = (interrupted \/ exec.pc \in {"begin", "work", "wait"})
NotStop == StoreSame /\ UNCHANGED <<exec, cold, boot, up>>

\* A settled Run ends the request, a canceling one only repeats the signal.
StopLoad(s) ==
  /\ StopAt(s, "idle")
  /\ IF run.status \in {"completed", "failed", "canceled", "canceling"}
     THEN stop' = [stop EXCEPT ![s].pc = IF run.status = "canceled" THEN "close" ELSE "idle",
                               ![s].seen = "none", ![s].tries = 0]
     ELSE stop' = [stop EXCEPT ![s].pc = "commit", ![s].seen = run.status]
  /\ IF run.status = "canceling" THEN cancelActiveRun ELSE UNCHANGED interrupted
  /\ NotStop

stopTarget(seen) == IF seen = "running" THEN "canceling" ELSE "canceled"
stopEvent(seen) == IF seen = "running" THEN "run.cancel_requested" ELSE "run.canceled"

StopCommit(s) ==
  /\ StopAt(s, "commit")
  /\ LET seen == stop[s].seen  to == stopTarget(seen)  type == stopEvent(seen) IN
     \/ /\ applies(seen, to, type) /\ TransitionRun(to, type, FALSE)
        /\ stop' = [stop EXCEPT ![s].pc = "signal"]
     \/ /\ ~applies(seen, to, type) /\ StoreSame
        /\ stop' = [stop EXCEPT ![s] = IF stop[s].tries + 1 < MaxAttempts
                                       THEN [IdleStop EXCEPT !.tries = stop[s].tries + 1]
                                       ELSE IdleStop]
  /\ UNCHANGED <<exec, cold, interrupted, boot, up>>

StopSignal(s) ==
  /\ StopAt(s, "signal") /\ cancelActiveRun
  /\ stop' = [stop EXCEPT ![s] = [IdleStop EXCEPT !.pc =
                IF stopTarget(stop[s].seen) = "canceled" THEN "close" ELSE "idle"]]
  /\ NotStop

StopClose(s) ==
  /\ StopAt(s, "close") /\ closeCanceledClarification
  /\ stop' = [stop EXCEPT ![s] = IdleStop]
  /\ UNCHANGED <<run, exec, cold, interrupted, boot, up>>

\* WithdrawClarification, then CancelRun of the canceled Run.
WithdrawClarification(s) ==
  /\ StopAt(s, "idle") /\ run.status = "waiting_for_user"
  /\ TransitionRun("canceled", "run.canceled", FALSE)
  /\ stop' = [stop EXCEPT ![s] = [IdleStop EXCEPT !.pc = "close"]]
  /\ UNCHANGED <<exec, cold, interrupted, boot, up>>

ForeignAppend ==
  /\ up /\ events # <<>> /\ Len(events) < MaxForeign /\ Append1("work")
  /\ UNCHANGED <<run, exec, stop, cold, interrupted, boot, up>>

----------------------------------------------------------------------------
(* cold: repair of a Run left active by a process that is gone.             *)

\* Mutants: the heartbeat is not compared; only one of the two active statuses is listed.
staleWhateverHeartbeat(cutoff) == run.status \in {"running", "canceling"}
staleRunningOnly(cutoff) == run.status = "running" /\ run.heartbeat < cutoff
staleCancelingOnly(cutoff) == run.status = "canceling" /\ run.heartbeat < cutoff

\* ListStaleRunningRuns with the cutoff capped at this process' startup.
stale(cutoff) == run.status \in {"running", "canceling"} /\ run.heartbeat < cutoff

\* openRunLifecycle: some opening event has no terminal event after it.
openRunLifecycle ==
  \E i \in DOMAIN events :
    /\ events[i].type \in {"run.created", "run.started", "run.resumed"}
    /\ \A j \in DOMAIN events : j > i =>
         events[j].type \notin {"run.completed", "run.failed", "run.canceled"}

\* Mutant: a repair forgets that the Run was stopped.
repairedStatusIgnoresStop(seen) == "failed_recoverable"

repairedStatus(seen) == IF seen = "canceling" THEN "canceled" ELSE "failed_recoverable"

\* The terminal events a repair plans for the status it listed.
repairPlan(seen) ==
  IF openRunLifecycle
  THEN <<Event(EventFor(repairedStatus(seen)), repairedStatus(seen), FALSE)>> ELSE <<>>

\* RepairInterruptedRun commits the planned events with the settled row.
RepairInterruptedRun(terminal) ==
  /\ events' = events \o terminal
  /\ run' = [run EXCEPT !.status = repairedStatus(run.status), !.segment = FALSE]

Crash ==
  /\ up /\ boot < MaxBoots /\ up' = FALSE
  /\ exec' = IdleExec /\ stop' = [s \in Stops |-> IdleStop] /\ cold' = ColdOff
  /\ interrupted' = FALSE /\ StoreSame /\ UNCHANGED boot

\* PrepareColdStart, before requests are accepted: the active Run is captured;
\* it is repaired at once if its heartbeat is already older than the timeout.
ColdStart ==
  /\ ~up /\ up' = TRUE /\ boot' = boot + 1
  /\ cold' = [ColdOff EXCEPT !.pc = IF stale(boot + 1) THEN "armed" ELSE "off"]
  /\ \/ StoreSame
     \/ stale(boot + 1) /\ RepairInterruptedRun(repairPlan(run.status))
  /\ UNCHANGED <<exec, stop, interrupted>>

ColdAt(pc) == up /\ cold.pc = pc
NotCold == UNCHANGED <<exec, stop, interrupted, boot, up>>

RecheckList ==
  /\ ColdAt("armed")
  /\ cold' = IF stale(boot) THEN [cold EXCEPT !.pc = "plan", !.seen = run.status] ELSE ColdOff
  /\ StoreSame /\ NotCold

RecheckPlan ==
  /\ ColdAt("plan")
  /\ cold' = [cold EXCEPT !.pc = "repair", !.cursor = Len(events), !.terminal = repairPlan(cold.seen)]
  /\ StoreSame /\ NotCold

\* The stored row and stream must still be the ones the plan was made from.
repairApplies == run.status = cold.seen /\ stale(boot) /\ Len(events) = cold.cursor

RecheckRepair ==
  /\ ColdAt("repair")
  /\ \/ repairApplies /\ RepairInterruptedRun(cold.terminal) /\ cold' = ColdOff
     \/ /\ ~repairApplies /\ StoreSame
        /\ cold' = IF cold.tries + 1 < MaxRechecks
                   THEN [ColdOff EXCEPT !.pc = "armed", !.tries = cold.tries + 1] ELSE ColdOff
  /\ NotCold

----------------------------------------------------------------------------
ExecStep == \/ StartRun \/ ResumeRun \/ BindCancellation \/ WaitForUser \/ Paused
            \/ VerifySubject \/ SettleLoad \/ SettleCommit
WorkEnds == stopIfCanceled \/ Succeed \/ CompleteClarification \/ AskUser \/ WorkFailed
StopStep(s) == StopCommit(s) \/ StopSignal(s) \/ StopClose(s)
ColdStep == ColdStart \/ RecheckList \/ RecheckPlan \/ RecheckRepair

Next ==
  \/ ExecStep \/ WorkEnds \/ WorkEvent \/ ResumeLoad \/ Reverify
  \/ \E s \in Stops : StopLoad(s) \/ StopStep(s) \/ WithdrawClarification(s)
  \/ ForeignAppend \/ Crash \/ ColdStep

Spec == Init /\ [][Next]_vars

\* A command runs to its end, a worker stops (its runtime budget and provider
\* timeouts bound it), a crashed process is restarted and its timer fires.
\* Nobody has to Resume, Reverify or Stop, and nothing has to crash or fail.
Fairness ==
  /\ WF_vars(ExecStep) /\ WF_vars(WorkEnds) /\ WF_vars(ColdStep)
  /\ \A s \in Stops : WF_vars(StopStep(s))

FairSpec == Spec /\ Fairness

----------------------------------------------------------------------------
(* The Run-lifecycle diagnostic of the runtime invariant registry: what     *)
(* checkRunLifecycle says of a stream of lifecycle events and the row it    *)
(* belongs to, for a Run without a completion contract (whose events no     *)
(* verification can excuse).                                                *)

\* What the scan remembers, and the first failure it met.
Start == [opened |-> FALSE, terminal |-> FALSE, recoverable |-> FALSE, seen |-> FALSE, code |-> "ok"]

Fail(s, code) == [s EXCEPT !.code = code]

scanEvent(s, e) ==
  CASE s.code # "ok" -> s
    [] e.type \in {"run.created", "run.started"} ->
         IF s.terminal THEN Fail(s, "run_event_after_terminal")
         ELSE [s EXCEPT !.opened = TRUE, !.seen = TRUE]
    [] e.type = "run.resumed" ->
         IF ~s.opened \/ (s.terminal /\ ~s.recoverable) THEN Fail(s, "run_transition_orphan")
         ELSE [s EXCEPT !.terminal = FALSE, !.recoverable = FALSE, !.seen = TRUE]
    [] e.type \in {"run.waiting_for_user", "run.cancel_requested"} ->
         IF ~s.opened \/ s.terminal THEN Fail(s, "run_transition_orphan")
         ELSE [s EXCEPT !.seen = TRUE]
    [] e.type \in {"run.completed", "run.failed", "run.canceled"} ->
         IF ~s.opened THEN Fail(s, "run_terminal_orphan")
         ELSE IF s.terminal THEN Fail(s, "run_terminal_duplicate")
         ELSE [s EXCEPT !.terminal = TRUE, !.seen = TRUE,
                        !.recoverable = (e.type = "run.failed" /\ e.status = "failed_recoverable")]
    [] OTHER -> s

finished(status) == status \in {"completed", "failed", "canceled", "failed_recoverable"}

\* The code reported for the whole stream.
checkRunLifecycle(status, evs) ==
  LET scan[n \in 0..Len(evs)] == IF n = 0 THEN Start ELSE scanEvent(scan[n - 1], evs[n])
      s == scan[Len(evs)]
  IN CASE s.code # "ok" -> s.code
       [] s.seen /\ finished(status) /\ ~s.terminal -> "run_terminal_missing"
       [] s.terminal /\ ~finished(status) -> "run_status_terminal_mismatch"
       [] OTHER -> "ok"

----------------------------------------------------------------------------
(* Properties.                                                              *)

EventType == LifecycleType \cup {"work", "verification"}
EventRecord == [type : EventType, status : Status \cup {"none"}, gate : BOOLEAN]

RunRecord == [status : Status, segment : BOOLEAN, heartbeat : Nat, contract : BOOLEAN,
              candidate : BOOLEAN]
ExecPC == {"idle", "start", "resume", "begin", "work", "wait", "paused", "verify", "load", "commit",
           "error"}
ExecRecord == [pc : ExecPC, seen : Status \cup {"none"}, to : Status \cup {"none"},
               gate : BOOLEAN, cause : Cause, tries : Nat, via : Via]
StopRecord == [pc : {"idle", "commit", "signal", "close"}, seen : Status \cup {"none"}, tries : Nat]
ColdRecord == [pc : {"off", "armed", "plan", "repair"}, seen : Status \cup {"none"},
               cursor : Nat, terminal : Seq(EventRecord), tries : Nat]

\* Types of the row, the stream and every writer's position.
TypeOK ==
  /\ run \in RunRecord /\ events \in Seq(EventRecord)
  /\ exec \in ExecRecord /\ stop \in [Stops -> StopRecord] /\ cold \in ColdRecord
  /\ interrupted \in BOOLEAN /\ boot \in Nat \ {0} /\ up \in BOOLEAN

lifecycle(i) == events[i].type \in LifecycleType
\* The position of the last lifecycle event.
lastLifecycle(i) ==
  i \in DOMAIN events /\ lifecycle(i) /\ \A j \in DOMAIN events : j > i => ~lifecycle(j)

\* The stream and the row always tell the same story: the last committed
\* lifecycle event carries the status of the row, whichever writer (worker,
\* Stop, gate, repair) came last.  Only a Run whose follow-up worker died
\* before its first event has a row without a stream.
ProjectionAligned ==
  /\ events # <<>> => \E i \in DOMAIN events : lastLifecycle(i) /\ events[i].status = run.status
  /\ events = <<>> => run.status \in {"queued", "running", "failed_recoverable"}

\* A worker of this process owns an active Run: neither the cold-start repair
\* nor a Stop ever takes the Run from under it (only to canceling).
WorkerOwnsRun ==
  exec.pc \in {"begin", "work", "wait"} => run.status \in {"running", "canceling"}

\* The active-runtime segment is open exactly while the Run is running, so
\* waiting, canceling and crashed time is never charged to the runtime budget.
SegmentMatchesRunning == run.segment <=> run.status = "running"

\* A worker's result is never dropped: the four attempts of settleRun outlast
\* every concurrent Stop, and no attempt is a transition the Store calls invalid.
SettlementNeverLost == exec.pc # "error"

\* The row moves only as RunStatus promises: completed and canceled are final,
\* a failed Run is reopened only by the gate of its contract, a stopped Run can
\* only end, and a paused or recoverable Run is left only by Resume, Stop or the
\* gate, however late a worker, a Stop, a gate or a repair commits.
Promise == INSTANCE RunStatus WITH status <- run.status, contract <- run.contract
ImplementsRunStatus == Promise!Spec

\* Facts are append-only, and a step that leaves the row's status alone appends
\* no lifecycle event: a stale or duplicate command commits nothing.
FactsOnlyAppended ==
  [][/\ Len(events') >= Len(events)
     /\ \A i \in DOMAIN events : events'[i] = events[i]
     /\ run'.status = run.status /\ events # <<>>
          => \A i \in DOMAIN events' \ DOMAIN events : events'[i].type \notin LifecycleType]_vars

\* The second and last recheck meets a row or a stream that moved since it planned.
repairGivesUp == ColdAt("repair") /\ cold.tries + 1 = MaxRechecks /\ ~repairApplies

\* A Stop ends: a canceling Run settles, also when its worker's process dies
\* before acknowledging it, unless the resume of an answered clarification
\* abandons it.
StopSettles ==
  run.status = "canceling" ~> run.status \in {"canceled", "failed"} \/ exec.cause = "abandoned"

\* A Run left running by a dead process does not stay running: the first pass
\* or a recheck makes it recoverable (or a Stop ends it).
OrphanRecovered == (run.status = "running" /\ exec.pc = "idle") ~> (run.status # "running")

\* The Run's row, its stream and its owner agree at every moment, whatever order the
\* worker, concurrent Stops, the completion gate, crashes and the cold-start repair
\* commit in (TransitionRun, settleRun, StopRun, PlanColdStartRepair): five of the parts above.
LifecycleSafe ==
  TypeOK /\ ProjectionAligned /\ WorkerOwnsRun /\ SegmentMatchesRunning /\ SettlementNeverLost

\* Neither a stopped Run nor an orphaned one is left behind: the two parts above,
\* unless other writers made the repair give up.
RunsSettle == []~repairGivesUp => StopSettles /\ OrphanRecovered

\* "If Stop wins, successful completion or acknowledged cancellation settles
\* canceling as canceled": whoever loses to Stop, the Run ends.
StopAlwaysSettles == run.status = "canceling" ~> run.status \in {"canceled", "failed"}
=============================================================================
