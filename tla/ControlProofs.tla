---------------------------- MODULE ControlProofs ---------------------------
(***************************************************************************)
(* Proofs about what controls a Run: its lifecycle (RunLifecycle), the      *)
(* answers to a question (Clarification), the inbox of a Conversation       *)
(* (DurableInput), the completion gate (VerificationGate) and the Stage     *)
(* checkpoints a resumed Run restores (StageCheckpoint), for every set of   *)
(* Stop requests, answers, receipts, verifiers and Stages.                  *)
(*                                                                          *)
(* The lifecycle rests on Control (who is where while the Run is in which   *)
(* status), Rank, Owner and Projection (the row against its stream).  The   *)
(* answer rests on Questioned and Executed: what a request read is still    *)
(* true of the row unless its compare-and-set fails.  The inbox rests on    *)
(* Started, Sent and Shown: a receipt leaves the queue for good, oldest     *)
(* first.  The gate rests on Numbered, Handled and Decided: an attempt has   *)
(* one number, one subject and one result of each verifier.  A restore rests *)
(* on StageInv: every batch of writes still to be made is acceptable, write *)
(* by write, whatever the crash leaves of it.                               *)
(***************************************************************************)
EXTENDS RunLifecycle, Clarification, DurableInput, VerificationGate, StageCheckpoint,
        FiniteSetTheorems, SequenceTheorems, WellFoundedInduction, TLAPS

----------------------------------------------------------------------------
(* Lemmas about the operators of the model.                                 *)

\* A stream of one event is a stream.
LEMMA SingletonSeq ==
  ASSUME NEW S, NEW e \in S
  PROVE  <<e>> \in Seq(S) /\ Len(<<e>>) = 1 /\ <<e>>[1] = e
OBVIOUS

\* The stream a lifecycle commit leaves is a stream, and it keeps its prefix.
LEMMA TransitionTypes ==
  ASSUME TypeOK, NEW to \in Status, NEW type \in LifecycleType, NEW gate \in BOOLEAN,
         TransitionRun(to, type, gate)
  PROVE  /\ run' \in RunRecord
         /\ events' \in Seq(EventRecord)
         /\ run'.status = to /\ run'.contract = run.contract
         /\ to = "running" => run'.heartbeat = boot
         /\ to # "running" => run'.heartbeat = run.heartbeat
         /\ run.segment = (run.status = "running") => run'.segment = (to = "running")
<1>1. /\ run' \in RunRecord
      /\ run'.status = to /\ run'.contract = run.contract
      /\ to = "running" => run'.heartbeat = boot
      /\ to # "running" => run'.heartbeat = run.heartbeat
      /\ run.segment = (run.status = "running") => run'.segment = (to = "running")
  BY DEF TypeOK, RunRecord, TransitionRun, ApplyRunStatus
<1>2. Event(type, to, gate) \in EventRecord /\ Event("run.created", "queued", FALSE) \in EventRecord
  BY DEF Event, EventRecord, EventType, LifecycleType, Status
<1>3. events' \in Seq(EventRecord)
  <2>1. (IF events = <<>> THEN <<Event("run.created", "queued", FALSE)>> ELSE events)
          \in Seq(EventRecord)
    BY <1>2, SingletonSeq DEF TypeOK
  <2>2. QED BY <1>2, <2>1, AppendProperties DEF TransitionRun
<1>4. QED BY <1>1, <1>3

\* A fact that is not a lifecycle event also leaves a stream.
LEMMA Append1Types ==
  ASSUME TypeOK, NEW type \in EventType, Append1(type)
  PROVE  events' \in Seq(EventRecord)
<1>1. Event(type, "none", FALSE) \in EventRecord
  BY DEF Event, EventRecord
<1>2. QED BY <1>1, AppendProperties DEF Append1, TypeOK

\* The planned terminal events are a stream of at most one lifecycle event.
LEMMA RepairPlanTypes ==
  ASSUME NEW before \in Status \cup {"none"}
  PROVE  repairPlan(before) \in Seq(EventRecord)
<1>1. Event(EventFor(repairedStatus(before)), repairedStatus(before), FALSE) \in EventRecord
  BY DEF Event, EventRecord, EventType, LifecycleType, EventFor, repairedStatus, Status
<1>2. QED BY <1>1, SingletonSeq, EmptySeq DEF repairPlan

\* RepairInterruptedRun keeps the types of the row and the stream.
LEMMA RepairTypes ==
  ASSUME TypeOK, NEW closing \in Seq(EventRecord), RepairInterruptedRun(closing)
  PROVE  /\ run' \in RunRecord
         /\ events' \in Seq(EventRecord)
<1>1. run' \in RunRecord
  BY DEF TypeOK, RunRecord, RepairInterruptedRun, repairedStatus, Status
<1>2. QED BY <1>1, ConcatProperties DEF TypeOK, RepairInterruptedRun


\* The assignments the commands make to their own position keep its type.
LEMMA IdleTypes == IdleExec \in ExecRecord /\ IdleStop \in StopRecord /\ ColdOff \in ColdRecord
<1>1. <<>> \in Seq(EventRecord)
  BY EmptySeq
<1>2. QED BY <1>1 DEF IdleExec, IdleStop, ColdOff, ExecRecord, StopRecord, ColdRecord, ExecPC, Cause, Via

\* Each way a command changes its position keeps the position's type.
LEMMA ExecTypes ==
  ASSUME TypeOK
  PROVE  /\ Leave \/ Abandon => exec' \in ExecRecord
         /\ \A pc \in ExecPC : Goto(pc) => exec' \in ExecRecord
         /\ \A to \in Status, gate \in BOOLEAN, cause \in Cause :
              Settle(to, gate, cause) => exec' \in ExecRecord
<1>1. Leave \/ Abandon => exec' \in ExecRecord
  <2>1. "abandoned" \in Cause
    BY DEF Cause
  <2>2. QED BY <2>1, IdleTypes DEF Leave, Abandon, ExecRecord
<1>2. ASSUME NEW pc \in ExecPC, Goto(pc) PROVE exec' \in ExecRecord
  BY <1>2 DEF Goto, TypeOK, ExecRecord
<1>3. ASSUME NEW to \in Status, NEW gate \in BOOLEAN, NEW cause \in Cause, Settle(to, gate, cause)
      PROVE  exec' \in ExecRecord
  <2>1. "load" \in ExecPC
    BY DEF ExecPC
  <2>2. QED BY <1>3, <2>1 DEF Settle, TypeOK, ExecRecord
<1>4. QED BY <1>1, <1>2, <1>3

\* Entering a resume or a clarification keeps the type of the position.
LEMMA EnterTypes ==
  ASSUME NEW e \in ExecRecord, NEW pc \in ExecPC, NEW before \in Status \cup {"none"}, NEW via \in Via
  PROVE  /\ [e EXCEPT !.pc = pc, !.via = via] \in ExecRecord
         /\ [e EXCEPT !.pc = pc, !.seen = before, !.via = via] \in ExecRecord
BY DEF ExecRecord

\* Closing a canceled clarification appends at most one event.
LEMMA CloseTypes ==
  ASSUME TypeOK, closeCanceledClarification
  PROVE  events' \in Seq(EventRecord)
BY Append1Types DEF closeCanceledClarification, EventType, TypeOK

----------------------------------------------------------------------------
(* Type correctness.                                                        *)

\* The created Run is well typed.
LEMMA TypeInit == Init => TypeOK
<1> SUFFICES ASSUME Init PROVE TypeOK OBVIOUS
<1>1. run \in RunRecord
  BY ConstantsAssumption DEF Init, RunRecord, Status
<1>2. events \in Seq(EventRecord)
  BY EmptySeq DEF Init
<1>3. exec \in ExecRecord
  <2>1. "start" \in ExecPC /\ run.status \in Status \cup {"none"}
    BY <1>1 DEF ExecPC, RunRecord
  <2>2. QED BY <2>1, IdleTypes DEF Init, ExecRecord
<1>4. stop \in [Stops -> StopRecord] /\ cold \in ColdRecord
  BY IdleTypes DEF Init
<1>5. interrupted \in BOOLEAN /\ boot \in Nat \ {0} /\ up \in BOOLEAN
  <2>1. interrupted \in BOOLEAN /\ up \in BOOLEAN
    BY Zenon DEF Init
  <2>2. boot = 1
    BY Zenon DEF Init
  <2>3. QED BY <2>1, <2>2
<1>6. QED BY <1>1, <1>2, <1>3, <1>4, <1>5 DEF TypeOK

\* Every step keeps the types.
LEMMA TypeStep == TypeOK /\ [Next]_vars => TypeOK'
<1> SUFFICES ASSUME TypeOK, [Next]_vars PROVE TypeOK' OBVIOUS
<1> USE DEF StoreSame, OthersSame
<1>0. /\ ExecPC = {"idle", "start", "resume", "begin", "work", "wait", "paused", "verify", "load",
                  "commit", "error"}
      /\ {"queued", "running", "waiting_for_user", "canceling", "canceled", "completed", "failed",
          "failed_recoverable"} = Status
      /\ Cause = {"none", "fault", "canceled", "state_changed", "abandoned"}
      /\ Via = {"start", "resume", "answer", "replay", "reverify"}
      /\ {"run.started", "run.resumed", "run.waiting_for_user", "run.cancel_requested",
          "run.canceled"} \subseteq LifecycleType
      /\ {"work", "verification"} \subseteq EventType
  BY DEF ExecPC, Status, Cause, Via, LifecycleType, EventType
<1>1. CASE StartRun
  BY <1>0, <1>1, TransitionTypes, ExecTypes DEF StartRun, TypeOK
<1>2. CASE ResumeRun
  BY <1>0, <1>2, TransitionTypes, ExecTypes DEF ResumeRun, TypeOK
<1>3. CASE BindCancellation
  BY <1>0, <1>3, ExecTypes DEF BindCancellation, TypeOK
<1>4. CASE WaitForUser
  BY <1>0, <1>4, TransitionTypes, ExecTypes DEF WaitForUser, TypeOK
<1>5. CASE VerifySubject
  BY <1>0, <1>5, Append1Types, ExecTypes DEF VerifySubject, FailIfRunning, TypeOK
<1>6. CASE SettleLoad
  <2>1. exec' \in ExecRecord
    <3>1. run.status \in Status
      BY DEF TypeOK, RunRecord
    <3>2. CASE settled(run.status)
      BY <1>6, <3>2, ExecTypes DEF SettleLoad
    <3>3. CASE ~settled(run.status)
      <4>1. exec' = [exec EXCEPT !.pc = "commit", !.seen = run.status]
        BY <1>6, <3>3 DEF SettleLoad
      <4>2. exec \in ExecRecord /\ "commit" \in ExecPC
        BY <1>0 DEF TypeOK
      <4>3. QED BY <3>1, <4>1, <4>2 DEF ExecRecord
    <3>4. QED BY <3>2, <3>3
  <2>2. QED BY <1>6, <2>1 DEF SettleLoad, TypeOK
<1>7. CASE SettleCommit
  <2> DEFINE to == settleTarget
             type == EventFor(to)
  <2>1. exec.gate \in BOOLEAN /\ type \in LifecycleType
    BY DEF EventFor, LifecycleType, TypeOK, ExecRecord
  <2>2. applies(exec.seen, to, type) => to \in Status
    BY DEF applies, validRunTransition, Status
  <2>3. CASE applies(exec.seen, to, type) /\ TransitionRun(to, type, exec.gate) /\ Leave
    BY <1>7, <2>1, <2>2, <2>3, TransitionTypes, ExecTypes DEF SettleCommit, TypeOK
  <2>4. CASE ~applies(exec.seen, to, type)
    <3>1. exec' \in ExecRecord
      <4>1. PICK pc \in ExecPC : exec' = [exec EXCEPT !.tries = exec.tries + 1, !.pc = pc]
        BY <1>0, <1>7, <2>4 DEF SettleCommit
      <4>2. exec \in ExecRecord /\ exec.tries + 1 \in Nat
        BY DEF TypeOK, ExecRecord
      <4>3. ASSUME NEW n \in Nat PROVE [exec EXCEPT !.tries = n, !.pc = pc] \in ExecRecord
        BY <4>2 DEF ExecRecord
      <4>4. QED BY <4>1, <4>2, <4>3
    <3>2. QED BY <1>7, <2>4, <3>1 DEF SettleCommit, TypeOK
  <2>5. QED BY <1>7, <2>3, <2>4 DEF SettleCommit
<1>8. CASE stopIfCanceled
  BY <1>0, <1>8, ExecTypes DEF stopIfCanceled, TypeOK
<1>9. CASE Succeed
  <2>1. run' \in RunRecord
    BY <1>9 DEF Succeed, TypeOK, RunRecord
  <2>2. QED BY <1>0, <1>9, <2>1, Append1Types, ExecTypes DEF Succeed, TypeOK
<1>10. CASE AskUser
  BY <1>0, <1>10, ExecTypes DEF AskUser, TypeOK
<1>11. CASE WorkFailed
  BY <1>0, <1>11, ExecTypes DEF WorkFailed, TypeOK
<1>12. CASE WorkEvent
  BY <1>0, <1>12, Append1Types DEF WorkEvent, TypeOK
<1>13. CASE ResumeLoad
  <2>1. exec' \in ExecRecord
    <3>1. run.status \in Status
      BY DEF TypeOK, RunRecord
    <3>2. PICK via \in Via : exec' = [IdleExec EXCEPT !.pc = "resume", !.seen = run.status, !.via = via]
      BY <1>0, <1>13 DEF ResumeLoad
    <3>3. "resume" \in ExecPC /\ run.status \in Status \cup {"none"}
      BY <1>0, <3>1
    <3>4. QED BY <3>2, <3>3, IdleTypes, EnterTypes
  <2>2. QED BY <1>13, <2>1 DEF ResumeLoad, TypeOK
<1>14. CASE Reverify
  <2>1. exec' \in ExecRecord
    <3>1. "verify" \in ExecPC /\ "reverify" \in Via
      BY <1>0
    <3>2. QED BY <1>14, <3>1, IdleTypes, EnterTypes DEF Reverify
  <2>2. QED BY <1>14, <2>1 DEF Reverify, TypeOK
<1>15. ASSUME NEW s \in Stops, StopLoad(s) PROVE TypeOK'
  <2>1. stop' \in [Stops -> StopRecord]
    <3>1. run.status \in Status
      BY DEF TypeOK, RunRecord
    <3>2. /\ [stop[s] EXCEPT !.pc = "commit", !.seen = run.status] \in StopRecord
          /\ \A pc \in {"close", "idle"} :
               [stop[s] EXCEPT !.pc = pc, !.seen = "none", !.tries = 0] \in StopRecord
      BY <3>1 DEF TypeOK, StopRecord
    <3>3. QED BY <1>15, <3>2 DEF StopLoad, TypeOK
  <2>2. QED BY <1>15, <2>1 DEF StopLoad, NotStop, cancelActiveRun, TypeOK
<1>16. ASSUME NEW s \in Stops, StopCommit(s) PROVE TypeOK'
  <2> DEFINE before == stop[s].seen
  <2>1. stop' \in [Stops -> StopRecord]
    <3>1. /\ [stop[s] EXCEPT !.pc = "signal"] \in StopRecord
          /\ [IdleStop EXCEPT !.tries = stop[s].tries + 1] \in StopRecord
      BY DEF TypeOK, StopRecord, IdleStop
    <3>2. QED BY <1>16, <3>1, IdleTypes DEF StopCommit, TypeOK
  <2>2. stopTarget(before) \in Status /\ stopEvent(before) \in LifecycleType
    BY <1>0 DEF stopTarget, stopEvent
  <2>3. QED BY <1>16, <2>1, <2>2, TransitionTypes DEF StopCommit, TypeOK
<1>17. ASSUME NEW s \in Stops, StopSignal(s) PROVE TypeOK'
  <2>1. \A pc \in {"close", "idle"} : [IdleStop EXCEPT !.pc = pc] \in StopRecord
    BY DEF IdleStop, StopRecord
  <2>2. stop' \in [Stops -> StopRecord]
    BY <1>17, <2>1 DEF StopSignal, TypeOK
  <2>3. QED BY <1>17, <2>2 DEF StopSignal, NotStop, cancelActiveRun, TypeOK
<1>26. ASSUME NEW s \in Stops, StopClose(s) PROVE TypeOK'
  BY <1>26, IdleTypes, CloseTypes DEF StopClose, TypeOK
<1>27. ASSUME NEW s \in Stops, WithdrawClarification(s) PROVE TypeOK'
  <2>1. [IdleStop EXCEPT !.pc = "close"] \in StopRecord
    BY DEF IdleStop, StopRecord
  <2>2. stop' \in [Stops -> StopRecord]
    BY <1>27, <2>1 DEF WithdrawClarification, TypeOK
  <2>3. QED BY <1>0, <1>27, <2>2, TransitionTypes DEF WithdrawClarification, TypeOK
<1>28. CASE CompleteClarification
  <2>1. [exec EXCEPT !.pc = "verify", !.via = "replay"] \in ExecRecord
    <3>1. "verify" \in ExecPC /\ "replay" \in Via
      BY <1>0
    <3>2. QED BY <3>1, EnterTypes DEF TypeOK
  <2>2. QED BY <1>0, <1>28, <2>1, ExecTypes DEF CompleteClarification, FailIfRunning, TypeOK
<1>29. CASE Paused
  BY <1>0, <1>29, ExecTypes, CloseTypes DEF Paused, TypeOK
<1>18. CASE ForeignAppend
  BY <1>0, <1>18, Append1Types DEF ForeignAppend, TypeOK
<1>19. CASE Crash
  BY <1>19, IdleTypes DEF Crash, TypeOK
<1>20. CASE ColdStart
  <2>1. cold' \in ColdRecord
    BY <1>20, IdleTypes DEF ColdStart, ColdRecord
  <2>2. run' \in RunRecord /\ events' \in Seq(EventRecord)
    <3>1. run.status \in Status
      BY DEF TypeOK, RunRecord
    <3>2. QED BY <1>20, <3>1, RepairPlanTypes, RepairTypes DEF ColdStart, TypeOK
  <2>3. QED BY <1>20, <2>1, <2>2 DEF ColdStart, TypeOK
<1>21. CASE RecheckList
  <2>1. cold' \in ColdRecord
    <3>1. run.status \in Status
      BY DEF TypeOK, RunRecord
    <3>2. [cold EXCEPT !.pc = "plan", !.seen = run.status] \in ColdRecord
      BY <3>1 DEF TypeOK, ColdRecord
    <3>3. QED BY <1>21, <3>2, IdleTypes DEF RecheckList
  <2>2. QED BY <1>21, <2>1 DEF RecheckList, NotCold, TypeOK
<1>22. CASE RecheckPlan
  <2>1. cold' \in ColdRecord
    <3>1. repairPlan(cold.seen) \in Seq(EventRecord)
      BY RepairPlanTypes DEF TypeOK, ColdRecord
    <3>2. Len(events) \in Nat
      BY LenProperties DEF TypeOK
    <3>3. QED BY <1>22, <3>1, <3>2 DEF RecheckPlan, TypeOK, ColdRecord
  <2>2. QED BY <1>22, <2>1 DEF RecheckPlan, NotCold, TypeOK
<1>23. CASE RecheckRepair
  <2>1. cold.terminal \in Seq(EventRecord) /\ cold.tries \in Nat
    BY DEF TypeOK, ColdRecord
  <2>2. [ColdOff EXCEPT !.pc = "armed", !.tries = cold.tries + 1] \in ColdRecord
    <3>1. ASSUME NEW n \in Nat PROVE [ColdOff EXCEPT !.pc = "armed", !.tries = n] \in ColdRecord
      BY IdleTypes DEF ColdRecord
    <3>2. cold.tries + 1 \in Nat
      BY <2>1
    <3>3. QED BY <3>1, <3>2
  <2>3. QED BY <1>23, <2>1, <2>2, IdleTypes, RepairTypes DEF RecheckRepair, NotCold, TypeOK
<1>24. CASE UNCHANGED vars
  BY <1>24 DEF vars, TypeOK
<1>25. QED
  BY <1>1, <1>2, <1>3, <1>4, <1>5, <1>6, <1>7, <1>8, <1>9, <1>10, <1>11, <1>12, <1>13, <1>14,
     <1>15, <1>16, <1>17, <1>18, <1>19, <1>20, <1>21, <1>22, <1>23, <1>24, <1>26, <1>27, <1>28, <1>29
  DEF Next, ExecStep, WorkEnds, StopStep, ColdStep

\* Every reachable row, stream and writer position has its type.
THEOREM TypeCorrect == Spec => []TypeOK
BY TypeInit, TypeStep, PTL DEF Spec
----------------------------------------------------------------------------
(* The inductive invariant of the control: who may move the row while a     *)
(* command is under way, and why settleRun cannot run out of attempts.      *)

\* How often a concurrent Stop or repair can still move a row: down only.
Rank(status) ==
  IF status = "running" THEN 3
  ELSE IF status \in {"queued", "canceling", "waiting_for_user", "failed_recoverable"} THEN 2 ELSE 1

\* The command under way is a worker, or settles what a worker produced.
Working ==
  \/ exec.pc \in {"begin", "work", "wait"}
  \/ exec.pc = "verify" /\ exec.via # "reverify"
  \/ exec.pc \in {"load", "commit"} /\ ~exec.gate

\* A worker's Run is active and its heartbeat is of this process, and so is an
\* active Run that is still to be started.
Owner ==
  /\ Working => run.status \in {"running", "canceling"} /\ run.heartbeat = boot
  /\ exec.pc = "start" /\ run.status \in {"running", "canceling"} => run.heartbeat = boot

\* A process that is down executes nothing.
Down == ~up => exec.pc = "idle" /\ cold.pc = "off"

\* A Stop that is about to commit saw a Run it can stop.
StopSeen ==
  \A s \in Stops : stop[s].pc = "commit" =>
    stop[s].seen \in {"queued", "running", "waiting_for_user", "failed_recoverable"}

\* Only a Run with a contract is verified or settled by the gate.
GateHasContract == exec.pc = "verify" \/ exec.gate => run.contract

\* A queued Run has produced nothing to settle or verify.
Queued == run.status = "queued" => exec.pc \in {"start", "idle"} /\ ~run.candidate

Target ==
  exec.pc \in {"load", "commit"} =>
    /\ exec.to \in {"completed", "failed", "failed_recoverable", "waiting_for_user", "canceled"}
    /\ exec.to = "canceled" => ~exec.gate /\ run.status = "canceling"

\* The attempts used and the moves still possible never exceed three.
LoadRank == exec.pc = "load" => exec.tries + Rank(run.status) <= 3

CommitRank ==
  exec.pc = "commit" =>
    /\ ~settled(exec.seen) /\ exec.seen \notin {"none", "queued"}
    /\ exec.tries + Rank(exec.seen) <= 3
    /\ run.status # exec.seen => Rank(run.status) < Rank(exec.seen)

Control ==
  /\ Owner /\ Down /\ StopSeen /\ GateHasContract /\ Queued /\ Target /\ LoadRank /\ CommitRank
  /\ SegmentMatchesRunning /\ SettlementNeverLost
\* What the assignments of a command leave in its position.
LEMMA ExecFields ==
  ASSUME TypeOK
  PROVE  /\ Leave \/ Abandon => exec'.pc = "idle" /\ exec'.gate = FALSE
         /\ \A pc : Goto(pc) => exec'.pc = pc /\ exec'.gate = exec.gate /\ exec'.via = exec.via
         /\ \A to, gate, cause : Settle(to, gate, cause) =>
              exec'.pc = "load" /\ exec'.to = to /\ exec'.gate = gate /\ exec'.tries = 0
<1>1. Leave \/ Abandon => exec'.pc = "idle" /\ exec'.gate = FALSE
  BY DEF Leave, Abandon, IdleExec
<1>2. ASSUME NEW pc, Goto(pc) PROVE exec'.pc = pc /\ exec'.gate = exec.gate /\ exec'.via = exec.via
  BY <1>2 DEF TypeOK, ExecRecord, Goto
<1>3. ASSUME NEW to, NEW gate, NEW cause, Settle(to, gate, cause)
      PROVE  exec'.pc = "load" /\ exec'.to = to /\ exec'.gate = gate /\ exec'.tries = 0
  BY <1>3 DEF TypeOK, ExecRecord, Settle
<1>4. QED BY <1>1, <1>2, <1>3

\* A status has a rank from one to three; Control counts attempts against it.
LEMMA RankRange == \A status : Rank(status) \in Nat /\ 1 <= Rank(status) /\ Rank(status) <= 3
BY DEF Rank

\* A lifecycle commit sets the status, opens or closes the segment with it and
\* keeps the rest of the row, except the heartbeat it renews on entry to running.
LEMMA TransitionRow ==
  ASSUME TypeOK, SegmentMatchesRunning, NEW to \in Status, NEW type, NEW gate,
         TransitionRun(to, type, gate)
  PROVE  /\ run'.status = to /\ run'.contract = run.contract /\ run'.candidate = run.candidate
         /\ run'.heartbeat = IF to = "running" THEN boot ELSE run.heartbeat
         /\ SegmentMatchesRunning'
BY DEF TypeOK, RunRecord, SegmentMatchesRunning, TransitionRun, ApplyRunStatus

\* What a Stop or a repair does to the row while a command of this process is
\* under way: the status moves strictly down, and a Run whose heartbeat is of
\* this process only from running to canceling.
MovesDown ==
  /\ run'.contract = run.contract /\ run'.candidate = run.candidate
  /\ run'.heartbeat = run.heartbeat
  /\ Rank(run'.status) < Rank(run.status) /\ run'.status # "queued"
  /\ run.status = "running" /\ run.heartbeat = boot => run'.status = "canceling"
  /\ run.status = "canceling" => run.heartbeat # boot
  /\ run'.status \in {"running", "canceling"} => run.status = "running"

\* A writer that moves the status down under a command keeps Control.
LEMMA OtherWriterKeepsControl ==
  ASSUME TypeOK, Control, UNCHANGED run \/ MovesDown, UNCHANGED <<exec, boot>>,
         SegmentMatchesRunning', Down', StopSeen'
  PROVE  Control'
<1> USE DEF Control
<1>1. Owner'
  BY DEF Owner, Working, MovesDown
<1>2. GateHasContract' /\ Queued' /\ SettlementNeverLost'
  BY DEF GateHasContract, Queued, SettlementNeverLost, MovesDown
<1>t. Target'
  BY DEF Target, Owner, Working, MovesDown
<1>3. LoadRank'
  BY RankRange DEF LoadRank, MovesDown, TypeOK, ExecRecord
<1>4. CommitRank'
  BY RankRange DEF CommitRank, MovesDown, settled, TypeOK, ExecRecord
<1>5. QED BY <1>1, <1>2, <1>t, <1>3, <1>4

\* The created Run satisfies Control.
LEMMA ControlInit == Init => Control
<1> SUFFICES ASSUME Init PROVE Control OBVIOUS
<1>1. exec.pc = "start" /\ exec.gate = FALSE
  BY DEF Init, IdleExec
<1>2. \A s \in Stops : stop[s].pc = "idle"
  BY DEF Init, IdleStop
<1>3. SegmentMatchesRunning /\ Queued /\ Owner
  <2>1. PICK s \in {"queued", "running"}, c \in Contracts :
          run = [status |-> s, segment |-> s = "running",
                 heartbeat |-> IF s = "running" THEN 1 ELSE 0, contract |-> c, candidate |-> FALSE]
    BY DEF Init
  <2>2. /\ run.status = s /\ run.segment = (s = "running") /\ run.candidate = FALSE
        /\ s = "running" => run.heartbeat = 1
    BY <2>1
  <2>3. boot = 1
    BY Zenon DEF Init
  <2>4. QED BY <1>1, <2>2, <2>3 DEF SegmentMatchesRunning, Queued, Owner, Working
<1>4. up = TRUE
  BY Zenon DEF Init
<1>5. QED
  BY <1>1, <1>2, <1>3, <1>4
  DEF Control, Owner, Working, Down, StopSeen, GateHasContract, Target, LoadRank, CommitRank,
      SettlementNeverLost
\* What settleRun decides on a status that is not settled is always a transition
\* the Store accepts.
LEMMA SettleValid ==
  ASSUME TypeOK, Control, exec.pc = "commit"
  PROVE  /\ validRunTransition(exec.seen, settleTarget, EventFor(settleTarget))
         /\ exec.seen # settleTarget /\ EventFor(settleTarget) # "run.started"
         /\ settleTarget \in Status \ {"queued", "running"}
<1>1. /\ exec.seen \in Status \ {"queued"} /\ ~settled(exec.seen)
      /\ exec.to \in {"completed", "failed", "failed_recoverable", "waiting_for_user", "canceled"}
      /\ exec.to = "canceled" => ~exec.gate
  BY DEF Control, CommitRank, Target, TypeOK, ExecRecord
<1>2. QED
  BY <1>1 DEF settleTarget, settled, EventFor, validRunTransition, completionSource, Status

\* Every step keeps the control invariant.
LEMMA ControlStep == TypeOK /\ Control /\ [Next]_vars => Control'
<1> SUFFICES ASSUME TypeOK, Control, [Next]_vars PROVE Control' OBVIOUS
<1> USE DEF StoreSame, OthersSame
<1>0. SegmentMatchesRunning /\ run.status \in Status
  BY DEF Control, TypeOK, RunRecord
\* A command step that leaves the row and lands at pc: only what concerns exec is left.
<1>a. ASSUME UNCHANGED <<run, stop, cold, boot, up>>, up = TRUE,
             exec'.pc \notin {"start", "verify", "load", "commit", "error"},
             exec'.pc \in {"begin", "work", "wait"} => exec.pc \in {"begin", "work", "wait"},
             exec'.pc \notin {"start", "idle"} => run.status # "queued",
             exec'.gate => exec.gate
      PROVE  Control'
  BY <1>a DEF Control, Owner, Working, Down, StopSeen, GateHasContract, Queued, Target, LoadRank, CommitRank,
              SegmentMatchesRunning, SettlementNeverLost
\* A command step that enters settleRun.
<1>b. ASSUME UNCHANGED <<run, stop, cold, boot, up>>, up = TRUE, run.status # "queued",
             NEW to \in {"completed", "failed", "failed_recoverable", "waiting_for_user", "canceled"},
             NEW gate \in BOOLEAN, NEW cause, Settle(to, gate, cause),
             to = "canceled" => ~gate /\ run.status = "canceling",
             IF gate THEN run.contract
             ELSE run.status \in {"running", "canceling"} /\ run.heartbeat = boot
      PROVE  Control'
  <2>1. exec'.pc = "load" /\ exec'.to = to /\ exec'.gate = gate /\ exec'.tries = 0
    BY <1>b, ExecFields
  <2>2. LoadRank'
    BY <2>1, RankRange DEF LoadRank
  <2>3. QED
    BY <1>b, <2>1, <2>2
    DEF Control, Owner, Working, Down, StopSeen, GateHasContract, Queued, Target, CommitRank,
        SegmentMatchesRunning, SettlementNeverLost
\* A command step that commits a transition and leaves, or begins to work.
<1>c. ASSUME UNCHANGED <<stop, cold, boot, up>>, up = TRUE,
             NEW to \in Status \ {"queued"}, NEW type, NEW gate, TransitionRun(to, type, gate),
             Leave \/ Goto("paused") \/ (to = "running" /\ Goto("begin")), exec.gate => run.contract
      PROVE  Control'
  <2>1. Leave => exec'.pc = "idle" /\ exec'.gate = FALSE
    BY ExecFields
  <2>2. /\ Goto("begin") => exec'.pc = "begin" /\ exec'.gate = exec.gate
        /\ Goto("paused") => exec'.pc = "paused" /\ exec'.gate = exec.gate
    BY ExecFields
  <2>3. /\ run'.status = to /\ run'.contract = run.contract
        /\ to = "running" => run'.heartbeat = boot
        /\ SegmentMatchesRunning'
    BY <1>0, <1>c, TransitionRow
  <2>4. QED
    BY <1>c, <2>1, <2>2, <2>3
    DEF Control, Owner, Working, Down, StopSeen, GateHasContract, Queued, Target, LoadRank, CommitRank,
        SettlementNeverLost
<1>1. CASE StartRun
  <2>1. up = TRUE /\ exec.pc = "start" /\ (exec.gate => run.contract)
    BY <1>1 DEF StartRun, At, Control, GateHasContract, TypeOK
  <2>2. CASE TransitionRun("running", "run.started", FALSE) /\ Goto("begin")
    BY <1>1, <1>c, <2>1, <2>2 DEF StartRun, Status
  <2>3. CASE StoreSame /\ run.status = "canceling" /\ Settle("failed", FALSE, "canceled")
    <3>1. run.heartbeat = boot
      BY <2>1, <2>3 DEF Control, Owner
    <3>2. QED BY <1>1, <1>b, <2>1, <2>3, <3>1 DEF StartRun
  <2>4. CASE StoreSame /\ Leave
    BY <1>1, <1>a, <2>1, <2>4, ExecFields DEF StartRun
  <2>5. QED BY <1>1, <2>2, <2>3, <2>4 DEF StartRun
<1>2. CASE ResumeRun
  <2>1. up = TRUE /\ (exec.gate => run.contract)
    BY <1>2 DEF ResumeRun, At, Control, GateHasContract, TypeOK
  <2>2. CASE TransitionRun("running", "run.resumed", FALSE) /\ Goto("begin")
    BY <1>2, <1>c, <2>1, <2>2 DEF ResumeRun, Status
  <2>3. CASE StoreSame /\ Leave
    BY <1>2, <1>a, <2>1, <2>3, ExecFields DEF ResumeRun
  <2>4. QED BY <1>2, <2>2, <2>3 DEF ResumeRun
<1>3. CASE BindCancellation
  <2>1. /\ up = TRUE /\ exec.pc = "begin" /\ run.heartbeat = boot
        /\ run.status \in {"running", "canceling"}
    BY <1>3 DEF BindCancellation, At, Control, Owner, Working, TypeOK
  <2>2. CASE Goto("work")
    BY <1>3, <1>a, <2>1, <2>2, ExecFields DEF BindCancellation
  <2>3. CASE Settle("failed", FALSE, "canceled")
    BY <1>3, <1>b, <2>1, <2>3 DEF BindCancellation
  <2>4. QED BY <1>3, <2>2, <2>3 DEF BindCancellation
<1>4. CASE WaitForUser
  <2>1. /\ up = TRUE /\ run.status \in {"running", "canceling"} /\ run.heartbeat = boot
        /\ exec.gate => run.contract
    BY <1>4 DEF WaitForUser, At, Control, Owner, Working, GateHasContract, TypeOK
  <2>2. CASE /\ TransitionRun("waiting_for_user", "run.waiting_for_user", FALSE)
             /\ Leave \/ Goto("paused")
    <3>1. UNCHANGED <<stop, cold, boot, up>> /\ "waiting_for_user" \in Status \ {"queued"}
      BY <1>4 DEF WaitForUser, Status
    <3>2. QED BY <1>c, <2>1, <2>2, <3>1
  <2>3. CASE StoreSame /\ Settle("failed", FALSE, "state_changed")
    BY <1>4, <1>b, <2>1, <2>3 DEF WaitForUser
  <2>4. CASE StoreSame /\ Abandon
    BY <1>4, <1>a, <2>1, <2>4, ExecFields DEF WaitForUser
  <2>5. QED BY <1>4, <2>2, <2>3, <2>4 DEF WaitForUser
<1>5. CASE VerifySubject
  <2>1. up = TRUE /\ run.status # "queued" /\ run.contract
    BY <1>5 DEF VerifySubject, At, Control, Queued, GateHasContract, TypeOK
  <2>2. ASSUME NEW to \in {"completed", "failed", "failed_recoverable", "waiting_for_user"},
               Settle(to, TRUE, "none")
        PROVE  Control'
    BY <1>5, <1>b, <2>1, <2>2 DEF VerifySubject
  <2>3. CASE Leave \/ Abandon
    BY <1>5, <1>a, <2>1, <2>3, ExecFields DEF VerifySubject
  <2>4. CASE exec.via # "reverify" /\ Settle("failed", FALSE, "fault")
    <3>1. run.status \in {"running", "canceling"} /\ run.heartbeat = boot
      BY <1>5, <2>4 DEF VerifySubject, At, Control, Owner, Working
    <3>2. QED BY <1>5, <1>b, <2>1, <2>4, <3>1 DEF VerifySubject
  <2>5. QED BY <1>5, <2>2, <2>3, <2>4 DEF VerifySubject, FailIfRunning
<1>6. CASE SettleLoad
  <2>1. /\ up = TRUE /\ exec.pc = "load" /\ run.status \notin {"queued", "none"}
        /\ exec.tries + Rank(run.status) <= 3
    BY <1>0, <1>6 DEF SettleLoad, At, Control, Queued, LoadRank, TypeOK, Status
  <2>2. CASE settled(run.status)
    BY <1>6, <1>a, <2>1, <2>2, ExecFields DEF SettleLoad
  <2>3. CASE ~settled(run.status)
    <3>1. exec' = [exec EXCEPT !.pc = "commit", !.seen = run.status]
      BY <1>6, <2>3 DEF SettleLoad
    <3>2. /\ exec'.pc = "commit" /\ exec'.seen = run.status /\ exec'.to = exec.to
          /\ exec'.gate = exec.gate /\ exec'.tries = exec.tries
      BY <3>1 DEF TypeOK, ExecRecord
    <3>3. run' = run /\ stop' = stop /\ cold' = cold /\ boot' = boot /\ up' = up
      BY <1>6 DEF SettleLoad
    <3>4. CommitRank'
      BY <2>1, <2>3, <3>2, <3>3 DEF CommitRank, settled
    <3>5. QED
      BY <2>1, <3>2, <3>3, <3>4
      DEF Control, Owner, Working, Down, StopSeen, GateHasContract, Queued, Target, LoadRank,
          SegmentMatchesRunning, SettlementNeverLost
  <2>4. QED BY <2>2, <2>3
<1>7. CASE SettleCommit
  <2> DEFINE to == settleTarget
             type == EventFor(to)
  <2>1. /\ up = TRUE /\ exec.pc = "commit" /\ (exec.gate => run.contract)
        /\ exec.tries \in Nat /\ exec.tries + Rank(exec.seen) <= 3
        /\ run.status # exec.seen => Rank(run.status) < Rank(exec.seen)
        /\ run.status # "queued"
    BY <1>7 DEF SettleCommit, At, Control, GateHasContract, CommitRank, Queued, TypeOK, ExecRecord
  <2>2. /\ validRunTransition(exec.seen, to, type) /\ exec.seen # to /\ type # "run.started"
        /\ to \in Status \ {"queued"}
    BY <2>1, SettleValid
  <2>3. CASE TransitionRun(to, type, exec.gate) /\ Leave
    <3>1. UNCHANGED <<stop, cold, boot, up>>
      BY <1>7 DEF SettleCommit
    <3>2. QED BY <1>c, <2>1, <2>2, <2>3, <3>1
  <2>4. CASE ~applies(exec.seen, to, type)
    <3>1. run.status # exec.seen
      BY <2>2, <2>4 DEF applies
    <3>2. exec.tries + 1 < MaxAttempts /\ exec.tries + 1 + Rank(run.status) <= 3
      BY <2>1, <3>1, RankRange DEF MaxAttempts
    <3>3. exec' = [exec EXCEPT !.tries = exec.tries + 1, !.pc = "load"]
      BY <1>7, <2>2, <2>4, <3>2 DEF SettleCommit
    <3>4. /\ exec'.pc = "load" /\ exec'.to = exec.to /\ exec'.gate = exec.gate
          /\ exec'.tries = exec.tries + 1
      BY <3>3 DEF TypeOK, ExecRecord
    <3>5. run' = run /\ stop' = stop /\ cold' = cold /\ boot' = boot /\ up' = up
      BY <1>7, <2>4 DEF SettleCommit
    <3>6. LoadRank'
      BY <3>2, <3>4, <3>5 DEF LoadRank
    <3>7. QED
      BY <2>1, <3>4, <3>5, <3>6
      DEF Control, Owner, Working, Down, StopSeen, GateHasContract, Queued, Target, CommitRank,
          SegmentMatchesRunning, SettlementNeverLost
  <2>5. QED BY <1>7, <2>3, <2>4 DEF SettleCommit
<1>8. CASE stopIfCanceled
  <2>1. up = TRUE /\ run.status = "canceling" /\ run.heartbeat = boot
    BY <1>8 DEF stopIfCanceled, At, Control, Owner, Working, TypeOK
  <2>2. QED BY <1>8, <1>b, <2>1 DEF stopIfCanceled
<1>9. CASE Succeed
  <2>1. /\ up = TRUE /\ exec.pc = "work" /\ run.status # "queued" /\ (exec.gate => run.contract)
        /\ run.contract \in BOOLEAN
    BY <1>9 DEF Succeed, At, Control, Queued, GateHasContract, TypeOK, RunRecord
  <2>2. /\ run'.status = run.status /\ run'.contract = run.contract
        /\ run'.segment = run.segment /\ run'.heartbeat = run.heartbeat
    BY <1>9 DEF Succeed, TypeOK, RunRecord
  <2>3. CASE run.contract /\ Goto("verify")
    BY <1>9, <2>1, <2>2, <2>3, ExecFields
    DEF Succeed, Control, Owner, Working, Down, StopSeen, GateHasContract, Queued, Target,
        LoadRank, CommitRank, SegmentMatchesRunning, SettlementNeverLost
  <2>4. CASE Settle("completed", FALSE, "none")
    <3>1. exec'.pc = "load" /\ exec'.to = "completed" /\ exec'.gate = FALSE /\ exec'.tries = 0
      BY <2>4, ExecFields
    <3>2. LoadRank'
      BY <3>1, RankRange DEF LoadRank
    <3>3. stop' = stop /\ cold' = cold /\ boot' = boot /\ up' = up
      BY <1>9 DEF Succeed
    <3>4. QED
      BY <2>1, <2>2, <3>1, <3>2, <3>3
      DEF Control, Owner, Working, Down, StopSeen, GateHasContract, Queued, Target, CommitRank,
          SegmentMatchesRunning, SettlementNeverLost
  <2>5. QED BY <1>9, <2>1, <2>3, <2>4 DEF Succeed
<1>10. CASE AskUser
  <2>1. up = TRUE /\ exec.pc = "work" /\ run.status # "queued"
    BY <1>10 DEF AskUser, At, Control, Queued, TypeOK
  <2>2. QED BY <1>10, <1>a, <2>1, ExecFields DEF AskUser
<1>11. CASE WorkFailed
  <2>1. up = TRUE /\ run.status \in {"running", "canceling"} /\ run.heartbeat = boot
    BY <1>11 DEF WorkFailed, At, Control, Owner, Working, TypeOK
  <2>2. QED BY <1>11, <1>b, <2>1 DEF WorkFailed
<1>12. CASE WorkEvent
  <2>1. UNCHANGED <<run, exec, stop, cold, boot, up>>
    BY <1>12 DEF WorkEvent
  <2>2. QED
    BY <2>1, OtherWriterKeepsControl DEF Control, SegmentMatchesRunning, Down, StopSeen
<1>13. CASE ResumeLoad
  <2>1. exec'.pc = "resume" /\ exec'.gate = FALSE
    BY <1>13 DEF ResumeLoad, IdleExec
  <2>2. up = TRUE /\ run.status # "queued"
    BY <1>13 DEF ResumeLoad, At, TypeOK
  <2>3. QED BY <1>13, <1>a, <2>1, <2>2 DEF ResumeLoad
<1>14. CASE Reverify
  <2>1. exec'.pc = "verify" /\ exec'.gate = FALSE /\ exec'.via = "reverify"
    BY <1>14 DEF Reverify, IdleExec
  <2>2. run.contract /\ run.candidate /\ UNCHANGED <<run, stop, cold, boot, up>>
    BY <1>14 DEF Reverify
  <2>3. up = TRUE
    BY <1>14 DEF Reverify, At, TypeOK
  <2>4. QED
    BY <2>1, <2>2, <2>3
    DEF Control, Owner, Working, Down, StopSeen, GateHasContract, Queued, Target, LoadRank, CommitRank,
        SegmentMatchesRunning, SettlementNeverLost
<1>15. ASSUME NEW s \in Stops, StopLoad(s) PROVE Control'
  <2>1. StopSeen'
    <3>1. ASSUME NEW pc \in {"close", "idle"},
                 stop' = [stop EXCEPT ![s].pc = pc, ![s].seen = "none", ![s].tries = 0]
          PROVE  StopSeen'
      <4>1. /\ \A x \in Stops \ {s} : stop'[x] = stop[x]
            /\ stop'[s] = [stop[s] EXCEPT !.pc = pc, !.seen = "none", !.tries = 0]
        BY <3>1 DEF TypeOK
      <4>2. stop'[s].pc = pc
        BY <4>1 DEF TypeOK, StopRecord
      <4>3. QED BY <4>1, <4>2 DEF Control, StopSeen
    <3>2. CASE /\ run.status \notin {"completed", "failed", "canceled", "canceling"}
               /\ stop' = [stop EXCEPT ![s].pc = "commit", ![s].seen = run.status]
      <4>1. run.status \in {"queued", "running", "waiting_for_user", "failed_recoverable"}
        BY <1>0, <3>2 DEF Status
      <4>2. \A x \in Stops : stop'[x] = IF x = s THEN [stop[s] EXCEPT !.pc = "commit", !.seen = run.status]
                                        ELSE stop[x]
        BY <3>2 DEF TypeOK
      <4>3. stop'[s].seen = run.status
        BY <4>2 DEF TypeOK, StopRecord
      <4>4. QED BY <4>1, <4>2, <4>3 DEF Control, StopSeen
    <3>3. QED BY <1>15, <3>1, <3>2 DEF StopLoad
  <2>2. UNCHANGED <<run, exec, cold, boot, up>>
    BY <1>15 DEF StopLoad, NotStop
  <2>3. QED
    BY <2>1, <2>2, OtherWriterKeepsControl DEF Control, SegmentMatchesRunning, Down
<1>16. ASSUME NEW s \in Stops, StopCommit(s) PROVE Control'
  <2> DEFINE before == stop[s].seen
             to == stopTarget(before)
             type == stopEvent(before)
  <2>1. before \in {"queued", "running", "waiting_for_user", "failed_recoverable"}
    BY <1>16 DEF StopCommit, StopAt, Control, StopSeen
  <2>2. UNCHANGED <<exec, cold, boot, up>>
    BY <1>16 DEF StopCommit
  <2>3. StopSeen'
    <3>1. CASE stop' = [stop EXCEPT ![s].pc = "signal"]
      BY <3>1 DEF Control, StopSeen, TypeOK, StopRecord
    <3>2. CASE stop' = [stop EXCEPT ![s] = [IdleStop EXCEPT !.tries = stop[s].tries + 1]]
      <4>1. [IdleStop EXCEPT !.tries = stop[s].tries + 1].pc = "idle"
        BY DEF IdleStop
      <4>2. QED BY <3>2, <4>1 DEF Control, StopSeen, TypeOK
    <3>3. CASE stop' = [stop EXCEPT ![s] = IdleStop]
      BY <3>3 DEF Control, StopSeen, TypeOK, IdleStop
    <3>4. QED BY <1>16, <3>1, <3>2, <3>3 DEF StopCommit
  <2>4. CASE StoreSame
    BY <2>2, <2>3, <2>4, OtherWriterKeepsControl DEF Control, SegmentMatchesRunning, Down
  <2>5. CASE applies(before, to, type) /\ TransitionRun(to, type, FALSE)
    <3>1. to \in Status /\ to # "running" /\ to # "queued" /\ run.status = before
      BY <2>5 DEF stopTarget, Status, applies
    <3>2. /\ run'.status = to /\ run'.contract = run.contract /\ run'.candidate = run.candidate
          /\ run'.heartbeat = run.heartbeat /\ SegmentMatchesRunning'
      BY <1>0, <2>5, <3>1, TransitionRow
    <3>3. MovesDown
      BY <2>1, <3>1, <3>2 DEF MovesDown, Rank, stopTarget
    <3>4. QED BY <2>2, <2>3, <3>2, <3>3, OtherWriterKeepsControl DEF Control, Down
  <2>6. QED BY <1>16, <2>4, <2>5 DEF StopCommit
<1>17. ASSUME NEW s \in Stops, StopSignal(s) PROVE Control'
  <2>1. StopSeen'
    <3>1. \A pc : [IdleStop EXCEPT !.pc = pc].pc = pc
      BY DEF IdleStop
    <3>2. PICK pc \in {"close", "idle"} : stop' = [stop EXCEPT ![s] = [IdleStop EXCEPT !.pc = pc]]
      BY <1>17 DEF StopSignal
    <3>3. QED BY <3>1, <3>2 DEF Control, StopSeen, TypeOK
  <2>2. UNCHANGED <<run, exec, cold, boot, up>>
    BY <1>17 DEF StopSignal, NotStop
  <2>3. QED
    BY <2>1, <2>2, OtherWriterKeepsControl DEF Control, SegmentMatchesRunning, Down
<1>26. ASSUME NEW s \in Stops, StopClose(s) PROVE Control'
  <2>1. StopSeen'
    BY <1>26 DEF StopClose, Control, StopSeen, TypeOK, IdleStop
  <2>2. UNCHANGED <<run, exec, cold, boot, up>>
    BY <1>26 DEF StopClose
  <2>3. QED
    BY <2>1, <2>2, OtherWriterKeepsControl DEF Control, SegmentMatchesRunning, Down
<1>27. ASSUME NEW s \in Stops, WithdrawClarification(s) PROVE Control'
  <2>1. StopSeen'
    <3>1. [IdleStop EXCEPT !.pc = "close"].pc = "close"
      BY DEF IdleStop
    <3>2. QED BY <1>27, <3>1 DEF WithdrawClarification, Control, StopSeen, TypeOK
  <2>2. /\ UNCHANGED <<exec, cold, boot, up>> /\ run.status = "waiting_for_user"
        /\ TransitionRun("canceled", "run.canceled", FALSE)
    BY <1>27 DEF WithdrawClarification
  <2>3. /\ run'.status = "canceled" /\ run'.contract = run.contract
        /\ run'.candidate = run.candidate /\ run'.heartbeat = run.heartbeat
        /\ SegmentMatchesRunning'
    BY <1>0, <2>2, TransitionRow DEF Status
  <2>4. MovesDown
    BY <2>2, <2>3 DEF MovesDown, Rank
  <2>5. QED BY <2>1, <2>2, <2>3, <2>4, OtherWriterKeepsControl DEF Control, Down
<1>28. CASE CompleteClarification
  <2>1. /\ up = TRUE /\ exec.pc = "work" /\ run.heartbeat = boot
        /\ run.status \in {"running", "canceling"}
    BY <1>28 DEF CompleteClarification, At, Control, Owner, Working, TypeOK
  <2>2. UNCHANGED <<run, stop, cold, boot, up>>
    BY <1>28 DEF CompleteClarification
  <2>3. ASSUME NEW to \in {"completed", "failed"}, NEW cause, Settle(to, FALSE, cause)
        PROVE  Control'
    BY <1>b, <2>1, <2>2, <2>3
  <2>4. CASE Abandon
    BY <1>a, <2>1, <2>2, <2>4, ExecFields
  <2>5. CASE run.contract /\ exec' = [exec EXCEPT !.pc = "verify", !.via = "replay"]
    <3>1. exec'.pc = "verify" /\ exec'.gate = exec.gate
      BY <2>5 DEF TypeOK, ExecRecord
    <3>2. QED
      BY <2>1, <2>2, <2>5, <3>1
      DEF Control, Owner, Working, Down, StopSeen, GateHasContract, Queued, Target, LoadRank,
          CommitRank, SegmentMatchesRunning, SettlementNeverLost
  <2>6. QED BY <1>28, <2>3, <2>4, <2>5 DEF CompleteClarification, FailIfRunning
<1>29. CASE Paused
  <2>1. up = TRUE
    BY <1>29 DEF Paused, At, TypeOK
  <2>2. QED BY <1>29, <1>a, <2>1, ExecFields DEF Paused
<1>18. CASE ForeignAppend
  <2>1. UNCHANGED <<run, exec, stop, cold, boot, up>>
    BY <1>18 DEF ForeignAppend
  <2>2. QED
    BY <2>1, OtherWriterKeepsControl DEF Control, SegmentMatchesRunning, Down, StopSeen
<1>19. CASE Crash
  <2>1. exec'.pc = "idle" /\ exec'.gate = FALSE /\ cold'.pc = "off" /\ run' = run
    BY <1>19 DEF Crash, IdleExec, ColdOff
  <2>2. \A s \in Stops : stop'[s].pc = "idle"
    BY <1>19 DEF Crash, IdleStop
  <2>3. QED
    BY <2>1, <2>2
    DEF Control, Owner, Working, Down, StopSeen, GateHasContract, Queued, Target, LoadRank, CommitRank,
        SegmentMatchesRunning, SettlementNeverLost
<1>20. CASE ColdStart
  <2>1. exec' = exec /\ stop' = stop /\ exec.pc = "idle" /\ up' = TRUE
    BY <1>20 DEF ColdStart, Control, Down
  <2>2. /\ run'.contract = run.contract /\ run'.candidate = run.candidate
        /\ run'.status = run.status \/ (run'.status # "queued" /\ run'.status # "running")
        /\ SegmentMatchesRunning'
    <3>1. CASE StoreSame
      BY <1>0, <3>1 DEF SegmentMatchesRunning
    <3>2. CASE RepairInterruptedRun(repairPlan(run.status))
      BY <3>2 DEF RepairInterruptedRun, repairedStatus, SegmentMatchesRunning, TypeOK, RunRecord
    <3>3. QED BY <1>20, <3>1, <3>2 DEF ColdStart
  <2>3. QED
    BY <2>1, <2>2
    DEF Control, Owner, Working, Down, StopSeen, GateHasContract, Queued, Target, LoadRank, CommitRank,
        SettlementNeverLost
<1>21. CASE RecheckList
  <2>1. UNCHANGED <<run, exec, stop, boot, up>> /\ up = TRUE
    BY <1>21 DEF RecheckList, NotCold, ColdAt, TypeOK
  <2>2. QED
    BY <2>1, OtherWriterKeepsControl DEF Control, SegmentMatchesRunning, Down, StopSeen
<1>22. CASE RecheckPlan
  <2>1. UNCHANGED <<run, exec, stop, boot, up>> /\ up = TRUE
    BY <1>22 DEF RecheckPlan, NotCold, ColdAt, TypeOK
  <2>2. QED
    BY <2>1, OtherWriterKeepsControl DEF Control, SegmentMatchesRunning, Down, StopSeen
<1>23. CASE RecheckRepair
  <2>1. UNCHANGED <<exec, stop, boot, up>> /\ up = TRUE
    BY <1>23 DEF RecheckRepair, NotCold, ColdAt, TypeOK
  <2>2. Down' /\ StopSeen'
    BY <2>1 DEF Control, Down, StopSeen
  <2>3. CASE StoreSame
    BY <2>1, <2>2, <2>3, OtherWriterKeepsControl DEF Control, SegmentMatchesRunning
  <2>4. CASE repairApplies /\ RepairInterruptedRun(cold.terminal)
    <3>1. run.status \in {"running", "canceling"} /\ run.heartbeat < boot
      BY <2>4 DEF repairApplies, stale
    <3>2. run.heartbeat # boot
      BY <3>1 DEF TypeOK, RunRecord
    <3>3. /\ run'.contract = run.contract /\ run'.candidate = run.candidate
          /\ run'.heartbeat = run.heartbeat /\ run'.status = repairedStatus(run.status)
          /\ run'.segment = FALSE
      BY <2>4 DEF RepairInterruptedRun, TypeOK, RunRecord
    <3>4. SegmentMatchesRunning'
      BY <3>3 DEF SegmentMatchesRunning, repairedStatus
    <3>5. MovesDown
      BY <3>1, <3>2, <3>3 DEF MovesDown, Rank, repairedStatus
    <3>6. QED BY <2>1, <2>2, <3>4, <3>5, OtherWriterKeepsControl
  <2>5. QED BY <1>23, <2>3, <2>4 DEF RecheckRepair
<1>24. CASE UNCHANGED vars
  <2>1. UNCHANGED <<run, exec, stop, cold, boot, up>>
    BY <1>24 DEF vars
  <2>2. QED
    BY <2>1, OtherWriterKeepsControl DEF Control, SegmentMatchesRunning, Down, StopSeen
<1>25. QED
  BY <1>1, <1>2, <1>3, <1>4, <1>5, <1>6, <1>7, <1>8, <1>9, <1>10, <1>11, <1>12, <1>13, <1>14,
     <1>15, <1>16, <1>17, <1>18, <1>19, <1>20, <1>21, <1>22, <1>23, <1>24, <1>26, <1>27, <1>28, <1>29
  DEF Next, ExecStep, WorkEnds, StopStep, ColdStep

\* The control invariant and types, together, hold in every reachable state.
THEOREM ControlCorrect == Spec => [](TypeOK /\ Control)
<1>1. Init => TypeOK /\ Control
  BY TypeInit, ControlInit
<1>2. TypeOK /\ Control /\ [Next]_vars => (TypeOK /\ Control)'
  BY TypeStep, ControlStep
<1>3. QED BY <1>1, <1>2, PTL DEF Spec

\* A worker's Run is never taken from under it: while a worker of the current
\* process runs, the row is running or canceling, whatever Stops and repairs do.
THEOREM WorkerOwnsRunCorrect == Spec => []WorkerOwnsRun
<1>1. TypeOK /\ Control => WorkerOwnsRun
  BY DEF Control, Owner, Working, WorkerOwnsRun
<1>2. QED BY <1>1, ControlCorrect, PTL

\* The runtime segment is open exactly while the Run is running.
THEOREM SegmentCorrect == Spec => []SegmentMatchesRunning
<1>1. TypeOK /\ Control => SegmentMatchesRunning
  BY DEF Control
<1>2. QED BY <1>1, ControlCorrect, PTL

\* settleRun never gives up: with any number of concurrent Stops its four
\* attempts suffice, and every transition it tries is one the Store accepts.
THEOREM SettlementCorrect == Spec => []SettlementNeverLost
<1>1. TypeOK /\ Control => SettlementNeverLost
  BY DEF Control
<1>2. QED BY <1>1, ControlCorrect, PTL

----------------------------------------------------------------------------
(* The row implements RunStatus.                                            *)

\* Every change of the status is one the abstract RunStatus allows.
LEMMA StatusStep ==
  ASSUME TypeOK, Control, [Next]_vars
  PROVE  [Promise!Next]_<<run.status, run.contract>>
<1> USE DEF Promise!Next, Promise!Execute, Promise!Outcome, Promise!Stop, Promise!Acknowledge,
            Promise!Reconsider
<1>0. SegmentMatchesRunning /\ run.status \in Status
  BY DEF Control, TypeOK, RunRecord
<1>1. ASSUME NEW from, NEW to \in Status, NEW type, NEW gate, applies(from, to, type),
             TransitionRun(to, type, gate)
      PROVE  /\ run.status = from /\ run'.status = to /\ run'.contract = run.contract
             /\ validRunTransition(from, to, type)
  BY <1>0, <1>1, TransitionRow DEF applies
<1>2. CASE StartRun
  <2>1. CASE applies(exec.seen, "running", "run.started") /\ TransitionRun("running", "run.started", FALSE)
    BY <1>1, <2>1 DEF validRunTransition, Status
  <2>2. CASE StoreSame
    BY <2>2 DEF StoreSame
  <2>3. QED BY <1>2, <2>1, <2>2 DEF StartRun
<1>3. CASE ResumeRun
  <2>1. CASE applies(exec.seen, "running", "run.resumed") /\ TransitionRun("running", "run.resumed", FALSE)
    BY <1>1, <2>1 DEF validRunTransition, Status
  <2>2. CASE StoreSame
    BY <2>2 DEF StoreSame
  <2>3. QED BY <1>3, <2>1, <2>2 DEF ResumeRun
<1>4. CASE WaitForUser
  <2>1. CASE /\ applies("running", "waiting_for_user", "run.waiting_for_user")
             /\ TransitionRun("waiting_for_user", "run.waiting_for_user", FALSE)
    BY <1>1, <2>1 DEF Status
  <2>2. CASE StoreSame
    BY <2>2 DEF StoreSame
  <2>3. QED BY <1>4, <2>1, <2>2 DEF WaitForUser
<1>5. CASE SettleCommit
  <2> DEFINE to == settleTarget
             type == EventFor(to)
  <2>1. CASE applies(exec.seen, to, type) /\ TransitionRun(to, type, exec.gate)
    <3>1. exec.pc = "commit"
      BY <1>5 DEF SettleCommit, At
    <3>2. to \in Status
      BY <3>1, SettleValid
    <3>3. run.status = exec.seen /\ run'.status = to /\ run'.contract = run.contract
      BY <1>1, <2>1, <3>2
    <3>4. /\ ~settled(exec.seen) /\ exec.seen # "queued"
          /\ exec.to \in {"completed", "failed", "failed_recoverable", "waiting_for_user", "canceled"}
          /\ exec.to = "canceled" => run.status = "canceling"
          /\ IF exec.gate THEN run.contract ELSE run.status \in {"running", "canceling"}
      BY <3>1 DEF Control, CommitRank, Target, Owner, Working, GateHasContract
    <3>5. QED BY <1>0, <3>3, <3>4 DEF settleTarget, settled, Status
  <2>2. CASE StoreSame
    BY <2>2 DEF StoreSame
  <2>3. QED BY <1>5, <2>1, <2>2 DEF SettleCommit
<1>6. CASE Succeed
  BY <1>6 DEF Succeed, TypeOK, RunRecord
<1>7. ASSUME NEW s \in Stops, StopCommit(s) PROVE [Promise!Next]_<<run.status, run.contract>>
  <2> DEFINE before == stop[s].seen
             to == stopTarget(before)
             type == stopEvent(before)
  <2>1. CASE applies(before, to, type) /\ TransitionRun(to, type, FALSE)
    <3>1. to \in Status
      BY DEF stopTarget, Status
    <3>2. run.status = before /\ run'.status = to /\ run'.contract = run.contract
      BY <1>1, <2>1, <3>1
    <3>3. before \in {"queued", "running", "waiting_for_user", "failed_recoverable"}
      BY <1>7 DEF StopCommit, StopAt, Control, StopSeen
    <3>4. QED BY <3>2, <3>3 DEF stopTarget
  <2>2. CASE StoreSame
    BY <2>2 DEF StoreSame
  <2>3. QED BY <1>7, <2>1, <2>2 DEF StopCommit
<1>8. ASSUME NEW closing, RepairInterruptedRun(closing), run.status \in {"running", "canceling"}
      PROVE  [Promise!Next]_<<run.status, run.contract>>
  BY <1>8 DEF RepairInterruptedRun, repairedStatus, TypeOK, RunRecord
<1>9. CASE ColdStart
  <2>1. CASE stale(boot + 1) /\ RepairInterruptedRun(repairPlan(run.status))
    BY <1>8, <2>1 DEF stale
  <2>2. CASE StoreSame
    BY <2>2 DEF StoreSame
  <2>3. QED BY <1>9, <2>1, <2>2 DEF ColdStart
<1>10. CASE RecheckRepair
  <2>1. CASE repairApplies /\ RepairInterruptedRun(cold.terminal)
    BY <1>8, <2>1 DEF stale, repairApplies
  <2>2. CASE StoreSame
    BY <2>2 DEF StoreSame
  <2>3. QED BY <1>10, <2>1, <2>2 DEF RecheckRepair
<1>11. CASE UNCHANGED run
  BY <1>11
<1>13. ASSUME NEW s \in Stops, WithdrawClarification(s)
       PROVE  [Promise!Next]_<<run.status, run.contract>>
  <2>1. run.status = "waiting_for_user" /\ TransitionRun("canceled", "run.canceled", FALSE)
    BY <1>13 DEF WithdrawClarification
  <2>2. run'.status = "canceled" /\ run'.contract = run.contract
    BY <1>0, <2>1, TransitionRow DEF Status
  <2>3. QED BY <2>1, <2>2
<1>12. QED
  BY <1>2, <1>3, <1>4, <1>5, <1>6, <1>7, <1>9, <1>10, <1>11, <1>13
  DEF Next, ExecStep, WorkEnds, StopStep, ColdStep, BindCancellation, VerifySubject, SettleLoad,
      stopIfCanceled, AskUser, WorkFailed, WorkEvent, ResumeLoad, Reverify, StopLoad, StopSignal,
      StopClose, CompleteClarification, Paused, NotStop, ForeignAppend, Crash, RecheckList, RecheckPlan, StoreSame, vars

\* Every behaviour of the concurrent lifecycle, with its Stops, retries, crashes
\* and repairs, is a behaviour of the promised status machine.
THEOREM RunStatusImplemented == Spec => ImplementsRunStatus
<1>1. Init => Promise!Init
  BY DEF Init, Promise!Init
<1>2. TypeOK /\ Control /\ [Next]_vars => [Promise!Next]_<<run.status, run.contract>>
  BY StatusStep
<1>3. QED BY <1>1, <1>2, ControlCorrect, PTL DEF Spec, ImplementsRunStatus, Promise!Spec

----------------------------------------------------------------------------
(* The stream and the row.  Every step does one of four things to them.     *)

Quiet == UNCHANGED events /\ run'.status = run.status

Noted ==
  /\ events # <<>> /\ run'.status = run.status
  /\ \E type \in {"work", "verification"} : Append1(type)

Committed ==
  \E to \in Status, type \in LifecycleType, gate \in BOOLEAN :
    applies(run.status, to, type) /\ TransitionRun(to, type, gate)

Repaired ==
  run.status \in {"running", "canceling"} /\ RepairInterruptedRun(repairPlan(run.status))

\* An active Run with a stream has an open lifecycle, so a repair finds what to close.
ActiveOpen == run.status \in {"running", "canceling"} /\ events # <<>> => openRunLifecycle

\* While the stream has the planned length, the plan is still the current one.
PlanCurrent ==
  cold.pc = "repair" =>
    /\ cold.cursor <= Len(events)
    /\ cold.cursor = Len(events) => cold.terminal = repairPlan(cold.seen)

\* Work and verification follow a committed start.
Streamed ==
  exec.pc \in {"begin", "work", "wait", "verify"} \/ run.candidate => events # <<>>

Projection == ProjectionAligned /\ ActiveOpen /\ PlanCurrent /\ Streamed

\* Events of every type are records, and work is no lifecycle event.
LEMMA EventTypes ==
  /\ \A type \in EventType, status \in Status \cup {"none"}, gate \in BOOLEAN :
       /\ Event(type, status, gate) \in EventRecord
       /\ Event(type, status, gate).type = type /\ Event(type, status, gate).status = status
  /\ \A status : EventFor(status) \in {"run.completed", "run.waiting_for_user", "run.canceled",
                                       "run.failed"}
BY DEF Event, EventRecord, EventFor

\* A stream one event longer: it ends in the new event, and the old ones keep their place.
LEMMA LongerStream ==
  ASSUME NEW es \in Seq(EventRecord), NEW e \in EventRecord, NEW fs, fs = Append(es, e)
  PROVE  /\ fs \in Seq(EventRecord) /\ fs # <<>>
         /\ Len(fs) = Len(es) + 1 /\ Len(es) \in Nat
         /\ DOMAIN es = 1..Len(es) /\ DOMAIN fs = 1..Len(es) + 1
         /\ fs[Len(es) + 1] = e /\ \A i \in 1..Len(es) : fs[i] = es[i]
BY AppendProperties, LenProperties

\* The last committed lifecycle event of a longer stream is the one just
\* appended, or the old one if that was not a lifecycle event.
LEMMA CommittedAligned ==
  ASSUME NEW es \in Seq(EventRecord), NEW e \in EventRecord, events' = Append(es, e),
         e.type \in LifecycleType, e.status = run'.status
  PROVE  ProjectionAligned'
<1> DEFINE n == Len(es) + 1
<1>1. /\ events' # <<>> /\ n \in Nat
      /\ DOMAIN events' = 1..n /\ events'[n] = e
  BY LongerStream
<1>2. n \in DOMAIN events' /\ \A j \in DOMAIN events' : ~(j > n)
  BY <1>1
<1>3. lastLifecycle(n)'
  BY <1>1, <1>2 DEF lastLifecycle, lifecycle
<1>4. QED BY <1>1, <1>2, <1>3 DEF ProjectionAligned

\* A work or verification event keeps the row aligned with its stream.
LEMMA NotedAligned ==
  ASSUME TypeOK, ProjectionAligned, Noted
  PROVE  ProjectionAligned' /\ (openRunLifecycle => openRunLifecycle') /\ events' # <<>>
<1>1. PICK type \in {"work", "verification"} : Append1(type)
  BY DEF Noted
<1> DEFINE n == Len(events) + 1
<1>2. PICK e \in EventRecord : e.type = type /\ events' = Append(events, e)
  BY <1>1, EventTypes DEF EventType, Append1
<1>3. /\ events' # <<>> /\ DOMAIN events = 1..Len(events) /\ Len(events) \in Nat
      /\ DOMAIN events' = 1..n /\ events'[n] = e
      /\ \A i \in 1..Len(events) : events'[i] = events[i]
  BY <1>2, LongerStream DEF TypeOK
<1>4. \A i \in DOMAIN events' : i \in DOMAIN events \/ i = n
  BY <1>3
<1>5. \A i \in DOMAIN events : i \in DOMAIN events' /\ events'[i] = events[i]
  BY <1>3
<1>6. e.type \notin LifecycleType
  BY <1>2 DEF LifecycleType
<1>7. PICK i \in DOMAIN events : lastLifecycle(i) /\ events[i].status = run.status
  BY DEF Noted, ProjectionAligned
<1>8. lastLifecycle(i)'
  BY <1>3, <1>4, <1>5, <1>6, <1>7 DEF lastLifecycle, lifecycle
<1>9. ProjectionAligned'
  BY <1>3, <1>5, <1>7, <1>8 DEF ProjectionAligned, Noted
<1>10. openRunLifecycle => openRunLifecycle'
  BY <1>2, <1>3, <1>4, <1>5 DEF openRunLifecycle
<1>11. QED BY <1>3, <1>9, <1>10

\* A lifecycle commit leaves the row aligned with its stream.
LEMMA TransitionStream ==
  ASSUME TypeOK, NEW to \in Status, NEW type \in LifecycleType, NEW gate \in BOOLEAN,
         TransitionRun(to, type, gate)
  PROVE  /\ ProjectionAligned' /\ run'.status = to
         /\ events' # <<>> /\ Len(events') > Len(events)
         /\ type \in {"run.started", "run.resumed"} => openRunLifecycle'
         /\ type = "run.cancel_requested" /\ (events = <<>> \/ openRunLifecycle)
              => openRunLifecycle'
<1> DEFINE created == Event("run.created", "queued", FALSE)
           es == IF events = <<>> THEN <<created>> ELSE events
           e == Event(type, to, gate)
           n == Len(es) + 1
<1>1. e \in EventRecord /\ e.type = type /\ e.status = to /\ created \in EventRecord
      /\ created.type = "run.created"
  <2>1. /\ type \in EventType /\ "run.created" \in EventType /\ to \in Status \cup {"none"}
        /\ "queued" \in Status \cup {"none"}
    BY DEF EventType, LifecycleType, Status
  <2>2. QED BY <2>1, EventTypes
<1>2. /\ es \in Seq(EventRecord) /\ events' = Append(es, e)
      /\ events # <<>> => es = events
      /\ events = <<>> => es = <<created>>
  BY <1>1, SingletonSeq DEF TransitionRun, TypeOK
<1> HIDE DEF created, es, e
<1>3. run'.status = to
  BY TransitionTypes
<1>4. ProjectionAligned'
  BY <1>1, <1>2, <1>3, CommittedAligned
<1>5. /\ events' # <<>> /\ Len(es) \in Nat /\ Len(events') = n
      /\ DOMAIN es = 1..Len(es) /\ DOMAIN events' = 1..n /\ events'[n] = e
      /\ \A i \in 1..Len(es) : events'[i] = es[i]
  BY <1>1, <1>2, LongerStream
<1>6. Len(es) >= Len(events)
  <2>1. CASE events = <<>>
    BY <1>1, <1>2, <2>1, SingletonSeq, EmptySeq
  <2>2. CASE events # <<>>
    BY <1>2, <1>5, <2>2
  <2>3. QED BY <2>1, <2>2
<1>7. Len(events') > Len(events)
  BY <1>5, <1>6, LenProperties DEF TypeOK
<1>8. \A i \in DOMAIN events' : i \in DOMAIN es \/ i = n
  BY <1>5
<1>9. type \in {"run.started", "run.resumed"} => openRunLifecycle'
  <2>1. n \in DOMAIN events' /\ \A j \in DOMAIN events' : ~(j > n)
    BY <1>5
  <2>2. QED BY <1>1, <1>5, <2>1 DEF openRunLifecycle
<1>10. ASSUME type = "run.cancel_requested", events = <<>> \/ openRunLifecycle
       PROVE  openRunLifecycle'
  <2>1. PICK i \in DOMAIN es :
          /\ es[i].type \in {"run.created", "run.started", "run.resumed"}
          /\ \A j \in DOMAIN es : j > i =>
               es[j].type \notin {"run.completed", "run.failed", "run.canceled"}
    <3>1. CASE events = <<>>
      <4>1. es = <<created>> /\ Len(es) = 1 /\ es[1] = created
        BY <1>1, <1>2, <3>1, SingletonSeq
      <4>2. DOMAIN es = {1}
        BY <1>5, <4>1
      <4>3. QED BY <1>1, <4>1, <4>2
    <3>2. CASE events # <<>>
      BY <1>2, <1>10, <3>2 DEF openRunLifecycle
    <3>3. QED BY <3>1, <3>2
  <2>2. i \in DOMAIN events' /\ events'[i] = es[i]
    BY <1>5
  <2>3. QED BY <1>1, <1>5, <1>8, <1>10, <2>1, <2>2 DEF openRunLifecycle
<1>11. QED BY <1>3, <1>4, <1>5, <1>7, <1>9, <1>10

\* A repair appends the terminal event its status calls for, or nothing to an empty stream.
LEMMA RepairStream ==
  ASSUME TypeOK, ProjectionAligned, ActiveOpen, Repaired
  PROVE  /\ ProjectionAligned' /\ run'.status \notin {"running", "canceling"}
         /\ IF events = <<>> THEN events' = <<>> ELSE events' # <<>> /\ Len(events') > Len(events)
<1> DEFINE to == repairedStatus(run.status)
           e == Event(EventFor(to), to, FALSE)
<1>1. run'.status = to /\ to \in {"canceled", "failed_recoverable"}
  BY DEF Repaired, RepairInterruptedRun, repairedStatus, TypeOK, RunRecord
<1>2. CASE events = <<>>
  <2>1. ~openRunLifecycle
    BY <1>2 DEF openRunLifecycle
  <2>2. events' = <<>>
    BY <1>2, <2>1, ConcatEmptySeq DEF Repaired, RepairInterruptedRun, repairPlan, TypeOK
  <2>3. run.status = "running"
    BY <1>2 DEF Repaired, ProjectionAligned
  <2>4. QED BY <1>1, <1>2, <2>2, <2>3 DEF ProjectionAligned, repairedStatus
<1>3. CASE events # <<>>
  <2>1. repairPlan(run.status) = <<e>>
    BY <1>3 DEF ActiveOpen, Repaired, repairPlan
  <2>2. e \in EventRecord /\ e.type \in LifecycleType /\ e.status = to
    <3>1. to \in Status \cup {"none"} /\ EventFor(to) \in EventType /\ EventFor(to) \in LifecycleType
      BY <1>1, EventTypes DEF Status, EventType, LifecycleType
    <3>2. QED BY <3>1, EventTypes
  <2>3. events' = Append(events, e)
    BY <2>1, <2>2, AppendIsConcat DEF Repaired, RepairInterruptedRun, TypeOK
  <2> HIDE DEF e
  <2>4. ProjectionAligned'
    BY <1>1, <2>2, <2>3, CommittedAligned DEF TypeOK
  <2>5. events' # <<>> /\ Len(events') > Len(events)
    BY <2>2, <2>3, LongerStream DEF TypeOK
  <2>6. QED BY <1>1, <1>3, <2>4, <2>5
<1>4. QED BY <1>2, <1>3

\* Each of the four ways to treat row and stream keeps them aligned.
LEMMA StreamKept ==
  ASSUME TypeOK, ProjectionAligned, ActiveOpen, Quiet \/ Noted \/ Committed \/ Repaired
  PROVE  /\ ProjectionAligned' /\ ActiveOpen'
         /\ events # <<>> => events' # <<>>
         /\ UNCHANGED events \/ Len(events') > Len(events)
<1>1. CASE Quiet
  BY <1>1 DEF Quiet, ProjectionAligned, lastLifecycle, lifecycle, ActiveOpen, openRunLifecycle
<1>2. CASE Noted
  <2>1. Len(events') > Len(events)
    <3>1. PICK e \in EventRecord : events' = Append(events, e)
      BY <1>2, EventTypes DEF Noted, Append1, EventType
    <3>2. QED BY <3>1, LongerStream DEF TypeOK
  <2>2. QED BY <1>2, <2>1, NotedAligned DEF Noted, ActiveOpen
<1>3. CASE Committed
  <2>1. PICK to \in Status, type \in LifecycleType, gate \in BOOLEAN :
          applies(run.status, to, type) /\ TransitionRun(to, type, gate)
    BY <1>3 DEF Committed
  <2>2. /\ ProjectionAligned' /\ run'.status = to
        /\ events' # <<>> /\ Len(events') > Len(events)
        /\ type \in {"run.started", "run.resumed"} => openRunLifecycle'
        /\ type = "run.cancel_requested" /\ (events = <<>> \/ openRunLifecycle)
             => openRunLifecycle'
    BY <2>1, TransitionStream
  <2>3. /\ to = "running" => type \in {"run.started", "run.resumed"}
        /\ to = "canceling" => type = "run.cancel_requested" /\ run.status = "running"
    BY <2>1 DEF applies, validRunTransition
  <2>4. QED BY <2>2, <2>3 DEF ActiveOpen
<1>4. CASE Repaired
  BY <1>4, RepairStream DEF ActiveOpen
<1>5. QED BY <1>1, <1>2, <1>3, <1>4

\* A repair that applies was planned for the stream it extends.
LEMMA RepairIsCurrent ==
  ASSUME PlanCurrent, repairApplies, cold.pc = "repair"
  PROVE  cold.terminal = repairPlan(run.status) /\ run.status \in {"running", "canceling"}
BY DEF PlanCurrent, repairApplies, stale

\* Every step treats stream and row in one of the four ways.
LEMMA StreamStep ==
  ASSUME TypeOK, Control, ProjectionAligned, PlanCurrent, Streamed, [Next]_vars
  PROVE  Quiet \/ Noted \/ Committed \/ Repaired
<1> USE DEF StoreSame
<1>0. /\ {"running", "waiting_for_user", "canceling", "canceled"} \subseteq Status
      /\ {"run.started", "run.resumed", "run.waiting_for_user", "run.cancel_requested",
          "run.canceled"} \subseteq LifecycleType
      /\ FALSE \in BOOLEAN /\ exec.gate \in BOOLEAN
  BY DEF Status, LifecycleType, TypeOK, ExecRecord
<1>1. ASSUME NEW from, NEW to \in Status, NEW type \in LifecycleType, NEW gate \in BOOLEAN,
             applies(from, to, type), TransitionRun(to, type, gate)
      PROVE  Committed
  BY <1>1 DEF Committed, applies
<1>2. CASE StartRun
  BY <1>0, <1>1, <1>2 DEF StartRun, Quiet
<1>3. CASE ResumeRun
  BY <1>0, <1>1, <1>3 DEF ResumeRun, Quiet
<1>4. CASE WaitForUser
  BY <1>0, <1>1, <1>4 DEF WaitForUser, Quiet
<1>5. CASE SettleCommit
  <2> DEFINE to == settleTarget
             type == EventFor(to)
  <2>1. exec.pc = "commit"
    BY <1>5 DEF SettleCommit, At
  <2>2. to \in Status /\ type \in LifecycleType
    BY <2>1, SettleValid, EventTypes DEF LifecycleType
  <2>3. QED BY <1>0, <1>1, <1>5, <2>2 DEF SettleCommit, Quiet
<1>6. CASE VerifySubject
  BY <1>6 DEF VerifySubject, At, Streamed, Quiet, Noted
<1>7. CASE Succeed
  <2>1. events # <<>> /\ run'.status = run.status
    BY <1>7 DEF Succeed, At, Streamed, TypeOK, RunRecord
  <2>2. QED BY <1>7, <2>1 DEF Succeed, Noted
<1>8. CASE WorkEvent
  BY <1>8 DEF WorkEvent, At, Streamed, Noted
<1>9. CASE ForeignAppend
  BY <1>9 DEF ForeignAppend, Noted
<1>10. ASSUME NEW s \in Stops, StopCommit(s) PROVE Quiet \/ Committed
  <2>1. stopTarget(stop[s].seen) \in Status /\ stopEvent(stop[s].seen) \in LifecycleType
    BY <1>0 DEF stopTarget, stopEvent
  <2>2. QED BY <1>0, <1>1, <1>10, <2>1 DEF StopCommit, Quiet
<1>11. CASE ColdStart
  BY <1>11 DEF ColdStart, stale, Quiet, Repaired
<1>12. CASE RecheckRepair
  BY <1>12, RepairIsCurrent DEF RecheckRepair, ColdAt, Quiet, Repaired
<1>13. CASE UNCHANGED <<run, events>>
  BY <1>13 DEF Quiet
<1>15. CASE closeCanceledClarification /\ UNCHANGED run
  <2>1. run.status = "canceled" => events # <<>>
    BY DEF ProjectionAligned
  <2>2. QED BY <1>15, <2>1 DEF closeCanceledClarification, Quiet, Noted
<1>16. ASSUME NEW s \in Stops, WithdrawClarification(s) PROVE Committed
  <2>1. run.status = "waiting_for_user" /\ TransitionRun("canceled", "run.canceled", FALSE)
    BY <1>16 DEF WithdrawClarification
  <2>2. applies("waiting_for_user", "canceled", "run.canceled")
    BY <2>1 DEF applies, validRunTransition
  <2>3. QED BY <1>0, <1>1, <2>1, <2>2
<1>14. QED
  BY <1>2, <1>3, <1>4, <1>5, <1>6, <1>7, <1>8, <1>9, <1>10, <1>11, <1>12, <1>13, <1>15, <1>16
  DEF Next, ExecStep, WorkEnds, StopStep, ColdStep, BindCancellation, SettleLoad,
      stopIfCanceled, AskUser, WorkFailed, ResumeLoad, Reverify, StopLoad, StopSignal,
      StopClose, CompleteClarification, Paused, NotStop, Crash, RecheckList, RecheckPlan, vars

\* The plan of a repair stays the one for its cursor.
LEMMA PlanCurrentStep ==
  ASSUME TypeOK, TypeOK', PlanCurrent, [Next]_vars, UNCHANGED events \/ Len(events') > Len(events)
  PROVE  PlanCurrent'
<1>0. Len(events) \in Nat /\ Len(events') \in Nat /\ cold.cursor \in Nat
  BY LenProperties DEF TypeOK, ColdRecord
<1>1. CASE UNCHANGED cold /\ UNCHANGED events
  BY <1>1 DEF PlanCurrent, repairPlan, openRunLifecycle
<1>2. CASE UNCHANGED cold /\ Len(events') > Len(events)
  BY <1>0, <1>2 DEF PlanCurrent
<1>3. CASE cold'.pc # "repair"
  BY <1>3 DEF PlanCurrent
<1>4. CASE RecheckPlan
  <2>1. /\ cold'.cursor = Len(events) /\ cold'.terminal = repairPlan(cold.seen)
        /\ cold'.seen = cold.seen /\ events' = events
    BY <1>4 DEF RecheckPlan, StoreSame, TypeOK, ColdRecord
  <2>2. QED BY <1>0, <2>1 DEF PlanCurrent, repairPlan, openRunLifecycle
<1>5. UNCHANGED cold \/ cold'.pc # "repair" \/ RecheckPlan
  <2>1. ASSUME NEW n PROVE [ColdOff EXCEPT !.pc = "armed", !.tries = n].pc = "armed"
    BY DEF ColdOff
  <2>2. RecheckRepair => cold'.pc # "repair"
    <3>1. ColdOff.pc = "off"
      BY DEF ColdOff
    <3>2. QED BY <2>1, <3>1 DEF RecheckRepair
  <2>3. RecheckList => cold'.pc # "repair"
    BY DEF RecheckList, ColdOff, TypeOK, ColdRecord
  <2>4. ColdStart \/ Crash => cold'.pc # "repair"
    BY DEF ColdStart, Crash, ColdOff
  <2>5. QED
    BY <2>2, <2>3, <2>4
    DEF Next, ExecStep, WorkEnds, StopStep, ColdStep, OthersSame, StartRun, ResumeRun,
        BindCancellation, WaitForUser, VerifySubject, SettleLoad, SettleCommit, stopIfCanceled,
        Succeed, AskUser, WorkFailed, WorkEvent, ResumeLoad, Reverify, StopLoad, StopCommit,
        StopSignal, StopClose, WithdrawClarification, CompleteClarification, Paused, NotStop,
        ForeignAppend, vars
<1>6. QED BY <1>1, <1>2, <1>3, <1>4, <1>5

\* Work and verification go on following a committed start.
LEMMA StreamedStep ==
  ASSUME TypeOK, Streamed, [Next]_vars, events # <<>> => events' # <<>>
  PROVE  Streamed'
<1>1. CASE events' # <<>>
  BY <1>1 DEF Streamed
<1>2. CASE events' = <<>>
  <2>0. events = <<>> /\ ~run.candidate /\ exec.pc \notin {"begin", "work", "wait", "verify"}
    BY <1>2 DEF Streamed
  <2>1. ~(StartRun /\ TransitionRun("running", "run.started", FALSE))
        /\ ~(ResumeRun /\ TransitionRun("running", "run.resumed", FALSE))
    BY <1>2, TransitionStream DEF Status, LifecycleType
  <2>2. run'.candidate = run.candidate
    <3>1. \A to, type, gate : TransitionRun(to, type, gate) => run'.candidate = run.candidate
      BY DEF TransitionRun, ApplyRunStatus, TypeOK, RunRecord
    <3>2. \A closing : RepairInterruptedRun(closing) => run'.candidate = run.candidate
      BY DEF RepairInterruptedRun, TypeOK, RunRecord
    <3>3. QED
      BY <2>0, <3>1, <3>2
      DEF Next, ExecStep, WorkEnds, StopStep, ColdStep, StoreSame, OthersSame, StartRun, ResumeRun,
          BindCancellation, WaitForUser, VerifySubject, SettleLoad, SettleCommit, stopIfCanceled,
          Succeed, AskUser, WorkFailed, WorkEvent, ResumeLoad, Reverify, StopLoad, StopCommit,
          StopSignal, StopClose, WithdrawClarification, CompleteClarification, Paused, NotStop,
          ForeignAppend, Crash, ColdStart, RecheckList, RecheckPlan, RecheckRepair, NotCold, At, vars
  <2>3. exec'.pc \notin {"begin", "work", "wait", "verify"}
    <3>1. Leave => exec'.pc = "idle"
      BY ExecFields
    <3>2. \A to, gate, cause : Settle(to, gate, cause) => exec'.pc = "load"
      BY ExecFields
    <3>3. CASE StartRun \/ ResumeRun
      BY <2>1, <3>1, <3>2, <3>3 DEF StartRun, ResumeRun
    <3>4. CASE SettleLoad
      BY <3>1, <3>4 DEF SettleLoad, TypeOK, ExecRecord
    <3>5. CASE SettleCommit
      BY <3>1, <3>5 DEF SettleCommit, TypeOK, ExecRecord
    <3>6. CASE ResumeLoad
      BY <3>6 DEF ResumeLoad, IdleExec
    <3>7. CASE Crash
      BY <3>7 DEF Crash, IdleExec
    <3>8. CASE UNCHANGED exec
      BY <2>0, <3>8
    <3>10. CASE Paused
      BY <3>1, <3>10 DEF Paused
    <3>9. QED
      BY <2>0, <3>3, <3>4, <3>5, <3>6, <3>7, <3>8, <3>10
      DEF Next, ExecStep, WorkEnds, StopStep, ColdStep, At, BindCancellation, WaitForUser,
          VerifySubject, stopIfCanceled, Succeed, AskUser, WorkFailed, WorkEvent, Reverify,
          StopLoad, StopCommit, StopSignal, StopClose, WithdrawClarification, CompleteClarification,
          NotStop, ForeignAppend, ColdStart, RecheckList, RecheckPlan, RecheckRepair, NotCold, vars
  <2>4. QED BY <2>0, <2>2, <2>3 DEF Streamed
<1>3. QED BY <1>1, <1>2

\* The created Run satisfies Projection.
LEMMA ProjectionInit == Init => Projection
<1> SUFFICES ASSUME Init PROVE Projection OBVIOUS
<1>1. events = <<>> /\ run.status \in {"queued", "running"} /\ run.candidate = FALSE
  BY DEF Init
<1>2. exec.pc = "start" /\ cold.pc = "off"
  BY DEF Init, IdleExec, ColdOff
<1>3. QED
  BY <1>1, <1>2 DEF Projection, ProjectionAligned, ActiveOpen, PlanCurrent, Streamed

\* Every step keeps Projection.
LEMMA ProjectionStep ==
  ASSUME TypeOK, TypeOK', Control, Projection, [Next]_vars
  PROVE  Projection'
<1>1. Quiet \/ Noted \/ Committed \/ Repaired
  BY StreamStep DEF Projection
<1>2. /\ ProjectionAligned' /\ ActiveOpen'
      /\ events # <<>> => events' # <<>>
      /\ UNCHANGED events \/ Len(events') > Len(events)
  BY <1>1, StreamKept DEF Projection
<1>3. PlanCurrent' /\ Streamed'
  BY <1>2, PlanCurrentStep, StreamedStep DEF Projection
<1>4. QED BY <1>2, <1>3 DEF Projection

\* Projection holds in every reachable state.
LEMMA ProjectionInvariant == Spec => [](TypeOK /\ Control /\ Projection)
<1>1. Init => TypeOK /\ Control /\ Projection
  BY TypeInit, ControlInit, ProjectionInit
<1>2. TypeOK /\ Control /\ Projection /\ [Next]_vars => (TypeOK /\ Control /\ Projection)'
  BY TypeStep, ControlStep, ProjectionStep
<1>3. QED BY <1>1, <1>2, PTL DEF Spec

\* Row and stream always agree: the last committed lifecycle event carries the
\* status of the row, across stale commits, crashes and repairs.
THEOREM ProjectionCorrect == Spec => []ProjectionAligned
<1>1. TypeOK /\ Control /\ Projection => ProjectionAligned
  BY DEF Projection
<1>2. QED BY <1>1, ProjectionInvariant, PTL

\* The row, the stream and the owner of a Run agree in every reachable state, for any
\* number of Stops, boots and foreign appends.
THEOREM LifecycleCorrect == Spec => []LifecycleSafe
<1>1. TypeOK /\ ProjectionAligned /\ WorkerOwnsRun /\ SegmentMatchesRunning /\ SettlementNeverLost
        <=> LifecycleSafe
  BY DEF LifecycleSafe
<1>2. QED
  BY <1>1, TypeCorrect, ProjectionCorrect, WorkerOwnsRunCorrect, SegmentCorrect, SettlementCorrect, PTL

\* Facts are append-only, and only a change of status appends a lifecycle event:
\* no stale or duplicate command leaves a trace in the stream.
THEOREM FactsCorrect == Spec => FactsOnlyAppended
<1> DEFINE Appended ==
      /\ Len(events') >= Len(events)
      /\ \A i \in DOMAIN events : events'[i] = events[i]
      /\ run'.status = run.status /\ events # <<>>
           => \A i \in DOMAIN events' \ DOMAIN events : events'[i].type \notin LifecycleType
<1>1. TypeOK /\ Control /\ Projection /\ [Next]_vars => Appended
  <2> SUFFICES ASSUME TypeOK, Control, Projection, [Next]_vars PROVE Appended OBVIOUS
  <2>0. events \in Seq(EventRecord) /\ Len(events) \in Nat /\ DOMAIN events = 1..Len(events)
    BY LenProperties DEF TypeOK
  <2>1. Quiet \/ Noted \/ Committed \/ Repaired
    BY StreamStep DEF Projection
  <2>2. ASSUME NEW e \in EventRecord, events' = Append(events, e),
               e.type \notin LifecycleType \/ run'.status # run.status
        PROVE  Appended
    <3>1. /\ Len(events') = Len(events) + 1 /\ DOMAIN events' = 1..Len(events) + 1
          /\ events'[Len(events) + 1] = e /\ \A i \in 1..Len(events) : events'[i] = events[i]
      BY <2>0, <2>2, LongerStream
    <3>2. \A i \in DOMAIN events' \ DOMAIN events : i = Len(events) + 1
      BY <2>0, <3>1
    <3>3. Len(events') >= Len(events)
      BY <2>0, <3>1
    <3>4. QED BY <2>0, <2>2, <3>1, <3>2, <3>3
  <2>3. CASE Quiet
    BY <2>0, <2>3 DEF Quiet
  <2>4. CASE Noted
    <3>1. PICK type \in {"work", "verification"} : Append1(type)
      BY <2>4 DEF Noted
    <3>2. PICK e \in EventRecord : events' = Append(events, e) /\ e.type = type
      BY <3>1, EventTypes DEF Append1, EventType
    <3>3. e.type \notin LifecycleType
      BY <3>2 DEF LifecycleType
    <3>4. QED BY <2>2, <3>2, <3>3
  <2>5. CASE events = <<>>
    <3>1. Len(events) = 0 /\ DOMAIN events = {}
      BY <2>0, <2>5, EmptySeq
    <3>2. Len(events') \in Nat
      BY TypeStep, LenProperties DEF TypeOK
    <3>3. QED BY <2>5, <3>1, <3>2
  <2>6. CASE Committed /\ events # <<>>
    <3>1. PICK to \in Status, type \in LifecycleType, gate \in BOOLEAN :
            applies(run.status, to, type) /\ TransitionRun(to, type, gate)
      BY <2>6 DEF Committed
    <3>2. run'.status = to /\ run.status # to
      BY <2>6, <3>1, TransitionTypes DEF applies
    <3>3. Event(type, to, gate) \in EventRecord
      BY EventTypes DEF EventType
    <3>4. events' = Append(events, Event(type, to, gate))
      BY <2>6, <3>1 DEF TransitionRun
    <3>5. QED BY <2>2, <3>2, <3>3, <3>4
  <2>7. CASE Repaired /\ events # <<>>
    <3> DEFINE to == repairedStatus(run.status)
               e == Event(EventFor(to), to, FALSE)
    <3>1. run'.status = to /\ to \in {"canceled", "failed_recoverable"} /\ run.status # to
      BY <2>7 DEF Repaired, RepairInterruptedRun, repairedStatus, TypeOK, RunRecord
    <3>2. repairPlan(run.status) = <<e>>
      BY <2>7 DEF Projection, ActiveOpen, Repaired, repairPlan
    <3>3. e \in EventRecord
      <4>1. to \in Status \cup {"none"} /\ EventFor(to) \in EventType
        BY <3>1, EventTypes DEF Status, EventType, LifecycleType
      <4>2. QED BY <4>1, EventTypes
    <3>4. events' = Append(events, e)
      BY <2>0, <2>7, <3>2, <3>3, AppendIsConcat DEF Repaired, RepairInterruptedRun
    <3> HIDE DEF e, to
    <3>5. QED BY <2>2, <3>1, <3>3, <3>4
  <2>8. QED BY <2>1, <2>3, <2>4, <2>5, <2>6, <2>7
<1>2. QED BY <1>1, ProjectionInvariant, PTL DEF Spec, FactsOnlyAppended

----------------------------------------------------------------------------
(* Clarifications.  What a Resume command planned may be stale when it       *)
(* claims; what protects a write is that only an executing Turn writes, and *)
(* none executes between a question and its claim (Questioned).             *)

Receipt ==
  [status : {"pending", "answered", "applied", "withdrawn"}, key : Keys \cup {None}, expired : BOOLEAN,
   stage : Nat, human : BOOLEAN]
Effect == [asked : Nat, status : {"executing", "committed", "reconciling", "settled"}]
StageStatus == {"running", "completed", "failed"}

ClarifyTypes ==
  /\ clars \in Seq(Receipt) /\ effects \in Seq(Effect) /\ stages \in Seq(StageStatus)
  /\ clarifyExec \in {"none", "turn", "after", "human"}
  /\ clarifyRun \in {"running", "canceling", "waiting_for_user", "canceled", "failed", "failed_recoverable", "completed"}
  /\ plan \in [Commands -> {"none", "checkpoint", "finished", "replay"}]

\* An execution belongs to a Run that executes; only a Turn in progress is open.
Executed ==
  /\ clarifyExec # "none" => clarifyRun \in {"running", "canceling"}
  /\ clarifyExec \in {"after", "human"} => turn = "closed"

\* While the latest question is not applied nothing executes, and every write is older.
Questioned ==
  last > 0 /\ latest.status # "applied" =>
    /\ clarifyExec = "none" /\ clarifyRun \in {"waiting_for_user", "canceled"}
    /\ \A e \in 1..Len(effects) : effects[e].asked < last

\* Writes carry the number of questions there were: never more than there are.
Older == \A e \in 1..Len(effects) : effects[e].asked <= last

\* A plan is about a question.
Planned == \A c \in Commands : plan[c] # "none" => last > 0

ClarifyInv == ClarifyTypes /\ Planned /\ Executed /\ Questioned /\ NoOrphanTurn /\ ~redone

\* Replacing an element, if it is there, keeps the type of a sequence.
LEMMA ReplacedTyped ==
  ASSUME NEW S, NEW q \in Seq(S), NEW i, NEW x \in S
  PROVE  [q EXCEPT ![i] = x] \in Seq(S)
<1>1. CASE i \in 1..Len(q)
  BY <1>1, ExceptSeq
<1>2. CASE i \notin 1..Len(q)
  <2>1. [q EXCEPT ![i] = x] = q
    BY <1>2
  <2> QED
    BY <2>1
<1> QED
  BY <1>1, <1>2

\* A new question after which nothing executes.
LEMMA AskKeeps ==
  ASSUME ClarifyInv, Older, NEW q \in Receipt, q.status = "pending", clars' = Append(clars, q),
         clarifyRun' = "waiting_for_user", clarifyExec' = "none", turn' = "closed", stages' \in Seq(StageStatus),
         UNCHANGED <<effects, redone, plan>>
  PROVE  ClarifyInv' /\ Older'
<1>0. clars \in Seq(Receipt) /\ effects \in Seq(Effect) /\ \A e \in 1..Len(effects) : effects[e].asked \in Nat
  <2>1. clars \in Seq(Receipt) /\ effects \in Seq(Effect)
    BY DEF ClarifyInv, ClarifyTypes
  <2>2. \A e \in 1..Len(effects) : effects[e] \in Effect
    BY <2>1
  <2> QED
    BY <2>1, <2>2 DEF Effect
<1>1. clars' \in Seq(Receipt) /\ Len(clars') = Len(clars) + 1 /\ Len(clars) \in Nat
  BY <1>0
<1>2. \A e \in 1..Len(effects') : effects'[e].asked < Len(clars')
  BY <1>0, <1>1 DEF last, Older
<1>3. ClarifyTypes'
  BY <1>1 DEF ClarifyInv, ClarifyTypes
<1> QED
  BY <1>0, <1>1, <1>2, <1>3 DEF ClarifyInv, Planned, Executed, Questioned, NoOrphanTurn, Older, last, latest

\* A receipt changes: its deadline, its answer, its withdrawal.
LEMMA ReceiptKeeps ==
  ASSUME ClarifyInv, Older, NEW i \in 1..last,
         PassDeadline(i) \/ WithdrawOpenClarification(i) \/ \E k \in Keys : AnswerClarification(i, k)
  PROVE  ClarifyInv' /\ Older'
<1>0. clars \in Seq(Receipt) /\ i \in 1..Len(clars) /\ Len(clars) \in Nat
  BY DEF ClarifyInv, ClarifyTypes, last
<1>1. /\ clars[i].status = "pending" /\ UNCHANGED <<stages, effects, clarifyExec, turn, redone, plan>>
      /\ (clarifyRun' = clarifyRun \/ (clarifyRun = "waiting_for_user" /\ clarifyRun' = "canceled"))
  BY DEF PassDeadline, WithdrawOpenClarification, AnswerClarification
<1>2. PICK q \in Receipt : clars' = [clars EXCEPT ![i] = q]
  <2>1. clars[i] \in Receipt
    BY <1>0
  <2>2. CASE PassDeadline(i)
    BY <2>1, <2>2 DEF PassDeadline, Receipt
  <2>3. CASE WithdrawOpenClarification(i)
    BY <2>1, <2>3 DEF WithdrawOpenClarification, Receipt
  <2>4. ASSUME NEW k \in Keys, AnswerClarification(i, k) PROVE \E q \in Receipt : clars' = [clars EXCEPT ![i] = q]
    <3>1. clars' = [clars EXCEPT ![i] = [clars[i] EXCEPT !.status = "answered", !.key = k]]
      BY <1>0, <2>4 DEF AnswerClarification
    <3>2. [clars[i] EXCEPT !.status = "answered", !.key = k] \in Receipt
      BY <2>1 DEF Receipt
    <3> QED
      BY <3>1, <3>2
  <2> QED
    BY <2>2, <2>3, <2>4
<1>3. clars' \in Seq(Receipt) /\ Len(clars') = Len(clars)
      /\ \A j \in 1..Len(clars) : j # i => clars'[j] = clars[j]
  BY <1>0, <1>2
<1>4. ClarifyTypes' /\ Planned' /\ Executed' /\ NoOrphanTurn' /\ ~redone' /\ Older'
  BY <1>1, <1>3 DEF ClarifyInv, ClarifyTypes, Planned, Executed, NoOrphanTurn, Older, last
<1>5. Questioned'
  <2> SUFFICES ASSUME last > 0, clars'[last].status # "applied"
               PROVE  /\ clarifyExec' = "none" /\ clarifyRun' \in {"waiting_for_user", "canceled"}
                      /\ \A e \in 1..Len(effects) : effects[e].asked < last
    BY <1>1, <1>3 DEF Questioned, last, latest
  <2>1. latest.status # "applied"
    BY <1>0, <1>1, <1>3 DEF latest, last
  <2> QED
    BY <1>1, <2>1 DEF ClarifyInv, Questioned
<1> QED
  BY <1>4, <1>5 DEF ClarifyInv

\* The steps that leave the receipts alone and apply or write nothing.
LEMMA RunKeeps ==
  ASSUME ClarifyInv, Older, UNCHANGED <<clars, redone>>, ClarifyTypes', Planned', Executed', NoOrphanTurn',
         \/ UNCHANGED effects
         \/ \E e \in 1..Len(effects) : \E s : effects' = [effects EXCEPT ![e].status = s]
         \/ clarifyExec # "none" /\ \E s : effects' = Append(effects, [asked |-> last, status |-> s]),
         \/ clarifyExec # "none"
         \/ clarifyExec' = "none" /\ (clarifyRun' = clarifyRun \/ clarifyRun \in {"running", "canceling"}
                                      \/ clarifyRun' = "canceled")
  PROVE  ClarifyInv' /\ Older'
<1>0. clars \in Seq(Receipt) /\ effects \in Seq(Effect) /\ effects' \in Seq(Effect) /\ Len(clars) \in Nat
  BY DEF ClarifyInv, ClarifyTypes
<1>1. \A e \in 1..Len(effects') :
        \/ e \in 1..Len(effects) /\ effects'[e].asked = effects[e].asked
        \/ clarifyExec # "none" /\ effects'[e].asked = last
  <2>1. CASE UNCHANGED effects
    BY <2>1
  <2>2. ASSUME NEW e \in 1..Len(effects), NEW s, effects' = [effects EXCEPT ![e].status = s]
        PROVE  \A f \in 1..Len(effects') : f \in 1..Len(effects) /\ effects'[f].asked = effects[f].asked
    <3>1. effects[e] \in Effect /\ Len(effects') = Len(effects)
      BY <1>0, <2>2
    <3>2. \A f \in 1..Len(effects) : effects'[f] = IF f = e THEN [effects[e] EXCEPT !.status = s] ELSE effects[f]
      BY <1>0, <2>2
    <3>3. [effects[e] EXCEPT !.status = s].asked = effects[e].asked
      BY <3>1 DEF Effect
    <3> QED
      BY <3>1, <3>2, <3>3
  <2>3. ASSUME clarifyExec # "none", NEW s, effects' = Append(effects, [asked |-> last, status |-> s])
        PROVE  \A f \in 1..Len(effects') :
                 (f \in 1..Len(effects) /\ effects'[f].asked = effects[f].asked) \/ effects'[f].asked = last
    BY <1>0, <2>3
  <2> QED
    BY <2>1, <2>2, <2>3
<1>2. Older'
  BY <1>0, <1>1 DEF Older, last
<1>3. Questioned'
  <2> SUFFICES ASSUME last > 0, latest.status # "applied"
               PROVE  /\ clarifyExec' = "none" /\ clarifyRun' \in {"waiting_for_user", "canceled"}
                      /\ \A e \in 1..Len(effects') : effects'[e].asked < last
    BY DEF Questioned, last, latest
  <2>1. clarifyExec = "none" /\ clarifyRun \in {"waiting_for_user", "canceled"}
        /\ \A e \in 1..Len(effects) : effects[e].asked < last
    BY DEF ClarifyInv, Questioned
  <2> QED
    BY <1>1, <2>1
<1> QED
  BY <1>2, <1>3 DEF ClarifyInv

\* A claim: whatever was planned, a continuation that executes again finds every write
\* since its question settled.
LEMMA ClaimKeeps ==
  ASSUME ClarifyInv, Older, NEW c \in Commands, ClaimClarification(c)
  PROVE  ClarifyInv' /\ Older'
<1>0. clars \in Seq(Receipt) /\ effects \in Seq(Effect) /\ stages \in Seq(StageStatus) /\ Len(clars) \in Nat
      /\ \A e \in 1..Len(effects) : effects[e] \in Effect
  BY DEF ClarifyInv, ClarifyTypes
<1>1. CASE ~claimable
  <2>1. UNCHANGED <<clars, clarifyRun, stages, clarifyExec, turn, redone, effects>>
    BY <1>1 DEF ClaimClarification
  <2> QED
    <3>1. plan' = [plan EXCEPT ![c] = "none"]
      BY DEF ClaimClarification
    <3>2. ClarifyTypes' /\ Planned'
      BY <2>1, <3>1 DEF ClarifyInv, ClarifyTypes, Planned, last
    <3> QED
      BY <2>1, <3>2 DEF ClarifyInv, Older, Executed, Questioned, NoOrphanTurn, last, latest
<1>2. CASE claimable
  <2> DEFINE again == plan[c] = "checkpoint" /\ ~latest.human
  <2>1. /\ clars' = [clars EXCEPT ![last].status = "applied"] /\ clarifyRun' = "running" /\ UNCHANGED effects
        /\ stages' = IF stageOf(latest) = "failed" THEN [stages EXCEPT ![latest.stage] = "running"] ELSE stages
        /\ clarifyExec' = (IF again THEN "turn" ELSE IF latest.human THEN "human" ELSE "after")
        /\ turn' = IF again THEN "open" ELSE turn
        /\ redone' = (redone \/ (again /\
             \E e \in 1..Len(effects) : effects[e].asked >= last /\ effects[e].status # "settled"))
    BY <1>2 DEF ClaimClarification
  <2>2. last > 0 /\ last = Len(clars)
    BY DEF ClaimClarification, ClarifyInv, Planned, last
  <2>3. clars[last] \in Receipt /\ last \in 1..Len(clars)
    BY <1>0, <2>2
  <2>4. [clars[last] EXCEPT !.status = "applied"] \in Receipt /\ [clars[last] EXCEPT !.status = "applied"].status = "applied"
    BY <2>3 DEF Receipt
  <2>5. clars' \in Seq(Receipt) /\ Len(clars') = Len(clars) /\ clars'[last].status = "applied"
    <3>1. clars' = [clars EXCEPT ![last] = [clars[last] EXCEPT !.status = "applied"]]
      BY <1>0, <2>1, <2>3
    <3> QED
      BY <1>0, <2>2, <2>3, <2>4, <3>1
  <2>6. stages' \in Seq(StageStatus)
    <3>1. CASE stageOf(latest) = "failed"
      <4>1. "running" \in StageStatus
        BY DEF StageStatus
      <4> QED
        BY <1>0, <2>1, <3>1, <4>1, ReplacedTyped
    <3>2. CASE stageOf(latest) # "failed"
      BY <1>0, <2>1, <3>2
    <3> QED
      BY <3>1, <3>2
  <2>7. ~redone'
    <3>1. ASSUME NEW e \in 1..Len(effects), effects[e].asked >= last, effects[e].status # "settled" PROVE FALSE
      <4>1. effects[e].asked \in Nat /\ effects[e].status \in {"executing", "committed", "reconciling"}
        BY <1>0, <3>1 DEF Effect
      <4>2. CASE latest.status = "answered" /\ clarifyRun = "waiting_for_user"
        BY <1>0, <2>2, <3>1, <4>1, <4>2 DEF ClarifyInv, Questioned
      <4>3. CASE ~uncertain /\ ~newerWrite
        BY <3>1, <4>1, <4>3 DEF uncertain, newerWrite
      <4> QED
        BY <1>2, <4>2, <4>3 DEF claimable
    <3> QED
      BY <2>1, <3>1 DEF ClarifyInv
  <2>8. turn = "closed"
    BY <1>2 DEF claimable, ClarifyInv, NoOrphanTurn
  <2>9. plan' \in [Commands -> {"none", "checkpoint", "finished", "replay"}]
    BY DEF ClaimClarification, ClarifyInv, ClarifyTypes
  <2>10. ClarifyTypes'
    BY <1>0, <2>1, <2>5, <2>6, <2>9 DEF ClarifyTypes
  <2>11. Executed' /\ NoOrphanTurn' /\ Planned' /\ Questioned' /\ Older'
    BY <2>1, <2>2, <2>5, <2>8 DEF Executed, NoOrphanTurn, Planned, Questioned, Older, last, latest
  <2> QED
    BY <2>7, <2>10, <2>11 DEF ClarifyInv
<1> QED
  BY <1>1, <1>2

\* Stage statuses keep their type.
LEMMA StagesTyped ==
  ASSUME stages \in Seq(StageStatus), NEW s \in StageStatus
  PROVE  /\ inLastStage(s) \in Seq(StageStatus) /\ setLast(s) \in Seq(StageStatus)
         /\ Append(stages, s) \in Seq(StageStatus) /\ Len(stages) \in Nat
<1>1. Len(stages) \in Nat /\ Append(stages, s) \in Seq(StageStatus)
  OBVIOUS
<1>2. setLast(s) \in Seq(StageStatus)
  <2>1. [stages EXCEPT ![Len(stages)] = s] \in Seq(StageStatus)
    BY ReplacedTyped
  <2> QED
    BY <2>1 DEF setLast
<1> QED
  BY <1>1, <1>2 DEF inLastStage

LEMMA ClarifyInductive == ClarifyInv /\ Older /\ [ClarifyNext]_clarifyVars => ClarifyInv' /\ Older'
<1> SUFFICES ASSUME ClarifyInv, Older, [ClarifyNext]_clarifyVars PROVE ClarifyInv' /\ Older'
  OBVIOUS
<1>0. clars \in Seq(Receipt) /\ effects \in Seq(Effect) /\ stages \in Seq(StageStatus)
      /\ \A e \in 1..Len(effects) : effects[e] \in Effect
      /\ plan \in [Commands -> {"none", "checkpoint", "finished", "replay"}]
  BY DEF ClarifyInv, ClarifyTypes
<1>a. \A s \in StageStatus : inLastStage(s) \in Seq(StageStatus) /\ setLast(s) \in Seq(StageStatus)
        /\ Append(stages, s) \in Seq(StageStatus) /\ Len(stages) \in Nat
  BY <1>0, StagesTyped
<1>b. StageStatus = {"running", "completed", "failed"} /\ Len(stages) \in Nat /\ Len(stages) + 1 \in Nat
  BY <1>0 DEF StageStatus
<1>1. CASE SuspendClarification
  <2>1. newClarification(FALSE) \in Receipt /\ newClarification(FALSE).status = "pending"
    BY <1>b DEF newClarification, Receipt
  <2>2. CASE clarifyRun = "running" /\ clars' = Append(clars, newClarification(FALSE))
             /\ clarifyRun' = "waiting_for_user" /\ turn' = closesTurn
    BY <1>0, <1>1, <2>1, <2>2, AskKeeps DEF SuspendClarification, closesTurn
  <2>3. CASE clarifyRun = "canceling" /\ clarifyRun' = "canceled" /\ turn' = "closed" /\ UNCHANGED clars
    <3>1. ClarifyTypes' /\ Planned' /\ Executed' /\ NoOrphanTurn'
      BY <1>0, <1>1, <1>a, <1>b, <2>3
         DEF SuspendClarification, ClarifyInv, ClarifyTypes, Planned, Executed, NoOrphanTurn, last
    <3> QED
      BY <1>1, <2>3, <3>1, RunKeeps DEF SuspendClarification
  <2> QED
    BY <1>1, <2>2, <2>3 DEF SuspendClarification
<1>2. CASE suspendHumanInputClarification
  <2>1. turn = "closed"
    BY <1>2 DEF suspendHumanInputClarification, ClarifyInv, Executed
  <2>2. [newClarification(TRUE) EXCEPT !.stage = Len(stages) + 1] \in Receipt
        /\ [newClarification(TRUE) EXCEPT !.stage = Len(stages) + 1].status = "pending"
    BY <1>b DEF newClarification, Receipt
  <2> QED
    BY <1>2, <1>a, <1>b, <2>1, <2>2, AskKeeps DEF suspendHumanInputClarification
<1>3. ASSUME NEW i \in 1..last,
             PassDeadline(i) \/ WithdrawOpenClarification(i) \/ \E k \in Keys : AnswerClarification(i, k)
      PROVE  ClarifyInv' /\ Older'
  BY <1>3, ReceiptKeeps
<1>4. ASSUME NEW c \in Commands, ClaimClarification(c) PROVE ClarifyInv' /\ Older'
  BY <1>4, ClaimKeeps
<1>5. ASSUME NEW c \in Commands, prepareClarificationResume(c) PROVE ClarifyInv' /\ Older'
  <2>1. UNCHANGED <<mode, clarifyRun, turn, stages, clars, effects, clarifyExec, resumedBy, redone>> /\ last > 0
    BY <1>5 DEF prepareClarificationResume
  <2>2. plan' \in [Commands -> {"none", "checkpoint", "finished", "replay"}]
    <3>1. decideClarificationResume(c) \in {"none", "checkpoint", "finished", "replay"}
      BY DEF decideClarificationResume
    <3>2. PICK d \in {"none", "checkpoint", "finished", "replay"} : plan' = [plan EXCEPT ![c] = d]
      BY <1>5, <3>1 DEF prepareClarificationResume
    <3>3. plan \in [Commands -> {"none", "checkpoint", "finished", "replay"}]
      BY DEF ClarifyInv, ClarifyTypes
    <3> QED
      BY <3>2, <3>3
  <2> QED
    BY <2>1, <2>2 DEF ClarifyInv, Older, ClarifyTypes, Planned, Executed, Questioned, NoOrphanTurn, last, latest
<1> USE <1>0 DEF ClarifyInv, Planned, Executed, NoOrphanTurn, last
<1>6. CASE closeCanceled \/ CancelRun
  <2>1. ClarifyTypes'
    BY <1>6, <1>a, <1>b DEF closeCanceled, CancelRun, ClarifyTypes
  <2>2. Planned' /\ Executed' /\ NoOrphanTurn' /\ UNCHANGED <<clars, redone, effects>>
        /\ (clarifyExec # "none" \/ (clarifyExec' = "none" /\ (clarifyRun' = clarifyRun \/ clarifyRun' = "canceled")))
    BY <1>6 DEF closeCanceled, CancelRun
  <2> QED
    BY <2>1, <2>2, RunKeeps
<1>7. CASE resumeClarificationHumanInput \/ CompleteTurn \/ Finish \/ failResumedClarification
  <2>1. ClarifyTypes'
    <3>1. CASE resumeClarificationHumanInput
      <4>1. stages' \in Seq(StageStatus)
        BY <3>1, <1>b, ReplacedTyped DEF resumeClarificationHumanInput
      <4> QED
        BY <3>1, <4>1 DEF resumeClarificationHumanInput, ClarifyTypes
    <3>2. CASE CompleteTurn
      BY <3>2, <1>a, <1>b DEF CompleteTurn, ClarifyTypes
    <3>3. CASE Finish
      BY <3>3, <1>a, <1>b DEF Finish, ClarifyTypes
    <3>4. CASE failResumedClarification
      BY <3>4, <1>a, <1>b DEF failResumedClarification, ClarifyTypes
    <3> QED
      BY <1>7, <3>1, <3>2, <3>3, <3>4
  <2>2. clarifyExec # "none" /\ UNCHANGED <<clars, redone, effects, plan>>
    BY <1>7 DEF resumeClarificationHumanInput, CompleteTurn, Finish, failResumedClarification
  <2>3. Executed' /\ NoOrphanTurn'
    BY <1>7 DEF resumeClarificationHumanInput, CompleteTurn, Finish, failResumedClarification
  <2> QED
    BY <2>1, <2>2, <2>3, RunKeeps
<1>8. CASE BeginWrite
  <2>1. [asked |-> last, status |-> "executing"] \in Effect
    BY DEF Effect
  <2>2. ClarifyTypes' /\ Planned' /\ Executed' /\ NoOrphanTurn'
    BY <1>8, <2>1 DEF BeginWrite, ClarifyTypes
  <2> QED
    BY <1>8, <2>2, RunKeeps DEF BeginWrite
<1>9. CASE ClarifyCrash \/ Repair
  <2>1. ClarifyTypes'
    BY <1>9, <1>a, <1>b DEF ClarifyCrash, Repair, ClarifyTypes
  <2>2. Planned' /\ Executed' /\ NoOrphanTurn' /\ UNCHANGED <<clars, redone, effects>>
        /\ clarifyExec' = "none" /\ (clarifyRun' = clarifyRun \/ clarifyRun \in {"running", "canceling"})
    BY <1>9 DEF ClarifyCrash, Repair, clarifyStale
  <2> QED
    BY <2>1, <2>2, RunKeeps
<1>10. ASSUME NEW e \in 1..Len(effects), CommitWrite(e) \/ BeginUndo(e) \/ Reconcile(e) PROVE ClarifyInv' /\ Older'
  <2>1. PICK s \in {"committed", "reconciling", "settled"} : effects' = [effects EXCEPT ![e].status = s]
    BY <1>10 DEF CommitWrite, BeginUndo, Reconcile
  <2>2. UNCHANGED <<mode, clarifyRun, turn, stages, clars, clarifyExec, resumedBy, writer, plan, redone>>
    BY <1>10 DEF CommitWrite, BeginUndo, Reconcile
  <2>3. effects' \in Seq(Effect)
    <3>1. [effects[e] EXCEPT !.status = s] \in Effect
      BY DEF Effect
    <3>2. effects' = [effects EXCEPT ![e] = [effects[e] EXCEPT !.status = s]]
      BY <2>1
    <3> QED
      BY <3>1, <3>2
  <2>4. ClarifyTypes' /\ Planned' /\ Executed' /\ NoOrphanTurn'
    BY <2>2, <2>3 DEF ClarifyTypes
  <2> QED
    BY <2>1, <2>2, <2>4, RunKeeps
<1>11. CASE UNCHANGED clarifyVars
  BY <1>11 DEF clarifyVars, ClarifyTypes, Questioned, Older, latest
<1> QED
  BY <1>1, <1>2, <1>3, <1>4, <1>5, <1>6, <1>7, <1>8, <1>9, <1>10, <1>11 DEF ClarifyNext

\* Question, answer, claim and resume survive Stops, restarts and a second client, with
\* any number of questions, writes and Resume commands: no Turn stays open on a Run that
\* does not execute, a saved answer can be claimed, and no continuation runs again over a
\* write since its question (SuspendClarification, AnswerClarification, ClaimClarification).
THEOREM ClarificationCorrect == ClarifySpec => []ClarificationSafe
<1>1. ClarifyInit => ClarifyInv /\ Older
  <2> SUFFICES ASSUME ClarifyInit PROVE ClarifyInv /\ Older
    OBVIOUS
  <2>1. stages \in Seq(StageStatus)
    <3>1. <<>> \in Seq(StageStatus) /\ <<"running">> \in Seq(StageStatus)
      BY DEF StageStatus
    <3> QED
      BY <3>1 DEF ClarifyInit
  <2>2. clars = <<>> /\ effects = <<>> /\ clars \in Seq(Receipt) /\ effects \in Seq(Effect) /\ Len(clars) = 0
    BY DEF ClarifyInit
  <2>3. ClarifyTypes
    BY <2>1, <2>2 DEF ClarifyInit, ClarifyTypes
  <2> QED
    BY <2>2, <2>3 DEF ClarifyInit, ClarifyInv, Planned, Executed, Questioned, NoOrphanTurn, Older, last
<1>2. ClarifyInv => ClarificationSafe
  BY DEF ClarifyInv, ClarificationSafe, Questioned, AnswerIsClaimable, NoWriteRedone
<1> QED
  BY <1>1, <1>2, ClarifyInductive, PTL DEF ClarifySpec

----------------------------------------------------------------------------
(* The inbox.  A receipt leaves queued-and-fresh for good, so the oldest     *)
(* one is newer than every follow-up that was started (Started), and what   *)
(* was sent as a message was not queued (Sent).  One job holds the writer   *)
(* (Holders), so nothing is applied to a Run between its last request and   *)
(* its end (Shown).                                                         *)

InboxInput ==
  [kind : {"steer", "follow_up"}, run : Nat, key : InputKeys, status : {"queued", "applied", "withdrawn", "purged"},
   age : {"fresh", "expired", "week"}, appliedTo : Nat]
RunStatuses == {"running", "waiting_for_user", "recoverable", "completed", "failed", "canceled"}
InboxRun == [status : RunStatuses, input : Nat, automatic : BOOLEAN, after : RunStatuses \cup {"none"}]
InboxJob == [at : {"idle", "list", "wait"} \cup Holding, input : Nat, allow : BOOLEAN, run : Nat]

InboxTypes ==
  /\ inputs \in Seq(InboxInput) /\ runs \in Seq(InboxRun) /\ Len(runs) > 0
  /\ messages \in Seq(Nat) /\ jobs \in [Jobs -> InboxJob] /\ seen \subseteq exposed
  /\ \A i \in 1..Len(inputs) : inputs[i].run \in 1..Len(runs) /\ inputs[i].appliedTo \in 0..Len(runs)

Holders ==
  /\ \A j, k \in Jobs : jobs[j].at \in Holding /\ jobs[k].at \in Holding => j = k
  /\ \A j \in Jobs : jobs[j].at \in Holding \ {"create"} => jobs[j].run \in 1..Len(runs)
  /\ \A j \in Jobs : jobs[j].run \in 0..Len(runs)

consumedOrPurged(i) == i \in 1..Len(inputs) /\ inputs[i].status \in {"applied", "purged"}

Started ==
  \A a \in 1..Len(runs) : runs[a].input # 0 =>
    /\ consumedOrPurged(runs[a].input)
    /\ \A i \in 1..Len(inputs) : i < runs[a].input => ~(inputs[i].kind = "follow_up" /\ queuedFresh(i))
    /\ \A b \in 1..Len(runs) : a < b /\ runs[b].input # 0 => runs[a].input < runs[b].input

Sent ==
  /\ \A a \in 1..Len(messages) : consumedOrPurged(messages[a])
  /\ \A a, b \in 1..Len(messages) : messages[a] = messages[b] => a = b

Shown == \A j \in Jobs : jobs[j].at \in {"model", "settle"} => appliedSteers(jobs[j].run) \subseteq exposed

InboxInv ==
  /\ InboxTypes /\ Holders /\ Started /\ Sent /\ Shown
  /\ NoTaskAfterAStop /\ AppliedSteerIsExposed /\ RecoveryEvidenceKept

lessThan == {ss \in Nat \X Nat : ss[1] < ss[2]}

\* The numbers are well ordered.
LEMMA Smallest ==
  ASSUME NEW S \in SUBSET Nat, S # {}
  PROVE  \E i \in S : \A k \in S : i <= k
<1>1. IsWellFoundedOn(lessThan, Nat)
  BY NatLessThanWellFounded DEF OpToRel, lessThan
<1>2. PICK x \in S : \A y \in S : ~(<<y, x>> \in lessThan)
  BY <1>1, WFMin
<1>3. \A y \in S : y < x => <<y, x>> \in lessThan
  BY DEF lessThan
<1>4. \A y \in S : ~(y < x)
  BY <1>2, <1>3
<1> QED
  BY <1>4

\* The oldest of the queued follow-ups is one of them.
LEMMA Oldest ==
  ASSUME inputs \in Seq(InboxInput), queuedFollowups # {}
  PROVE  /\ oldest \in 1..Len(inputs) /\ oldest \in Nat /\ queuedFresh(oldest) /\ inputs[oldest].kind = "follow_up"
         /\ \A i \in 1..Len(inputs) : i < oldest => ~(inputs[i].kind = "follow_up" /\ queuedFresh(i))
<1>1. queuedFollowups \in SUBSET Nat /\ Len(inputs) \in Nat
  BY DEF queuedFollowups
<1>2. oldest \in queuedFollowups /\ \A k \in queuedFollowups : oldest <= k
  <2>1. \E i \in queuedFollowups : \A k \in queuedFollowups : i <= k
    BY <1>1, Smallest
  <2> QED
    BY <2>1 DEF oldest
<1> QED
  BY <1>1, <1>2 DEF queuedFollowups

\* What a table without applications does to the receipts.
aged(i) ==
  /\ inputs'[i].kind = inputs[i].kind /\ inputs'[i].run = inputs[i].run /\ inputs'[i].appliedTo = inputs[i].appliedTo
  /\ queuedFresh(i)' => queuedFresh(i)
  /\ \/ inputs'[i].status = inputs[i].status
     \/ inputs'[i].status = "purged" /\ ~retained(i)
     \/ inputs[i].status = "queued" /\ inputs'[i].status = "withdrawn"

InputsAge ==
  /\ inputs' \in Seq(InboxInput) /\ Len(inputs') >= Len(inputs)
  /\ \A i \in 1..Len(inputs) : aged(i)
  /\ \A i \in 1..Len(inputs') : i > Len(inputs) =>
       inputs'[i].status = "queued" /\ inputs'[i].appliedTo = 0 /\ inputs'[i].run \in 1..Len(runs)

LEMMA AgeKeeps ==
  ASSUME InboxInv, InputsAge, UNCHANGED <<runs, messages, seen, exposed>>, jobs' \in [Jobs -> InboxJob], Holders',
         \A j \in Jobs : jobs'[j].at \in {"model", "settle"} => jobs[j].at \in {"model", "settle"} /\ jobs'[j].run = jobs[j].run
  PROVE  InboxInv'
<1>0. /\ inputs \in Seq(InboxInput) /\ runs \in Seq(InboxRun) /\ Len(inputs) \in Nat /\ Len(inputs') \in Nat /\ Len(runs) \in Nat
      /\ 1..Len(inputs) \subseteq 1..Len(inputs') /\ \A i \in 1..Len(inputs) : aged(i)
      /\ \A i \in 1..Len(inputs') : i \in 1..Len(inputs) \/ i > Len(inputs)
  <2>1. inputs \in Seq(InboxInput) /\ runs \in Seq(InboxRun)
    BY DEF InboxInv, InboxTypes
  <2>2. inputs' \in Seq(InboxInput) /\ Len(inputs') >= Len(inputs) /\ \A i \in 1..Len(inputs) : aged(i)
    BY DEF InputsAge
  <2>3. Len(inputs) \in Nat /\ Len(inputs') \in Nat /\ Len(runs) \in Nat
    BY <2>1, <2>2
  <2> QED
    BY <2>1, <2>2, <2>3
<1>1. InboxTypes'
  <2>1. ASSUME NEW i \in 1..Len(inputs') PROVE inputs'[i].run \in 1..Len(runs) /\ inputs'[i].appliedTo \in 0..Len(runs)
    <3>1. CASE i \in 1..Len(inputs)
      <4>1. aged(i)
        BY <1>0, <3>1
      <4>2. inputs'[i].run = inputs[i].run /\ inputs'[i].appliedTo = inputs[i].appliedTo
        BY <4>1 DEF aged
      <4>3. inputs[i].run \in 1..Len(runs) /\ inputs[i].appliedTo \in 0..Len(runs)
        BY <3>1 DEF InboxInv, InboxTypes
      <4> QED
        BY <4>2, <4>3
    <3>2. CASE i > Len(inputs)
      <4>1. inputs'[i].appliedTo = 0 /\ inputs'[i].run \in 1..Len(runs)
        BY <3>2 DEF InputsAge
      <4> QED
        BY <1>0, <4>1
    <3> QED
      BY <1>0, <3>1, <3>2
  <2> QED
    BY <2>1 DEF InboxInv, InboxTypes, InputsAge
<1>2. \A i : consumedOrPurged(i) => consumedOrPurged(i)'
  BY <1>0 DEF consumedOrPurged, aged
<1>3. \A i \in 1..Len(inputs') : inputs'[i].status \in {"applied", "purged"} => i \in 1..Len(inputs)
  BY <1>0 DEF InputsAge
<1>4. Started'
  <2> SUFFICES ASSUME NEW a \in 1..Len(runs), runs[a].input # 0
               PROVE  /\ consumedOrPurged(runs[a].input)'
                      /\ \A i \in 1..Len(inputs') : i < runs[a].input => ~(inputs'[i].kind = "follow_up" /\ queuedFresh(i)')
                      /\ \A b \in 1..Len(runs) : a < b /\ runs[b].input # 0 => runs[a].input < runs[b].input
    BY DEF Started, queuedFresh
  <2>1. consumedOrPurged(runs[a].input) /\ runs[a].input \in 1..Len(inputs)
    BY DEF InboxInv, Started, consumedOrPurged
  <2>2. \A i \in 1..Len(inputs') : i < runs[a].input => i \in 1..Len(inputs)
    BY <1>0, <2>1
  <2> QED
    BY <1>0, <1>2, <2>1, <2>2 DEF InboxInv, Started, aged
<1>5. Sent'
  BY <1>2 DEF InboxInv, Sent
<1>6. \A r \in Nat : appliedSteers(r)' \subseteq appliedSteers(r)
  BY <1>0, <1>3 DEF appliedSteers, steersFor, aged
<1>7. Shown'
  BY <1>6 DEF InboxInv, InboxTypes, InboxJob, Shown
<1>8. AppliedSteerIsExposed'
  BY <1>6 DEF InboxInv, AppliedSteerIsExposed
<1>9. NoTaskAfterAStop'
  BY DEF InboxInv, NoTaskAfterAStop
<1>10. RecoveryEvidenceKept'
  <2> SUFFICES ASSUME NEW r \in 1..Len(runs), runs[r].status \notin terminal, NEW i \in 1..Len(inputs'), inputs'[i].appliedTo = r
               PROVE  inputs'[i].status = "applied"
    BY DEF RecoveryEvidenceKept
  <2>1. i \in 1..Len(inputs)
    BY <1>0 DEF InputsAge
  <2>2. inputs[i].appliedTo = r /\ inputs[i].status = "applied" /\ retained(i)
    BY <1>0, <2>1 DEF aged, InboxInv, RecoveryEvidenceKept, retained
  <2> QED
    BY <1>0, <2>1, <2>2 DEF aged
<1> QED
  BY <1>1, <1>4, <1>5, <1>7, <1>8, <1>9, <1>10 DEF InboxInv

LEMMA PurgeAges ==
  ASSUME InboxTypes
  PROVE  /\ purge \in Seq(InboxInput) /\ Len(purge) = Len(inputs)
         /\ \A i \in 1..Len(inputs) :
              /\ purge[i].kind = inputs[i].kind /\ purge[i].run = inputs[i].run /\ purge[i].appliedTo = inputs[i].appliedTo
              /\ purge[i].age = inputs[i].age
              /\ purge[i].status = inputs[i].status \/ (purge[i].status = "purged" /\ ~retained(i))
<1>1. \A i \in 1..Len(inputs) : inputs[i] \in InboxInput
  BY DEF InboxTypes
<1>2. ASSUME NEW i \in 1..Len(inputs)
      PROVE  /\ purge[i] \in InboxInput
             /\ purge[i].kind = inputs[i].kind /\ purge[i].run = inputs[i].run /\ purge[i].appliedTo = inputs[i].appliedTo
             /\ purge[i].age = inputs[i].age
             /\ purge[i].status = inputs[i].status \/ (purge[i].status = "purged" /\ ~retained(i))
  BY <1>1, <1>2 DEF purge, InboxInput
<1>3. purge \in [1..Len(inputs) -> InboxInput] /\ Len(inputs) \in Nat
  BY <1>2 DEF purge, InboxTypes
<1>4. purge \in Seq(InboxInput)
  BY <1>3, SeqDef
<1>5. Len(purge) = Len(inputs)
  BY <1>3, <1>4, LenProperties
<1> QED
  BY <1>2, <1>4, <1>5

LEMMA EnqueueKeeps ==
  ASSUME InboxInv, NEW j \in Jobs, NEW kind \in {"steer", "follow_up"}, NEW r \in 1..Len(runs), NEW key \in InputKeys,
         EnqueueRunInput(j, kind, r, key)
  PROVE  InboxInv'
<1> DEFINE new == [kind |-> kind, run |-> r, key |-> key, status |-> "queued", age |-> "fresh", appliedTo |-> 0]
<1>1. /\ purge \in Seq(InboxInput) /\ Len(purge) = Len(inputs) /\ Len(inputs) \in Nat
      /\ \A i \in 1..Len(inputs) :
           /\ purge[i].kind = inputs[i].kind /\ purge[i].run = inputs[i].run /\ purge[i].appliedTo = inputs[i].appliedTo
           /\ purge[i].age = inputs[i].age
           /\ purge[i].status = inputs[i].status \/ (purge[i].status = "purged" /\ ~retained(i))
  <2>1. InboxTypes
    BY DEF InboxInv
  <2>2. Len(inputs) \in Nat
    BY <2>1 DEF InboxTypes
  <2> QED
    BY <2>1, <2>2, PurgeAges
<1>2. /\ inputs' = purge \/ inputs' = Append(purge, new)
      /\ jobs[j].at = "idle" /\ (jobs' = jobs \/ jobs' = [jobs EXCEPT ![j] = Job("list", 0, FALSE, 0)])
      /\ UNCHANGED <<runs, messages, seen, exposed>>
  BY DEF EnqueueRunInput
<1>3. new \in InboxInput /\ new.status = "queued" /\ new.appliedTo = 0 /\ new.run = r
  BY DEF InboxInput, InboxInv, InboxTypes
<1> HIDE DEF new
<1>4. InputsAge
  <2>1. \A i \in 1..Len(inputs) : inputs'[i] = purge[i]
    BY <1>1, <1>2, <1>3
  <2>2. \A i \in 1..Len(inputs) : aged(i)
    BY <1>1, <2>1 DEF aged, queuedFresh
  <2>3. inputs' \in Seq(InboxInput) /\ Len(inputs') >= Len(inputs)
        /\ \A i \in 1..Len(inputs') : i > Len(inputs) => inputs'[i] = new
    BY <1>1, <1>2, <1>3
  <2> QED
    BY <1>3, <2>2, <2>3 DEF InputsAge
<1>5. Job("list", 0, FALSE, 0) \in InboxJob /\ Job("list", 0, FALSE, 0).at = "list" /\ Job("list", 0, FALSE, 0).run = 0
  BY DEF Job, InboxJob
<1>6. jobs \in [Jobs -> InboxJob]
  BY DEF InboxInv, InboxTypes
<1>7. /\ jobs' \in [Jobs -> InboxJob] /\ \A k \in Jobs : jobs'[k] = jobs[k] \/ (jobs'[k].at = "list" /\ jobs'[k].run = 0)
  BY <1>2, <1>5, <1>6
<1>8. Holders'
  <2>1. Len(runs) \in Nat
    BY DEF InboxInv, InboxTypes
  <2> QED
    BY <1>2, <1>7, <2>1 DEF InboxInv, Holders, Holding
<1> QED
  <2>1. \A k \in Jobs : jobs'[k].at \in {"model", "settle"} => jobs'[k] = jobs[k]
    BY <1>7
  <2> QED
    BY <1>2, <1>4, <1>7, <1>8, <2>1, AgeKeeps

\* A receipt is withdrawn or gets older.
LEMMA WithdrawalKeeps ==
  ASSUME InboxInv, NEW i \in 1..Len(inputs), WithdrawRunInput(i) \/ Age(i)
  PROVE  InboxInv'
<1>1. /\ inputs \in Seq(InboxInput) /\ Len(inputs) \in Nat /\ jobs \in [Jobs -> InboxJob]
      /\ UNCHANGED <<runs, messages, jobs, seen, exposed>>
  BY DEF InboxInv, InboxTypes, WithdrawRunInput, Age
<1>2. \/ queuedFresh(i) /\ inputs' = [inputs EXCEPT ![i].status = "withdrawn"]
      \/ \E age \in {"expired", "week"} : inputs' = [inputs EXCEPT ![i].age = age]
  BY DEF WithdrawRunInput, Age, withdrawable
<1>3. PICK new \in InboxInput :
        /\ inputs' = [inputs EXCEPT ![i] = new]
        /\ new.kind = inputs[i].kind /\ new.run = inputs[i].run /\ new.appliedTo = inputs[i].appliedTo
        /\ ~(new.status = "queued" /\ new.age = "fresh")
        /\ new.status = inputs[i].status \/ (inputs[i].status = "queued" /\ new.status = "withdrawn")
  <2>1. inputs[i] \in InboxInput
    BY <1>1
  <2>2. CASE queuedFresh(i) /\ inputs' = [inputs EXCEPT ![i].status = "withdrawn"]
    <3>1. inputs' = [inputs EXCEPT ![i] = [inputs[i] EXCEPT !.status = "withdrawn"]]
      BY <2>2
    <3> QED
      BY <2>1, <2>2, <3>1 DEF InboxInput, queuedFresh
  <2>3. ASSUME NEW age \in {"expired", "week"}, inputs' = [inputs EXCEPT ![i].age = age]
        PROVE  \E n \in InboxInput :
                 /\ inputs' = [inputs EXCEPT ![i] = n]
                 /\ n.kind = inputs[i].kind /\ n.run = inputs[i].run /\ n.appliedTo = inputs[i].appliedTo
                 /\ ~(n.status = "queued" /\ n.age = "fresh") /\ n.status = inputs[i].status
    <3> DEFINE n == [inputs[i] EXCEPT !.age = age]
    <3>1. inputs' = [inputs EXCEPT ![i] = n]
      BY <2>3
    <3>2. n \in InboxInput /\ n.kind = inputs[i].kind /\ n.run = inputs[i].run /\ n.appliedTo = inputs[i].appliedTo
          /\ n.age # "fresh" /\ n.status = inputs[i].status
      BY <2>1, <2>3 DEF InboxInput
    <3> HIDE DEF n
    <3> QED
      BY <3>1, <3>2
  <2> QED
    BY <1>2, <2>2, <2>3
<1>4. InputsAge
  <2>1. inputs' \in Seq(InboxInput) /\ Len(inputs') = Len(inputs)
        /\ \A k \in 1..Len(inputs) : inputs'[k] = IF k = i THEN new ELSE inputs[k]
    BY <1>1, <1>3
  <2>2. \A k \in 1..Len(inputs) : aged(k)
    BY <1>3, <2>1 DEF aged, queuedFresh
  <2> QED
    BY <1>1, <2>1, <2>2 DEF InputsAge
<1>5. Holders'
  BY <1>1 DEF InboxInv, Holders
<1> QED
  BY <1>1, <1>4, <1>5, AgeKeeps

\* One Run changes its status.
LEMMA StatusUpdate ==
  ASSUME runs \in Seq(InboxRun), NEW q \in 1..Len(runs), NEW s \in RunStatuses, runs' = [runs EXCEPT ![q].status = s]
  PROVE  /\ runs' \in Seq(InboxRun) /\ Len(runs') = Len(runs)
         /\ \A r \in 1..Len(runs) :
              /\ runs'[r].input = runs[r].input /\ runs'[r].automatic = runs[r].automatic /\ runs'[r].after = runs[r].after
              /\ runs'[r].status = IF r = q THEN s ELSE runs[r].status
<1>1. runs[q] \in InboxRun
  OBVIOUS
<1> DEFINE n == [runs[q] EXCEPT !.status = s]
<1>2. runs' = [runs EXCEPT ![q] = n]
  OBVIOUS
<1>3. n \in InboxRun /\ n.input = runs[q].input /\ n.automatic = runs[q].automatic /\ n.after = runs[q].after /\ n.status = s
  BY <1>1 DEF InboxRun
<1> HIDE DEF n
<1> QED
  BY <1>2, <1>3

\* Runs end, pause, resume or begin; no receipt moves.
LEMMA RunsKeep ==
  ASSUME InboxInv, UNCHANGED <<inputs, messages, exposed>>, seen' \subseteq exposed,
         jobs' \in [Jobs -> InboxJob], Holders', Shown',
         runs' \in Seq(InboxRun), Len(runs') >= Len(runs),
         \A r \in 1..Len(runs) :
           /\ runs'[r].input = runs[r].input /\ runs'[r].automatic = runs[r].automatic /\ runs'[r].after = runs[r].after
           /\ runs[r].status \in terminal => runs'[r].status \in terminal
           /\ runs'[r].status = "completed" => runs[r].status = "completed" \/ appliedSteers(r) \subseteq exposed,
         \A r \in 1..Len(runs') : r > Len(runs) => runs'[r].input = 0 /\ runs'[r].status = "running"
  PROVE  InboxInv'
<1>0. /\ Len(runs) \in Nat /\ Len(runs') \in Nat /\ 1..Len(runs) \subseteq 1..Len(runs')
      /\ \A r \in 1..Len(runs') : r \in 1..Len(runs) \/ (r > Len(runs) /\ r \notin 1..Len(runs))
  BY DEF InboxInv, InboxTypes
<1>1. InboxTypes'
  <2>1. \A i \in 1..Len(inputs) : inputs[i].run \in 1..Len(runs') /\ inputs[i].appliedTo \in 0..Len(runs')
    BY <1>0 DEF InboxInv, InboxTypes
  <2>2. Len(runs') > 0 /\ seen' \subseteq exposed'
    BY <1>0 DEF InboxInv, InboxTypes
  <2> QED
    BY <2>1, <2>2 DEF InboxInv, InboxTypes
<1>2. Started'
  <2>1. \A a \in 1..Len(runs') : runs'[a].input # 0 => a \in 1..Len(runs) /\ runs'[a].input = runs[a].input
    BY <1>0
  <2>2. \A i : consumedOrPurged(i)' = consumedOrPurged(i) /\ queuedFresh(i)' = queuedFresh(i)
    BY DEF consumedOrPurged, queuedFresh
  <2> QED
    BY <2>1, <2>2 DEF InboxInv, Started
<1>3. Sent'
  BY DEF InboxInv, Sent, consumedOrPurged
<1>4. NoTaskAfterAStop'
  BY <1>0 DEF InboxInv, NoTaskAfterAStop
<1>5. AppliedSteerIsExposed'
  BY <1>0 DEF InboxInv, AppliedSteerIsExposed, appliedSteers, steersFor
<1>6. RecoveryEvidenceKept'
  <2> SUFFICES ASSUME NEW r \in 1..Len(runs'), runs'[r].status \notin terminal, NEW i \in 1..Len(inputs), inputs[i].appliedTo = r
               PROVE  inputs[i].status = "applied"
    BY DEF RecoveryEvidenceKept
  <2>1. r \in 0..Len(runs) /\ r # 0
    BY <1>0 DEF InboxInv, InboxTypes
  <2>2. r \in 1..Len(runs) /\ runs[r].status \notin terminal
    BY <1>0, <2>1
  <2> QED
    BY <2>2 DEF InboxInv, RecoveryEvidenceKept
<1> QED
  BY <1>1, <1>2, <1>3, <1>4, <1>5, <1>6 DEF InboxInv

\* The steps of the jobs alone.
LEMMA JobsKeep ==
  ASSUME InboxInv, UNCHANGED <<rows, exposed>>, seen' \subseteq exposed, jobs' \in [Jobs -> InboxJob], Holders', Shown'
  PROVE  InboxInv'
<1>1. UNCHANGED <<inputs, runs, messages>> /\ Len(runs) \in Nat /\ runs \in Seq(InboxRun)
  BY DEF rows, InboxInv, InboxTypes
<1> QED
  BY <1>1, RunsKeep

LEMMA QueueKeeps ==
  ASSUME InboxInv, NEW j \in Jobs,
         dispatchFollowup(j) \/ startFollowup(j) \/ (\E r \in 0..Len(runs) : Command(j, r)) \/ Acquire(j) \/ StreamToolRound(j) \/ StartFails(j)
  PROVE  InboxInv'
<1>0. jobs \in [Jobs -> InboxJob] /\ Len(runs) \in Nat /\ seen \subseteq exposed /\ inputs \in Seq(InboxInput)
  BY DEF InboxInv, InboxTypes
<1>1. UNCHANGED <<rows, seen, exposed>>
  BY DEF dispatchFollowup, startFollowup, Command, Acquire, StreamToolRound, StartFails
<1>2. /\ Idle \in InboxJob /\ Idle.at = "idle" /\ Idle.run = 0
      /\ \A allow \in BOOLEAN : /\ Job("list", 0, allow, 0) \in InboxJob /\ Job("list", 0, allow, 0).at = "list"
                              /\ Job("list", 0, allow, 0).run = 0
  BY DEF Idle, Job, InboxJob
<1>3. CASE dispatchFollowup(j)
  <2>1. CASE queuedFollowups # {} /\ eligible(jobs[j].allow)
    <3>1. oldest \in Nat
      BY <1>0, <2>1, Oldest
    <3>2. jobs' = [jobs EXCEPT ![j] = Job("wait", oldest, jobs[j].allow, 0)] /\ jobs[j].allow \in BOOLEAN
      BY <1>0, <1>3, <2>1 DEF dispatchFollowup, InboxJob
    <3>3. Job("wait", oldest, jobs[j].allow, 0) \in InboxJob /\ Job("wait", oldest, jobs[j].allow, 0).at = "wait"
          /\ Job("wait", oldest, jobs[j].allow, 0).run = 0
      BY <3>1, <3>2 DEF Job, InboxJob
    <3>4. jobs' \in [Jobs -> InboxJob] /\ \A k \in Jobs : jobs'[k] = jobs[k] \/ (jobs'[k].at = "wait" /\ jobs'[k].run = 0)
      BY <1>0, <3>2, <3>3
    <3>5. Holders' /\ Shown'
      BY <1>0, <1>1, <3>4 DEF InboxInv, Holders, Shown, Holding, rows, appliedSteers, steersFor
    <3> QED
      BY <1>0, <1>1, <3>4, <3>5, JobsKeep
  <2>2. CASE ~(queuedFollowups # {} /\ eligible(jobs[j].allow))
    <3>1. jobs' = [jobs EXCEPT ![j] = Idle]
      BY <1>3, <2>2 DEF dispatchFollowup
    <3>2. jobs' \in [Jobs -> InboxJob] /\ \A k \in Jobs : jobs'[k] = jobs[k] \/ (jobs'[k].at = "idle" /\ jobs'[k].run = 0)
      BY <1>0, <1>2, <3>1
    <3>3. Holders' /\ Shown'
      BY <1>0, <1>1, <3>2 DEF InboxInv, Holders, Shown, Holding, rows, appliedSteers, steersFor
    <3> QED
      BY <1>0, <1>1, <3>2, <3>3, JobsKeep
  <2> QED
    BY <2>1, <2>2
<1>4. CASE startFollowup(j) \/ (\E r \in 0..Len(runs) : Command(j, r)) \/ StartFails(j)
  <2>1. \A r \in 0..Len(runs) : Job("wait", 0, FALSE, r) \in InboxJob /\ Job("wait", 0, FALSE, r).at = "wait" /\ Job("wait", 0, FALSE, r).run = r
    BY <1>0 DEF Job, InboxJob
  <2>2. \E n \in InboxJob : n.at \in {"idle", "list", "wait"} /\ n.run \in 0..Len(runs) /\ jobs' = [jobs EXCEPT ![j] = n]
    <3>1. CASE startFollowup(j)
      <4>1. jobs' = [jobs EXCEPT ![j] = Job("list", 0, TRUE, 0)] /\ 0 \in 0..Len(runs)
        BY <1>0, <3>1 DEF startFollowup
      <4>2. Job("list", 0, TRUE, 0) \in InboxJob /\ Job("list", 0, TRUE, 0).at = "list" /\ Job("list", 0, TRUE, 0).run = 0
        BY <1>2
      <4> QED
        BY <4>1, <4>2
    <3>2. CASE \E r \in 0..Len(runs) : Command(j, r)
      BY <2>1, <3>2 DEF Command
    <3>3. CASE StartFails(j)
      <4>1. \/ jobs' = [jobs EXCEPT ![j] = Job("list", 0, FALSE, 0)]
            \/ jobs' = [jobs EXCEPT ![j] = Idle]
        BY <3>3 DEF StartFails, released
      <4>2. Job("list", 0, FALSE, 0) \in InboxJob /\ Job("list", 0, FALSE, 0).at = "list" /\ Job("list", 0, FALSE, 0).run = 0
        BY <1>2
      <4>3. 0 \in 0..Len(runs)
        BY <1>0
      <4> QED
        BY <1>2, <4>1, <4>2, <4>3
    <3> QED
      BY <1>4, <3>1, <3>2, <3>3
  <2>3. jobs' \in [Jobs -> InboxJob] /\ \A k \in Jobs : jobs'[k] = jobs[k] \/ (jobs'[k].at \in {"idle", "list", "wait"} /\ jobs'[k].run \in 0..Len(runs))
    BY <1>0, <2>2
  <2>4. Holders'
    <3>1. \A k \in Jobs : jobs'[k].at \in Holding => jobs'[k] = jobs[k]
      BY <2>3 DEF Holding
    <3>2. \A k \in Jobs : jobs'[k].run \in 0..Len(runs)
      BY <2>3 DEF InboxInv, Holders
    <3> QED
      BY <1>1, <3>1, <3>2 DEF InboxInv, Holders, rows
  <2>5. Shown'
    <3>1. \A k \in Jobs : jobs'[k].at \in {"model", "settle"} => jobs'[k] = jobs[k]
      BY <2>3
    <3> QED
      BY <1>1, <3>1 DEF InboxInv, Shown, rows, appliedSteers, steersFor
  <2> QED
    BY <1>0, <1>1, <2>3, <2>4, <2>5, JobsKeep
<1>5. CASE Acquire(j)
  <2>1. jobs' = [jobs EXCEPT ![j] = [jobs[j] EXCEPT !.at = "create"]] /\ writerFree /\ jobs[j].at = "wait"
    BY <1>5 DEF Acquire
  <2>2. jobs[j] \in InboxJob
    BY <1>0
  <2> DEFINE n == [jobs[j] EXCEPT !.at = "create"]
  <2>3. n \in InboxJob /\ n.at = "create" /\ n.run = jobs[j].run /\ n.input = jobs[j].input
    BY <2>2 DEF InboxJob, Holding
  <2> HIDE DEF n
  <2>4. jobs' \in [Jobs -> InboxJob] /\ \A k \in Jobs : jobs'[k] = IF k = j THEN n ELSE jobs[k]
    BY <1>0, <2>1, <2>3 DEF n
  <2>5. Shown'
    <3>1. \A r : appliedSteers(r)' = appliedSteers(r)
      BY <1>1 DEF rows, appliedSteers, steersFor
    <3> QED
      BY <1>1, <2>3, <2>4, <3>1 DEF InboxInv, Shown
  <2>6. Holders'
    <3>1. \A k \in Jobs : jobs'[k].at \in Holding => k = j
      BY <2>1, <2>4 DEF writerFree
    <3>2. Len(runs') = Len(runs)
      BY <1>1 DEF rows
    <3>3. jobs'[j] = n /\ n.at = "create" /\ n.run \in Nat
      BY <2>3, <2>4 DEF InboxJob
    <3>4. \A k \in Jobs : jobs[k].run \in 0..Len(runs)
      BY DEF InboxInv, Holders
    <3> QED
      BY <2>3, <2>4, <3>1, <3>2, <3>3, <3>4 DEF Holders, Holding
  <2> QED
    BY <1>0, <1>1, <2>4, <2>5, <2>6, JobsKeep
<1>6. CASE StreamToolRound(j)
  <2>1. PICK next \in {"assemble", "settle"} : jobs' = [jobs EXCEPT ![j] = [jobs[j] EXCEPT !.at = next]]
    BY <1>6 DEF StreamToolRound
  <2>2. jobs[j] \in InboxJob /\ jobs[j].at = "model"
    BY <1>0, <1>6 DEF StreamToolRound
  <2> DEFINE n == [jobs[j] EXCEPT !.at = next]
  <2>3. n \in InboxJob /\ n.at = next /\ n.run = jobs[j].run
    BY <2>2 DEF InboxJob, Holding
  <2> HIDE DEF n
  <2>4. jobs' \in [Jobs -> InboxJob] /\ \A k \in Jobs : jobs'[k] = IF k = j THEN n ELSE jobs[k]
    BY <1>0, <2>1, <2>3 DEF n
  <2>5. Holders' /\ Shown'
    BY <1>1, <2>2, <2>3, <2>4 DEF InboxInv, Holders, Shown, Holding, rows, appliedSteers, steersFor
  <2> QED
    BY <1>0, <1>1, <2>4, <2>5, JobsKeep
<1> QED
  BY <1>3, <1>4, <1>5, <1>6

\* An ordinary command creates a Run or resumes the latest one.
LEMMA CreateRunKeeps ==
  ASSUME InboxInv, NEW j \in Jobs, CreateRun(j)
  PROVE  InboxInv'
<1>0. /\ jobs \in [Jobs -> InboxJob] /\ Len(runs) \in Nat /\ runs \in Seq(InboxRun) /\ Len(runs) > 0
      /\ seen' = {} /\ UNCHANGED <<inputs, messages, exposed>> /\ jobs[j].at = "create"
  BY DEF InboxInv, InboxTypes, CreateRun
<1>1. /\ \A r \in Nat : /\ Job("assemble", 0, FALSE, r) \in InboxJob /\ Job("assemble", 0, FALSE, r).at = "assemble"
                       /\ Job("assemble", 0, FALSE, r).run = r
      /\ Job("list", 0, FALSE, 0) \in InboxJob /\ Job("list", 0, FALSE, 0).at = "list" /\ Job("list", 0, FALSE, 0).run = 0
  BY DEF Job, InboxJob, Holding
<1>2. \A k \in Jobs : jobs[k].at \in Holding => k = j
  BY <1>0 DEF InboxInv, Holders, Holding
<1>3. ASSUME NEW n \in InboxJob, n.at \in {"list", "assemble"}, n.run \in 0..Len(runs'), n.at = "assemble" => n.run # 0,
             jobs' = [jobs EXCEPT ![j] = n], Len(runs') \in Nat, Len(runs') >= Len(runs)
      PROVE  jobs' \in [Jobs -> InboxJob] /\ Holders' /\ Shown'
  <2>1. jobs' \in [Jobs -> InboxJob] /\ \A k \in Jobs : jobs'[k] = IF k = j THEN n ELSE jobs[k]
    BY <1>0, <1>3
  <2>2. \A k \in Jobs : jobs'[k].at \in Holding => k = j
    BY <1>2, <2>1
  <2>3. \A k \in Jobs : jobs'[k].run \in 0..Len(runs')
    BY <1>0, <1>3, <2>1 DEF InboxInv, Holders
  <2>4. Holders'
    BY <1>3, <2>1, <2>2, <2>3 DEF Holders, Holding
  <2>5. \A k \in Jobs : jobs'[k].at \notin {"model", "settle"}
    BY <1>3, <2>1, <2>2 DEF Holding
  <2> QED
    BY <2>1, <2>4, <2>5 DEF Shown
<1>4. CASE jobs[j].run = 0
  <2>1. runs' = Append(runs, newRun("running", 0, FALSE)) /\ jobs' = [jobs EXCEPT ![j] = Job("assemble", 0, FALSE, Len(runs) + 1)]
    BY <1>4 DEF CreateRun, executes
  <2>2. PICK new \in InboxRun : runs' = Append(runs, new) /\ new.input = 0 /\ new.status = "running"
    <3>1. runs[Len(runs)] \in InboxRun
      BY <1>0
    <3>2. /\ newRun("running", 0, FALSE) \in InboxRun /\ newRun("running", 0, FALSE).input = 0
          /\ newRun("running", 0, FALSE).status = "running"
      BY <1>0, <3>1 DEF newRun, InboxRun, RunStatuses
    <3> QED
      BY <2>1, <3>2
  <2>3. /\ runs' \in Seq(InboxRun) /\ Len(runs') = Len(runs) + 1 /\ \A r \in 1..Len(runs) : runs'[r] = runs[r]
        /\ runs'[Len(runs) + 1] = new
    BY <1>0, <2>2
  <2>4. Len(runs) + 1 \in 0..Len(runs') /\ Len(runs) + 1 # 0 /\ Len(runs') \in Nat /\ Len(runs') >= Len(runs) /\ Len(runs) + 1 \in Nat
    BY <1>0, <2>3
  <2>5. jobs' \in [Jobs -> InboxJob] /\ Holders' /\ Shown'
    <3>1. /\ Job("assemble", 0, FALSE, Len(runs) + 1) \in InboxJob /\ Job("assemble", 0, FALSE, Len(runs) + 1).at = "assemble"
          /\ Job("assemble", 0, FALSE, Len(runs) + 1).run = Len(runs) + 1
      BY <1>1, <2>4
    <3> QED
      BY <1>3, <2>1, <2>4, <3>1
  <2>6. \A r \in 1..Len(runs') : r > Len(runs) => runs'[r] = new
    BY <1>0, <2>3
  <2> QED
    BY <1>0, <2>2, <2>3, <2>4, <2>5, <2>6, RunsKeep
<1>5. CASE jobs[j].run # 0 /\ runs[jobs[j].run].status \in {"waiting_for_user", "recoverable"}
  <2>1. /\ runs' = [runs EXCEPT ![jobs[j].run].status = "running"]
        /\ jobs' = [jobs EXCEPT ![j] = Job("assemble", 0, FALSE, jobs[j].run)]
    BY <1>5 DEF CreateRun, executes
  <2>2. jobs[j].run \in 1..Len(runs)
    BY <1>0, <1>5 DEF InboxInv, Holders
  <2>3. /\ runs' \in Seq(InboxRun) /\ Len(runs') = Len(runs)
        /\ \A r \in 1..Len(runs) :
             /\ runs'[r].input = runs[r].input /\ runs'[r].automatic = runs[r].automatic /\ runs'[r].after = runs[r].after
             /\ runs'[r].status = IF r = jobs[j].run THEN "running" ELSE runs[r].status
    BY <1>0, <2>1, <2>2, StatusUpdate DEF RunStatuses
  <2>4. jobs' \in [Jobs -> InboxJob] /\ Holders' /\ Shown'
    <3>1. jobs[j].run \in Nat /\ jobs[j].run # 0 /\ jobs[j].run \in 0..Len(runs') /\ Len(runs') \in Nat /\ Len(runs') >= Len(runs)
      BY <1>0, <2>2, <2>3
    <3>2. /\ Job("assemble", 0, FALSE, jobs[j].run) \in InboxJob /\ Job("assemble", 0, FALSE, jobs[j].run).at = "assemble"
          /\ Job("assemble", 0, FALSE, jobs[j].run).run = jobs[j].run
      BY <1>1, <3>1
    <3> QED
      BY <1>3, <2>1, <3>1, <3>2
  <2> QED
    BY <1>0, <1>5, <2>3, <2>4, RunsKeep DEF terminal
<1>6. CASE jobs[j].run # 0 /\ runs[jobs[j].run].status \notin {"waiting_for_user", "recoverable"}
  <2>1. runs' = runs /\ jobs' = [jobs EXCEPT ![j] = Job("list", 0, FALSE, 0)]
    BY <1>6 DEF CreateRun, released
  <2>2. jobs' \in [Jobs -> InboxJob] /\ Holders' /\ Shown'
    <3>1. 0 \in 0..Len(runs') /\ Len(runs') \in Nat /\ Len(runs') >= Len(runs)
      BY <1>0, <2>1
    <3> QED
      BY <1>1, <1>3, <2>1, <3>1
  <2> QED
    BY <1>0, <2>1, <2>2, JobsKeep DEF rows
<1> QED
  BY <1>4, <1>5, <1>6

\* A Run settles or is stopped, or the process dies and cold start repairs it.
LEMMA EndKeeps ==
  ASSUME InboxInv, (\E j \in Jobs : InputSettle(j)) \/ Stop \/ InputCrash
  PROVE  InboxInv'
<1>0. /\ jobs \in [Jobs -> InboxJob] /\ Len(runs) \in Nat /\ runs \in Seq(InboxRun) /\ Len(runs) > 0 /\ seen \subseteq exposed
      /\ UNCHANGED <<inputs, messages, exposed>> /\ seen' \in {seen, {}}
  <2>1. UNCHANGED <<inputs, messages, exposed>> /\ seen' \in {seen, {}}
    BY DEF InputSettle, Stop, InputCrash
  <2> QED
    BY <2>1 DEF InboxInv, InboxTypes
<1>1. seen' \subseteq exposed /\ \A r : appliedSteers(r)' = appliedSteers(r)
  BY <1>0 DEF appliedSteers, steersFor
<1>2. /\ Job("list", 0, FALSE, 0) \in InboxJob /\ Job("list", 0, FALSE, 0).at = "list" /\ Job("list", 0, FALSE, 0).run = 0
      /\ Idle \in InboxJob /\ Idle.at = "idle" /\ Idle.run = 0
  BY DEF Job, InboxJob, Idle
<1>3. /\ jobs' \in [Jobs -> InboxJob]
      /\ \A k \in Jobs : jobs'[k] = jobs[k] \/ (jobs'[k].at \in {"list", "idle"} /\ jobs'[k].run = 0)
  <2>1. CASE \E j \in Jobs : InputSettle(j)
    BY <1>0, <1>2, <2>1 DEF InputSettle, released
  <2>2. CASE Stop
    BY <1>0, <2>2 DEF Stop
  <2>3. CASE InputCrash
    BY <1>2, <2>3 DEF InputCrash
  <2> QED
    BY <2>1, <2>2, <2>3
<1>4. \/ runs' = runs
      \/ \E q \in 1..Len(runs), s \in RunStatuses :
           /\ runs[q].status \notin terminal /\ runs' = [runs EXCEPT ![q].status = s]
           /\ s = "completed" => appliedSteers(q) \subseteq exposed
  <2>1. ASSUME NEW j \in Jobs, InputSettle(j), runs' # runs
        PROVE  \E q \in 1..Len(runs), s \in RunStatuses :
           /\ runs[q].status \notin terminal /\ runs' = [runs EXCEPT ![q].status = s]
           /\ s = "completed" => appliedSteers(q) \subseteq exposed
    <3>1. jobs[j].run \in 1..Len(runs) /\ runs[jobs[j].run].status \notin terminal
      BY <2>1 DEF InputSettle, InboxInv, Holders, terminal
    <3>2. jobs[j].at = "settle" => appliedSteers(jobs[j].run) \subseteq exposed
      BY DEF InboxInv, Shown
    <3>3. \/ jobs[j].at = "settle" /\ runs' = [runs EXCEPT ![jobs[j].run].status = "completed"]
          \/ runs' = [runs EXCEPT ![jobs[j].run].status = "waiting_for_user"]
          \/ runs' = [runs EXCEPT ![jobs[j].run].status = "failed"]
      BY <2>1 DEF InputSettle
    <3> QED
      BY <3>1, <3>2, <3>3 DEF RunStatuses
  <2>2. CASE Stop
    <3>1. runs' = [runs EXCEPT ![Len(runs)].status = "canceled"] /\ runs[Len(runs)].status \notin terminal /\ Len(runs) \in 1..Len(runs)
      BY <1>0, <2>2 DEF Stop, inputLatest, terminal
    <3> QED
      BY <3>1 DEF RunStatuses
  <2>3. CASE InputCrash
    <3>1. Len(runs) \in 1..Len(runs)
      BY <1>0
    <3>2. \/ runs' = runs
          \/ /\ runs[Len(runs)].status \notin terminal
             /\ \E s \in {"recoverable", "failed"} : runs' = [runs EXCEPT ![Len(runs)].status = s]
      BY <2>3 DEF InputCrash, inputLatest, terminal
    <3> QED
      BY <3>1, <3>2 DEF RunStatuses
  <2> QED
    BY <2>1, <2>2, <2>3
<1>5. /\ runs' \in Seq(InboxRun) /\ Len(runs') = Len(runs)
      /\ \A r \in 1..Len(runs) :
           /\ runs'[r].input = runs[r].input /\ runs'[r].automatic = runs[r].automatic /\ runs'[r].after = runs[r].after
           /\ runs[r].status \in terminal => runs'[r].status \in terminal
           /\ runs'[r].status = "completed" => runs[r].status = "completed" \/ appliedSteers(r) \subseteq exposed
  <2>1. ASSUME NEW q \in 1..Len(runs), NEW s \in RunStatuses, runs[q].status \notin terminal,
               runs' = [runs EXCEPT ![q].status = s], s = "completed" => appliedSteers(q) \subseteq exposed
        PROVE  /\ runs' \in Seq(InboxRun) /\ Len(runs') = Len(runs)
               /\ \A r \in 1..Len(runs) :
                    /\ runs'[r].input = runs[r].input /\ runs'[r].automatic = runs[r].automatic /\ runs'[r].after = runs[r].after
                    /\ runs[r].status \in terminal => runs'[r].status \in terminal
                    /\ runs'[r].status = "completed" => runs[r].status = "completed" \/ appliedSteers(r) \subseteq exposed
    <3>1. /\ runs' \in Seq(InboxRun) /\ Len(runs') = Len(runs)
          /\ \A r \in 1..Len(runs) :
               /\ runs'[r].input = runs[r].input /\ runs'[r].automatic = runs[r].automatic /\ runs'[r].after = runs[r].after
               /\ runs'[r].status = IF r = q THEN s ELSE runs[r].status
      BY <1>0, <2>1, StatusUpdate
    <3> QED
      BY <2>1, <3>1
  <2> QED
    BY <1>0, <1>4, <2>1
<1>6. Holders'
  <2>1. \A k \in Jobs : jobs'[k].at \in Holding => jobs'[k] = jobs[k]
    BY <1>3 DEF Holding
  <2>2. \A k \in Jobs : jobs'[k].run \in 0..Len(runs)
    BY <1>0, <1>3 DEF InboxInv, Holders
  <2> QED
    BY <1>5, <2>1, <2>2 DEF InboxInv, Holders
<1>7. Shown'
  <2>1. \A k \in Jobs : jobs'[k].at \in {"model", "settle"} => jobs'[k] = jobs[k]
    BY <1>3
  <2> QED
    BY <1>0, <1>1, <2>1 DEF InboxInv, Shown
<1> QED
  BY <1>0, <1>1, <1>3, <1>5, <1>6, <1>7, RunsKeep

\* The queued steers of the running Run become messages and applications.
LEMMA ConsumeKeeps ==
  ASSUME InboxInv, NEW r \in 1..Len(runs), ConsumeSteering(r), exposed \subseteq exposed', seen' \subseteq exposed',
         jobs' \in [Jobs -> InboxJob], Holders', Shown'
  PROVE  InboxInv'
<1>0. /\ inputs \in Seq(InboxInput) /\ Len(inputs) \in Nat /\ runs \in Seq(InboxRun) /\ Len(runs) \in Nat /\ messages \in Seq(Nat)
      /\ runs' = runs /\ runs[r].status = "running" /\ Len(messages) \in Nat
      /\ \A i \in 1..Len(inputs) : inputs[i] \in InboxInput
  <2>1. runs' = runs /\ runs[r].status = "running"
    BY DEF ConsumeSteering
  <2> QED
    BY <2>1 DEF InboxInv, InboxTypes
<1> DEFINE Q == queuedSteers(r)
           applied(i) == [inputs[i] EXCEPT !.status = "applied", !.appliedTo = r]
<1>1. Q \subseteq 1..Len(inputs) /\ \A i \in Q : inputs[i].kind = "steer" /\ inputs[i].run = r /\ queuedFresh(i)
  BY DEF queuedSteers, steersFor
<1>2. /\ inputs' = [i \in 1..Len(inputs) |-> IF i \in Q THEN applied(i) ELSE inputs[i]]
      /\ \E list \in RECEIPTS(Q) : messages' = messages \o list
  BY DEF ConsumeSteering
<1>3. \A i \in 1..Len(inputs) :
        /\ applied(i) \in InboxInput /\ applied(i).kind = inputs[i].kind /\ applied(i).run = inputs[i].run
        /\ applied(i).status = "applied" /\ applied(i).appliedTo = r /\ applied(i).age = inputs[i].age
  <2> SUFFICES ASSUME NEW i \in 1..Len(inputs)
               PROVE  /\ applied(i) \in InboxInput /\ applied(i).kind = inputs[i].kind /\ applied(i).run = inputs[i].run
                      /\ applied(i).status = "applied" /\ applied(i).appliedTo = r /\ applied(i).age = inputs[i].age
    OBVIOUS
  <2>1. inputs[i] \in InboxInput /\ r \in Nat
    BY <1>0
  <2> QED
    BY <2>1 DEF InboxInput
<1> HIDE DEF applied
<1>4. inputs' \in Seq(InboxInput) /\ Len(inputs') = Len(inputs)
  <2> DEFINE row(i) == IF i \in Q THEN applied(i) ELSE inputs[i]
  <2>a. inputs' = [i \in 1..Len(inputs) |-> row(i)]
    BY <1>2
  <2>b. \A i \in 1..Len(inputs) : row(i) \in InboxInput
    BY <1>0, <1>3
  <2> HIDE DEF row
  <2>1. inputs' \in [1..Len(inputs) -> InboxInput]
    BY <2>a, <2>b
  <2>c. Len(inputs) \in Nat
    BY <1>0
  <2>2. inputs' \in Seq(InboxInput)
    BY <2>1, <2>c, SeqDef
  <2> QED
    BY <1>0, <2>1, <2>2, LenProperties
<1>5. \A i \in 1..Len(inputs) :
        /\ inputs'[i].kind = inputs[i].kind /\ inputs'[i].run = inputs[i].run /\ inputs'[i].age = inputs[i].age
        /\ inputs'[i].status = IF i \in Q THEN "applied" ELSE inputs[i].status
        /\ inputs'[i].appliedTo = IF i \in Q THEN r ELSE inputs[i].appliedTo
  BY <1>2, <1>3
<1>6. /\ \A i : consumedOrPurged(i) => consumedOrPurged(i)' /\ i \notin Q
      /\ \A i \in Q : consumedOrPurged(i)'
      /\ \A i \in 1..Len(inputs) : queuedFresh(i)' => queuedFresh(i)
  BY <1>1, <1>4, <1>5 DEF consumedOrPurged, queuedFresh
<1>7. PICK list \in Seq(Nat) : /\ messages' = messages \o list /\ \A a \in 1..Len(list) : list[a] \in Q
                               /\ \A a, b \in 1..Len(list) : a < b => list[a] < list[b]
  <2>1. PICK l \in RECEIPTS(Q) : messages' = messages \o l
    BY <1>2
  <2>2. IsFiniteSet(Q) /\ Cardinality(Q) \in Nat
    <3>1. IsFiniteSet(1..Len(inputs))
      BY <1>0, FS_Interval
    <3>2. IsFiniteSet(Q)
      BY <1>1, <3>1, FS_Subset
    <3> QED
      BY <3>2, FS_CardinalityType
  <2>3. l \in [1..Cardinality(Q) -> Q] /\ \A a, b \in DOMAIN l : a < b => l[a] < l[b]
    BY <2>1 DEF RECEIPTS
  <2>4. l \in [1..Cardinality(Q) -> Nat]
    BY <1>1, <2>3
  <2>5. l \in Seq(Nat)
    BY <2>2, <2>4, SeqDef
  <2>6. Len(l) = Cardinality(Q)
    BY <2>2, <2>4, <2>5, LenProperties
  <2> QED
    BY <2>1, <2>3, <2>5, <2>6
<1>8. /\ messages' \in Seq(Nat) /\ Len(messages') = Len(messages) + Len(list) /\ Len(list) \in Nat
      /\ \A a \in 1..Len(messages') : messages'[a] = IF a <= Len(messages) THEN messages[a] ELSE list[a - Len(messages)]
      /\ \A a \in 1..Len(messages') : ~(a <= Len(messages)) => a - Len(messages) \in 1..Len(list)
  <2>1. messages' \in Seq(Nat) /\ Len(messages') = Len(messages) + Len(list) /\ Len(list) \in Nat
    BY <1>0, <1>7, ConcatProperties
  <2>2. \A a \in 1..Len(messages) + Len(list) :
          messages'[a] = IF a <= Len(messages) THEN messages[a] ELSE list[a - Len(messages)]
    BY <1>0, <1>7, ConcatProperties
  <2> QED
    BY <1>0, <2>1, <2>2
<1>9. InboxTypes'
  <2>1. \A i \in 1..Len(inputs) : inputs'[i].run \in 1..Len(runs) /\ inputs'[i].appliedTo \in 0..Len(runs)
    <3>1. \A i \in 1..Len(inputs) : inputs[i].run \in 1..Len(runs) /\ inputs[i].appliedTo \in 0..Len(runs)
      BY DEF InboxInv, InboxTypes
    <3>2. r \in 0..Len(runs)
      BY <1>0
    <3> QED
      BY <1>5, <3>1, <3>2
  <2> QED
    BY <1>0, <1>4, <1>8, <2>1 DEF InboxInv, InboxTypes
<1>10. Started'
  <2>1. \A i \in 1..Len(inputs) : inputs'[i].kind = "follow_up" /\ queuedFresh(i)' => inputs[i].kind = "follow_up" /\ queuedFresh(i)
    BY <1>5, <1>6
  <2> QED
    BY <1>0, <1>4, <1>6, <2>1 DEF InboxInv, Started
<1>11. Sent'
  <2>1. \A a \in 1..Len(messages) : consumedOrPurged(messages[a])
    BY DEF InboxInv, Sent
  <2>2. ASSUME NEW a \in 1..Len(messages') PROVE consumedOrPurged(messages[a])'
    <3>1. CASE a <= Len(messages)
      <4>1. a \in 1..Len(messages) /\ messages'[a] = messages[a]
        BY <1>0, <1>8, <3>1
      <4>2. PICK m : m = messages[a] /\ m = messages'[a]
        BY <4>1
      <4>3. consumedOrPurged(m)'
        BY <1>6, <2>1, <4>1, <4>2
      <4> QED
        BY <4>2, <4>3
    <3>2. CASE ~(a <= Len(messages))
      <4>1. PICK m : m \in Q /\ m = messages'[a]
        BY <1>7, <1>8, <3>2
      <4>2. consumedOrPurged(m)'
        BY <1>6, <4>1
      <4> QED
        BY <4>1, <4>2
    <3> QED
      BY <3>1, <3>2
  <2>3. ASSUME NEW a \in 1..Len(messages'), NEW b \in 1..Len(messages'), messages'[a] = messages'[b]
        PROVE  a = b
    <3>1. CASE a <= Len(messages) /\ b <= Len(messages)
      <4>1. a \in 1..Len(messages) /\ b \in 1..Len(messages) /\ messages[a] = messages[b]
        <5>1. messages'[a] = messages[a] /\ messages'[b] = messages[b]
          BY <1>8, <3>1
        <5>2. a \in 1..Len(messages) /\ b \in 1..Len(messages)
          BY <1>0, <1>8, <3>1
        <5> QED
          BY <2>3, <5>1, <5>2
      <4> QED
        BY <4>1 DEF InboxInv, Sent
    <3>2. CASE ~(a <= Len(messages)) /\ ~(b <= Len(messages))
      <4>1. list[a - Len(messages)] = list[b - Len(messages)]
        BY <1>8, <2>3, <3>2
      <4>2. ~(a - Len(messages) < b - Len(messages)) /\ ~(b - Len(messages) < a - Len(messages))
        <5>1. \A x \in 1..Len(list) : list[x] \in Nat
          BY <1>7
        <5>2. /\ a - Len(messages) \in 1..Len(list) /\ b - Len(messages) \in 1..Len(list)
          BY <1>8, <3>2
        <5>3. ~(list[a - Len(messages)] < list[b - Len(messages)]) /\ ~(list[b - Len(messages)] < list[a - Len(messages)])
          BY <4>1, <5>1, <5>2
        <5> QED
          BY <1>7, <5>2, <5>3
      <4> QED
        BY <1>0, <1>8, <4>2
    <3>3. CASE a <= Len(messages) /\ ~(b <= Len(messages))
      <4>1. a \in 1..Len(messages) /\ messages'[b] \in Q /\ messages'[a] = messages[a]
        BY <1>0, <1>7, <1>8, <3>3
      <4> QED
        BY <1>6, <2>1, <2>3, <4>1
    <3>4. CASE ~(a <= Len(messages)) /\ b <= Len(messages)
      <4>1. b \in 1..Len(messages) /\ messages'[a] \in Q /\ messages'[b] = messages[b]
        BY <1>0, <1>7, <1>8, <3>4
      <4> QED
        BY <1>6, <2>1, <2>3, <4>1
    <3> QED
      BY <3>1, <3>2, <3>3, <3>4
  <2> QED
    BY <2>2, <2>3 DEF Sent
<1>12. AppliedSteerIsExposed'
  <2>1. ASSUME NEW q \in 1..Len(runs), runs[q].status = "completed"
        PROVE  appliedSteers(q)' \subseteq exposed
    <3>1. q # r
      BY <1>0, <2>1
    <3>2. appliedSteers(q)' \subseteq appliedSteers(q)
      BY <1>1, <1>4, <1>5, <3>1 DEF appliedSteers, steersFor
    <3> QED
      BY <2>1, <3>2 DEF InboxInv, AppliedSteerIsExposed
  <2> QED
    BY <1>0, <2>1 DEF AppliedSteerIsExposed
<1>13. RecoveryEvidenceKept'
  <2>1. ASSUME NEW q \in 1..Len(runs), runs[q].status \notin terminal, NEW i \in 1..Len(inputs), inputs'[i].appliedTo = q
        PROVE  inputs'[i].status = "applied"
    BY <1>5, <2>1 DEF InboxInv, RecoveryEvidenceKept
  <2> QED
    BY <1>0, <1>4, <2>1 DEF RecoveryEvidenceKept
<1>14. NoTaskAfterAStop'
  BY <1>0 DEF InboxInv, NoTaskAfterAStop
<1> QED
  BY <1>9, <1>10, <1>11, <1>12, <1>13, <1>14 DEF InboxInv

\* What consumption applies is what was applied or queued.
LEMMA ConsumedIsApplied ==
  ASSUME InboxInv, NEW r \in 1..Len(runs), ConsumeSteering(r)
  PROVE  appliedSteers(r)' \subseteq consumed(r)
<1>1. Len(inputs) \in Nat /\ \A i \in 1..Len(inputs) : inputs[i] \in InboxInput
  BY DEF InboxInv, InboxTypes
<1>2. inputs' = [i \in 1..Len(inputs) |-> IF i \in queuedSteers(r)
                  THEN [inputs[i] EXCEPT !.status = "applied", !.appliedTo = r] ELSE inputs[i]]
  BY DEF ConsumeSteering
<1>3. Len(inputs') = Len(inputs)
  <2>0. ASSUME NEW i \in 1..Len(inputs) PROVE [inputs[i] EXCEPT !.status = "applied", !.appliedTo = r] \in InboxInput
    <3>1. inputs[i] \in InboxInput /\ r \in Nat
      BY <1>1 DEF InboxInv, InboxTypes
    <3> QED
      BY <3>1 DEF InboxInput
  <2> DEFINE row(i) == IF i \in queuedSteers(r) THEN [inputs[i] EXCEPT !.status = "applied", !.appliedTo = r] ELSE inputs[i]
  <2>a. inputs' = [i \in 1..Len(inputs) |-> row(i)]
    BY <1>2
  <2>b. \A i \in 1..Len(inputs) : row(i) \in InboxInput
    BY <1>1, <2>0
  <2> HIDE DEF row
  <2>1. inputs' \in [1..Len(inputs) -> InboxInput]
    BY <2>a, <2>b
  <2>2. inputs' \in Seq(InboxInput)
    BY <1>1, <2>1, SeqDef
  <2> QED
    BY <1>1, <2>1, <2>2, LenProperties
<1>4. \A i \in 1..Len(inputs) : i \notin queuedSteers(r) => inputs'[i] = inputs[i]
  BY <1>2
<1>5. \A i \in appliedSteers(r)' : i \in 1..Len(inputs) /\ inputs'[i].kind = "steer" /\ inputs'[i].run = r /\ inputs'[i].status = "applied"
  BY <1>3 DEF appliedSteers, steersFor
<1>6. \A i \in appliedSteers(r)' : i \notin queuedSteers(r) => i \in appliedSteers(r)
  BY <1>4, <1>5 DEF appliedSteers, steersFor
<1> QED
  BY <1>6 DEF consumed

\* A request of the Turn, and the look for steers after its final answer.
LEMMA BoundaryKeeps ==
  ASSUME InboxInv, NEW j \in Jobs, AssembleContext(j) \/ checkSteering(j)
  PROVE  InboxInv'
<1>a. jobs[j].at \in {"assemble", "model"} /\ ConsumeSteering(jobs[j].run)
  BY DEF AssembleContext, checkSteering
<1>b. jobs[j].run \in 1..Len(runs)
  BY <1>a DEF InboxInv, Holders, Holding
<1>c. PICK r \in 1..Len(runs) : r = jobs[j].run
  BY <1>b
<1>0. /\ jobs \in [Jobs -> InboxJob] /\ jobs[j] \in InboxJob /\ Len(runs) \in Nat /\ seen \subseteq exposed
      /\ jobs[j].at \in {"assemble", "model"} /\ ConsumeSteering(r) /\ runs' = runs
  <2>1. ConsumeSteering(r)
    BY <1>a, <1>c
  <2>2. runs' = runs
    BY <2>1 DEF ConsumeSteering
  <2> QED
    BY <1>a, <2>1, <2>2 DEF InboxInv, InboxTypes
<1>1. appliedSteers(r)' \subseteq consumed(r)
  BY <1>0, ConsumedIsApplied
<1>2. PICK next \in {"assemble", "model", "settle"} : jobs' = [jobs EXCEPT ![j].at = next]
  BY DEF AssembleContext, checkSteering
<1>3. /\ exposed \subseteq exposed' /\ seen' \subseteq exposed'
      /\ next \in {"model", "settle"} => consumed(r) \subseteq exposed'
  <2>1. CASE AssembleContext(j)
    BY <1>0, <1>c, <2>1 DEF AssembleContext
  <2>2. CASE checkSteering(j)
    <3>1. jobs' = [jobs EXCEPT ![j].at = IF pendingSteering(r) THEN "assemble" ELSE "settle"] /\ UNCHANGED <<seen, exposed>>
      BY <1>c, <2>2 DEF checkSteering
    <3>2. jobs'[j].at = next /\ jobs'[j].at = IF pendingSteering(r) THEN "assemble" ELSE "settle"
      BY <1>0, <1>2, <3>1 DEF InboxJob
    <3> QED
      BY <1>0, <3>1, <3>2 DEF pendingSteering
  <2> QED
    BY <2>1, <2>2
<1> DEFINE n == [jobs[j] EXCEPT !.at = next]
<1>4. jobs' = [jobs EXCEPT ![j] = n]
  BY <1>2
<1>5. n \in InboxJob /\ n.at = next /\ n.run = r
  BY <1>0, <1>c DEF InboxJob, Holding
<1> HIDE DEF n
<1>6. jobs' \in [Jobs -> InboxJob] /\ \A k \in Jobs : jobs'[k] = IF k = j THEN n ELSE jobs[k]
  BY <1>0, <1>4, <1>5
<1>7. \A k \in Jobs : jobs'[k].at \in Holding => k = j
  <2>1. \A k \in Jobs : jobs[k].at \in Holding => k = j
    BY <1>0 DEF InboxInv, Holders, Holding
  <2> QED
    BY <1>6, <2>1
<1>8. Holders'
  <2>1. \A k \in Jobs : jobs'[k].run \in 0..Len(runs')
    BY <1>0, <1>5, <1>6 DEF InboxInv, Holders
  <2> QED
    BY <1>0, <1>5, <1>6, <1>7, <2>1 DEF Holders
<1>9. Shown'
  <2>1. \A k \in Jobs : jobs'[k].at \in {"model", "settle"} => k = j
    BY <1>7 DEF Holding
  <2>2. jobs'[j] = n
    BY <1>6
  <2> QED
    BY <1>1, <1>3, <1>5, <2>1, <2>2 DEF Shown
<1> QED
  BY <1>0, <1>3, <1>6, <1>8, <1>9, ConsumeKeeps

\* A follow-up, its message and its Run in one transaction.
LEMMA FollowupKeeps ==
  ASSUME InboxInv, NEW j \in Jobs, CreateInputRun(j), NEW i, i = jobs[j].input, applicable(i, jobs[j].allow)
  PROVE  InboxInv'
<1>0. /\ inputs \in Seq(InboxInput) /\ Len(inputs) \in Nat /\ runs \in Seq(InboxRun) /\ Len(runs) \in Nat /\ Len(runs) > 0
      /\ messages \in Seq(Nat) /\ Len(messages) \in Nat /\ jobs \in [Jobs -> InboxJob] /\ jobs[j] \in InboxJob
      /\ \A k \in 1..Len(inputs) : inputs[k] \in InboxInput
  BY DEF InboxInv, InboxTypes
<1> DEFINE r == Len(runs) + 1
<1>1. /\ i \in 1..Len(inputs) /\ i \in Nat /\ i # 0 /\ queuedFresh(i) /\ inputs[i].kind = "follow_up"
      /\ \A k \in 1..Len(inputs) : k < i => ~(inputs[k].kind = "follow_up" /\ queuedFresh(k))
  <2>1. queuedFollowups # {} /\ oldest = i
    BY DEF applicable
  <2> QED
    BY <1>0, <2>1, Oldest
<1>2. /\ runs' = Append(runs, newRun("running", i, ~jobs[j].allow)) /\ messages' = Append(messages, i)
      /\ inputs' = [inputs EXCEPT ![i].status = "applied", ![i].appliedTo = Len(runs) + 1]
      /\ jobs' = [jobs EXCEPT ![j] = Job("assemble", 0, FALSE, Len(runs) + 1)] /\ seen' = {} /\ exposed' = exposed
      /\ jobs[j].at = "create"
  BY DEF CreateInputRun, executes
<1>3. PICK made \in InboxRun : /\ runs' = Append(runs, made) /\ made.status = "running" /\ made.input = i
                              /\ made.automatic = ~jobs[j].allow /\ made.after = runs[Len(runs)].status
  <2>1. runs[Len(runs)] \in InboxRun /\ runs # <<>> /\ jobs[j].allow \in BOOLEAN
    BY <1>0 DEF InboxJob
  <2>2. newRun("running", i, ~jobs[j].allow) = [status |-> "running", input |-> i, automatic |-> ~jobs[j].allow,
                                                after |-> runs[Len(runs)].status]
    BY <2>1 DEF newRun
  <2>3. newRun("running", i, ~jobs[j].allow) \in InboxRun
    <3>1. PICK auto \in BOOLEAN : auto = ~jobs[j].allow
      BY <2>1
    <3>2. runs[Len(runs)].status \in RunStatuses
      BY <2>1 DEF InboxRun
    <3>3. newRun("running", i, ~jobs[j].allow) = [status |-> "running", input |-> i, automatic |-> auto, after |-> runs[Len(runs)].status]
      BY <2>2, <3>1
    <3> QED
      BY <1>1, <3>2, <3>3 DEF InboxRun, RunStatuses
  <2> QED
    BY <1>2, <2>2, <2>3
<1>4. PICK new \in InboxInput : /\ inputs' = [inputs EXCEPT ![i] = new] /\ new.kind = "follow_up" /\ new.run = inputs[i].run
                                /\ new.status = "applied" /\ new.appliedTo = r
  <2> DEFINE n == [inputs[i] EXCEPT !.status = "applied", !.appliedTo = r]
  <2>1. inputs' = [inputs EXCEPT ![i] = n]
    BY <1>2
  <2>2. inputs[i] \in InboxInput /\ r \in Nat
    BY <1>0, <1>1
  <2>3. n \in InboxInput /\ n.kind = "follow_up" /\ n.run = inputs[i].run /\ n.status = "applied" /\ n.appliedTo = r
    BY <1>1, <2>2 DEF InboxInput
  <2> HIDE DEF n
  <2> QED
    BY <2>1, <2>3
<1>5. /\ inputs' \in Seq(InboxInput) /\ Len(inputs') = Len(inputs)
      /\ \A k \in 1..Len(inputs) : inputs'[k] = IF k = i THEN new ELSE inputs[k]
  BY <1>0, <1>1, <1>4
<1>6. /\ runs' \in Seq(InboxRun) /\ Len(runs') = r /\ r \in Nat /\ r # 0
      /\ \A q \in 1..Len(runs) : runs'[q] = runs[q]
      /\ runs'[r] = made /\ \A q \in 1..r : q = r \/ q \in 1..Len(runs)
  BY <1>0, <1>3
<1>7. /\ messages' \in Seq(Nat) /\ Len(messages') = Len(messages) + 1
      /\ \A a \in 1..Len(messages) : messages'[a] = messages[a]
      /\ messages'[Len(messages) + 1] = i
  BY <1>0, <1>1, <1>2
<1>8. /\ \A k : consumedOrPurged(k) => consumedOrPurged(k)' /\ k # i
      /\ consumedOrPurged(i)'
      /\ \A k \in 1..Len(inputs) : inputs'[k].kind = "follow_up" /\ queuedFresh(k)' => k # i /\ inputs[k].kind = "follow_up" /\ queuedFresh(k)
  BY <1>1, <1>4, <1>5 DEF consumedOrPurged, queuedFresh
<1> HIDE DEF r
<1>9. InboxTypes' /\ Holders' /\ Shown'
  <2>1. /\ Job("assemble", 0, FALSE, r) \in InboxJob /\ Job("assemble", 0, FALSE, r).at = "assemble"
        /\ Job("assemble", 0, FALSE, r).run = r
    BY <1>6 DEF Job, InboxJob, Holding
  <2>2. jobs' \in [Jobs -> InboxJob] /\ \A k \in Jobs : jobs'[k] = IF k = j THEN Job("assemble", 0, FALSE, r) ELSE jobs[k]
    BY <1>0, <1>2, <2>1 DEF r
  <2>3. \A k \in Jobs : jobs[k].at \in Holding => k = j
    BY <1>2 DEF InboxInv, Holders, Holding
  <2>4. \A k \in Jobs : jobs'[k].at \in Holding => k = j
    BY <2>2, <2>3
  <2>5. \A k \in Jobs : jobs'[k].run \in 0..r
    <3>1. \A k \in Jobs : jobs[k].run \in 0..Len(runs)
      BY DEF InboxInv, Holders
    <3>2. 0..Len(runs) \subseteq 0..r /\ r \in 0..r
      BY <1>0 DEF r
    <3> QED
      BY <2>1, <2>2, <3>1, <3>2
  <2>6. Holders'
    <3>1. Len(runs') = r /\ r \in 1..r
      BY <1>0, <1>6 DEF r
    <3>2. jobs'[j].run = r
      BY <2>1, <2>2
    <3>3. \A k \in Jobs : jobs'[k].at \in Holding \ {"create"} => jobs'[k].run \in 1..r
      BY <2>4, <3>1, <3>2
    <3> QED
      BY <2>4, <2>5, <3>1, <3>3 DEF Holders
  <2>7. Shown'
    BY <2>1, <2>2, <2>4 DEF Shown, Holding
  <2>8. \A k \in 1..Len(inputs) : inputs'[k].run \in 1..r /\ inputs'[k].appliedTo \in 0..r
    <3>1. \A k \in 1..Len(inputs) : inputs[k].run \in 1..Len(runs) /\ inputs[k].appliedTo \in 0..Len(runs)
      BY DEF InboxInv, InboxTypes
    <3> QED
      BY <1>0, <1>1, <1>4, <1>5, <1>6, <3>1 DEF r
  <2>9. InboxTypes'
    <3>1. Len(runs') = r /\ r > 0 /\ Len(inputs') = Len(inputs)
      BY <1>0, <1>5, <1>6 DEF r
    <3>2. \A k \in 1..Len(inputs') : inputs'[k].run \in 1..Len(runs') /\ inputs'[k].appliedTo \in 0..Len(runs')
      BY <2>8, <3>1
    <3>3. seen' \subseteq exposed'
      BY <1>2
    <3> QED
      BY <1>5, <1>6, <1>7, <2>2, <3>1, <3>2, <3>3 DEF InboxTypes
  <2> QED
    BY <2>6, <2>7, <2>9
<1>10. Started'
  <2>1. ASSUME NEW a \in 1..Len(runs), runs[a].input # 0
        PROVE  /\ runs[a].input \in Nat /\ runs[a].input < i
               /\ \A k \in 1..Len(inputs) : k < runs[a].input => ~(inputs'[k].kind = "follow_up" /\ queuedFresh(k)')
               /\ \A b \in 1..Len(runs) : a < b /\ runs[b].input # 0 => runs[a].input < runs[b].input
    <3>1. consumedOrPurged(runs[a].input) /\ runs[a].input \in 1..Len(inputs)
      BY <2>1 DEF InboxInv, Started, consumedOrPurged
    <3>2. ~(i < runs[a].input)
      BY <1>1, <2>1 DEF InboxInv, Started
    <3>3. runs[a].input < i
      BY <1>0, <1>1, <1>8, <3>1, <3>2
    <3> QED
      BY <1>8, <2>1, <3>1, <3>3 DEF InboxInv, Started
  <2>2. /\ consumedOrPurged(i)' /\ \A k \in 1..Len(inputs) : k < i => ~(inputs'[k].kind = "follow_up" /\ queuedFresh(k)')
    BY <1>1, <1>8
  <2>3. ASSUME NEW a \in 1..r, runs'[a].input # 0
        PROVE  /\ consumedOrPurged(runs[a].input)'
               /\ \A k \in 1..Len(inputs) : k < runs'[a].input => ~(inputs'[k].kind = "follow_up" /\ queuedFresh(k)')
               /\ \A b \in 1..r : a < b /\ runs'[b].input # 0 => runs'[a].input < runs'[b].input
    <3>1. CASE a = r
      <4>1. runs'[a].input = i /\ \A b \in 1..r : ~(a < b)
        BY <1>3, <1>6, <3>1
      <4>2. consumedOrPurged(runs[a].input)'
        <5>1. PICK m : m = i /\ m = runs'[a].input
          BY <4>1
        <5>2. consumedOrPurged(m)'
          BY <2>2, <5>1
        <5> QED
          BY <5>1, <5>2
      <4> QED
        BY <2>2, <4>1, <4>2
    <3>2. CASE a # r
      <4>1. a \in 1..Len(runs) /\ runs'[a] = runs[a] /\ runs[a].input # 0
        BY <1>6, <2>3, <3>2
      <4>2. consumedOrPurged(runs[a].input)'
        <5>1. PICK m : m = runs[a].input /\ m = runs'[a].input
          BY <4>1
        <5>2. consumedOrPurged(m)
          BY <4>1, <5>1 DEF InboxInv, Started
        <5>3. consumedOrPurged(m)'
          BY <1>8, <5>2
        <5> QED
          BY <5>1, <5>3
      <4>3. ASSUME NEW b \in 1..r, a < b, runs'[b].input # 0 PROVE runs[a].input < runs'[b].input
        <5>1. CASE b = r
          BY <1>3, <1>6, <2>1, <4>1, <5>1
        <5>2. CASE b # r
          <6>1. b \in 1..Len(runs) /\ runs'[b] = runs[b]
            BY <1>6, <5>2
          <6> QED
            BY <2>1, <4>1, <4>3, <6>1
        <5> QED
          BY <5>1, <5>2
      <4> QED
        BY <2>1, <4>1, <4>2, <4>3
    <3> QED
      BY <3>1, <3>2
  <2> QED
    BY <1>5, <1>6, <2>3 DEF Started
<1>11. Sent'
  <2>1. \A a \in 1..Len(messages) : consumedOrPurged(messages[a]) /\ messages[a] # i
    BY <1>8 DEF InboxInv, Sent
  <2>2. \A a \in 1..Len(messages') : a \in 1..Len(messages) \/ (a = Len(messages) + 1 /\ a \notin 1..Len(messages))
    BY <1>0, <1>7
  <2>3. ASSUME NEW a \in 1..Len(messages') PROVE consumedOrPurged(messages[a])'
    <3>1. PICK m : m = messages'[a]
      OBVIOUS
    <3>2. consumedOrPurged(m)'
      <4>1. CASE a \in 1..Len(messages)
        BY <1>7, <1>8, <2>1, <3>1, <4>1
      <4>2. CASE a = Len(messages) + 1
        BY <1>7, <1>8, <3>1, <4>2
      <4> QED
        BY <2>2, <4>1, <4>2
    <3> QED
      BY <3>1, <3>2
  <2>4. \A a, b \in 1..Len(messages') : messages'[a] = messages'[b] => a = b
    BY <1>7, <2>1, <2>2 DEF InboxInv, Sent
  <2> QED
    BY <2>3, <2>4 DEF Sent
<1>12. AppliedSteerIsExposed'
  <2>1. ASSUME NEW q \in 1..r, runs'[q].status = "completed" PROVE appliedSteers(q)' \subseteq exposed
    <3>1. q \in 1..Len(runs) /\ runs[q].status = "completed"
      BY <1>3, <1>6, <2>1
    <3>2. appliedSteers(q)' \subseteq appliedSteers(q)
      BY <1>4, <1>5 DEF appliedSteers, steersFor
    <3> QED
      BY <3>1, <3>2 DEF InboxInv, AppliedSteerIsExposed
  <2> QED
    BY <1>2, <1>6, <2>1 DEF AppliedSteerIsExposed
<1>13. RecoveryEvidenceKept'
  <2>1. ASSUME NEW q \in 1..r, runs'[q].status \notin terminal, NEW k \in 1..Len(inputs), inputs'[k].appliedTo = q
        PROVE  inputs'[k].status = "applied"
    <3>1. CASE k = i
      BY <1>4, <1>5, <3>1
    <3>2. CASE k # i
      <4>1. inputs'[k] = inputs[k] /\ inputs[k].appliedTo \in 0..Len(runs)
        BY <1>5, <3>2 DEF InboxInv, InboxTypes
      <4>2. q \in 1..Len(runs) /\ runs'[q] = runs[q]
        <5>1. q \in 0..Len(runs) /\ q # 0
          BY <1>0, <1>5, <2>1, <3>2, <4>1
        <5> QED
          BY <1>0, <1>6, <5>1
      <4> QED
        BY <2>1, <4>1, <4>2 DEF InboxInv, RecoveryEvidenceKept
    <3> QED
      BY <3>1, <3>2
  <2> QED
    BY <1>5, <1>6, <2>1 DEF RecoveryEvidenceKept
<1>14. NoTaskAfterAStop'
  <2>1. jobs[j].allow \in BOOLEAN /\ eligible(jobs[j].allow)
    BY <1>0 DEF applicable, InboxJob
  <2>2. made.after = "completed" \/ (~made.automatic /\ made.after \in {"failed", "canceled"})
    BY <1>3, <2>1 DEF eligible, inputLatest
  <2>3. ASSUME NEW q \in 1..r, runs'[q].input # 0
        PROVE  runs'[q].after = "completed" \/ (~runs'[q].automatic /\ runs'[q].after \in {"failed", "canceled"})
    <3>1. CASE q = r
      BY <1>6, <2>2, <3>1
    <3>2. CASE q # r
      BY <1>6, <2>3, <3>2 DEF InboxInv, NoTaskAfterAStop
    <3> QED
      BY <3>1, <3>2
  <2> QED
    BY <1>6, <2>3 DEF NoTaskAfterAStop
<1> QED
  BY <1>9, <1>10, <1>11, <1>12, <1>13, <1>14 DEF InboxInv

LEMMA CreateInputRunKeeps ==
  ASSUME InboxInv, NEW j \in Jobs, CreateInputRun(j)
  PROVE  InboxInv'
<1>1. PICK i : i = jobs[j].input
  OBVIOUS
<1>2. CASE applicable(i, jobs[j].allow)
  BY <1>1, <1>2, FollowupKeeps
<1>3. CASE ~applicable(i, jobs[j].allow)
  <2>1. jobs \in [Jobs -> InboxJob] /\ Len(runs) \in Nat
    BY DEF InboxInv, InboxTypes
  <2>2. jobs' = [jobs EXCEPT ![j] = Idle] /\ UNCHANGED <<inputs, runs, messages, exposed>> /\ seen' = {}
    BY <1>1, <1>3 DEF CreateInputRun, rows
  <2>3. Idle \in InboxJob /\ Idle.at = "idle" /\ Idle.run = 0
    BY DEF Idle, InboxJob
  <2>4. jobs' \in [Jobs -> InboxJob] /\ \A k \in Jobs : jobs'[k] = jobs[k] \/ (jobs'[k].at = "idle" /\ jobs'[k].run = 0)
    BY <2>1, <2>2, <2>3
  <2>5. Holders'
    <3>1. \A k \in Jobs : jobs'[k].at \in Holding => jobs'[k] = jobs[k]
      BY <2>4 DEF Holding
    <3>2. \A k \in Jobs : jobs'[k].run \in 0..Len(runs)
      BY <2>1, <2>4 DEF InboxInv, Holders
    <3> QED
      BY <2>2, <3>1, <3>2 DEF InboxInv, Holders
  <2>6. Shown'
    <3>1. \A k \in Jobs : jobs'[k].at \in {"model", "settle"} => jobs'[k] = jobs[k]
      BY <2>4
    <3> QED
      BY <2>2, <3>1 DEF InboxInv, Shown, appliedSteers, steersFor
  <2> QED
    BY <2>2, <2>4, <2>5, <2>6, JobsKeep DEF rows
<1> QED
  BY <1>2, <1>3

LEMMA InboxStep ==
  ASSUME InboxInv, InputNext
  PROVE  InboxInv'
<1>1. CASE \E j \in Jobs, kind \in {"steer", "follow_up"}, r \in 1..Len(runs), key \in InputKeys : EnqueueRunInput(j, kind, r, key)
  BY <1>1, EnqueueKeeps
<1>2. CASE \E i \in 1..Len(inputs) : WithdrawRunInput(i) \/ Age(i)
  BY <1>2, WithdrawalKeeps
<1>3. CASE \E j \in Jobs, r \in 0..Len(runs) : Command(j, r)
  BY <1>3, QueueKeeps
<1>4. ASSUME NEW j \in Jobs, dispatchFollowup(j) \/ startFollowup(j) \/ Acquire(j) \/ StreamToolRound(j) \/ StartFails(j)
      PROVE  InboxInv'
  BY <1>4, QueueKeeps
<1>5. ASSUME NEW j \in Jobs, CreateInputRun(j) PROVE InboxInv'
  BY <1>5, CreateInputRunKeeps
<1>6. ASSUME NEW j \in Jobs, CreateRun(j) PROVE InboxInv'
  BY <1>6, CreateRunKeeps
<1>7. ASSUME NEW j \in Jobs, AssembleContext(j) \/ checkSteering(j) PROVE InboxInv'
  BY <1>7, BoundaryKeeps
<1>8. CASE (\E j \in Jobs : InputSettle(j)) \/ Stop \/ InputCrash
  BY <1>8, EndKeeps
<1> QED
  BY <1>1, <1>2, <1>3, <1>4, <1>5, <1>6, <1>7, <1>8 DEF InputNext

LEMMA InboxStart == InputInit => InboxInv
<1> SUFFICES ASSUME InputInit PROVE InboxInv
  OBVIOUS
<1> DEFINE first == [status |-> "running", input |-> 0, automatic |-> FALSE, after |-> "none"]
<1>1. inputs = <<>> /\ messages = <<>> /\ seen = {} /\ exposed = {} /\ runs = <<first>>
  BY DEF InputInit
<1>2. first \in InboxRun /\ first.input = 0 /\ first.status = "running"
  BY DEF InboxRun, RunStatuses
<1> HIDE DEF first
<1>3. runs \in Seq(InboxRun) /\ Len(runs) = 1 /\ runs[1] = first
  BY <1>1, <1>2
<1>4. inputs \in Seq(InboxInput) /\ messages \in Seq(Nat) /\ Len(inputs) = 0 /\ Len(messages) = 0
  BY <1>1
<1>5. PICK j \in Jobs : jobs = [k \in Jobs |-> IF k = j THEN Job("assemble", 0, FALSE, 1) ELSE Idle]
  BY DEF InputInit
<1>6. /\ Job("assemble", 0, FALSE, 1) \in InboxJob /\ Job("assemble", 0, FALSE, 1).at = "assemble" /\ Job("assemble", 0, FALSE, 1).run = 1
      /\ Idle \in InboxJob /\ Idle.at = "idle" /\ Idle.run = 0
  BY DEF Job, Idle, InboxJob, Holding
<1>7. jobs \in [Jobs -> InboxJob] /\ \A k \in Jobs : jobs[k] = IF k = j THEN Job("assemble", 0, FALSE, 1) ELSE Idle
  BY <1>5, <1>6
<1>8. InboxTypes
  <2>1. \A i \in 1..Len(inputs) : inputs[i].run \in 1..Len(runs) /\ inputs[i].appliedTo \in 0..Len(runs)
    BY <1>4
  <2>2. seen \subseteq exposed
    BY <1>1
  <2>3. runs \in Seq(InboxRun) /\ Len(runs) > 0
    BY <1>3
  <2>4. inputs \in Seq(InboxInput) /\ messages \in Seq(Nat)
    BY <1>4
  <2>5. jobs \in [Jobs -> InboxJob]
    BY <1>7
  <2> QED
    BY <2>1, <2>2, <2>3, <2>4, <2>5 DEF InboxTypes
<1>9. Holders
  <2>1. \A k \in Jobs : jobs[k].at \in Holding => k = j
    BY <1>6, <1>7 DEF Holding
  <2>a. 0 \in 0..1 /\ 1 \in 0..1 /\ 1 \in 1..1
    OBVIOUS
  <2>2. \A k \in Jobs : jobs[k].run \in 0..1
    <3>1. ASSUME NEW k \in Jobs PROVE jobs[k].run = 0 \/ jobs[k].run = 1
      BY <1>6, <1>7
    <3> QED
      BY <2>a, <3>1
  <2>3. jobs[j].run \in 1..1
    <3>1. jobs[j].run = 1
      BY <1>6, <1>7
    <3> QED
      BY <2>a, <3>1
  <2> QED
    BY <1>3, <2>1, <2>2, <2>3 DEF Holders
<1>10. Shown
  BY <1>6, <1>7 DEF Shown
<1>11. Started /\ NoTaskAfterAStop /\ AppliedSteerIsExposed /\ RecoveryEvidenceKept /\ Sent
  BY <1>2, <1>3, <1>4 DEF Started, NoTaskAfterAStop, AppliedSteerIsExposed, RecoveryEvidenceKept, Sent
<1> QED
  BY <1>8, <1>9, <1>10, <1>11 DEF InboxInv

\* A step settles a receipt once: the two writers of a status ask for a queued, fresh one.
LEMMA ReceiptStep ==
  ASSUME InboxInv, InputNext
  PROVE  receiptsSettleOnce
<1>0. inputs \in Seq(InboxInput) /\ Len(inputs) \in Nat /\ \A i \in 1..Len(inputs) : inputs[i] \in InboxInput
  BY DEF InboxInv, InboxTypes
<1>1. SUFFICES ASSUME NEW i \in 1..Len(inputs)
               PROVE  \/ inputs'[i].status \in {inputs[i].status, "purged"}
                      \/ queuedFresh(i)
  BY DEF receiptsSettleOnce, queuedFresh
<1>2. ASSUME NEW j \in Jobs, NEW kind \in {"steer", "follow_up"}, NEW r \in 1..Len(runs), NEW key \in InputKeys, EnqueueRunInput(j, kind, r, key)
      PROVE  inputs'[i].status \in {inputs[i].status, "purged"}
  <2> DEFINE new == [kind |-> kind, run |-> r, key |-> key, status |-> "queued", age |-> "fresh", appliedTo |-> 0]
  <2>1. inputs' = purge \/ inputs' = Append(purge, new)
    BY <1>2 DEF EnqueueRunInput
  <2>2. purge \in Seq(InboxInput) /\ Len(purge) = Len(inputs) /\ purge[i].status \in {inputs[i].status, "purged"}
    BY PurgeAges DEF InboxInv
  <2> HIDE DEF new
  <2>3. i \in 1..Len(purge)
    BY <2>2
  <2>4. inputs'[i] = purge[i]
    <3>1. CASE inputs' = Append(purge, new)
      BY <2>2, <2>3, <3>1, AppendProperties
    <3> QED
      BY <2>1, <3>1
  <2> QED
    BY <2>2, <2>4
<1>3. ASSUME NEW k \in 1..Len(inputs), WithdrawRunInput(k) \/ Age(k), ~queuedFresh(i)
      PROVE  inputs'[i].status = inputs[i].status
  <2>1. CASE WithdrawRunInput(k)
    <3>1. i # k /\ inputs' = [inputs EXCEPT ![k].status = "withdrawn"]
      BY <1>3, <2>1 DEF WithdrawRunInput, withdrawable
    <3> QED
      BY <1>0, <3>1
  <2>2. CASE Age(k)
    <3>1. PICK age \in {"expired", "week"} : inputs' = [inputs EXCEPT ![k].age = age]
      BY <2>2 DEF Age
    <3>2. inputs[i] \in InboxInput
      BY <1>0
    <3> QED
      BY <1>0, <3>1, <3>2 DEF InboxInput
  <2> QED
    BY <1>3, <2>1, <2>2
<1>4. ASSUME NEW r, ConsumeSteering(r), ~queuedFresh(i)
      PROVE  inputs'[i] = inputs[i]
  BY <1>4 DEF ConsumeSteering, queuedSteers
<1>5. ASSUME NEW j \in Jobs, AssembleContext(j) \/ checkSteering(j), ~queuedFresh(i)
      PROVE  inputs'[i] = inputs[i]
  <2>1. PICK r : r = jobs[j].run
    OBVIOUS
  <2>2. ConsumeSteering(r)
    BY <1>5, <2>1 DEF AssembleContext, checkSteering
  <2> QED
    BY <1>4, <1>5, <2>2
<1>6. ASSUME NEW j \in Jobs, CreateInputRun(j), ~queuedFresh(i)
      PROVE  inputs'[i] = inputs[i]
  <2>1. CASE applicable(jobs[j].input, jobs[j].allow)
    <3>1. jobs[j].input = oldest /\ queuedFresh(oldest)
      BY <1>0, <2>1, Oldest DEF applicable
    <3>2. i # jobs[j].input /\ inputs' = [inputs EXCEPT ![jobs[j].input].status = "applied", ![jobs[j].input].appliedTo = Len(runs) + 1]
      BY <1>6, <2>1, <3>1 DEF CreateInputRun
    <3> QED
      BY <1>0, <3>2
  <2>2. CASE ~applicable(jobs[j].input, jobs[j].allow)
    BY <1>6, <2>2 DEF CreateInputRun, rows
  <2> QED
    BY <2>1, <2>2
<1>7. ASSUME NEW j \in Jobs,
             dispatchFollowup(j) \/ startFollowup(j) \/ (\E r \in 0..Len(runs) : Command(j, r)) \/ Acquire(j) \/ CreateRun(j)
             \/ StreamToolRound(j) \/ InputSettle(j) \/ StartFails(j)
      PROVE  inputs' = inputs
  BY <1>7 DEF dispatchFollowup, startFollowup, Command, Acquire, CreateRun, StreamToolRound, InputSettle, StartFails, rows
<1>8. CASE Stop \/ InputCrash
  BY <1>8 DEF Stop, InputCrash
<1> QED
  BY <1>2, <1>3, <1>5, <1>6, <1>7, <1>8 DEF InputNext

\* An accepted input takes effect once, in order, or visibly not at all (postgres_followup.go,
\* followup_dispatch.go, ConsumeSteering): for every inbox, every number of jobs and crashes.
THEOREM InputsCorrect == InputSpec => InputsTakeEffectOnce
<1>1. InputInit => InboxInv
  BY InboxStart
<1>2. InboxInv /\ [InputNext]_inputVars => InboxInv'
  <2>1. ASSUME InboxInv, UNCHANGED inputVars PROVE InboxInv'
    <3>1. UNCHANGED <<rows, exposed, seen, jobs>>
      BY <2>1 DEF inputVars, rows
    <3>2. jobs \in [Jobs -> InboxJob] /\ seen \subseteq exposed /\ Holders /\ Shown
      BY <2>1 DEF InboxInv, InboxTypes
    <3>3. Holders'
      BY <3>1, <3>2 DEF Holders, rows
    <3>4. Shown'
      BY <3>1, <3>2 DEF Shown, rows, appliedSteers, steersFor
    <3> QED
      BY <2>1, <3>1, <3>2, <3>3, <3>4, JobsKeep
  <2> QED
    BY <2>1, InboxStep
<1>3. InboxInv => OneRunPerFollowup /\ AppliedSteerIsExposed /\ RecoveryEvidenceKept /\ NoTaskAfterAStop
  BY DEF InboxInv, InboxTypes, Started, Sent, consumedOrPurged, OneRunPerFollowup
<1>4. InboxInv /\ [InputNext]_inputVars => [receiptsSettleOnce]_inputVars
  BY ReceiptStep
<1> QED
  BY <1>1, <1>2, <1>3, <1>4, PTL DEF InputSpec, InputsTakeEffectOnce

----------------------------------------------------------------------------
(* The completion gate.  Attempts are numbered from the results that count  *)
(* (Numbered), an attempt under way has judged exactly the verifiers before *)
(* the ones left (Handled), and a decision to complete is about the bound   *)
(* candidate (Decided): Approved is what it carries over to the settled Run. *)

Subjects == Nat \X Nat
gateStatuses == {"running", "completed", "failed", "failed_recoverable", "waiting_for_user"}

GateContracts ==
  [required : (SUBSET VerifierSet) \ {{}}, mode : {"all_must_pass", "any_may_pass"}, maxAttempts : 1..5,
   onExhausted : {"waiting_for_user", "fail"}]

EvidenceTyped ==
  /\ evidence \in Seq(Range(evidence))
  /\ \A i \in 1..Len(evidence) :
       /\ evidence[i].attempt \in 1..contract.maxAttempts /\ evidence[i].subject \in Subjects
       /\ evidence[i].status \in {"passed", "failed", "blocked", "stale"}

GateTypes ==
  /\ contract \in GateContracts /\ gateRun \in gateStatuses
  /\ saved \in Nat /\ receipts \in Seq(Nat) /\ grounding \in Nat
  /\ gatePc \in {"idle", "work", "saved", "gate", "stale", "verify", "settle"}
  /\ job = [reverify |-> job.reverify, subject |-> job.subject, attempt |-> job.attempt,
            left |-> job.left, decision |-> job.decision]
  /\ job.reverify \in BOOLEAN /\ job.subject \in Subjects
  /\ job.decision \in gateStatuses \cup {"none"}
  /\ EvidenceTyped

\* A result counted under an attempt, and the place of an attempt in their numbering.
result(i, a) == i \in fresh /\ evidence[i].attempt = a
follows(a) == a = 1 \/ \E j \in fresh : a <= evidence[j].attempt + 1

Consecutive == \A i \in 1..Len(evidence) : follows(evidence[i].attempt)

Numbered ==
  /\ Consecutive
  /\ gatePc \in {"stale", "verify"} =>
       /\ job.attempt \in 1..contract.maxAttempts /\ follows(job.attempt)
       /\ \A i \in 1..Len(evidence) : evidence[i].attempt <= job.attempt
  /\ gatePc = "stale" => \A i \in fresh : evidence[i].attempt < job.attempt

\* One result of a verifier in an attempt, and one subject.
SingleResult ==
  \A i, j \in fresh : evidence[i].attempt = evidence[j].attempt =>
    /\ evidence[i].subject = evidence[j].subject
    /\ evidence[i].verifier = evidence[j].verifier => i = j

Handled ==
  gatePc = "verify" =>
    \E k \in 0..Len(Verifiers) :
      /\ job.left = SubSeq(Verifiers, k + 1, Len(Verifiers))
      /\ \A i \in fresh : result(i, job.attempt) =>
           evidence[i].subject = job.subject /\ \E h \in 1..k : evidence[i].verifier = Verifiers[h]
      /\ k > 0 => \E i \in fresh : result(i, job.attempt)

\* What the gate is about to check, or has checked, is the bound candidate.
CandidateBound ==
  /\ gatePc = "gate" => receipts # <<>> /\ (~job.reverify => Last(receipts) = saved)
  /\ gatePc \in {"stale", "verify"} => receipts # <<>> /\ job.subject[1] = Last(receipts)

Approved ==
  /\ verification = "passed" /\ receipts # <<>>
  /\ \E a \in 1..contract.maxAttempts :
       /\ \A i \in 1..Len(evidence) : evidence[i].attempt <= a
       /\ \E i \in fresh : result(i, a)
       /\ gatePasses(a)
       /\ \A i \in fresh : result(i, a) => evidence[i].subject[1] = Last(receipts)

Decided ==
  /\ gateRun = "completed" => gatePc = "idle" /\ Approved
  /\ gatePc = "settle" /\ job.decision = "completed" => Approved
  /\ gatePc = "settle" => job.decision \in gateStatuses

GateInv == GateTypes /\ Numbered /\ SingleResult /\ Handled /\ CandidateBound /\ Decided

LEMMA Highest ==
  ASSUME NEW N \in Nat, NEW S \in SUBSET (0..N), S # {}
  PROVE  Max(S) \in S /\ \A k \in S : k <= Max(S)
<1> DEFINE T == {n \in Nat : \E x \in S : n = N - x}
<1>1. T \in SUBSET Nat /\ T # {}
  <2>1. PICK x \in S : TRUE
    OBVIOUS
  <2>2. N - x \in T
    BY <2>1, SMT
  <2> QED
    BY <2>2
<1> HIDE DEF T
<1>2. PICK t \in T : \A y \in T : t <= y
  BY <1>1, Smallest
<1>3. PICK x \in S : t = N - x
  BY DEF T
<1>4. \A y \in S : N - y \in T
  BY SMT DEF T
<1>5. \A y \in S : x >= y
  BY <1>2, <1>3, <1>4, SMT
<1>6. \E m \in S : \A y \in S : m >= y
  BY <1>5
<1>7. Max(S) \in S /\ \A y \in S : Max(S) >= y
  BY <1>6 DEF Max
<1> QED
  BY <1>7

\* The attempts counted so far, and the next one.
LEMMA Counting ==
  ASSUME EvidenceTyped, contract.maxAttempts \in Nat
  PROVE  /\ lastAttempt \in Nat /\ nextAttempt = lastAttempt + 1
         /\ \A i \in fresh : evidence[i].attempt <= lastAttempt
         /\ lastAttempt = 0 \/ \E i \in fresh : evidence[i].attempt = lastAttempt
<1> DEFINE S == {0} \cup {evidence[i].attempt : i \in fresh}
<1>1. \A i \in fresh : i \in 1..Len(evidence) /\ evidence[i].attempt \in 1..contract.maxAttempts
  BY DEF fresh, EvidenceTyped
<1>2. S \in SUBSET (0..contract.maxAttempts) /\ S # {} /\ \A i \in fresh : evidence[i].attempt \in S
  BY <1>1
<1>3. lastAttempt = Max(S) /\ nextAttempt = 1 + Max(S)
  BY DEF lastAttempt, nextAttempt
<1>4. Max(S) \in S /\ \A k \in S : k <= Max(S)
  BY <1>2, Highest
<1>5. Max(S) \in Nat
  BY <1>2, <1>4
<1>6. Max(S) = 0 \/ \E i \in fresh : evidence[i].attempt = Max(S)
  BY <1>4
<1> HIDE DEF S
<1>7. \A i \in fresh : evidence[i].attempt <= Max(S)
  BY <1>2, <1>4
<1>8. lastAttempt \in Nat /\ nextAttempt = lastAttempt + 1
  BY <1>3, <1>5
<1> QED
  BY <1>3, <1>6, <1>7, <1>8

LEMMA SequenceIsFunction == \A T, s : s \in Seq(T) => \E n \in Nat : s \in [1..n -> T]
<1> SUFFICES ASSUME NEW T, NEW s \in Seq(T)
             PROVE  \E n \in Nat : s \in [1..n -> T]
  OBVIOUS
<1>1. Len(s) \in Nat /\ s \in [1..Len(s) -> T]
  OBVIOUS
<1> QED
  BY <1>1

LEMMA Recorded ==
  ASSUME EvidenceTyped, NEW r, evidence' = Append(evidence, r)
  PROVE  /\ Len(evidence) \in Nat /\ Len(evidence)' = Len(evidence) + 1
         /\ evidence' \in Seq(Range(evidence'))
         /\ \A i \in 1..Len(evidence) : evidence'[i] = evidence[i]
         /\ evidence'[Len(evidence) + 1] = r
         /\ \A i \in 1..Len(evidence') : i \in 1..Len(evidence) \/ i = Len(evidence) + 1
         /\ fresh' = fresh \cup (IF r.status = "stale" THEN {} ELSE {Len(evidence) + 1})
<1>1. PICK T : T = Range(evidence) \cup {r}
  OBVIOUS
<1>2. evidence \in Seq(T) /\ r \in T
  <2>1. evidence \in Seq(Range(evidence)) /\ Range(evidence) \subseteq T
    BY <1>1 DEF EvidenceTyped
  <2> HIDE DEF Range
  <2> QED
    BY <1>1, <2>1
<1>3. /\ evidence' \in Seq(T) /\ Len(evidence) \in Nat /\ Len(evidence') = Len(evidence) + 1
      /\ \A i \in 1..Len(evidence) : evidence'[i] = evidence[i]
      /\ evidence'[Len(evidence) + 1] = r
  BY <1>2
<1>4. evidence' \in Seq(Range(evidence'))
  <2>1. DOMAIN evidence' = 1..Len(evidence') /\ Len(evidence') \in Nat
    BY <1>3
  <2>2. \A i \in 1..Len(evidence') : evidence'[i] \in Range(evidence')
    BY <2>1 DEF Range
  <2>3. PICK n \in Nat : evidence' \in [1..n -> T]
    BY <1>3, SequenceIsFunction
  <2>4. n = Len(evidence')
    BY <1>3, <2>3
  <2>5. evidence' \in [1..n -> Range(evidence')]
    BY <2>2, <2>3, <2>4
  <2> QED
    BY <2>5, SeqDef
<1>5. \A i \in 1..Len(evidence') : i \in 1..Len(evidence) \/ i = Len(evidence) + 1
  BY <1>3
<1>6. fresh' = fresh \cup (IF r.status = "stale" THEN {} ELSE {Len(evidence) + 1})
  <2>1. \A i : i \in fresh' <=> i \in 1..Len(evidence') /\ evidence'[i].status # "stale"
    BY DEF fresh
  <2>2. \A i : i \in fresh <=> i \in 1..Len(evidence) /\ evidence[i].status # "stale"
    BY DEF fresh
  <2>3. Len(evidence) + 1 \in 1..Len(evidence') /\ \A i \in 1..Len(evidence) : i \in 1..Len(evidence')
    BY <1>3
  <2> QED
    BY <1>3, <1>5, <2>1, <2>2, <2>3
<1> QED
  BY <1>3, <1>4, <1>5, <1>6

\* A step that leaves the evidence alone leaves its numbering alone.
LEMMA EvidenceKept ==
  ASSUME GateInv, UNCHANGED <<evidence, contract>>
  PROVE  /\ EvidenceTyped' /\ SingleResult' /\ contract' \in GateContracts
         /\ Consecutive'
<1>1. EvidenceTyped' /\ contract' \in GateContracts
  BY DEF GateInv, GateTypes, EvidenceTyped
<1>2. SingleResult'
  BY DEF GateInv, SingleResult, fresh
<1>3. Consecutive'
  <2>1. fresh' = fresh
    BY DEF fresh
  <2> QED
    BY <2>1 DEF GateInv, Numbered, Consecutive, follows
<1> QED
  BY <1>1, <1>2, <1>3

LEMMA ApprovalKept ==
  ASSUME Approved, UNCHANGED <<evidence, contract, verification, receipts>>
  PROVE  Approved'
<1>1. fresh' = fresh
  BY DEF fresh
<1>2. \A v, a : resultOf(v, a)' = resultOf(v, a)
  BY <1>1, Zenon DEF resultOf
<1>3. \A s, a : requiredWith(s, a)' = requiredWith(s, a)
  BY <1>2, Zenon DEF requiredWith
<1>4. \A a : gatePasses(a)' <=> gatePasses(a)
  BY <1>3, Zenon DEF gatePasses
<1>5. PICK a \in 1..contract.maxAttempts :
       /\ \A i \in 1..Len(evidence) : evidence[i].attempt <= a
       /\ \E i \in fresh : result(i, a)
       /\ gatePasses(a)
       /\ \A i \in fresh : result(i, a) => evidence[i].subject[1] = Last(receipts)
  BY DEF Approved
<1>6. /\ a \in 1..contract'.maxAttempts
      /\ \A i \in 1..Len(evidence') : evidence'[i].attempt <= a
      /\ \E i \in fresh' : result(i, a)'
      /\ gatePasses(a)'
      /\ \A i \in fresh' : result(i, a)' => evidence'[i].subject[1] = Last(receipts')
  BY <1>1, <1>4, <1>5 DEF result
<1> QED
  BY <1>6 DEF Approved

LEMMA NoJobTyped ==
  /\ NoJob = [reverify |-> NoJob.reverify, subject |-> NoJob.subject, attempt |-> NoJob.attempt,
              left |-> NoJob.left, decision |-> NoJob.decision]
  /\ NoJob.reverify = FALSE /\ NoJob.subject \in Subjects /\ NoJob.decision = "none"
BY DEF NoJob, Subjects

LEMMA GateBegins == GateInit => GateInv
<1> SUFFICES ASSUME GateInit
             PROVE  GateInv
  OBVIOUS
<1>1. contract \in GateContracts
  <2>1. PICK c \in Requests : acceptedContract(c) /\ contract = FreezeContract(c)
    BY DEF GateInit
  <2>2. /\ c.required \in (SUBSET VerifierSet) \ {{}} /\ c.mode \in {"", "any_may_pass"}
        /\ c.onExhausted \in {"", "fail"} /\ FreezeContract(c).maxAttempts \in 1..5
    BY <2>1 DEF Requests, acceptedContract
  <2>3. c = [required |-> c.required, mode |-> c.mode, maxAttempts |-> c.maxAttempts, onExhausted |-> c.onExhausted]
    BY <2>1 DEF Requests
  <2>4. contract = [required |-> c.required, mode |-> IF c.mode = "" THEN "all_must_pass" ELSE c.mode,
                    maxAttempts |-> IF c.maxAttempts = 0 THEN 2 ELSE c.maxAttempts,
                    onExhausted |-> IF c.onExhausted = "" THEN "waiting_for_user" ELSE c.onExhausted]
    BY <2>1, <2>3 DEF FreezeContract
  <2>5. contract.maxAttempts \in 1..5
    BY <2>1, <2>2
  <2> QED
    BY <2>2, <2>4, <2>5 DEF GateContracts
<1>2. evidence = <<>> /\ Len(evidence) = 0 /\ fresh = {} /\ evidence \in Seq(Range(evidence))
  BY DEF GateInit, fresh
<1>3. EvidenceTyped
  BY <1>2 DEF EvidenceTyped
<1>4. GateTypes
  <2>1. job = NoJob /\ gateRun = "running" /\ saved = 0 /\ receipts = <<>> /\ grounding = 1 /\ gatePc = "work"
    BY DEF GateInit
  <2>2. job = [reverify |-> job.reverify, subject |-> job.subject, attempt |-> job.attempt,
               left |-> job.left, decision |-> job.decision]
    BY <2>1, NoJobTyped
  <2>3. job.reverify \in BOOLEAN /\ job.subject \in Subjects /\ job.decision \in gateStatuses \cup {"none"}
    BY <2>1, NoJobTyped
  <2> QED
    BY <1>1, <1>3, <2>1, <2>2, <2>3 DEF GateTypes, gateStatuses
<1>5. Numbered /\ SingleResult
  <2>1. Consecutive
    BY <1>2 DEF Consecutive
  <2>2. Numbered
    BY <2>1 DEF GateInit, Numbered
  <2>3. SingleResult
    BY <1>2 DEF SingleResult
  <2> QED
    BY <2>2, <2>3
<1>6. Handled /\ CandidateBound /\ Decided
  BY DEF GateInit, Handled, CandidateBound, Decided
<1> QED
  BY <1>4, <1>5, <1>6 DEF GateInv

\* A step that leaves the evidence alone and ends no verification.
LEMMA GateQuiet ==
  ASSUME GateInv, UNCHANGED <<evidence, contract>>,
         gateRun' \in gateStatuses, saved' \in Nat, receipts' \in Seq(Nat), grounding' \in Nat,
         job' = NoJob \/ job' = job \/ job' = [NoJob EXCEPT !.reverify = TRUE],
         gatePc' \in {"idle", "work", "saved", "gate"}, gateRun' # "completed",
         gatePc' = "gate" => receipts' # <<>> /\ (~job'.reverify => Last(receipts') = saved')
  PROVE  GateInv'
<1>1. EvidenceTyped' /\ SingleResult' /\ contract' \in GateContracts /\ Consecutive'
  BY EvidenceKept
<1>2. /\ job' = [reverify |-> job'.reverify, subject |-> job'.subject, attempt |-> job'.attempt,
                 left |-> job'.left, decision |-> job'.decision]
      /\ job'.reverify \in BOOLEAN /\ job'.subject \in Subjects /\ job'.decision \in gateStatuses \cup {"none"}
  <2>1. CASE job' = NoJob
    BY <2>1, NoJobTyped
  <2>2. CASE job' = job
    BY <2>2 DEF GateInv, GateTypes
  <2>3. CASE job' = [NoJob EXCEPT !.reverify = TRUE]
    BY <2>3 DEF NoJob, Subjects
  <2> QED
    BY <2>1, <2>2, <2>3
<1>3. GateTypes'
  BY <1>1, <1>2 DEF GateTypes
<1>4. Numbered' /\ Handled' /\ CandidateBound' /\ Decided'
  <2>1. Numbered'
    BY <1>1 DEF Numbered
  <2>2. Handled'
    BY DEF Handled
  <2>3. CandidateBound' /\ Decided'
    BY DEF CandidateBound, Decided
  <2> QED
    BY <2>1, <2>2, <2>3
<1> QED
  BY <1>1, <1>3, <1>4 DEF GateInv

\* The attempt that begins is numbered after every result, and about the bound candidate.
LEMMA AttemptBegins ==
  ASSUME GateInv, Verify
  PROVE  GateInv'
<1>1. /\ gatePc = "gate" /\ gateRun # "completed" /\ contract.maxAttempts \in Nat /\ EvidenceTyped
      /\ UNCHANGED <<contract, gateRun, saved, receipts, evidence, grounding>>
  BY DEF Verify, GateInv, GateTypes, GateContracts, Decided
<1>2. EvidenceTyped' /\ SingleResult' /\ contract' \in GateContracts /\ Consecutive'
  BY <1>1, EvidenceKept
<1>3. PICK subject : subject = verificationSubjectForRun(IF job.reverify THEN boundCandidate ELSE saved)
  OBVIOUS
<1>4. receipts # <<>> /\ subject \in Subjects /\ subject[1] = Last(receipts)
  <2>1. receipts # <<>> /\ (~job.reverify => Last(receipts) = saved) /\ receipts \in Seq(Nat) /\ grounding \in Nat
    BY <1>1 DEF GateInv, CandidateBound, GateTypes
  <2>2. Last(receipts) \in Nat /\ boundCandidate = Last(receipts)
    BY <2>1 DEF Last, boundCandidate
  <2> HIDE DEF boundCandidate
  <2>3. subject = <<Last(receipts), grounding>>
    BY <1>3, <2>1, <2>2 DEF verificationSubjectForRun
  <2> QED
    BY <2>1, <2>2, <2>3 DEF Subjects
<1>5. /\ job = [reverify |-> job.reverify, subject |-> job.subject, attempt |-> job.attempt,
                left |-> job.left, decision |-> job.decision]
      /\ job.reverify \in BOOLEAN /\ job.decision \in gateStatuses \cup {"none"}
  BY DEF GateInv, GateTypes
<1>6. CASE job' = [job EXCEPT !.subject = subject, !.decision = exhaustedDecision] /\ gatePc' = "settle"
  <2>1. exhaustedDecision \in gateStatuses \ {"completed"}
    BY DEF exhaustedDecision, gateStatuses
  <2>2. job' = [reverify |-> job.reverify, subject |-> subject, attempt |-> job.attempt,
                left |-> job.left, decision |-> exhaustedDecision]
    BY <1>5, <1>6
  <2> HIDE DEF exhaustedDecision
  <2>3. GateTypes'
    BY <1>1, <1>2, <1>4, <1>5, <1>6, <2>1, <2>2 DEF GateInv, GateTypes
  <2>4. Numbered' /\ Handled' /\ CandidateBound'
    BY <1>2, <1>6 DEF Numbered, Handled, CandidateBound
  <2>5. Decided'
    BY <1>1, <1>6, <2>1, <2>2 DEF Decided
  <2> QED
    BY <1>2, <2>3, <2>4, <2>5 DEF GateInv
<1>7. ASSUME NEW left, nextAttempt <= contract.maxAttempts, gatePc' = "stale",
             job' = [job EXCEPT !.subject = subject, !.attempt = nextAttempt, !.left = left]
      PROVE  GateInv'
  <2>1. PICK a : a = nextAttempt
    OBVIOUS
  <2>2. /\ a \in 1..contract.maxAttempts /\ a \in Nat
        /\ \A i \in fresh : evidence[i].attempt \in Nat /\ evidence[i].attempt < a
        /\ a = 1 \/ \E i \in fresh : a = evidence[i].attempt + 1
    <3>1. \A i \in fresh : evidence[i].attempt \in Nat
      BY <1>1 DEF EvidenceTyped, fresh
    <3> QED
      BY <1>1, <1>7, <2>1, <3>1, Counting
  <2>3. job' = [reverify |-> job.reverify, subject |-> subject, attempt |-> a, left |-> left, decision |-> job.decision]
    BY <1>5, <1>7, <2>1
  <2>4. GateTypes'
    BY <1>1, <1>2, <1>4, <1>5, <1>7, <2>3 DEF GateInv, GateTypes
  <2>5. fresh' = fresh
    BY <1>1 DEF fresh
  <2>6. \A i \in 1..Len(evidence) : evidence[i].attempt <= a
    <3> SUFFICES ASSUME NEW i \in 1..Len(evidence)
                 PROVE  evidence[i].attempt <= a
      OBVIOUS
    <3>1. evidence[i].attempt \in Nat
      BY <1>1 DEF EvidenceTyped
    <3>2. evidence[i].attempt = 1 \/ \E j \in fresh : evidence[i].attempt <= evidence[j].attempt + 1
      BY DEF GateInv, Numbered, Consecutive, follows
    <3> QED
      BY <2>2, <3>1, <3>2
  <2>7. a = 1 \/ \E j \in fresh' : a <= evidence'[j].attempt + 1
    BY <1>1, <2>2, <2>5
  <2>8. job'.attempt = a /\ job'.decision = job.decision /\ job'.subject = subject
    BY <2>3
  <2>9. follows(job.attempt)'
    BY <2>7, <2>8 DEF follows
  <2>10. Numbered'
    BY <1>1, <1>2, <1>7, <2>2, <2>5, <2>6, <2>8, <2>9 DEF Numbered
  <2>11. Handled' /\ CandidateBound' /\ Decided'
    BY <1>1, <1>4, <1>7, <2>8 DEF Handled, CandidateBound, Decided
  <2> QED
    BY <1>2, <2>4, <2>10, <2>11 DEF GateInv
<1> QED
  BY <1>3, <1>6, <1>7 DEF Verify

\* A marker is numbered with the attempt that makes it, and no result.
LEMMA MarkerKeeps ==
  ASSUME GateInv, markStaleEvidence
  PROVE  GateInv'
<1>1. /\ gatePc = "stale" /\ gateRun # "completed" /\ receipts # <<>> /\ job.subject[1] = Last(receipts)
      /\ EvidenceTyped /\ job.attempt \in 1..contract.maxAttempts /\ contract.maxAttempts \in Nat
      /\ UNCHANGED <<contract, gateRun, verification, saved, receipts, grounding>>
  BY DEF markStaleEvidence, GateInv, GateTypes, GateContracts, Decided, CandidateBound, Numbered
<1>2. /\ job = [reverify |-> job.reverify, subject |-> job.subject, attempt |-> job.attempt,
                left |-> job.left, decision |-> job.decision]
      /\ job.reverify \in BOOLEAN /\ job.decision \in gateStatuses \cup {"none"} /\ job.subject \in Subjects
  BY DEF GateInv, GateTypes
<1>3. \A l : job' = [job EXCEPT !.left = l] =>
        /\ job'.attempt = job.attempt /\ job'.subject = job.subject /\ job'.decision = job.decision /\ job'.left = l
        /\ job'.reverify = job.reverify
        /\ job' = [reverify |-> job'.reverify, subject |-> job'.subject, attempt |-> job'.attempt,
                   left |-> job'.left, decision |-> job'.decision]
  BY <1>2
<1>4. CASE gatePc' = "verify" /\ job' = [job EXCEPT !.left = Verifiers] /\ UNCHANGED evidence
  <2>1. EvidenceTyped' /\ SingleResult' /\ contract' \in GateContracts /\ Consecutive' /\ fresh' = fresh
    BY <1>1, <1>4, EvidenceKept DEF fresh
  <2>2. GateTypes'
    BY <1>1, <1>2, <1>3, <1>4, <2>1 DEF GateInv, GateTypes
  <2>3. Numbered'
    <3>1. follows(job.attempt)'
      BY <1>1, <1>3, <1>4, <2>1 DEF GateInv, Numbered, follows
    <3> QED
      BY <1>1, <1>3, <1>4, <2>1, <3>1 DEF GateInv, Numbered
  <2>4. Handled'
    <3>1. job'.left = SubSeq(Verifiers, 0 + 1, Len(Verifiers)) /\ 0 \in 0..Len(Verifiers)
      BY <1>3, <1>4, VerifiersAssumption
    <3>2. \A i \in fresh : ~result(i, job.attempt)
      BY <1>1 DEF GateInv, Numbered, result, EvidenceTyped, fresh
    <3>3. \A i \in fresh' : ~result(i, job.attempt)'
      BY <1>1, <1>3, <1>4, <2>1, <3>2 DEF result
    <3> QED
      BY <3>1, <3>3 DEF Handled
  <2>5. CandidateBound' /\ Decided'
    BY <1>1, <1>3, <1>4 DEF CandidateBound, Decided
  <2> QED
    BY <2>1, <2>2, <2>3, <2>4, <2>5 DEF GateInv
<1>5. ASSUME NEW l, NEW r, job' = [job EXCEPT !.left = l], gatePc' = "stale", evidence' = Append(evidence, r),
             r.status = "stale", r.attempt = job.attempt, r.subject = job.subject
      PROVE  GateInv'
  <2>1. /\ Len(evidence) \in Nat /\ Len(evidence') = Len(evidence) + 1 /\ evidence' \in Seq(Range(evidence'))
        /\ \A i \in 1..Len(evidence) : evidence'[i] = evidence[i]
        /\ evidence'[Len(evidence) + 1] = r /\ fresh' = fresh
        /\ \A i \in 1..Len(evidence') : i \in 1..Len(evidence) \/ i = Len(evidence) + 1
    BY <1>1, <1>5, Recorded
  <2>2. fresh \subseteq 1..Len(evidence)
    BY DEF fresh
  <2>3. EvidenceTyped'
    BY <1>1, <1>2, <1>5, <2>1 DEF EvidenceTyped
  <2>4. GateTypes'
    BY <1>1, <1>2, <1>3, <1>5, <2>3 DEF GateInv, GateTypes
  <2>5. \A i \in fresh : evidence'[i] = evidence[i]
    BY <2>1, <2>2
  <2>6. \A a : follows(a)' <=> follows(a)
    BY <2>1, <2>5 DEF follows
  <2>7. Consecutive'
    <3>1. \A i \in 1..Len(evidence') : follows(evidence'[i].attempt)
      BY <1>1, <1>5, <2>1 DEF GateInv, Numbered, Consecutive
    <3>2. \A i \in 1..Len(evidence') :
            evidence'[i].attempt = 1 \/ \E j \in fresh' : evidence'[i].attempt <= evidence'[j].attempt + 1
      BY <2>1, <2>5, <3>1 DEF follows
    <3> QED
      BY <3>2 DEF Consecutive, follows
  <2>8. Numbered'
    <3>1. follows(job.attempt)'
      BY <1>1, <1>3, <1>5, <2>1, <2>5 DEF GateInv, Numbered, follows
    <3>2. \A i \in 1..Len(evidence') : evidence'[i].attempt <= job.attempt
      BY <1>1, <1>5, <2>1 DEF GateInv, Numbered
    <3>3. \A i \in fresh : evidence'[i].attempt < job.attempt
      BY <1>1, <2>5 DEF GateInv, Numbered
    <3> QED
      BY <1>1, <1>3, <1>5, <2>1, <2>7, <3>1, <3>2, <3>3 DEF Numbered
  <2>9. SingleResult'
    BY <2>1, <2>5 DEF GateInv, SingleResult
  <2>10. Handled' /\ CandidateBound' /\ Decided'
    BY <1>1, <1>3, <1>5 DEF Handled, CandidateBound, Decided
  <2> QED
    BY <2>4, <2>8, <2>9, <2>10 DEF GateInv
<1>6. CASE /\ job' = [job EXCEPT !.left = Tail(@)] /\ UNCHANGED gatePc
           /\ evidence' = Append(evidence, record(evidence[Head(job.left)].verifier, "stale", Head(job.left)))
  <2>1. PICK r : r = record(evidence[Head(job.left)].verifier, "stale", Head(job.left))
    OBVIOUS
  <2>2. r.status = "stale" /\ r.attempt = job.attempt /\ r.subject = job.subject
    BY <2>1 DEF record
  <2> QED
    BY <1>1, <1>5, <1>6, <2>1, <2>2
<1> QED
  BY <1>4, <1>6 DEF markStaleEvidence

\* A result is its verifier's only one of the attempt: the verifiers left have none.
LEMMA ResultKeeps ==
  ASSUME GateInv, runVerifier
  PROVE  GateInv'
<1> USE VerifiersAssumption
<1>1. /\ gatePc = "verify" /\ gatePc' = "verify" /\ gateRun # "completed" /\ receipts # <<>> /\ job.subject[1] = Last(receipts)
      /\ EvidenceTyped /\ job.attempt \in 1..contract.maxAttempts /\ contract.maxAttempts \in Nat
      /\ UNCHANGED <<contract, gateRun, verification, saved, receipts, grounding>>
      /\ job.left # <<>> /\ job' = [job EXCEPT !.left = Tail(@)]
  BY DEF runVerifier, GateInv, GateTypes, GateContracts, Decided, CandidateBound, Numbered
<1>2. /\ job = [reverify |-> job.reverify, subject |-> job.subject, attempt |-> job.attempt,
                left |-> job.left, decision |-> job.decision]
      /\ job.reverify \in BOOLEAN /\ job.decision \in gateStatuses \cup {"none"} /\ job.subject \in Subjects
  BY DEF GateInv, GateTypes
<1>3. /\ job'.attempt = job.attempt /\ job'.subject = job.subject /\ job'.decision = job.decision
      /\ job'.left = Tail(job.left) /\ job'.reverify = job.reverify
      /\ job' = [reverify |-> job'.reverify, subject |-> job'.subject, attempt |-> job'.attempt,
                 left |-> job'.left, decision |-> job'.decision]
  BY <1>1, <1>2
<1>4. PICK k \in 0..Len(Verifiers) :
        /\ job.left = SubSeq(Verifiers, k + 1, Len(Verifiers))
        /\ \A i \in fresh : result(i, job.attempt) =>
             evidence[i].subject = job.subject /\ \E h \in 1..k : evidence[i].verifier = Verifiers[h]
        /\ k > 0 => \E i \in fresh : result(i, job.attempt)
  BY <1>1 DEF GateInv, Handled
<1>5. /\ Len(Verifiers) \in Nat /\ k + 1 \in 1..Len(Verifiers) /\ Head(job.left) = Verifiers[k + 1]
      /\ Tail(job.left) = SubSeq(Verifiers, (k + 1) + 1, Len(Verifiers))
  <2>1. Len(Verifiers) \in Nat /\ Verifiers \in Seq(Range(Verifiers))
    OBVIOUS
  <2> HIDE DEF Range
  <2>2. k # Len(Verifiers)
    <3>1. CASE k = Len(Verifiers)
      <4>1. job.left = <<>>
        BY <1>4, <2>1, <3>1
      <4> QED
        BY <1>1, <4>1
    <3> QED
      BY <3>1
  <2>3. k + 1 \in 1..Len(Verifiers)
    BY <2>1, <2>2
  <2>4. Head(SubSeq(Verifiers, k + 1, Len(Verifiers))) = Verifiers[k + 1]
    BY <2>1, <2>3
  <2>5. Tail(SubSeq(Verifiers, k + 1, Len(Verifiers))) = SubSeq(Verifiers, (k + 1) + 1, Len(Verifiers))
    BY <2>1, <2>3
  <2> QED
    BY <1>4, <2>1, <2>3, <2>4, <2>5
<1>6. PICK status \in {"passed", "failed", "blocked"} : evidence' = Append(evidence, record(Head(job.left), status, 0))
  BY DEF runVerifier
<1>7. PICK r : r = record(Head(job.left), status, 0)
  OBVIOUS
<1>8. r.status = status /\ r.attempt = job.attempt /\ r.subject = job.subject /\ r.verifier = Verifiers[k + 1]
  BY <1>5, <1>7 DEF record
<1>9. PICK n \in Nat : n = Len(evidence) + 1
  BY <1>1, <1>6, Recorded
<1>10. /\ Len(evidence) \in Nat /\ Len(evidence') = n /\ evidence' \in Seq(Range(evidence'))
       /\ \A i \in 1..Len(evidence) : evidence'[i] = evidence[i]
       /\ evidence'[n] = r /\ fresh' = fresh \cup {n}
       /\ \A i \in 1..Len(evidence') : i \in 1..Len(evidence) \/ i = n
  <2>1. r.status # "stale" /\ evidence' = Append(evidence, r)
    BY <1>6, <1>7, <1>8
  <2> QED
    BY <1>1, <1>9, <2>1, Recorded
<1>11. fresh \subseteq 1..Len(evidence) /\ n \notin fresh
  BY <1>9, <1>10 DEF fresh
<1>12. EvidenceTyped'
  <2>1. \A i \in 1..Len(evidence') :
          /\ evidence'[i].attempt \in 1..contract.maxAttempts /\ evidence'[i].subject \in Subjects
          /\ evidence'[i].status \in {"passed", "failed", "blocked", "stale"}
    BY <1>1, <1>2, <1>8, <1>10 DEF EvidenceTyped
  <2> QED
    BY <1>1, <1>10, <2>1 DEF EvidenceTyped
<1>13. GateTypes'
  BY <1>1, <1>2, <1>3, <1>12 DEF GateInv, GateTypes
<1>14. \A i \in fresh : evidence'[i] = evidence[i]
  BY <1>10, <1>11
<1>15. \A i \in fresh : evidence[i].attempt \in Nat
  BY <1>1, <1>11 DEF EvidenceTyped
<1>16. Consecutive'
  <2>1. \A i \in 1..Len(evidence) : evidence[i].attempt = 1 \/ \E j \in fresh : evidence[i].attempt <= evidence[j].attempt + 1
    BY DEF GateInv, Numbered, Consecutive, follows
  <2>2. \A i \in 1..Len(evidence) : evidence'[i].attempt = 1 \/ \E j \in fresh' : evidence'[i].attempt <= evidence'[j].attempt + 1
    BY <1>10, <1>14, <2>1
  <2>3. n \in fresh' /\ evidence'[n].attempt <= evidence'[n].attempt + 1
    BY <1>1, <1>8, <1>10
  <2>4. \A i \in 1..Len(evidence') : evidence'[i].attempt = 1 \/ \E j \in fresh' : evidence'[i].attempt <= evidence'[j].attempt + 1
    BY <1>10, <2>2, <2>3
  <2> QED
    BY <2>4 DEF Consecutive, follows
<1>17. Numbered'
  <2>1. n \in fresh' /\ job.attempt <= evidence'[n].attempt + 1
    BY <1>1, <1>8, <1>10
  <2>2. follows(job.attempt)'
    BY <1>3, <2>1 DEF follows
  <2>3. \A i \in 1..Len(evidence') : evidence'[i].attempt <= job.attempt
    BY <1>1, <1>8, <1>10 DEF GateInv, Numbered
  <2> QED
    BY <1>1, <1>3, <1>16, <2>2, <2>3 DEF Numbered
<1>18. \A i \in fresh : evidence[i].attempt = job.attempt =>
         evidence[i].subject = job.subject /\ evidence[i].verifier # Verifiers[k + 1]
  <2> SUFFICES ASSUME NEW i \in fresh, evidence[i].attempt = job.attempt
               PROVE  evidence[i].subject = job.subject /\ evidence[i].verifier # Verifiers[k + 1]
    OBVIOUS
  <2>1. evidence[i].subject = job.subject /\ \E h \in 1..k : evidence[i].verifier = Verifiers[h]
    BY <1>4 DEF result
  <2>2. PICK h \in 1..k : evidence[i].verifier = Verifiers[h]
    BY <2>1
  <2>3. h # k + 1 /\ h \in DOMAIN Verifiers /\ k + 1 \in DOMAIN Verifiers
    BY <1>5
  <2>4. Verifiers[h] # Verifiers[k + 1]
    BY <2>3 DEF IsInjective
  <2> QED
    BY <2>1, <2>2, <2>4
<1>19. SingleResult'
  <2> SUFFICES ASSUME NEW i \in fresh', NEW j \in fresh', evidence'[i].attempt = evidence'[j].attempt
               PROVE  /\ evidence'[i].subject = evidence'[j].subject
                      /\ evidence'[i].verifier = evidence'[j].verifier => i = j
    BY DEF SingleResult
  <2>1. CASE i \in fresh /\ j \in fresh
    BY <1>14, <2>1 DEF GateInv, SingleResult
  <2>2. CASE i = n /\ j = n
    BY <2>2
  <2>3. CASE i = n /\ j \in fresh
    BY <1>8, <1>10, <1>14, <1>18, <2>3
  <2>4. CASE i \in fresh /\ j = n
    BY <1>8, <1>10, <1>14, <1>18, <2>4
  <2> QED
    BY <1>10, <2>1, <2>2, <2>3, <2>4
<1>20. Handled'
  <2>1. \A i \in fresh' : evidence'[i].attempt = job.attempt =>
          evidence'[i].subject = job.subject /\ \E h \in 1..(k + 1) : evidence'[i].verifier = Verifiers[h]
    <3> SUFFICES ASSUME NEW i \in fresh', evidence'[i].attempt = job.attempt
                 PROVE  evidence'[i].subject = job.subject /\ \E h \in 1..(k + 1) : evidence'[i].verifier = Verifiers[h]
      OBVIOUS
    <3>1. CASE i = n
      <4>1. k + 1 \in 1..(k + 1)
        BY <1>5
      <4> QED
        BY <1>8, <1>10, <3>1, <4>1
    <3>2. CASE i \in fresh
      <4>1. evidence[i].subject = job.subject /\ \E h \in 1..k : evidence[i].verifier = Verifiers[h]
        BY <1>4, <1>14, <3>2 DEF result
      <4>2. \A h \in 1..k : h \in 1..(k + 1)
        BY <1>5
      <4> QED
        BY <1>14, <3>2, <4>1, <4>2
    <3> QED
      BY <1>10, <3>1, <3>2
  <2>2. n \in fresh' /\ evidence'[n].attempt = job.attempt
    BY <1>8, <1>10
  <2>3. k + 1 \in 0..Len(Verifiers) /\ job'.left = SubSeq(Verifiers, (k + 1) + 1, Len(Verifiers))
    BY <1>3, <1>5
  <2> QED
    BY <1>3, <2>1, <2>2, <2>3 DEF Handled, result
<1>21. CandidateBound' /\ Decided'
  BY <1>1, <1>3 DEF CandidateBound, Decided
<1> QED
  BY <1>13, <1>17, <1>19, <1>20, <1>21 DEF GateInv

\* The decision to complete carries everything the settled Run must show.
LEMMA DecisionKeeps ==
  ASSUME GateInv, evaluateGate
  PROVE  GateInv'
<1> USE VerifiersAssumption
<1>1. /\ gatePc = "verify" /\ gatePc' = "settle" /\ gateRun # "completed" /\ receipts # <<>> /\ job.subject[1] = Last(receipts)
      /\ EvidenceTyped /\ job.attempt \in 1..contract.maxAttempts /\ job.left = <<>>
      /\ \A i \in 1..Len(evidence) : evidence[i].attempt <= job.attempt
      /\ UNCHANGED <<contract, gateRun, saved, receipts, evidence, grounding>>
  BY DEF evaluateGate, GateInv, GateTypes, Decided, CandidateBound, Numbered
<1>2. EvidenceTyped' /\ SingleResult' /\ contract' \in GateContracts /\ Consecutive' /\ fresh' = fresh
  BY <1>1, EvidenceKept DEF fresh
<1>3. /\ job = [reverify |-> job.reverify, subject |-> job.subject, attempt |-> job.attempt,
                left |-> job.left, decision |-> job.decision]
      /\ job.reverify \in BOOLEAN /\ job.subject \in Subjects
  BY DEF GateInv, GateTypes
<1> DEFINE verdict == IF gatePasses(job.attempt) THEN "completed"
                      ELSE IF job.attempt >= contract.maxAttempts THEN exhaustedDecision ELSE "failed_recoverable"
<1>4. PICK decision : job' = [job EXCEPT !.decision = decision] /\ decision = verdict
  BY DEF evaluateGate
<1>5. decision \in gateStatuses /\ (decision = "completed" => gatePasses(job.attempt))
  BY <1>4 DEF exhaustedDecision, gateStatuses
<1> HIDE DEF verdict
<1>6. job' = [reverify |-> job.reverify, subject |-> job.subject, attempt |-> job.attempt,
              left |-> job.left, decision |-> decision]
  BY <1>3, <1>4
<1>7. GateTypes'
  BY <1>1, <1>2, <1>3, <1>6, <1>5 DEF GateInv, GateTypes
<1>8. Numbered' /\ Handled' /\ CandidateBound'
  BY <1>1, <1>2 DEF Numbered, Handled, CandidateBound
<1>9. ASSUME decision = "completed"
      PROVE  Approved'
  <2>1. gatePasses(job.attempt) /\ verification' = "passed"
    BY <1>9, <1>5 DEF evaluateGate
  <2>2. PICK k \in 0..Len(Verifiers) :
          /\ job.left = SubSeq(Verifiers, k + 1, Len(Verifiers))
          /\ \A i \in fresh : result(i, job.attempt) =>
               evidence[i].subject = job.subject /\ \E h \in 1..k : evidence[i].verifier = Verifiers[h]
          /\ k > 0 => \E i \in fresh : result(i, job.attempt)
    BY <1>1 DEF GateInv, Handled
  <2>3. k > 0
    <3>1. Len(Verifiers) \in Nat /\ Len(Verifiers) > 0 /\ Verifiers \in Seq(Range(Verifiers))
      OBVIOUS
    <3> HIDE DEF Range
    <3>2. CASE k = 0
      <4>1. Len(SubSeq(Verifiers, 0 + 1, Len(Verifiers))) = Len(Verifiers)
        BY <3>1
      <4> QED
        BY <1>1, <2>2, <3>2, <4>1
    <3> QED
      BY <3>2
  <2>4. /\ \E i \in fresh : result(i, job.attempt)
        /\ \A i \in fresh : result(i, job.attempt) => evidence[i].subject[1] = Last(receipts)
    BY <1>1, <2>2, <2>3
  <2>5. PICK a \in 1..contract.maxAttempts : a = job.attempt
    BY <1>1
  <2>6. gatePasses(a)'
    <3>1. \A v : resultOf(v, a)' = resultOf(v, a)
      BY <1>1, <1>2, Zenon DEF resultOf
    <3>2. \A s : requiredWith(s, a)' = requiredWith(s, a)
      BY <1>1, <3>1, Zenon DEF requiredWith
    <3> QED
      BY <1>1, <2>1, <2>5, <3>2 DEF gatePasses
  <2>7. /\ a \in 1..contract'.maxAttempts /\ receipts' # <<>>
        /\ \A i \in 1..Len(evidence') : evidence'[i].attempt <= a
        /\ \E i \in fresh' : result(i, a)'
        /\ \A i \in fresh' : result(i, a)' => evidence'[i].subject[1] = Last(receipts')
    BY <1>1, <1>2, <2>4, <2>5 DEF result
  <2> QED
    BY <2>1, <2>6, <2>7 DEF Approved
<1>10. Decided'
  <2>1. job'.decision = decision
    BY <1>6
  <2> QED
    BY <1>1, <1>9, <1>5, <2>1 DEF Decided
<1> QED
  BY <1>2, <1>7, <1>8, <1>10 DEF GateInv

LEMMA SettlementKeeps ==
  ASSUME GateInv, verifySubject
  PROVE  GateInv'
<1>1. /\ gatePc = "settle" /\ gatePc' = "idle" /\ gateRun # "completed" /\ job' = NoJob /\ gateRun' = job.decision
      /\ UNCHANGED <<contract, verification, saved, receipts, evidence, grounding>>
      /\ job.decision \in gateStatuses \cup {"none"}
  BY DEF verifySubject, GateInv, GateTypes, Decided
<1>2. EvidenceTyped' /\ SingleResult' /\ contract' \in GateContracts /\ Consecutive'
  BY <1>1, EvidenceKept
<1>3. job.decision = "completed" => Approved'
  BY <1>1, ApprovalKept DEF GateInv, Decided
<1>4. job.decision \in gateStatuses
  BY <1>1 DEF GateInv, Decided
<1>5. GateTypes'
  <2>1. /\ job' = [reverify |-> job'.reverify, subject |-> job'.subject, attempt |-> job'.attempt,
                   left |-> job'.left, decision |-> job'.decision]
        /\ job'.reverify \in BOOLEAN /\ job'.subject \in Subjects /\ job'.decision \in gateStatuses \cup {"none"}
    BY <1>1, NoJobTyped
  <2> QED
    BY <1>1, <1>2, <1>4, <2>1 DEF GateInv, GateTypes
<1>6. Numbered' /\ Handled' /\ CandidateBound'
  BY <1>1, <1>2 DEF Numbered, Handled, CandidateBound
<1>7. Decided'
  BY <1>1, <1>3 DEF Decided
<1> QED
  BY <1>2, <1>5, <1>6, <1>7 DEF GateInv

LEMMA GateStep == GateInv /\ [GateNext]_gateVars => GateInv'
<1> SUFFICES ASSUME GateInv, [GateNext]_gateVars
             PROVE  GateInv'
  OBVIOUS
<1>1. /\ gateRun \in gateStatuses /\ saved \in Nat /\ receipts \in Seq(Nat) /\ grounding \in Nat
      /\ gateRun = "completed" => gatePc = "idle" /\ Approved
      /\ gatePc \in {"idle", "work", "saved", "gate", "stale", "verify", "settle"}
      /\ {"failed", "failed_recoverable", "running"} \subseteq gateStatuses
  BY DEF GateInv, GateTypes, Decided, gateStatuses
<1>2. CASE SaveCandidate
  <2>1. saved' \in Nat /\ gatePc' = "saved" /\ gateRun' = gateRun /\ gateRun # "completed"
        /\ UNCHANGED <<evidence, contract, receipts, grounding, job>>
    BY <1>1, <1>2 DEF SaveCandidate
  <2> QED
    BY <1>1, <2>1, GateQuiet
<1>3. CASE BindCandidate
  <2>1. /\ receipts' = Append(receipts, saved) /\ gatePc' = "gate" /\ gateRun' = gateRun /\ gateRun # "completed" /\ job' = NoJob
        /\ UNCHANGED <<evidence, contract, saved, grounding>>
    BY <1>1, <1>3 DEF BindCandidate
  <2>2. receipts' \in Seq(Nat) /\ receipts' # <<>> /\ Last(receipts') = saved'
    BY <1>1, <2>1 DEF Last
  <2> QED
    BY <1>1, <2>1, <2>2, GateQuiet
<1>4. CASE GateReverify
  <2>1. /\ receipts # <<>> /\ gatePc' = "gate" /\ gateRun' = gateRun /\ gateRun # "completed"
        /\ job' = [NoJob EXCEPT !.reverify = TRUE] /\ job'.reverify
        /\ UNCHANGED <<evidence, contract, saved, grounding, receipts>>
    BY <1>4 DEF GateReverify, boundCandidate, NoJob
  <2> QED
    BY <1>1, <2>1, GateQuiet
<1>5. CASE GateWriteFails
  <2>1. /\ gatePc' = "idle" /\ job' = NoJob /\ gateRun' \in {gateRun, "failed"} /\ gateRun # "completed"
        /\ UNCHANGED <<contract, saved, receipts, evidence, grounding>>
    BY <1>1, <1>5 DEF GateWriteFails
  <2> QED
    BY <1>1, <2>1, GateQuiet
<1>6. CASE GateCrash
  <2>1. /\ gatePc' = "idle" /\ job' = NoJob /\ gateRun' \in {gateRun, "failed_recoverable"} /\ gateRun # "completed"
        /\ UNCHANGED <<contract, saved, receipts, evidence, grounding>>
    BY <1>1, <1>6 DEF GateCrash
  <2> QED
    BY <1>1, <2>1, GateQuiet
<1>7. CASE Resume
  <2>1. /\ gatePc' = "work" /\ gateRun' = "running"
        /\ UNCHANGED <<contract, saved, receipts, evidence, grounding, job>>
    BY <1>7 DEF Resume
  <2> QED
    BY <1>1, <2>1, GateQuiet
<1>8. CASE ChangeDocument \/ UNCHANGED gateVars
  <2>1. /\ UNCHANGED <<contract, gateRun, verification, saved, receipts, evidence, gatePc, job>>
        /\ grounding' \in Nat
    BY <1>1, <1>8 DEF ChangeDocument, gateVars
  <2>2. EvidenceTyped' /\ SingleResult' /\ contract' \in GateContracts /\ Consecutive' /\ fresh' = fresh
    BY <2>1, EvidenceKept DEF fresh
  <2>3. GateTypes'
    BY <2>1, <2>2 DEF GateInv, GateTypes
  <2>4. Numbered'
    <3>1. follows(job.attempt) => follows(job.attempt)'
      BY <2>1, <2>2 DEF follows
    <3> QED
      BY <2>1, <2>2, <3>1 DEF GateInv, Numbered
  <2>5. Handled'
    BY <2>1, <2>2 DEF GateInv, Handled, result
  <2>6. CandidateBound' /\ Decided'
    BY <2>1, ApprovalKept DEF GateInv, CandidateBound, Decided
  <2> QED
    BY <2>2, <2>3, <2>4, <2>5, <2>6 DEF GateInv
<1> QED
  BY <1>2, <1>3, <1>4, <1>5, <1>6, <1>7, <1>8, AttemptBegins, MarkerKeeps, ResultKeeps, DecisionKeeps, SettlementKeeps
  DEF GateNext

\* The attempt of a settled Run is the last one, of results and of markers.
LEMMA CompletedShown ==
  ASSUME GateInv, gateRun = "completed"
  PROVE  CompletedIsVerified /\ ResultIsTheCandidate
<1>1. /\ verification = "passed" /\ receipts # <<>> /\ EvidenceTyped /\ contract \in GateContracts
      /\ contract.maxAttempts \in Nat
  BY DEF GateInv, Decided, Approved, GateTypes, GateContracts
<1>2. PICK a \in 1..contract.maxAttempts :
       /\ \A i \in 1..Len(evidence) : evidence[i].attempt <= a
       /\ \E i \in fresh : result(i, a)
       /\ gatePasses(a)
       /\ \A i \in fresh : result(i, a) => evidence[i].subject[1] = Last(receipts)
  BY DEF GateInv, Decided, Approved
<1>3. fresh \subseteq 1..Len(evidence) /\ Len(evidence) \in Nat
  BY <1>1 DEF fresh, EvidenceTyped
<1>4. PICK f \in fresh : evidence[f].attempt = a
  BY <1>2 DEF result
<1>5. lastAttempt = a
  <2>1. lastAttempt \in Nat /\ evidence[f].attempt <= lastAttempt
    BY <1>1, <1>4, Counting
  <2>2. lastAttempt = 0 \/ lastAttempt <= a
    BY <1>1, <1>2, <1>3, Counting
  <2> QED
    BY <1>4, <2>1, <2>2
<1>6. requiredWith("passed", a) # {} /\ (contract.mode = "all_must_pass" => requiredWith("passed", a) = contract.required)
  BY <1>1, <1>2 DEF gatePasses, GateContracts
<1>7. CompletedIsVerified
  <2>1. {v \in contract.required : resultOf(v, lastAttempt) = {"passed"}} = requiredWith("passed", a)
    BY <1>5 DEF requiredWith
  <2>2. \A i \in fresh : evidence[i].attempt = lastAttempt => evidence[i].subject[1] = Last(receipts)
    BY <1>2, <1>5 DEF result
  <2> QED
    BY <1>1, <1>6, <2>1, <2>2 DEF CompletedIsVerified
<1> DEFINE S == {0} \cup {evidence[i].attempt : i \in 1..Len(evidence)}
           published == {j \in 1..Len(evidence) :
             evidence[j].verifier = SchemaVerifier /\ SchemaVerifier \in contract.required
             /\ evidence[j].attempt = a /\ evidence[j].status = "passed"}
<1>8. Max(S) = a
  <2>1. \A i \in 1..Len(evidence) : evidence[i].attempt \in 0..a
    BY <1>1, <1>2 DEF EvidenceTyped
  <2>2. S \in SUBSET (0..a) /\ S # {} /\ a \in Nat /\ a \in S
    BY <1>3, <1>4, <2>1
  <2>3. Max(S) \in S /\ a <= Max(S)
    BY <2>2, Highest
  <2> HIDE DEF S
  <2>4. Max(S) \in 0..a
    BY <2>2, <2>3
  <2> QED
    BY <2>2, <2>3, <2>4
<1>9. StructuredResult = {evidence[i].subject[1] : i \in published}
  <2>1. ~(gateRun # "completed" \/ verification # "passed")
    BY <1>1
  <2> HIDE DEF S
  <2>2. StructuredResult = IF gateRun # "completed" \/ verification # "passed" THEN {}
                           ELSE {evidence[i].subject[1] : i \in {j \in 1..Len(evidence) :
                                  evidence[j].verifier = SchemaVerifier /\ SchemaVerifier \in contract.required
                                  /\ evidence[j].attempt = Max(S) /\ evidence[j].status = "passed"}}
    BY Zenon DEF StructuredResult, S
  <2> QED
    BY <1>8, <2>1, <2>2
<1>10. \A i \in published : evidence[i].subject[1] = Last(receipts)
  <2>1. \A i \in published : i \in fresh /\ result(i, a)
    BY DEF fresh, result
  <2> QED
    BY <1>2, <2>1
<1>11. ASSUME contract.mode = "all_must_pass", SchemaVerifier \in contract.required
       PROVE  published # {}
  <2>1. resultOf(SchemaVerifier, a) = {"passed"}
    BY <1>6, <1>11 DEF requiredWith
  <2>2. PICK j \in fresh : evidence[j].verifier = SchemaVerifier /\ evidence[j].attempt = a /\ evidence[j].status = "passed"
    BY <2>1 DEF resultOf
  <2>3. j \in published
    BY <1>3, <1>11, <2>2
  <2> QED
    BY <2>3
<1> HIDE DEF published
<1>12. StructuredResult # {} => StructuredResult = {Last(receipts)}
  BY <1>9, <1>10
<1>13. published # {} => StructuredResult # {}
  BY <1>9
<1> QED
  BY <1>7, <1>11, <1>12, <1>13 DEF ResultIsTheCandidate

\* A verifier's results are numbered without repetition by the attempts of the budget.
LEMMA BudgetKept == GateInv => AttemptBudget
<1> SUFFICES ASSUME GateInv, NEW v \in VerifierSet
             PROVE  Cardinality({i \in fresh : evidence[i].verifier = v}) <= contract.maxAttempts
  BY DEF AttemptBudget
<1> DEFINE S == {i \in fresh : evidence[i].verifier = v}
           number == [i \in S |-> evidence[i].attempt]
<1>1. contract.maxAttempts \in Nat /\ EvidenceTyped /\ Len(evidence) \in Nat
  BY DEF GateInv, GateTypes, GateContracts, EvidenceTyped
<1>2. IsFiniteSet(1..contract.maxAttempts) /\ Cardinality(1..contract.maxAttempts) = contract.maxAttempts
  <2>1. PICK m \in Nat : m = contract.maxAttempts
    BY <1>1
  <2>2. m \in Int /\ 1 \in Int /\ (IF 1 > m THEN 0 ELSE m - 1 + 1) = m
    OBVIOUS
  <2>3. IsFiniteSet(1..m) /\ Cardinality(1..m) = m
    BY <2>2, FS_Interval
  <2> QED
    BY <2>1, <2>3
<1>3. number \in Injection(S, 1..contract.maxAttempts)
  <2>1. \A i \in S : evidence[i].attempt \in 1..contract.maxAttempts
    BY <1>1 DEF EvidenceTyped, fresh
  <2>2. number \in [S -> 1..contract.maxAttempts]
    BY <2>1
  <2>3. \A i, j \in S : number[i] = number[j] => i = j
    BY DEF GateInv, SingleResult
  <2> HIDE DEF S, number
  <2>4. IsInjective(number)
    BY <2>2, <2>3 DEF IsInjective
  <2> QED
    BY <2>2, <2>4 DEF Injection
<1> HIDE DEF S, number
<1>4. Cardinality(S) <= Cardinality(1..contract.maxAttempts)
  BY <1>2, <1>3, FS_Injection
<1> QED
  BY <1>2, <1>4 DEF S

(* Completion is decided by evidence about the one candidate the Run is bound to: a completed  *)
(* Run passed in its last attempt, no verifier has more results than the contract allows        *)
(* attempts, an attempt has one subject and the structured result published is the              *)
(* candidate's, for any contract and however attempts are interrupted (engine.go Verify and    *)
(* evaluateGate).                                                                               *)
THEOREM VerificationCorrect == GateSpec => []VerificationSafe
<1>1. GateInv => VerificationSafe
  <2> SUFFICES ASSUME GateInv
               PROVE  VerificationSafe
    OBVIOUS
  <2>1. CompletedIsVerified /\ ResultIsTheCandidate
    <3>1. CASE gateRun = "completed"
      BY <3>1, CompletedShown
    <3>2. CASE gateRun # "completed"
      BY <3>2 DEF CompletedIsVerified, ResultIsTheCandidate, StructuredResult
    <3> QED
      BY <3>1, <3>2
  <2>2. OneSubjectPerAttempt
    BY DEF GateInv, SingleResult, OneSubjectPerAttempt
  <2> QED
    BY <2>1, <2>2, BudgetKept DEF VerificationSafe
<1> QED
  BY <1>1, GateBegins, GateStep, PTL DEF GateSpec

----------------------------------------------------------------------------
(* The Stage checkpoints and the restore of a Run.                          *)

\* What the rows, the stream and the writes waiting to be made hold.
StepStatuses == {"running", "completed", "failed"}
CheckpointStatuses == {"prepared", "executing", "committed", "needs_reconciliation", "compensated"}
StageEffectStatuses == {"executing", "committed", "failed", "needs_reconciliation", "reconciling", "compensated"}
StageEvents == StageTerminal \cup {"stage.started"}
StageLogTypes == StageEvents \cup {"run.started", "run.failed", "run.resumed", "checkpoint.captured", "checkpoint.restored",
                                   "compensation.started", "compensation.completed"}
StageWrites == [op : {"step", "event", "save"}, stage : Nat,
                to : StepStatuses \cup CheckpointStatuses \cup StageLogTypes, cursor : Nat]

StageTypes ==
  /\ stageRun \in {"running", "failed_recoverable", "failed", "completed"}
  /\ phase \in {"off", "tail", "turn", "failing", "validated", "accepted"}
  /\ steps \in Seq([role : Range(Roles), status : StepStatuses])
  /\ ck \in Seq([status : CheckpointStatuses \cup {"none"}, cursor : Nat]) /\ Len(ck) = Len(steps)
  /\ log \in Seq([stage : Nat, type : StageLogTypes]) /\ log # <<>>
  /\ stageEffects \in Seq([stage : 1..Len(steps), status : StageEffectStatuses])
  /\ todo \in Seq(Seq(StageWrites))
  /\ known \subseteq 1..Len(steps) /\ reused \subseteq 1..Len(steps)

\* The checkpoint row of a Stage, and what its status stands for.
CheckpointRow(s) ==
  /\ ck[s].status = "none" => ck[s].cursor = 0 /\ effectsOf(s) = {}
  /\ ck[s].status # "none" => ck[s].cursor \in 1..Len(log)
  /\ ck[s].status = "committed" => \E e \in eventsOf(s, {"stage.completed"}) : e <= ck[s].cursor
  /\ ck[s].status = "compensated" => effectsOf(s) \subseteq {"compensated"}
CheckpointRows == \A s \in 1..Len(steps) : CheckpointRow(s)
CompletionIsReal == \A e \in 1..Len(log) : log[e].type = "stage.completed" =>
                      log[e].stage \in 1..Len(steps) /\ steps[log[e].stage].status = "completed"

\* A batch of writes of one Stage.  A live save takes its cursor when it is made.
saves(q, k) == q[k].op = "save"
live(w) == w.cursor = 0 /\ w.to # "prepared"
firstSave(q, k) == \A j \in 1..k - 1 : ~saves(q, j)
previousSave(q, j, k) == j < k /\ saves(q, j) /\ \A i \in j + 1..k - 1 : ~saves(q, i)
SaveStatus(q, k) ==
  /\ q[k].to \in CheckpointStatuses
  /\ firstSave(q, k) => checkpointTransitionAllowed(ck[q[k].stage].status, q[k].to)
  /\ \A j \in 1..Len(q) : previousSave(q, j, k) => checkpointTransitionAllowed(q[j].to, q[k].to)
  /\ q[k].to = "compensated" => effectsOf(q[k].stage) \subseteq {"compensated"}
ExplicitSave(q, k) ==
  /\ q[k].cursor \in 1..Len(log) /\ ck[q[k].stage].cursor <= q[k].cursor
  /\ \A j \in 1..k - 1 : saves(q, j) => ~live(q[j]) /\ q[j].cursor <= q[k].cursor
  /\ q[k].to = "committed" => q[k].cursor \in eventsOf(q[k].stage, {"stage.completed"})
LiveSave(q, k) ==
  IF k = 1
  THEN \E e \in eventsOf(q[k].stage, StageEvents) :
         /\ ck[q[k].stage].cursor <= e /\ (\A d \in eventsOf(q[k].stage, StageEvents) : d <= e)
         /\ q[k].to = "committed" => log[e].type = "stage.completed"
  ELSE q[k - 1].op = "event" /\ q[k - 1].to \in StageEvents /\ (q[k].to = "committed" => q[k - 1].to = "stage.completed")
WriteOk(q, k) ==
  /\ q[k].stage = q[1].stage
  /\ q[k].op = "step" => k = 1 /\ steps[q[k].stage].status = "running" /\ q[k].to \in {"completed", "failed"}
  /\ q[k].op = "event" => q[k].to \in StageLogTypes
  /\ q[k].op = "event" /\ q[k].to = "stage.completed" =>
       steps[q[k].stage].status = "completed" \/ (k > 1 /\ q[1].op = "step" /\ q[1].to = "completed")
  /\ q[k].op = "save" => SaveStatus(q, k) /\ IF live(q[k]) THEN LiveSave(q, k) ELSE ExplicitSave(q, k)
BatchOk(q) == q # <<>> /\ q[1].stage \in 1..Len(steps) /\ \A k \in 1..Len(q) : WriteOk(q, k)
WritesAccepted ==
  /\ \A b \in 1..Len(todo) : BatchOk(todo[b])
  /\ \A a, b \in 1..Len(todo) : todo[a][1].stage = todo[b][1].stage => a = b

\* Steps.
OneRunning == \A i \in 1..Len(steps) : steps[i].status = "running" =>
                i = Len(steps) /\ \A j \in 1..Len(steps) : steps[j].role = steps[i].role => steps[j].status # "completed"
CompletedOnce == \A i, j \in 1..Len(steps) :
                   steps[i].role = steps[j].role /\ steps[i].status = "completed" /\ steps[j].status = "completed" => i = j
AllCompleted == stageRun = "completed" => \A k \in 1..Len(Roles) : completedOf(Roles[k], 1..Len(steps)) # {}

\* Phases.
Executing == {"tail", "turn", "failing"}
ends(i) == todo # <<>> /\ todo[1][1].op = "step" /\ todo[1][1].to = "completed" /\ todo[1][1].stage = i
Phases ==
  /\ phase \in Executing \cup {"accepted"} => stageRun = "running"
  /\ phase = "validated" => stageRun = "failed_recoverable"
  /\ todo # <<>> => phase \in Executing
  /\ stageRun = "failed_recoverable" \/ phase = "accepted" => \A i \in 1..Len(steps) : steps[i].status # "running"
  /\ phase \in {"validated", "accepted"} => known = 1..Len(steps)
  /\ \A i \in reused : steps[i].status = "completed"
KnownSettled == phase \in Executing => \A i \in known :
                  steps[i].status # "running" /\ (steps[i].status # "completed" => effectsOf(i) \subseteq {"compensated"})
TailDone == phase = "tail" => \A i \in 1..Len(steps) :
              (i \notin known => steps[i].status = "completed" \/ ends(i)) /\ (steps[i].status = "running" => ends(i))
TurnRuns == phase = "turn" =>
  /\ Len(steps) > 0 /\ current \notin known /\ steps[current].status = "running"
  /\ \A i \in 1..Len(steps) - 1 : i \notin known => steps[i].status = "completed"
  /\ Len(todo) <= 1 /\ \A b \in 1..Len(todo) : todo[b][1].stage = current
  /\ \A b \in 1..Len(todo) : \A k \in 1..Len(todo[b]) : todo[b][k].op # "step"
  /\ \/ ck[current].status = "executing" /\ \A b \in 1..Len(todo) : \A k \in 1..Len(todo[b]) : ~saves(todo[b], k)
     \/ Len(todo) = 1 /\ \E k \in 1..Len(todo[1]) :
          saves(todo[1], k) /\ todo[1][k].to = "executing" /\ \A j \in k + 1..Len(todo[1]) : ~saves(todo[1], j)

\* The inductive invariant: the writes still to be made are acceptable one after the other, whatever step a crash
\* leaves them at.
StageInv == /\ StageTypes /\ CheckpointRows /\ CompletionIsReal /\ WritesAccepted /\ OneRunning /\ CompletedOnce /\ AllCompleted
            /\ Phases /\ KnownSettled /\ TailDone /\ TurnRuns /\ NoWriteRepeated


\* A count that is neither zero nor one.
LEMMA MoreThanOne == \A n \in Nat : n # 1 /\ n > 0 => n > 1
OBVIOUS

\* A longer sequence has a second element, the first of its tail.
LEMMA SecondOf ==
  ASSUME NEW T, NEW q \in Seq(T), Len(q) # 1, q # <<>>
  PROVE  2 \in 1..Len(q) /\ Tail(q)[1] = q[2]
<1>1. Len(q) \in Nat /\ Len(q) > 0
  OBVIOUS
<1>2. Len(q) > 1
  BY <1>1, MoreThanOne
<1> QED
  BY <1>2

\* An element of a sequence.
LEMMA ElementOf ==
  ASSUME NEW T, NEW q \in Seq(T), NEW i \in 1..Len(q)
  PROVE  q[i] \in T
OBVIOUS

\* The first write of the list leaves it: the rest of its batch, or the batches behind it, stay.
LEMMA TodoShifts ==
  ASSUME NEW T, todo \in Seq(Seq(T)), todo # <<>>, todo[1] # <<>>,
         todo' = IF Len(todo[1]) = 1 THEN Tail(todo) ELSE [todo EXCEPT ![1] = Tail(@)]
  PROVE  /\ todo' \in Seq(Seq(T))
         /\ Len(todo') = IF Len(todo[1]) = 1 THEN Len(todo) - 1 ELSE Len(todo)
         /\ \A b \in 1..Len(todo') :
              IF Len(todo[1]) = 1 THEN b + 1 \in 1..Len(todo) /\ todo'[b] = todo[b + 1]
              ELSE b \in 1..Len(todo) /\ todo'[b] = IF b = 1 THEN Tail(todo[1]) ELSE todo[b]
<1>1. Len(todo) \in Nat /\ Len(todo) > 0 /\ todo[1] \in Seq(T) /\ Len(todo[1]) \in Nat /\ Len(todo[1]) > 0
  OBVIOUS
<1>2. CASE Len(todo[1]) = 1
  <2>1. todo' = Tail(todo)
    BY <1>2
  <2> QED
    BY <1>1, <1>2, <2>1
<1>3. CASE Len(todo[1]) # 1
  <2> DEFINE r == Tail(todo[1])
  <2>1. r \in Seq(T)
    BY <1>1
  <2>2. todo' = [todo EXCEPT ![1] = r]
    BY <1>3
  <2> HIDE DEF r
  <2>3. todo' \in Seq(Seq(T)) /\ Len(todo') = Len(todo)
    BY <1>1, <2>1, <2>2, ExceptSeq
  <2>4. DOMAIN todo = 1..Len(todo)
    BY <1>1
  <2>5. \A b \in DOMAIN todo : todo'[b] = IF b = 1 THEN r ELSE todo[b]
    BY <2>2
  <2> QED
    BY <1>3, <2>3, <2>4, <2>5 DEF r
<1> QED
  BY <1>2, <1>3

\* The first write, what it is about and what it changes.
LEMMA FirstWrite ==
  ASSUME StageTypes, WritesAccepted, Write
  PROVE  /\ Len(todo) \in Nat /\ Len(todo) > 0 /\ todo[1] \in Seq(StageWrites) /\ todo[1] # <<>>
         /\ Len(todo[1]) \in Nat /\ Len(todo[1]) > 0 /\ todo[1][1] \in StageWrites
         /\ BatchOk(todo[1]) /\ WriteOk(todo[1], 1) /\ todo[1][1].stage \in 1..Len(steps)
         /\ \A k \in 1..Len(todo[1]) : todo[1][k] \in StageWrites /\ WriteOk(todo[1], k)
<1>1. todo \in Seq(Seq(StageWrites)) /\ todo # <<>>
  BY DEF Write, StageTypes
<1>2. Len(todo) \in Nat /\ Len(todo) > 0 /\ todo[1] \in Seq(StageWrites)
  BY <1>1
<1>3. BatchOk(todo[1])
  BY <1>2 DEF WritesAccepted
<1>4. todo[1] # <<>> /\ todo[1][1].stage \in 1..Len(steps) /\ \A k \in 1..Len(todo[1]) : WriteOk(todo[1], k)
  BY <1>3 DEF BatchOk
<1>5. Len(todo[1]) \in Nat /\ Len(todo[1]) > 0 /\ \A k \in 1..Len(todo[1]) : todo[1][k] \in StageWrites
  BY <1>2, <1>4
<1> QED
  BY <1>2, <1>3, <1>4, <1>5

\* A write of one Stage leaves what another Stage's writes rely on.
LEMMA OtherBatchKept ==
  ASSUME StageTypes, WritesAccepted, Write, NEW q, q \in Seq(StageWrites), BatchOk(q), q[1].stage # todo[1][1].stage
  PROVE  BatchOk(q)'
<1> DEFINE w == todo[1][1]
           s == q[1].stage
<1>1. w \in StageWrites /\ w.stage \in 1..Len(steps) /\ WriteOk(todo[1], 1) /\ Len(todo[1]) \in Nat /\ Len(todo[1]) > 0
  BY FirstWrite
<1>2. q # <<>> /\ s \in 1..Len(steps) /\ \A k \in 1..Len(q) : WriteOk(q, k)
  BY DEF BatchOk
<1>3. /\ Len(steps') = Len(steps) /\ steps'[s] = steps[s] /\ ck'[s] = ck[s]
      /\ Len(log') >= Len(log) /\ Len(log') \in Nat /\ eventsOf(s, {"stage.completed"})' = eventsOf(s, {"stage.completed"})
      /\ eventsOf(s, StageEvents)' = eventsOf(s, StageEvents)
      /\ \A e \in eventsOf(s, StageEvents) : log'[e] = log[e]
      /\ effectsOf(s)' = effectsOf(s)
  <2>1. CASE w.op = "step" /\ steps' = [steps EXCEPT ![w.stage].status = w.to] /\ UNCHANGED <<ck, log, stageEffects>>
    BY <1>1, <1>2, <2>1 DEF StageTypes, eventsOf, effectsOf
  <2>2. CASE w.op = "event" /\ log' = Append(log, [stage |-> w.stage, type |-> w.to]) /\ UNCHANGED <<ck, steps, stageEffects>>
    <3>1. Len(log) \in Nat /\ Len(log') = Len(log) + 1 /\ log'[Len(log) + 1].stage # s /\ \A e \in 1..Len(log) : log'[e] = log[e]
      BY <1>1, <2>2 DEF StageTypes
    <3>2. \A types : eventsOf(s, types)' = eventsOf(s, types)
      BY <3>1 DEF eventsOf
    <3> QED
      BY <2>2, <3>1, <3>2 DEF eventsOf, effectsOf
  <2>3. CASE ck' = [ck EXCEPT ![w.stage] = [status |-> w.to, cursor |-> cursorOf(w)]] /\ UNCHANGED <<log, steps, stageEffects>>
    BY <1>1, <1>2, <2>3 DEF StageTypes, eventsOf, effectsOf
  <2> QED
    BY <2>1, <2>2, <2>3 DEF Write
<1>4. ASSUME NEW k \in 1..Len(q) PROVE WriteOk(q, k)'
  <2>1. WriteOk(q, k) /\ q[k].stage = s
    BY <1>2 DEF WriteOk
  <2>2. SaveStatus(q, k) => SaveStatus(q, k)'
    BY <1>3, <2>1 DEF SaveStatus
  <2>3. ExplicitSave(q, k) => ExplicitSave(q, k)'
    <3>1. q[k] \in StageWrites
      OBVIOUS
    <3>2. Len(log) \in Nat
      BY DEF StageTypes
    <3>3. q[k].cursor \in Nat
      BY <3>1 DEF StageWrites
    <3> QED
      BY <1>3, <2>1, <3>2, <3>3 DEF ExplicitSave
  <2>4. LiveSave(q, k) => LiveSave(q, k)'
    BY <1>3, <2>1 DEF LiveSave
  <2> QED
    BY <1>3, <2>1, <2>2, <2>3, <2>4 DEF WriteOk
<1> QED
  BY <1>2, <1>3, <1>4 DEF BatchOk


\* What is left of the batch still fits after its first write.
LEMMA SameBatchKept ==
  ASSUME StageTypes, CheckpointRows, OneRunning, WritesAccepted, Write, NEW q, q = todo[1], Len(q) > 1
  PROVE  BatchOk(Tail(q))'
<1> DEFINE w == q[1]
           s == w.stage
           r == Tail(q)
<1>1. /\ q \in Seq(StageWrites) /\ Len(q) \in Nat /\ w \in StageWrites /\ s \in 1..Len(steps)
      /\ \A k \in 1..Len(q) : q[k] \in StageWrites /\ WriteOk(q, k)
  BY FirstWrite
<1>2. /\ r \in Seq(StageWrites) /\ Len(r) = Len(q) - 1 /\ r # <<>>
      /\ \A k \in 1..Len(r) : r[k] = q[k + 1] /\ k + 1 \in 1..Len(q)
  <2>1. r \in Seq(StageWrites) /\ Len(r) = Len(q) - 1
    BY <1>1
  <2>2. \A k \in 1..Len(r) : r[k] = q[k + 1]
    BY <1>1
  <2>3. Len(r) > 0 /\ \A k \in 1..Len(r) : k + 1 \in 1..Len(q)
    BY <1>1, <2>1
  <2> HIDE DEF r
  <2>4. r # <<>>
    BY <2>3
  <2> QED
    BY <2>1, <2>2, <2>3, <2>4
<1>3. \A k \in 1..Len(q) : q[k].stage = s /\ q[k].cursor \in Nat
  BY <1>1 DEF WriteOk, StageWrites
<1>4. Len(log) \in Nat /\ Len(log) > 0 /\ ck \in Seq([status : CheckpointStatuses \cup {"none"}, cursor : Nat]) /\ Len(ck) = Len(steps)
  BY DEF StageTypes
<1>5. ck[s].cursor \in Nat /\ ck[s].cursor <= Len(log)
  <2>1. s \in 1..Len(ck)
    BY <1>1, <1>4
  <2> HIDE DEF s
  <2>2. ck[s] \in [status : CheckpointStatuses \cup {"none"}, cursor : Nat]
    BY <1>4, <2>1, ElementOf
  <2> QED
    BY <1>1, <1>4, <2>2 DEF CheckpointRows, CheckpointRow
<1>6. effectsOf(s)' = effectsOf(s) /\ stageEffects' = stageEffects
  BY DEF Write, effectsOf
<1> HIDE DEF r
<1>10. ASSUME NEW k \in 1..Len(r)
       PROVE  /\ \A j \in 1..Len(r) : previousSave(r, j, k) => previousSave(q, j + 1, k + 1) /\ j + 1 \in 1..Len(q) /\ r[j] = q[j + 1]
              /\ firstSave(r, k) => IF saves(q, 1) THEN previousSave(q, 1, k + 1) ELSE firstSave(q, k + 1)
  <2>1. Len(r) \in Nat /\ k \in Nat /\ k >= 1 /\ \A i \in 1..Len(r) : r[i] = q[i + 1]
    BY <1>1, <1>2
  <2>2. \A j \in 1..Len(r) : previousSave(r, j, k) => previousSave(q, j + 1, k + 1)
    <3> SUFFICES ASSUME NEW j \in 1..Len(r), previousSave(r, j, k) PROVE previousSave(q, j + 1, k + 1)
      OBVIOUS
    <3>1. j < k /\ saves(q, j + 1)
      BY <2>1 DEF previousSave, saves
    <3>2. ASSUME NEW i \in j + 1 + 1..k + 1 - 1 PROVE ~saves(q, i)
      <4>1. i - 1 \in j + 1..k - 1 /\ i - 1 \in 1..Len(r) /\ (i - 1) + 1 = i
        BY <2>1, <3>1
      <4> QED
        BY <2>1, <4>1 DEF previousSave, saves
    <3> QED
      BY <2>1, <3>1, <3>2 DEF previousSave
  <2>3. ASSUME firstSave(r, k), NEW i \in 2..k + 1 - 1 PROVE ~saves(q, i)
    <3>1. i - 1 \in 1..k - 1 /\ i - 1 \in 1..Len(r) /\ (i - 1) + 1 = i
      BY <2>1
    <3> QED
      BY <2>1, <2>3, <3>1 DEF firstSave, saves
  <2>4. firstSave(r, k) => IF saves(q, 1) THEN previousSave(q, 1, k + 1) ELSE firstSave(q, k + 1)
    BY <2>1, <2>3 DEF firstSave, previousSave
  <2> QED
    BY <1>1, <1>2, <2>1, <2>2, <2>4
<1>13. 1 \in 1..Len(r) /\ r[1].stage = s
  <2>1. Len(r) \in Nat /\ Len(r) > 0 /\ 1 + 1 \in 1..Len(q) /\ r[1] = q[1 + 1]
    BY <1>1, <1>2
  <2> QED
    BY <1>3, <2>1
<1>14. ASSUME NEW k \in 1..Len(r)
       PROVE  WriteOk(q, k + 1) /\ r[k] = q[k + 1] /\ r[k].stage = s /\ r[1].stage = s /\ r[k].op # "step"
  <2>1. k + 1 \in 1..Len(q) /\ k + 1 # 1 /\ r[k] = q[k + 1]
    BY <1>1, <1>2
  <2>2. WriteOk(q, k + 1)
    BY <1>1, <2>1
  <2>3. q[k + 1].op # "step"
    BY <2>1, <2>2 DEF WriteOk
  <2> QED
    BY <1>3, <1>13, <2>1, <2>2, <2>3
<1>11. ASSUME NEW k \in 1..Len(r), q[k + 1].op = "save" PROVE SaveStatus(q, k + 1) /\ r[k] = q[k + 1] /\ r[k].stage = s
  BY <1>11, <1>14 DEF WriteOk
<1>12. ASSUME NEW k \in 1..Len(r), q[k + 1].op = "save", ~saves(q, 1), ck' = ck PROVE SaveStatus(r, k)'
  <2>1. SaveStatus(q, k + 1) /\ r[k] = q[k + 1] /\ r[k].stage = s /\ q[k + 1].stage = s
    BY <1>11, <1>12
  <2>2. firstSave(r, k) => checkpointTransitionAllowed(ck[s].status, r[k].to)
    BY <1>10, <1>12, <2>1 DEF SaveStatus
  <2>3. \A j \in 1..Len(r) : previousSave(r, j, k) => checkpointTransitionAllowed(r[j].to, r[k].to)
    BY <1>10, <2>1 DEF SaveStatus
  <2>4. r[k].to \in CheckpointStatuses /\ (r[k].to = "compensated" => effectsOf(s)' \subseteq {"compensated"})
    BY <1>6, <2>1 DEF SaveStatus
  <2> QED
    BY <1>12, <2>1, <2>2, <2>3, <2>4 DEF SaveStatus, firstSave, previousSave, saves
<1>7. CASE w.op = "step" /\ steps' = [steps EXCEPT ![s].status = w.to] /\ UNCHANGED <<ck, log>>
  <2>1. w.to \in {"completed", "failed"} /\ steps[s].status = "running" /\ Len(steps') = Len(steps) /\ steps'[s].status = w.to
    <3>1. w.to \in {"completed", "failed"} /\ steps[s].status = "running"
      BY <1>1, <1>7 DEF WriteOk
    <3>2. steps \in Seq([role : Range(Roles), status : StepStatuses])
      BY DEF StageTypes
    <3>3. Len(steps') = Len(steps) /\ steps'[s] = [steps[s] EXCEPT !.status = w.to]
      BY <1>1, <1>7, <3>2
    <3> HIDE DEF s
    <3>4. steps[s] \in [role : Range(Roles), status : StepStatuses]
      BY <1>1, <3>2, ElementOf
    <3> QED
      BY <3>1, <3>3, <3>4
  <2>2. ASSUME NEW k \in 1..Len(r) PROVE WriteOk(r, k)'
    <3>1. WriteOk(q, k + 1) /\ r[k] = q[k + 1] /\ r[k].stage = s /\ r[1].stage = s /\ r[k].op # "step"
      BY <1>14
    <3>2. ASSUME q[k + 1].op = "save" PROVE SaveStatus(r, k)'
      BY <1>7, <1>12, <3>2 DEF saves
    <3>3. ASSUME q[k + 1].op = "save", ~live(q[k + 1]) PROVE ExplicitSave(r, k)'
      <4>1. ExplicitSave(q, k + 1)
        BY <3>1, <3>3 DEF WriteOk
      <4>2. \A j \in 1..k - 1 : r[j] = q[j + 1] /\ j + 1 \in 1..(k + 1) - 1
        BY <1>2
      <4> QED
        BY <1>3, <1>7, <3>1, <4>1, <4>2 DEF ExplicitSave, saves, eventsOf
    <3>4. ASSUME q[k + 1].op = "save", live(q[k + 1]) PROVE LiveSave(r, k)'
      <4>1. LiveSave(q, k + 1) /\ k + 1 # 1
        BY <3>1, <3>4 DEF WriteOk
      <4>2. q[k].op = "event" /\ q[k].to \in StageEvents /\ (q[k + 1].to = "committed" => q[k].to = "stage.completed")
        BY <4>1 DEF LiveSave
      <4>3. k # 1
        BY <1>7, <4>2
      <4>4. r[k - 1] = q[k]
        <5>1. k - 1 \in 1..Len(r) /\ (k - 1) + 1 = k
          BY <1>1, <1>2, <4>3
        <5> QED
          BY <1>2, <5>1
      <4> QED
        BY <3>1, <4>2, <4>3, <4>4 DEF LiveSave
    <3>5. q[k + 1].op = "event" => q[k + 1].to \in StageLogTypes
      BY <3>1 DEF WriteOk
    <3>6. q[k + 1].op = "event" /\ q[k + 1].to = "stage.completed" => steps'[s].status = "completed"
      BY <1>3, <2>1, <3>1 DEF WriteOk
    <3> QED
      BY <3>1, <3>2, <3>3, <3>4, <3>5, <3>6 DEF WriteOk
  <2>3. r[1].stage \in 1..Len(steps')
    BY <1>1, <1>13, <2>1
  <2> QED
    BY <1>2, <2>2, <2>3 DEF BatchOk, r
<1>8. CASE w.op = "event" /\ log' = Append(log, [stage |-> s, type |-> w.to]) /\ UNCHANGED <<ck, steps>>
  <2>1. /\ Len(log') = Len(log) + 1 /\ log'[Len(log) + 1] = [stage |-> s, type |-> w.to] /\ \A e \in 1..Len(log) : log'[e] = log[e]
        /\ \A types : eventsOf(s, types) \subseteq eventsOf(s, types)'
    <3>1. Len(log') = Len(log) + 1 /\ log'[Len(log) + 1] = [stage |-> s, type |-> w.to] /\ \A e \in 1..Len(log) : log'[e] = log[e]
      BY <1>8 DEF StageTypes
    <3> QED
      BY <1>4, <3>1 DEF eventsOf
  <2>2. w.to \in StageEvents => Len(log) + 1 \in eventsOf(s, StageEvents)' /\ \A d \in eventsOf(s, StageEvents)' : d <= Len(log) + 1
    BY <1>4, <2>1 DEF eventsOf
  <2>3. ASSUME NEW k \in 1..Len(r) PROVE WriteOk(r, k)'
    <3>1. WriteOk(q, k + 1) /\ r[k] = q[k + 1] /\ r[k].stage = s /\ r[1].stage = s /\ r[k].op # "step"
      BY <1>14
    <3>2. ASSUME q[k + 1].op = "save" PROVE SaveStatus(r, k)'
      BY <1>8, <1>12, <3>2 DEF saves
    <3>3. ASSUME q[k + 1].op = "save", ~live(q[k + 1]) PROVE ExplicitSave(r, k)'
      <4>1. ExplicitSave(q, k + 1)
        BY <3>1, <3>3 DEF WriteOk
      <4>2. \A j \in 1..k - 1 : r[j] = q[j + 1] /\ j + 1 \in 1..(k + 1) - 1
        BY <1>2
      <4> QED
        <5>1. q[k + 1].cursor \in Nat /\ q[k + 1].cursor \in 1..Len(log) /\ Len(log') = Len(log) + 1
          BY <1>2, <1>3, <2>1, <4>1 DEF ExplicitSave
        <5>2. q[k + 1].cursor \in 1..Len(log')
          BY <1>4, <5>1
        <5> QED
          BY <1>8, <2>1, <3>1, <4>1, <4>2, <5>2 DEF ExplicitSave, saves
    <3>4. ASSUME q[k + 1].op = "save", live(q[k + 1]) PROVE LiveSave(r, k)'
      <4>1. LiveSave(q, k + 1) /\ k + 1 # 1
        BY <3>1, <3>4 DEF WriteOk
      <4>2. q[k].op = "event" /\ q[k].to \in StageEvents /\ (q[k + 1].to = "committed" => q[k].to = "stage.completed")
        BY <4>1 DEF LiveSave
      <4>3. CASE k = 1
        BY <1>3, <1>4, <1>5, <1>8, <2>1, <2>2, <3>1, <4>2, <4>3 DEF LiveSave
      <4>4. CASE k # 1
        <5>0. k - 1 \in 1..Len(r) /\ (k - 1) + 1 = k
          BY <1>1, <1>2, <4>4
        <5>1. r[k - 1] = q[k]
          BY <1>2, <5>0
        <5> QED
          BY <3>1, <4>2, <4>4, <5>1 DEF LiveSave
      <4> QED
        BY <4>3, <4>4
    <3>5. q[k + 1].op = "event" => q[k + 1].to \in StageLogTypes
      BY <3>1 DEF WriteOk
    <3>6. q[k + 1].op = "event" /\ q[k + 1].to = "stage.completed" => steps'[s].status = "completed"
      BY <1>3, <1>8, <3>1 DEF WriteOk
    <3> QED
      BY <3>1, <3>2, <3>3, <3>4, <3>5, <3>6 DEF WriteOk
  <2>4. r[1].stage \in 1..Len(steps')
    BY <1>1, <1>8, <1>13
  <2> QED
    BY <1>2, <2>3, <2>4 DEF BatchOk, r
<1>9. CASE /\ w.op = "save" /\ ValidateCheckpointUpdate(w) /\ ck' = [ck EXCEPT ![s] = [status |-> w.to, cursor |-> cursorOf(w)]]
           /\ UNCHANGED <<log, steps>>
  <2>1. ck'[s] = [status |-> w.to, cursor |-> cursorOf(w)]
    BY <1>1, <1>4, <1>9
  <2>2. WriteOk(q, 1)
    BY <1>1
  <2>3. ASSUME NEW k \in 1..Len(r) PROVE WriteOk(r, k)'
    <3>1. WriteOk(q, k + 1) /\ r[k] = q[k + 1] /\ r[k].stage = s /\ r[1].stage = s /\ r[k].op # "step"
      BY <1>14
    <3>2. ASSUME q[k + 1].op = "save" PROVE SaveStatus(r, k)'
      <4>1. SaveStatus(q, k + 1)
        BY <3>1, <3>2 DEF WriteOk
      <4>2. firstSave(r, k) => previousSave(q, 1, k + 1)
        BY <1>9, <1>10 DEF saves
      <4>3. \A j \in 1..Len(r) : previousSave(r, j, k) => previousSave(q, j + 1, k + 1) /\ j + 1 \in 1..Len(q) /\ r[j] = q[j + 1]
        BY <1>10
      <4>4. q[k + 1].to \in CheckpointStatuses /\ (q[k + 1].to = "compensated" => effectsOf(s)' \subseteq {"compensated"})
        BY <1>6, <3>1, <4>1 DEF SaveStatus
      <4>5. firstSave(r, k) => checkpointTransitionAllowed(w.to, q[k + 1].to)
        BY <1>1, <4>1, <4>2 DEF SaveStatus
      <4>6. \A j \in 1..Len(r) : previousSave(r, j, k) => checkpointTransitionAllowed(r[j].to, q[k + 1].to)
        BY <4>1, <4>3 DEF SaveStatus
      <4> QED
        BY <2>1, <3>1, <4>4, <4>5, <4>6 DEF SaveStatus, firstSave, previousSave, saves
    <3>3. ASSUME q[k + 1].op = "save", ~live(q[k + 1]) PROVE ExplicitSave(r, k)'
      <4>1. ExplicitSave(q, k + 1)
        BY <3>1, <3>3 DEF WriteOk
      <4>2. \A j \in 1..k - 1 : r[j] = q[j + 1] /\ j + 1 \in 1..(k + 1) - 1
        BY <1>2
      <4>3. ~live(w) /\ w.cursor <= q[k + 1].cursor
        BY <1>1, <1>9, <4>1 DEF ExplicitSave, saves
      <4>4. cursorOf(w) = w.cursor
        BY <4>3 DEF cursorOf, live
      <4>5. eventsOf(s, {"stage.completed"})' = eventsOf(s, {"stage.completed"})
        BY <1>9 DEF eventsOf
      <4> QED
        <5>1. q[k + 1].cursor \in 1..Len(log') /\ ck'[s].cursor <= q[k + 1].cursor
          BY <1>9, <2>1, <4>1, <4>3, <4>4 DEF ExplicitSave
        <5>2. \A j \in 1..k - 1 : saves(r, j) => ~live(r[j]) /\ r[j].cursor <= q[k + 1].cursor
          BY <4>1, <4>2 DEF ExplicitSave, saves
        <5>3. q[k + 1].to = "committed" => q[k + 1].cursor \in eventsOf(s, {"stage.completed"})'
          BY <3>1, <4>1, <4>5 DEF ExplicitSave
        <5> QED
          BY <3>1, <5>1, <5>2, <5>3 DEF ExplicitSave
    <3>4. ASSUME q[k + 1].op = "save", live(q[k + 1]) PROVE LiveSave(r, k)'
      <4>1. LiveSave(q, k + 1) /\ k + 1 # 1
        BY <3>1, <3>4 DEF WriteOk
      <4>2. q[k].op = "event" /\ q[k].to \in StageEvents /\ (q[k + 1].to = "committed" => q[k].to = "stage.completed")
        BY <4>1 DEF LiveSave
      <4>3. k # 1
        BY <1>9, <4>2
      <4>4. r[k - 1] = q[k]
        <5>1. k - 1 \in 1..Len(r) /\ (k - 1) + 1 = k
          BY <1>1, <1>2, <4>3
        <5> QED
          BY <1>2, <5>1
      <4> QED
        BY <3>1, <4>2, <4>3, <4>4 DEF LiveSave
    <3>5. q[k + 1].op = "event" => q[k + 1].to \in StageLogTypes
      BY <3>1 DEF WriteOk
    <3>6. q[k + 1].op = "event" /\ q[k + 1].to = "stage.completed" => steps'[s].status = "completed"
      BY <1>3, <1>9, <3>1 DEF WriteOk
    <3> QED
      BY <3>1, <3>2, <3>3, <3>4, <3>5, <3>6 DEF WriteOk
  <2>4. r[1].stage \in 1..Len(steps')
    BY <1>1, <1>2, <1>3, <1>9
  <2> QED
    BY <1>2, <2>3, <2>4 DEF BatchOk, r
<1> QED
  BY <1>7, <1>8, <1>9 DEF Write


\* Every list of writes stays acceptable while it is carried out.
LEMMA WriteAccepted ==
  ASSUME StageTypes, CheckpointRows, OneRunning, WritesAccepted, Write
  PROVE  WritesAccepted'
<1>1. /\ Len(todo) \in Nat /\ Len(todo) > 0 /\ todo \in Seq(Seq(StageWrites)) /\ todo[1] # <<>> /\ Len(todo[1]) \in Nat /\ Len(todo[1]) > 0
      /\ todo[1] \in Seq(StageWrites)
  BY FirstWrite DEF StageTypes
<1>2. /\ todo' \in Seq(Seq(StageWrites)) /\ Len(todo') = IF Len(todo[1]) = 1 THEN Len(todo) - 1 ELSE Len(todo)
      /\ \A b \in 1..Len(todo') :
           IF Len(todo[1]) = 1 THEN b + 1 \in 1..Len(todo) /\ todo'[b] = todo[b + 1]
           ELSE b \in 1..Len(todo) /\ todo'[b] = IF b = 1 THEN Tail(todo[1]) ELSE todo[b]
  <2>1. todo' = IF Len(todo[1]) = 1 THEN Tail(todo) ELSE [todo EXCEPT ![1] = Tail(@)]
    BY DEF Write
  <2> QED
    BY <1>1, <2>1, TodoShifts
<1>3. ASSUME NEW b \in 1..Len(todo), NEW q, b # 1, q = todo[b] PROVE BatchOk(q)' /\ q[1].stage # todo[1][1].stage
  <2>1. q \in Seq(StageWrites) /\ BatchOk(q) /\ q[1].stage # todo[1][1].stage
    BY <1>1, <1>3 DEF WritesAccepted
  <2> QED
    BY <2>1, OtherBatchKept
<1>4. ASSUME NEW b \in 1..Len(todo'), NEW q, q = todo'[b] PROVE BatchOk(q)'
  <2>1. CASE Len(todo[1]) = 1
    <3>1. b + 1 \in 1..Len(todo) /\ b + 1 # 1 /\ q = todo[b + 1]
      BY <1>1, <1>2, <1>4, <2>1
    <3> QED
      BY <1>3, <3>1
  <2>2. CASE Len(todo[1]) # 1 /\ b = 1
    <3>1. q = Tail(todo[1])
      BY <1>2, <1>4, <2>2
    <3>2. Len(todo[1]) > 1
      <4>1. Len(todo[1]) \in Nat /\ Len(todo[1]) > 0 /\ Len(todo[1]) # 1
        BY <1>1, <2>2
      <4> QED
        BY <4>1, MoreThanOne
    <3>3. \A p : p = todo[1] => BatchOk(Tail(p))'
      BY <3>2, SameBatchKept
    <3> QED
      BY <3>1, <3>3
  <2>3. CASE Len(todo[1]) # 1 /\ b # 1
    <3>1. b \in 1..Len(todo) /\ q = todo[b]
      BY <1>1, <1>2, <1>4, <2>3
    <3> QED
      BY <1>3, <2>3, <3>1
  <2> QED
    BY <2>1, <2>2, <2>3
<1>5. \A b \in 1..Len(todo') : BatchOk(todo[b])'
  BY <1>4
<1>6. ASSUME NEW a \in 1..Len(todo'), NEW b \in 1..Len(todo'), todo'[a][1].stage = todo'[b][1].stage PROVE a = b
  <2>1. \A c, d \in 1..Len(todo) : todo[c][1].stage = todo[d][1].stage => c = d
    BY DEF WritesAccepted
  <2>2. CASE Len(todo[1]) = 1
    <3>1. /\ a + 1 \in 1..Len(todo) /\ todo'[a] = todo[a + 1] /\ b + 1 \in 1..Len(todo) /\ todo'[b] = todo[b + 1]
      BY <1>2, <2>2
    <3>2. a + 1 = b + 1
      BY <1>6, <2>1, <3>1
    <3> QED
      BY <1>1, <1>2, <3>2
  <2>3. CASE Len(todo[1]) # 1
    <3>1. Tail(todo[1])[1] = todo[1][2] /\ todo[1][2].stage = todo[1][1].stage
      <4>1. 2 \in 1..Len(todo[1]) /\ Tail(todo[1])[1] = todo[1][2]
        BY <1>1, <2>3, SecondOf
      <4>2. WriteOk(todo[1], 2)
        BY <4>1, FirstWrite
      <4> QED
        BY <4>1, <4>2 DEF WriteOk
    <3>2. \A c \in 1..Len(todo') : c \in 1..Len(todo) /\ todo'[c][1].stage = todo[c][1].stage
      BY <1>2, <2>3, <3>1
    <3> QED
      BY <1>6, <2>1, <3>2
  <2> QED
    BY <2>2, <2>3
<1> QED
  BY <1>5, <1>6 DEF WritesAccepted


\* The last Stage event of a Stage that has one.
LEMMA LastEvent ==
  ASSUME StageTypes, NEW s, NEW e \in eventsOf(s, StageEvents), \A d \in eventsOf(s, StageEvents) : d <= e
  PROVE  lastStageEvent(s) = e
<1> DEFINE S == eventsOf(s, StageEvents)
<1>1. S \subseteq Nat
  BY DEF eventsOf, StageTypes
<1>2. lastStageEvent(s) = Max(S)
  BY DEF lastStageEvent, StageEvents
<1>3. Max(S) \in S /\ \A d \in S : Max(S) >= d
  <2>1. e \in S /\ \A d \in S : e >= d
    BY <1>1
  <2> QED
    BY <2>1 DEF Max
<1>4. e \in Nat /\ Max(S) \in Nat /\ Max(S) <= e /\ e <= Max(S)
  BY <1>1, <1>3
<1> QED
  BY <1>2, <1>4

\* What a checkpoint write leaves: an event of the Stage or the cursor it was given, never an earlier one.
LEMMA SavedCursor ==
  ASSUME StageTypes, WritesAccepted, Write, todo[1][1].op = "save"
  PROVE  LET w == todo[1][1] IN
         /\ w.to \in CheckpointStatuses /\ cursorOf(w) \in 1..Len(log) /\ ck[w.stage].cursor <= cursorOf(w)
         /\ w.to = "committed" => cursorOf(w) \in eventsOf(w.stage, {"stage.completed"})
         /\ w.to = "compensated" => effectsOf(w.stage) \subseteq {"compensated"}
<1> DEFINE w == todo[1][1]
<1>1. WriteOk(todo[1], 1) /\ SaveStatus(todo[1], 1)
  BY FirstWrite DEF WriteOk
<1>2. w.to \in CheckpointStatuses /\ (w.to = "compensated" => effectsOf(w.stage) \subseteq {"compensated"})
  BY <1>1 DEF SaveStatus
<1>3. CASE live(w)
  <2>1. PICK e \in eventsOf(w.stage, StageEvents) :
          /\ ck[w.stage].cursor <= e /\ (\A d \in eventsOf(w.stage, StageEvents) : d <= e)
          /\ w.to = "committed" => log[e].type = "stage.completed"
    <3>1. LiveSave(todo[1], 1)
      BY <1>1, <1>3 DEF WriteOk
    <3> QED
      BY <3>1 DEF LiveSave
  <2>2. cursorOf(w) = e
    BY <1>3, <2>1, LastEvent DEF cursorOf, live
  <2>3. e \in 1..Len(log) /\ log[e].stage = w.stage
    BY <2>1 DEF eventsOf
  <2>4. w.to = "committed" => e \in eventsOf(w.stage, {"stage.completed"})
    BY <2>1, <2>3 DEF eventsOf
  <2> QED
    BY <1>2, <2>1, <2>2, <2>3, <2>4
<1>4. CASE ~live(w)
  <2>1. ExplicitSave(todo[1], 1)
    BY <1>1, <1>4 DEF WriteOk
  <2>2. cursorOf(w) = w.cursor
    BY <1>4 DEF cursorOf, live
  <2> QED
    BY <1>2, <2>1, <2>2 DEF ExplicitSave
<1> QED
  BY <1>3, <1>4

\* The store accepts the first write.
LEMMA FirstWriteAccepted ==
  ASSUME StageTypes, WritesAccepted, todo # <<>>, todo[1][1].op = "save", Alive
  PROVE  ValidateCheckpointUpdate(todo[1][1])
<1> DEFINE w == todo[1][1]
<1>1. BatchOk(todo[1])
  BY DEF WritesAccepted, StageTypes
<1>2. todo[1] # <<>> /\ todo[1] \in Seq(StageWrites)
  BY <1>1 DEF BatchOk, StageTypes
<1>3. 1 \in 1..Len(todo[1])
  BY <1>2
<1>4. WriteOk(todo[1], 1)
  BY <1>1, <1>3 DEF BatchOk
<1>5. SaveStatus(todo[1], 1)
  BY <1>4 DEF WriteOk
<1>6. checkpointTransitionAllowed(ck[w.stage].status, w.to)
  BY <1>5 DEF SaveStatus, firstSave
<1>7. CASE live(w)
  <2>1. PICK e \in eventsOf(w.stage, StageEvents) : ck[w.stage].cursor <= e /\ \A d \in eventsOf(w.stage, StageEvents) : d <= e
    <3>1. LiveSave(todo[1], 1)
      BY <1>4, <1>7 DEF WriteOk
    <3> QED
      BY <3>1 DEF LiveSave
  <2>2. cursorOf(w) = e
    BY <1>7, <2>1, LastEvent DEF cursorOf, live
  <2>3. w.stage \in 1..Len(ck)
    BY <1>1 DEF BatchOk, StageTypes
  <2>4. e \in Nat /\ ck[w.stage].cursor \in Nat
    <3>1. e \in Nat
      BY <2>1 DEF eventsOf, StageTypes
    <3>2. ck \in Seq([status : CheckpointStatuses \cup {"none"}, cursor : Nat])
      BY DEF StageTypes
    <3>3. ck[w.stage] \in [status : CheckpointStatuses \cup {"none"}, cursor : Nat]
      BY <2>3, <3>2, ElementOf
    <3> QED
      BY <3>1, <3>3
  <2> QED
    BY <1>6, <2>1, <2>2, <2>4 DEF ValidateCheckpointUpdate
<1>8. CASE ~live(w)
  <2>1. ExplicitSave(todo[1], 1)
    BY <1>4, <1>8 DEF WriteOk
  <2>2. cursorOf(w) = w.cursor
    BY <1>8 DEF cursorOf, live
  <2>3. ck[w.stage].cursor <= w.cursor
    BY <2>1 DEF ExplicitSave
  <2>4. w.stage \in 1..Len(ck)
    BY <1>1 DEF BatchOk, StageTypes
  <2>5. w.cursor \in Nat /\ ck[w.stage].cursor \in Nat
    <3>1. w.cursor \in Nat
      BY <2>1 DEF ExplicitSave, StageTypes
    <3>2. ck \in Seq([status : CheckpointStatuses \cup {"none"}, cursor : Nat])
      BY DEF StageTypes
    <3>3. ck[w.stage] \in [status : CheckpointStatuses \cup {"none"}, cursor : Nat]
      BY <2>4, <3>2, ElementOf
    <3> QED
      BY <3>1, <3>3
  <2> QED
    BY <1>6, <2>2, <2>3, <2>5 DEF ValidateCheckpointUpdate
<1> QED
  BY <1>7, <1>8

\* A write keeps the types.
LEMMA WriteTyped ==
  ASSUME StageTypes, WritesAccepted, Write
  PROVE  StageTypes'
<1> DEFINE w == todo[1][1]
<1>1. /\ todo[1] # <<>> /\ todo \in Seq(Seq(StageWrites)) /\ todo # <<>> /\ w \in StageWrites /\ w.stage \in 1..Len(steps)
      /\ WriteOk(todo[1], 1)
  BY FirstWrite DEF StageTypes, Write
<1>2. todo' \in Seq(Seq(StageWrites))
  <2>1. todo' = IF Len(todo[1]) = 1 THEN Tail(todo) ELSE [todo EXCEPT ![1] = Tail(@)]
    BY DEF Write
  <2> QED
    BY <1>1, <2>1, TodoShifts
<1>3. UNCHANGED <<stageRun, stageEffects, phase, known, reused>>
  BY DEF Write
<1>4. CASE w.op = "step" /\ steps' = [steps EXCEPT ![w.stage].status = w.to] /\ UNCHANGED <<ck, log>>
  <2>1. w.to \in StepStatuses
    BY <1>1, <1>4 DEF WriteOk, StepStatuses
  <2>2. steps \in Seq([role : Range(Roles), status : StepStatuses])
    BY DEF StageTypes
  <2>3. steps[w.stage] \in [role : Range(Roles), status : StepStatuses]
    BY <1>1, <2>2, ElementOf
  <2>4. [steps[w.stage] EXCEPT !.status = w.to] \in [role : Range(Roles), status : StepStatuses]
    BY <2>1, <2>3
  <2>5. steps' = [steps EXCEPT ![w.stage] = [steps[w.stage] EXCEPT !.status = w.to]]
    BY <1>4
  <2>6. steps' \in Seq([role : Range(Roles), status : StepStatuses]) /\ Len(steps') = Len(steps)
    BY <1>1, <2>2, <2>4, <2>5, ExceptSeq
  <2> QED
    BY <1>2, <1>3, <1>4, <2>6 DEF StageTypes
<1>5. CASE w.op = "event" /\ log' = Append(log, [stage |-> w.stage, type |-> w.to]) /\ UNCHANGED <<ck, steps>>
  <2>1. w.to \in StageLogTypes /\ w.stage \in Nat
    BY <1>1, <1>5 DEF WriteOk, StageWrites
  <2>2. [stage |-> w.stage, type |-> w.to] \in [stage : Nat, type : StageLogTypes]
    BY <2>1
  <2>3. log' \in Seq([stage : Nat, type : StageLogTypes]) /\ log' # <<>>
    BY <1>5, <2>2, AppendProperties DEF StageTypes
  <2> QED
    BY <1>2, <1>3, <1>5, <2>3 DEF StageTypes
<1>6. CASE /\ w.op = "save" /\ ck' = [ck EXCEPT ![w.stage] = [status |-> w.to, cursor |-> cursorOf(w)]] /\ UNCHANGED <<log, steps>>
  <2>1. w.to \in CheckpointStatuses /\ cursorOf(w) \in Nat
    BY <1>6, SavedCursor DEF StageTypes
  <2>2. [status |-> w.to, cursor |-> cursorOf(w)] \in [status : CheckpointStatuses \cup {"none"}, cursor : Nat]
    BY <2>1
  <2>3. ck \in Seq([status : CheckpointStatuses \cup {"none"}, cursor : Nat]) /\ w.stage \in 1..Len(ck)
    BY <1>1 DEF StageTypes
  <2>4. ck' \in Seq([status : CheckpointStatuses \cup {"none"}, cursor : Nat]) /\ Len(ck') = Len(ck)
    BY <1>6, <2>2, <2>3, ExceptSeq
  <2> QED
    BY <1>2, <1>3, <1>6, <2>4 DEF StageTypes
<1> QED
  BY <1>4, <1>5, <1>6 DEF Write


\* Checkpoint rows stay true, and a completed event stands for a completed step.
LEMMA WriteRows ==
  ASSUME StageTypes, WritesAccepted, CheckpointRows, CompletionIsReal, Write
  PROVE  CheckpointRows' /\ CompletionIsReal'
<1> DEFINE w == todo[1][1]
<1>1. w \in StageWrites /\ w.stage \in 1..Len(steps) /\ WriteOk(todo[1], 1)
  BY FirstWrite
<1>2. \A s : effectsOf(s)' = effectsOf(s)
  BY DEF Write, effectsOf
<1>3. CASE w.op = "step" /\ steps' = [steps EXCEPT ![w.stage].status = w.to] /\ UNCHANGED <<ck, log>>
  <2>1. steps[w.stage].status = "running"
    BY <1>1, <1>3 DEF WriteOk
  <2>2. Len(steps') = Len(steps) /\ \A i \in 1..Len(steps) : i # w.stage => steps'[i] = steps[i]
    BY <1>1, <1>3 DEF StageTypes
  <2>3. CheckpointRows'
    BY <1>2, <1>3, <2>2 DEF CheckpointRows, CheckpointRow, eventsOf
  <2>4. CompletionIsReal'
    BY <1>3, <2>1, <2>2 DEF CompletionIsReal
  <2> QED
    BY <2>3, <2>4
<1>4. CASE w.op = "event" /\ log' = Append(log, [stage |-> w.stage, type |-> w.to]) /\ UNCHANGED <<ck, steps>>
  <2>1. Len(log) \in Nat /\ Len(log') = Len(log) + 1 /\ log'[Len(log) + 1] = [stage |-> w.stage, type |-> w.to] /\ \A e \in 1..Len(log) : log'[e] = log[e]
    BY <1>4 DEF StageTypes
  <2>2. \A s, types : eventsOf(s, types) \subseteq eventsOf(s, types)'
    BY <2>1 DEF eventsOf
  <2>3. CheckpointRows'
    BY <1>2, <1>4, <2>1, <2>2 DEF CheckpointRows, CheckpointRow
  <2>4. w.to = "stage.completed" => steps[w.stage].status = "completed"
    BY <1>1, <1>4 DEF WriteOk
  <2>5. CompletionIsReal'
    <3> SUFFICES ASSUME NEW e \in 1..Len(log'), log'[e].type = "stage.completed"
                 PROVE  log'[e].stage \in 1..Len(steps) /\ steps[log'[e].stage].status = "completed"
      BY <1>4 DEF CompletionIsReal
    <3>1. CASE e \in 1..Len(log)
      BY <2>1, <3>1 DEF CompletionIsReal
    <3>2. CASE e = Len(log) + 1
      BY <1>1, <2>1, <2>4, <3>2
    <3> QED
      BY <2>1, <3>1, <3>2
  <2> QED
    BY <2>3, <2>5
<1>5. CASE /\ w.op = "save" /\ ck' = [ck EXCEPT ![w.stage] = [status |-> w.to, cursor |-> cursorOf(w)]] /\ UNCHANGED <<log, steps>>
  <2>1. /\ w.to \in CheckpointStatuses /\ cursorOf(w) \in 1..Len(log)
        /\ w.to = "committed" => cursorOf(w) \in eventsOf(w.stage, {"stage.completed"})
        /\ w.to = "compensated" => effectsOf(w.stage) \subseteq {"compensated"}
    BY <1>5, SavedCursor
  <2>2. w.stage \in 1..Len(ck) /\ ck'[w.stage] = [status |-> w.to, cursor |-> cursorOf(w)] /\ \A i \in 1..Len(steps) : i # w.stage => ck'[i] = ck[i]
    BY <1>1, <1>5 DEF StageTypes
  <2>3. \A s, types : eventsOf(s, types)' = eventsOf(s, types)
    BY <1>5 DEF eventsOf
  <2>4. ASSUME NEW s, s = w.stage PROVE CheckpointRow(s)'
    <3>1. w.to # "none"
      BY <2>1 DEF CheckpointStatuses
    <3>2. ck'[s].status = w.to /\ ck'[s].cursor = cursorOf(w)
      BY <2>2, <2>4
    <3>3. w.to = "committed" => \E e \in eventsOf(s, {"stage.completed"}) : e <= cursorOf(w)
      <4>1. cursorOf(w) \in Nat
        BY <2>1 DEF StageTypes
      <4> QED
        BY <2>1, <2>4, <4>1
    <3>4. w.to = "compensated" => effectsOf(s) \subseteq {"compensated"}
      BY <2>1, <2>4
    <3> HIDE DEF w
    <3> QED
      BY <1>2, <1>5, <2>1, <2>3, <3>1, <3>2, <3>3, <3>4 DEF CheckpointRow
  <2>5. CheckpointRows'
    <3> SUFFICES ASSUME NEW s \in 1..Len(steps) PROVE CheckpointRow(s)'
      BY <1>5 DEF CheckpointRows
    <3>1. CASE s = w.stage
      BY <2>4, <3>1
    <3>2. CASE s # w.stage
      BY <1>2, <1>5, <2>2, <2>3, <3>2 DEF CheckpointRows, CheckpointRow
    <3> QED
      BY <3>1, <3>2
  <2>6. CompletionIsReal'
    BY <1>5 DEF CompletionIsReal
  <2> QED
    BY <2>5, <2>6
<1> QED
  BY <1>3, <1>4, <1>5 DEF Write

\* A step that ends was the running one, and no other Stage of its role is complete.
LEMMA WriteSteps ==
  ASSUME StageTypes, WritesAccepted, OneRunning, CompletedOnce, NoWriteRepeated, Write
  PROVE  OneRunning' /\ CompletedOnce' /\ AllCompleted' /\ NoWriteRepeated'
<1> DEFINE w == todo[1][1]
<1>1. w \in StageWrites /\ w.stage \in 1..Len(steps) /\ WriteOk(todo[1], 1)
  BY FirstWrite
<1>2. \A s : effectsOf(s)' = effectsOf(s)
  BY DEF Write, effectsOf
<1>3. AllCompleted'
  BY DEF Write, Alive, AllCompleted
<1>4. CASE w.op = "step" /\ steps' = [steps EXCEPT ![w.stage].status = w.to] /\ UNCHANGED <<ck, log>>
  <2>1. steps[w.stage].status = "running" /\ w.to \in {"completed", "failed"}
    BY <1>1, <1>4 DEF WriteOk
  <2>2. steps \in Seq([role : Range(Roles), status : StepStatuses])
    BY DEF StageTypes
  <2>3. steps[w.stage] \in [role : Range(Roles), status : StepStatuses]
    BY <1>1, <2>2, ElementOf
  <2>4. /\ Len(steps') = Len(steps) /\ steps'[w.stage].status = w.to /\ steps'[w.stage].role = steps[w.stage].role
        /\ \A i \in 1..Len(steps) : i # w.stage => steps'[i] = steps[i]
    BY <1>1, <1>4, <2>2, <2>3
  <2>5. \A i \in 1..Len(steps) : steps'[i].role = steps[i].role
    BY <2>4
  <2>6. NoWriteRepeated'
    BY <1>2, <2>4, <2>5 DEF NoWriteRepeated
  <2>7. \A j \in 1..Len(steps) : steps[j].role = steps[w.stage].role => steps[j].status # "completed"
    BY <1>1, <2>1 DEF OneRunning
  <2>8. w.stage = Len(steps)
    BY <1>1, <2>1 DEF OneRunning
  <2>9. \A i \in 1..Len(steps) : steps'[i].status # "running"
    BY <2>1, <2>4, <2>8 DEF OneRunning
  <2>10. CompletedOnce'
    <3> SUFFICES ASSUME NEW i \in 1..Len(steps), NEW j \in 1..Len(steps), steps[i].role = steps[j].role,
                        steps'[i].status = "completed", steps'[j].status = "completed"
                 PROVE  i = j
      BY <2>4, <2>5 DEF CompletedOnce
    <3>1. CASE i # w.stage /\ j # w.stage
      BY <2>4, <3>1 DEF CompletedOnce
    <3>2. CASE i = w.stage /\ j # w.stage
      BY <2>4, <2>7, <3>2
    <3>3. CASE i # w.stage /\ j = w.stage
      BY <2>4, <2>7, <3>3
    <3> QED
      BY <3>1, <3>2, <3>3
  <2> QED
    BY <1>3, <2>4, <2>6, <2>9, <2>10 DEF OneRunning
<1>5. CASE UNCHANGED steps
  BY <1>2, <1>3, <1>5 DEF OneRunning, CompletedOnce, NoWriteRepeated
<1> QED
  BY <1>4, <1>5 DEF Write

\* The tail and the Turn stay where they are while the writes are made.
LEMMA WritePhases ==
  ASSUME StageTypes, WritesAccepted, OneRunning, Phases, KnownSettled, TailDone, TurnRuns, Write
  PROVE  Phases' /\ KnownSettled' /\ TailDone' /\ TurnRuns'
<1> DEFINE q == todo[1]
           w == q[1]
<1>1. /\ w \in StageWrites /\ w.stage \in 1..Len(steps) /\ WriteOk(q, 1) /\ Len(todo) \in Nat /\ Len(todo) > 0
      /\ q \in Seq(StageWrites) /\ q # <<>> /\ Len(q) \in Nat /\ Len(q) > 0 /\ \A k \in 1..Len(q) : WriteOk(q, k)
  BY FirstWrite
<1>2. (\A s : effectsOf(s)' = effectsOf(s)) /\ UNCHANGED <<stageRun, phase, known, reused>> /\ todo # <<>> /\ stageRun = "running"
  BY DEF Write, effectsOf, Alive
<1>3. phase \in Executing
  BY <1>2 DEF Phases
<1>4. Len(steps') = Len(steps) /\ \A i \in 1..Len(steps) : i # w.stage => steps'[i] = steps[i]
  BY <1>1 DEF Write, StageTypes
<1>5. w.op # "step" => steps' = steps
  BY <1>1 DEF Write
<1>6. w.op = "step" => /\ steps[w.stage].status = "running" /\ steps'[w.stage].status = w.to /\ w.to \in {"completed", "failed"}
                       /\ w.stage = Len(steps)
  <2> SUFFICES ASSUME w.op = "step"
               PROVE  /\ steps[w.stage].status = "running" /\ steps'[w.stage].status = w.to /\ w.to \in {"completed", "failed"}
                      /\ w.stage = Len(steps)
    OBVIOUS
  <2>1. steps[w.stage].status = "running" /\ w.to \in {"completed", "failed"}
    BY <1>1 DEF WriteOk
  <2>2. steps \in Seq([role : Range(Roles), status : StepStatuses])
    BY DEF StageTypes
  <2>3. steps[w.stage] \in [role : Range(Roles), status : StepStatuses]
    BY <1>1, <2>2, ElementOf
  <2>4. steps' = [steps EXCEPT ![w.stage].status = w.to]
    BY DEF Write
  <2>5. steps'[w.stage].status = w.to
    BY <1>1, <2>2, <2>3, <2>4
  <2> QED
    BY <1>1, <2>1, <2>5 DEF OneRunning
<1> HIDE DEF q
<1>7. Phases'
  <2>1. phase \notin {"accepted", "validated"} /\ stageRun # "failed_recoverable"
    BY <1>2, <1>3 DEF Executing
  <2>2. \A i \in reused : i \in 1..Len(steps) /\ steps'[i].status = "completed"
    BY <1>1, <1>4, <1>5, <1>6 DEF Phases, StageTypes
  <2> QED
    BY <1>2, <1>3, <2>1, <2>2 DEF Phases
<1>8. KnownSettled'
  <2>1. w.op = "step" => w.stage \notin known
    BY <1>3, <1>6 DEF KnownSettled
  <2>2. known \subseteq 1..Len(steps)
    BY DEF StageTypes
  <2> QED
    BY <1>2, <1>3, <1>4, <1>5, <2>1, <2>2 DEF KnownSettled
<1>9. TailDone'
  <2> SUFFICES ASSUME phase = "tail", NEW i \in 1..Len(steps)
               PROVE  (i \notin known => steps'[i].status = "completed") /\ steps'[i].status # "running"
    BY <1>2, <1>4 DEF TailDone
  <2>1. (i \notin known => steps[i].status = "completed" \/ ends(i)) /\ (steps[i].status = "running" => ends(i))
    BY DEF TailDone
  <2>2. ends(i) => w.op = "step" /\ w.to = "completed" /\ w.stage = i
    BY DEF ends, q
  <2>3. CASE w.op = "step"
    <3>1. ends(w.stage) /\ w.to = "completed"
      BY <1>1, <1>6, <2>3 DEF TailDone, ends, q
    <3> QED
      BY <1>4, <1>6, <2>1, <2>2, <2>3, <3>1
  <2>4. CASE w.op # "step"
    BY <1>5, <2>1, <2>2, <2>4
  <2> QED
    BY <2>3, <2>4
<1>10. TurnRuns'
  <2> SUFFICES ASSUME phase = "turn" PROVE TurnRuns'
    BY <1>2 DEF TurnRuns
  <2>1. /\ Len(steps) > 0 /\ current \notin known /\ steps[current].status = "running"
        /\ \A i \in 1..Len(steps) - 1 : i \notin known => steps[i].status = "completed"
        /\ Len(todo) = 1 /\ w.stage = current /\ \A k \in 1..Len(q) : q[k].op # "step"
        /\ \/ ck[current].status = "executing" /\ \A k \in 1..Len(q) : ~saves(q, k)
           \/ \E k \in 1..Len(q) : saves(q, k) /\ q[k].to = "executing" /\ \A j \in k + 1..Len(q) : ~saves(q, j)
    <3>1. Len(todo) = 1
      <4>1. Len(todo) <= 1
        BY DEF TurnRuns
      <4>2. \A n \in Nat : n > 0 /\ n <= 1 => n = 1
        OBVIOUS
      <4> QED
        BY <1>1, <4>1, <4>2
    <3>2. todo[1][1].stage = current /\ \A k \in 1..Len(todo[1]) : todo[1][k].op # "step"
      BY <3>1 DEF TurnRuns
    <3>3. \/ ck[current].status = "executing" /\ \A k \in 1..Len(todo[1]) : ~saves(todo[1], k)
          \/ \E k \in 1..Len(todo[1]) : saves(todo[1], k) /\ todo[1][k].to = "executing" /\ \A j \in k + 1..Len(todo[1]) : ~saves(todo[1], j)
      BY <3>1 DEF TurnRuns
    <3> QED
      BY <3>1, <3>2, <3>3 DEF TurnRuns, q
  <2>2. steps' = steps /\ current' = current
    BY <1>1, <1>5, <2>1 DEF current
  <2>3. /\ Len(todo') = IF Len(q) = 1 THEN 0 ELSE 1
        /\ Len(q) # 1 => todo'[1] = Tail(q)
    <3>1. todo' = IF Len(q) = 1 THEN Tail(todo) ELSE [todo EXCEPT ![1] = Tail(@)]
      BY DEF Write, q
    <3>2. todo \in Seq(Seq(StageWrites))
      BY DEF StageTypes
    <3>3. /\ Len(todo') = IF Len(q) = 1 THEN Len(todo) - 1 ELSE Len(todo)
          /\ \A b \in 1..Len(todo') : Len(q) # 1 => todo'[b] = IF b = 1 THEN Tail(q) ELSE todo[b]
      BY <1>1, <1>2, <3>1, <3>2, TodoShifts DEF q
    <3>4. Len(q) = 1 => Len(todo') = 0
      BY <2>1, <3>3
    <3>5. Len(q) # 1 => Len(todo') = 1 /\ 1 \in 1..Len(todo')
      BY <2>1, <3>3
    <3> QED
      BY <3>3, <3>4, <3>5
  <2>4. ck[current].status = "executing" /\ (\A k \in 1..Len(q) : ~saves(q, k)) => ck' = ck
    BY <1>1 DEF Write, saves, q
  <2>5. CASE Len(q) = 1
    <3>1. Len(todo') = 0
      BY <2>3, <2>5
    <3>2. ck'[current].status = "executing"
      <4>1. CASE ck[current].status = "executing" /\ \A k \in 1..Len(q) : ~saves(q, k)
        BY <2>4, <4>1
      <4>2. CASE w.op = "save" /\ w.to = "executing"
        BY <1>1, <2>1, <4>2 DEF Write, q, StageTypes
      <4> QED
        BY <2>1, <2>5, <4>1, <4>2 DEF saves
    <3> QED
      BY <1>2, <2>1, <2>2, <3>1, <3>2 DEF TurnRuns
  <2>6. CASE Len(q) # 1
    <3> DEFINE r == Tail(q)
    <3>1. Len(r) = Len(q) - 1 /\ \A k \in 1..Len(r) : r[k] = q[k + 1] /\ k + 1 \in 1..Len(q)
      <4>1. Len(q) > 1
        BY <1>1, <2>6, MoreThanOne
      <4> QED
        BY <1>1, <4>1
    <3>2. Len(todo') = 1 /\ todo'[1] = r
      BY <2>3, <2>6
    <3> HIDE DEF r
    <3>3. r[1].stage = current
      <4>1. 1 \in 1..Len(r) /\ WriteOk(q, 2) /\ r[1] = q[2]
        BY <1>1, <2>6, <3>1, MoreThanOne
      <4> QED
        BY <2>1, <4>1 DEF WriteOk
    <3>4. \A k \in 1..Len(r) : r[k].op # "step"
      BY <2>1, <3>1
    <3>5. \/ ck'[current].status = "executing" /\ \A k \in 1..Len(r) : ~saves(r, k)
          \/ \E k \in 1..Len(r) : saves(r, k) /\ r[k].to = "executing" /\ \A j \in k + 1..Len(r) : ~saves(r, j)
      <4>1. CASE ck[current].status = "executing" /\ \A k \in 1..Len(q) : ~saves(q, k)
        BY <2>4, <3>1, <4>1 DEF saves
      <4>2. ASSUME NEW k \in 1..Len(q), saves(q, k), q[k].to = "executing", \A j \in k + 1..Len(q) : ~saves(q, j), k # 1 PROVE <3>5
        <5>1. k - 1 \in 1..Len(r) /\ r[k - 1] = q[k] /\ \A j \in (k - 1) + 1..Len(r) : j + 1 \in k + 1..Len(q) /\ r[j] = q[j + 1]
          BY <1>1, <3>1, <4>2
        <5> QED
          BY <4>2, <5>1 DEF saves
      <4>3. CASE w.op = "save" /\ w.to = "executing" /\ \A j \in 2..Len(q) : ~saves(q, j)
        <5>1. ck'[current].status = "executing"
          BY <1>1, <2>1, <4>3 DEF Write, q, StageTypes
        <5>2. \A j \in 1..Len(r) : j + 1 \in 2..Len(q)
          BY <1>1, <3>1
        <5> QED
          BY <3>1, <4>3, <5>1, <5>2 DEF saves
      <4> QED
        BY <2>1, <4>1, <4>2, <4>3 DEF saves
    <3> QED
      BY <1>2, <2>1, <2>2, <3>2, <3>3, <3>4, <3>5 DEF TurnRuns
  <2> QED
    BY <2>5, <2>6
<1> QED
  BY <1>7, <1>8, <1>9, <1>10


\* A sequence over a set is one over any wider set.
LEMMA WiderSeq ==
  ASSUME NEW S, NEW T, S \subseteq T, NEW q \in Seq(S)
  PROVE  q \in Seq(T)
<1>1. Len(q) \in Nat /\ q = [i \in 1..Len(q) |-> q[i]] /\ \A i \in 1..Len(q) : q[i] \in T
  OBVIOUS
<1> QED
  BY <1>1

\* The next Stage is one no finished step has; there is none when every Stage has a finished step.
LEMMA NextRole ==
  ASSUME StageTypes
  PROVE  /\ nextRole > 0 => nextRole \in 1..Len(Roles) /\ \A i \in stageFinished : steps[i].role # Roles[nextRole]
         /\ nextRole = 0 => \A k \in 1..Len(Roles) : \E i \in stageFinished : steps[i].role = Roles[k]
<1> DEFINE I == {k \in 1..Len(Roles) : Roles[k] \notin {steps[i].role : i \in stageFinished}}
<1>1. nextRole = IF I # {} THEN Min(I) ELSE 0
  BY DEF nextRole, SelectInSeq
<1>2. Len(Roles) \in Nat
  BY RolesAssumption
<1>3. CASE I = {}
  <2>1. nextRole = 0
    BY <1>1, <1>3
  <2> QED
    BY <1>3, <2>1
<1>4. CASE I # {}
  <2>1. I \in SUBSET Nat /\ I # {}
    BY <1>2, <1>4
  <2> HIDE DEF I
  <2>2. PICK x \in I : \A k \in I : x <= k
    BY <2>1, Smallest
  <2>3. Min(I) \in I
    BY <2>2 DEF Min
  <2>4. nextRole \in I
    BY <1>1, <1>4, <2>3
  <2>5. nextRole \in 1..Len(Roles) /\ Roles[nextRole] \notin {steps[i].role : i \in stageFinished}
    BY <2>4 DEF I
  <2> QED
    BY <1>2, <2>5
<1> QED
  BY <1>3, <1>4

\* In the tail every step made by this execution is complete, and none runs.
LEMMA TailSteps ==
  ASSUME StageTypes, Phases, TailDone, Ready("tail")
  PROVE  /\ todo = <<>> /\ stageRun = "running" /\ phase = "tail"
         /\ \A i \in 1..Len(steps) : steps[i].status # "running" /\ (i \notin known => steps[i].status = "completed" /\ i \in stageFinished)
BY DEF Ready, Alive, TailDone, ends, stageFinished

\* A new Stage starts with the writes of its start.
LEMMA StartAccepted ==
  ASSUME StageTypes, NEW s, NEW q, s = Len(steps) + 1, Len(steps') = s, log' = log,
         ck'[s] = [status |-> "none", cursor |-> 0],
         q = <<CheckpointWrite(s, "prepared", Len(log)), StageRunEvent(s, "stage.started"),
               CheckpointWrite(s, "executing", 0), StageRunEvent(s, "checkpoint.captured")>>
  PROVE  BatchOk(q)' /\ q \in Seq(StageWrites) /\ Len(q) = 4
<1>1. s \in Nat /\ s \in 1..Len(steps') /\ Len(log) \in Nat /\ Len(log) > 0
  BY DEF StageTypes
<1>2. /\ q[1] = [op |-> "save", stage |-> s, to |-> "prepared", cursor |-> Len(log)]
      /\ q[2] = [op |-> "event", stage |-> s, to |-> "stage.started", cursor |-> 0]
      /\ q[3] = [op |-> "save", stage |-> s, to |-> "executing", cursor |-> 0]
      /\ q[4] = [op |-> "event", stage |-> s, to |-> "checkpoint.captured", cursor |-> 0]
      /\ Len(q) = 4
  BY DEF CheckpointWrite, StageRunEvent
<1>3. q \in Seq(StageWrites)
  <2>1. q[1] \in StageWrites /\ q[2] \in StageWrites /\ q[3] \in StageWrites /\ q[4] \in StageWrites
    BY <1>1, <1>2 DEF StageWrites, StageLogTypes, StageEvents, StageTerminal, CheckpointStatuses
  <2> QED
    BY <1>2, <2>1
<1>4. WriteOk(q, 1)'
  <2>1. SaveStatus(q, 1)'
    BY <1>1, <1>2 DEF SaveStatus, previousSave, checkpointTransitionAllowed, CheckpointStatuses
  <2>2. ExplicitSave(q, 1)'
    BY <1>1, <1>2 DEF ExplicitSave
  <2> QED
    BY <1>2, <2>1, <2>2 DEF WriteOk, live
<1>5. WriteOk(q, 2)'
  BY <1>2 DEF WriteOk, StageLogTypes, StageEvents
<1>6. WriteOk(q, 3)'
  <2>1. SaveStatus(q, 3)'
    <3>1. ~firstSave(q, 3)
      BY <1>2 DEF firstSave, saves
    <3>2. \A j \in 1..Len(q) : previousSave(q, j, 3) => q[j].to = "prepared"
      BY <1>2 DEF previousSave, saves
    <3> QED
      BY <1>2, <3>1, <3>2 DEF SaveStatus, checkpointTransitionAllowed, CheckpointStatuses, firstSave, previousSave, saves
  <2>2. LiveSave(q, 3)'
    BY <1>2 DEF LiveSave, StageEvents
  <2> QED
    BY <1>2, <2>1, <2>2 DEF WriteOk, live
<1>7. WriteOk(q, 4)'
  BY <1>2 DEF WriteOk, StageLogTypes
<1>8. \A k \in 1..Len(q) : WriteOk(q, k)'
  BY <1>2, <1>4, <1>5, <1>6, <1>7
<1> QED
  BY <1>1, <1>2, <1>3, <1>8 DEF BatchOk

\* The tail keeps the types, and what it wants written is acceptable.
LEMMA TailTyped ==
  ASSUME StageInv, runCollaborationTail
  PROVE  StageTypes' /\ WritesAccepted'
<1> USE DEF StageInv
<1>1. StageTypes /\ Ready("tail") /\ nextRole \in 1..Len(Roles) /\ Roles[nextRole] \in Range(Roles)
  <2>1. nextRole \in 1..Len(Roles)
    BY NextRole DEF runCollaborationTail
  <2> QED
    BY <2>1, RolesAssumption DEF runCollaborationTail, Range
<1>2. UNCHANGED <<stageRun, log, stageEffects, known, crashes>>
  BY DEF runCollaborationTail
<1> DEFINE r == Roles[nextRole]
           done == latestCompletedCollaborationStep(r)
<1>3. CASE done # {} /\ reused' = reused \cup {Max(done)} /\ UNCHANGED <<steps, ck, phase, todo>>
  <2>1. done \subseteq 1..Len(steps) /\ done \in SUBSET (0..Len(steps)) /\ Len(steps) \in Nat
    <3>1. Len(steps) \in Nat /\ known \subseteq 1..Len(steps)
      BY DEF StageTypes
    <3>2. done \subseteq known
      BY DEF latestCompletedCollaborationStep, completedOf
    <3>3. 1..Len(steps) \subseteq 0..Len(steps)
      BY <3>1
    <3> HIDE DEF done
    <3> QED
      BY <3>1, <3>2, <3>3
  <2>2. Max(done) \in done
    BY <1>3, <2>1, Highest
  <2>3. StageTypes'
    BY <1>2, <1>3, <2>1, <2>2 DEF StageTypes
  <2>4. todo' = <<>>
    BY <1>3 DEF runCollaborationTail, Ready
  <2> QED
    BY <2>3, <2>4 DEF WritesAccepted
<1>4. CASE /\ done = {} /\ steps' = Append(steps, [role |-> r, status |-> "running"])
           /\ ck' = Append(ck, [status |-> "none", cursor |-> 0]) /\ phase' = "turn"
           /\ todo' = <<RecordStageTransition(Len(steps) + 1, "stage.started")>> /\ UNCHANGED reused
  <2> DEFINE q == RecordStageTransition(Len(steps) + 1, "stage.started")
             s == Len(steps) + 1
  <2>1. q = <<CheckpointWrite(s, "prepared", Len(log)), StageRunEvent(s, "stage.started"),
              CheckpointWrite(s, "executing", 0), StageRunEvent(s, "checkpoint.captured")>>
    BY DEF RecordStageTransition
  <2>2. [role |-> r, status |-> "running"] \in [role : Range(Roles), status : StepStatuses]
    BY <1>1 DEF StepStatuses
  <2>3. steps' \in Seq([role : Range(Roles), status : StepStatuses]) /\ Len(steps') = Len(steps) + 1
    BY <1>4, <2>2 DEF StageTypes
  <2>4. [status |-> "none", cursor |-> 0] \in [status : CheckpointStatuses \cup {"none"}, cursor : Nat]
    OBVIOUS
  <2>5. ck' \in Seq([status : CheckpointStatuses \cup {"none"}, cursor : Nat]) /\ Len(ck') = Len(steps) + 1
        /\ ck'[Len(steps) + 1] = [status |-> "none", cursor |-> 0]
    BY <1>4, <2>4, AppendProperties DEF StageTypes
  <2>6. \A p : p = q => BatchOk(p)' /\ p \in Seq(StageWrites) /\ Len(p) = 4
    BY <1>2, <2>1, <2>3, <2>5, StartAccepted
  <2>7. todo' = <<q>>
    BY <1>4
  <2> HIDE DEF q
  <2>8. todo' \in Seq(Seq(StageWrites)) /\ Len(todo') = 1 /\ todo'[1] = q
    BY <2>6, <2>7
  <2>9. WritesAccepted'
    BY <2>6, <2>8 DEF WritesAccepted
  <2>10. stageEffects' \in Seq([stage : 1..Len(steps'), status : StageEffectStatuses])
    <3>1. [stage : 1..Len(steps), status : StageEffectStatuses] \subseteq [stage : 1..Len(steps) + 1, status : StageEffectStatuses]
      BY DEF StageTypes
    <3>2. stageEffects \in Seq([stage : 1..Len(steps), status : StageEffectStatuses])
      BY DEF StageTypes
    <3> QED
      BY <1>2, <2>3, <3>1, <3>2, WiderSeq
  <2>11. known' \subseteq 1..Len(steps') /\ reused' \subseteq 1..Len(steps')
    BY <1>2, <1>4, <2>3 DEF StageTypes
  <2>12. phase' = "turn"
    BY <1>4
  <2> QED
    BY <1>2, <2>3, <2>5, <2>8, <2>9, <2>10, <2>11, <2>12 DEF StageTypes
<1> QED
  BY <1>3, <1>4 DEF runCollaborationTail


\* The rows, one by one.
LEMMA Rows ==
  ASSUME StageTypes
  PROVE  /\ Len(steps) \in Nat /\ Len(log) \in Nat /\ Len(log) > 0 /\ Len(ck) = Len(steps) /\ Len(stageEffects) \in Nat
         /\ \A i \in 1..Len(steps) : steps[i] \in [role : Range(Roles), status : StepStatuses]
         /\ \A i \in 1..Len(steps) : ck[i] \in [status : CheckpointStatuses \cup {"none"}, cursor : Nat]
         /\ \A i \in 1..Len(log) : log[i] \in [stage : Nat, type : StageLogTypes]
         /\ \A i \in 1..Len(stageEffects) : stageEffects[i] \in [stage : 1..Len(steps), status : StageEffectStatuses]
<1>1. /\ steps \in Seq([role : Range(Roles), status : StepStatuses])
      /\ ck \in Seq([status : CheckpointStatuses \cup {"none"}, cursor : Nat]) /\ Len(ck) = Len(steps)
      /\ log \in Seq([stage : Nat, type : StageLogTypes]) /\ log # <<>>
      /\ stageEffects \in Seq([stage : 1..Len(steps), status : StageEffectStatuses])
  BY DEF StageTypes
<1>2. Len(steps) \in Nat /\ Len(log) \in Nat /\ Len(log) > 0 /\ Len(stageEffects) \in Nat
  BY <1>1
<1>3. \A i \in 1..Len(steps) : ck[i] \in [status : CheckpointStatuses \cup {"none"}, cursor : Nat]
  BY <1>1, ElementOf
<1> QED
  BY <1>1, <1>2, <1>3, ElementOf

\* The tail goes on: a completed Stage is reused, or one whose role no step completed is made anew.
LEMMA TailKept ==
  ASSUME StageInv, runCollaborationTail
  PROVE  StageInv'
<1>1. StageTypes' /\ WritesAccepted'
  BY TailTyped
<1>2. UNCHANGED <<stageRun, log, stageEffects, known, crashes>> /\ Ready("tail") /\ nextRole > 0
  BY DEF runCollaborationTail
<1>3. StageTypes /\ Phases /\ TailDone /\ CheckpointRows /\ CompletionIsReal /\ OneRunning /\ CompletedOnce /\ AllCompleted
      /\ KnownSettled /\ NoWriteRepeated
  BY DEF StageInv
<1>4. /\ todo = <<>> /\ stageRun = "running" /\ phase = "tail"
      /\ \A i \in 1..Len(steps) : steps[i].status # "running" /\ (i \notin known => steps[i].status = "completed" /\ i \in stageFinished)
  BY <1>2, <1>3, TailSteps
<1> DEFINE r == Roles[nextRole]
           done == latestCompletedCollaborationStep(r)
<1>5. (\A s : effectsOf(s)' = effectsOf(s)) /\ \A s, types : eventsOf(s, types)' = eventsOf(s, types)
  BY <1>2 DEF effectsOf, eventsOf
<1>6. CASE done # {} /\ reused' = reused \cup {Max(done)} /\ UNCHANGED <<steps, ck, phase, todo>>
  <2>1. Len(steps) \in Nat /\ known \subseteq 1..Len(steps)
    BY <1>3 DEF StageTypes
  <2>2. done \subseteq known
    BY DEF latestCompletedCollaborationStep, completedOf
  <2>3. done \in SUBSET (0..Len(steps))
    <3>1. 1..Len(steps) \subseteq 0..Len(steps)
      BY <2>1
    <3> HIDE DEF done
    <3> QED
      BY <2>1, <2>2, <3>1
  <2>4. Max(done) \in done
    BY <1>6, <2>1, <2>3, Highest
  <2>5. steps[Max(done)].status = "completed"
    BY <2>4 DEF latestCompletedCollaborationStep, completedOf
  <2> HIDE DEF done
  <2>6. Phases'
    BY <1>2, <1>3, <1>4, <1>6, <2>5 DEF Phases
  <2>7. CheckpointRows' /\ CompletionIsReal'
    BY <1>2, <1>3, <1>5, <1>6 DEF CheckpointRows, CheckpointRow, CompletionIsReal
  <2>8. OneRunning' /\ CompletedOnce' /\ AllCompleted'
    BY <1>2, <1>3, <1>6 DEF OneRunning, CompletedOnce, AllCompleted, completedOf
  <2>9. KnownSettled' /\ NoWriteRepeated'
    BY <1>2, <1>3, <1>5, <1>6 DEF KnownSettled, NoWriteRepeated
  <2>10. TailDone' /\ TurnRuns'
    BY <1>2, <1>3, <1>4, <1>6 DEF TailDone, TurnRuns, ends
  <2> QED
    BY <1>1, <2>6, <2>7, <2>8, <2>9, <2>10 DEF StageInv
<1>7. CASE /\ done = {} /\ steps' = Append(steps, [role |-> r, status |-> "running"])
           /\ ck' = Append(ck, [status |-> "none", cursor |-> 0]) /\ phase' = "turn"
           /\ todo' = <<RecordStageTransition(Len(steps) + 1, "stage.started")>> /\ UNCHANGED reused
  <2> DEFINE N == Len(steps)
             q == <<CheckpointWrite(N + 1, "prepared", Len(log)), StageRunEvent(N + 1, "stage.started"),
                    CheckpointWrite(N + 1, "executing", 0), StageRunEvent(N + 1, "checkpoint.captured")>>
  <2>1. /\ N \in Nat /\ Len(steps') = N + 1 /\ steps'[N + 1] = [role |-> r, status |-> "running"]
        /\ \A i \in 1..N : steps'[i] = steps[i]
    BY <1>3, <1>7 DEF StageTypes
  <2>2. Len(ck) = N /\ ck'[N + 1] = [status |-> "none", cursor |-> 0] /\ \A i \in 1..N : ck'[i] = ck[i]
    BY <1>3, <1>7 DEF StageTypes
  <2>3. todo' = <<q>>
    BY <1>7 DEF RecordStageTransition
  <2>4. effectsOf(N + 1) = {}
    <3>1. \A j \in 1..Len(stageEffects) : stageEffects[j].stage \in 1..N
      <4>1. \A j \in 1..Len(stageEffects) : stageEffects[j] \in [stage : 1..N, status : StageEffectStatuses]
        BY <1>3, Rows
      <4> QED
        BY <4>1
    <3> QED
      BY <2>1, <3>1 DEF effectsOf
  <2>5. ASSUME NEW i \in 1..N, steps[i].role = r
        PROVE  steps[i].status # "completed" /\ effectsOf(i) \subseteq {"compensated"}
    <3>1. i \notin known => i \in stageFinished
      BY <1>4
    <3>2. \A j \in stageFinished : steps[j].role # r
      BY <1>2, <1>3, NextRole
    <3>3. i \in known
      BY <2>5, <3>1, <3>2
    <3>4. steps[i].status # "completed"
      BY <1>7, <2>5, <3>3 DEF latestCompletedCollaborationStep, completedOf
    <3> QED
      BY <1>3, <1>4, <3>3, <3>4 DEF KnownSettled, Executing
  <2>6. \A i \in 1..N + 1 : i \in 1..N \/ i = N + 1
    BY <2>1
  <2>7. known \subseteq 1..N /\ reused \subseteq 1..N /\ N + 1 \notin known
    <3>1. known \subseteq 1..N /\ reused \subseteq 1..N
      BY <1>3 DEF StageTypes
    <3>2. N + 1 \notin 1..N
      BY <2>1
    <3> QED
      BY <3>1, <3>2
  <2>8. /\ Len(q) = 4 /\ q[1] = [op |-> "save", stage |-> N + 1, to |-> "prepared", cursor |-> Len(log)]
        /\ q[2] = [op |-> "event", stage |-> N + 1, to |-> "stage.started", cursor |-> 0]
        /\ q[3] = [op |-> "save", stage |-> N + 1, to |-> "executing", cursor |-> 0]
        /\ q[4] = [op |-> "event", stage |-> N + 1, to |-> "checkpoint.captured", cursor |-> 0]
    BY DEF CheckpointWrite, StageRunEvent
  <2> HIDE DEF q, N, r, done
  <2>9. Len(steps) = N
    BY DEF N
  <2>10. CheckpointRows'
    <3> SUFFICES ASSUME NEW s \in 1..N + 1 PROVE CheckpointRow(s)'
      BY <2>1 DEF CheckpointRows
    <3>1. CASE s = N + 1
      BY <1>5, <2>2, <2>4, <3>1 DEF CheckpointRow
    <3>2. CASE s \in 1..N
      <4>1. CheckpointRow(s) /\ ck'[s] = ck[s]
        BY <1>3, <2>2, <2>9, <3>2 DEF CheckpointRows
      <4> QED
        BY <1>2, <1>5, <4>1 DEF CheckpointRow
    <3> QED
      BY <2>6, <3>1, <3>2
  <2>11. CompletionIsReal'
    BY <1>2, <1>3, <2>1, <2>9 DEF CompletionIsReal
  <2>12. OneRunning'
    BY <1>4, <2>1, <2>5, <2>6, <2>9 DEF OneRunning
  <2>13. CompletedOnce' /\ AllCompleted'
    BY <1>2, <1>3, <1>4, <2>1, <2>6, <2>9 DEF CompletedOnce, AllCompleted
  <2>14. Phases' /\ KnownSettled' /\ TailDone'
    BY <1>2, <1>3, <1>4, <1>5, <1>7, <2>1, <2>7, <2>9 DEF Phases, KnownSettled, TailDone, Executing
  <2>15. NoWriteRepeated'
    <3> SUFFICES ASSUME NEW i \in 1..N + 1, NEW j \in 1..N + 1, i < j, steps'[i].role = steps'[j].role
                 PROVE  effectsOf(i) \subseteq {"compensated"}
      BY <1>5, <2>1 DEF NoWriteRepeated
    <3>1. i \in 1..N
      BY <2>1
    <3>2. CASE j \in 1..N
      BY <1>3, <2>1, <2>9, <3>1, <3>2 DEF NoWriteRepeated
    <3>3. CASE j = N + 1
      BY <2>1, <2>5, <3>1, <3>3
    <3> QED
      BY <2>6, <3>2, <3>3
  <2>16. TurnRuns'
    <3>1. Len(todo') = 1 /\ todo'[1] = q
      BY <2>3
    <3>2. \A k \in 1..Len(q) : q[k].op # "step"
      BY <2>8
    <3>3. saves(q, 3) /\ q[3].to = "executing" /\ \A j \in 3 + 1..Len(q) : ~saves(q, j)
      BY <2>8 DEF saves
    <3>4. /\ Len(todo') <= 1
          /\ \A b \in 1..Len(todo') : todo'[b] = q
      BY <3>1
    <3>5. current' = N + 1 /\ Len(steps') > 0 /\ Len(steps') - 1 = N
      BY <2>1 DEF current
    <3>6. \E k \in 1..Len(q) : saves(q, k) /\ q[k].to = "executing" /\ \A j \in k + 1..Len(q) : ~saves(q, j)
      BY <2>8, <3>3
    <3>7. \A i \in 1..N : i \notin known => steps'[i].status = "completed"
      BY <1>4, <2>1, <2>9
    <3>8. /\ Len(todo') = 1
          /\ \E k \in 1..Len(todo'[1]) : saves(todo'[1], k) /\ todo'[1][k].to = "executing" /\ \A j \in k + 1..Len(todo'[1]) : ~saves(todo'[1], j)
      BY <3>1, <3>6
    <3>9. \A b \in 1..Len(todo') : todo'[b][1].stage = N + 1 /\ \A k \in 1..Len(todo'[b]) : todo'[b][k].op # "step"
      BY <2>8, <3>2, <3>4
    <3>10. N + 1 \notin known' /\ steps'[N + 1].status = "running"
      BY <1>2, <2>1, <2>7
    <3> QED
      BY <1>2, <3>1, <3>5, <3>7, <3>8, <3>9, <3>10 DEF TurnRuns, saves
  <2> QED
    BY <1>1, <2>10, <2>11, <2>12, <2>13, <2>14, <2>15, <2>16 DEF StageInv
<1> QED
  BY <1>6, <1>7 DEF runCollaborationTail


\* Concatenations, element by element, and of short tuples.
LEMMA ConcatIs ==
  ASSUME NEW S, NEW p \in Seq(S), NEW r \in Seq(S), NEW z \in Seq(S), Len(z) = Len(p) + Len(r),
         \A i \in 1..Len(p) : z[i] = p[i], \A i \in 1..Len(r) : z[Len(p) + i] = r[i]
  PROVE  p \o r = z
<1>1. /\ p \o r \in Seq(S) /\ Len(p \o r) = Len(z) /\ Len(p) \in Nat /\ Len(r) \in Nat
      /\ \A i \in 1..Len(p) + Len(r) : (p \o r)[i] = IF i <= Len(p) THEN p[i] ELSE r[i - Len(p)]
  BY ConcatProperties
<1>2. ASSUME NEW i \in 1..Len(p) + Len(r) PROVE (p \o r)[i] = z[i]
  <2>1. CASE i <= Len(p)
    BY <1>1, <2>1
  <2>2. CASE ~(i <= Len(p))
    <3>1. i - Len(p) \in 1..Len(r) /\ Len(p) + (i - Len(p)) = i
      BY <1>1, <2>2
    <3> QED
      BY <1>1, <2>2, <3>1
  <2> QED
    BY <2>1, <2>2
<1> QED
  BY <1>1, <1>2, SeqEqual

\* Short batches of writes, put one after the other.
LEMMA OneAndOne ==
  ASSUME NEW a, NEW b
  PROVE  <<a>> \o <<b>> = <<a, b>>
<1> DEFINE S == {a, b}
           ta == <<a>>
           tb == <<b>>
           tab == <<a, b>>
<1>1. /\ ta \in Seq(S) /\ Len(ta) = 1 /\ ta[1] = a
      /\ tb \in Seq(S) /\ Len(tb) = 1 /\ tb[1] = b
      /\ tab \in Seq(S) /\ Len(tab) = 2 /\ tab[1] = a /\ tab[2] = b
  OBVIOUS
<1> HIDE DEF S, ta, tb, tab
<1>2. \A i \in 1..Len(ta) : tab[i] = ta[i]
  BY <1>1
<1>3. \A i \in 1..Len(tb) : tab[Len(ta) + i] = tb[i]
  BY <1>1
<1>4. Len(tab) = Len(ta) + Len(tb)
  BY <1>1
<1>5. ta \in Seq(S) /\ tb \in Seq(S) /\ tab \in Seq(S)
  BY <1>1
<1>6. ta \o tb = tab
  BY <1>2, <1>3, <1>4, <1>5, ConcatIs
<1> QED
  BY <1>6 DEF ta, tb, tab

\* One write, then two.
LEMMA OneAndTwo ==
  ASSUME NEW a, NEW b, NEW c
  PROVE  <<a>> \o <<b, c>> = <<a, b, c>>
<1> DEFINE S == {a, b, c}
           ta == <<a>>
           tbc == <<b, c>>
           tabc == <<a, b, c>>
<1>1. /\ ta \in Seq(S) /\ Len(ta) = 1 /\ ta[1] = a
      /\ tbc \in Seq(S) /\ Len(tbc) = 2 /\ tbc[1] = b /\ tbc[2] = c
      /\ tabc \in Seq(S) /\ Len(tabc) = 3 /\ tabc[1] = a /\ tabc[2] = b /\ tabc[3] = c
  OBVIOUS
<1> HIDE DEF S, ta, tbc, tabc
<1>2. \A i \in 1..Len(ta) : tabc[i] = ta[i]
  BY <1>1
<1>3. \A i \in 1..Len(tbc) : tabc[Len(ta) + i] = tbc[i]
  BY <1>1
<1>4. Len(tabc) = Len(ta) + Len(tbc)
  BY <1>1
<1>5. ta \in Seq(S) /\ tbc \in Seq(S) /\ tabc \in Seq(S)
  BY <1>1
<1>6. ta \o tbc = tabc
  BY <1>2, <1>3, <1>4, <1>5, ConcatIs
<1> QED
  BY <1>6 DEF ta, tbc, tabc

\* Two writes, then one.
LEMMA TwoAndOne ==
  ASSUME NEW a, NEW b, NEW c
  PROVE  <<a, b>> \o <<c>> = <<a, b, c>>
<1> DEFINE S == {a, b, c}
           tab == <<a, b>>
           tc == <<c>>
           tabc == <<a, b, c>>
<1>1. /\ tab \in Seq(S) /\ Len(tab) = 2 /\ tab[1] = a /\ tab[2] = b
      /\ tc \in Seq(S) /\ Len(tc) = 1 /\ tc[1] = c
      /\ tabc \in Seq(S) /\ Len(tabc) = 3 /\ tabc[1] = a /\ tabc[2] = b /\ tabc[3] = c
  OBVIOUS
<1> HIDE DEF S, tab, tc, tabc
<1>2. \A i \in 1..Len(tab) : tabc[i] = tab[i]
  BY <1>1
<1>3. \A i \in 1..Len(tc) : tabc[Len(tab) + i] = tc[i]
  BY <1>1
<1>4. Len(tabc) = Len(tab) + Len(tc)
  BY <1>1
<1>5. tab \in Seq(S) /\ tc \in Seq(S) /\ tabc \in Seq(S)
  BY <1>1
<1>6. tab \o tc = tabc
  BY <1>2, <1>3, <1>4, <1>5, ConcatIs
<1> QED
  BY <1>6 DEF tab, tc, tabc

\* Two writes, then two.
LEMMA TwoAndTwo ==
  ASSUME NEW a, NEW b, NEW c, NEW d
  PROVE  <<a, b>> \o <<c, d>> = <<a, b, c, d>>
<1> DEFINE S == {a, b, c, d}
           tab == <<a, b>>
           tcd == <<c, d>>
           tabcd == <<a, b, c, d>>
<1>1. /\ tab \in Seq(S) /\ Len(tab) = 2 /\ tab[1] = a /\ tab[2] = b
      /\ tcd \in Seq(S) /\ Len(tcd) = 2 /\ tcd[1] = c /\ tcd[2] = d
      /\ tabcd \in Seq(S) /\ Len(tabcd) = 4 /\ tabcd[1] = a /\ tabcd[2] = b /\ tabcd[3] = c /\ tabcd[4] = d
  OBVIOUS
<1> HIDE DEF S, tab, tcd, tabcd
<1>2. \A i \in 1..Len(tab) : tabcd[i] = tab[i]
  BY <1>1
<1>3. \A i \in 1..Len(tcd) : tabcd[Len(tab) + i] = tcd[i]
  BY <1>1
<1>4. Len(tabcd) = Len(tab) + Len(tcd)
  BY <1>1
<1>5. tab \in Seq(S) /\ tcd \in Seq(S) /\ tabcd \in Seq(S)
  BY <1>1
<1>6. tab \o tcd = tabcd
  BY <1>2, <1>3, <1>4, <1>5, ConcatIs
<1> QED
  BY <1>6 DEF tab, tcd, tabcd

\* One write, then three.
LEMMA OneAndThree ==
  ASSUME NEW a, NEW b, NEW c, NEW d
  PROVE  <<a>> \o <<b, c, d>> = <<a, b, c, d>>
<1> DEFINE S == {a, b, c, d}
           ta == <<a>>
           tbcd == <<b, c, d>>
           tabcd == <<a, b, c, d>>
<1>1. /\ ta \in Seq(S) /\ Len(ta) = 1 /\ ta[1] = a
      /\ tbcd \in Seq(S) /\ Len(tbcd) = 3 /\ tbcd[1] = b /\ tbcd[2] = c /\ tbcd[3] = d
      /\ tabcd \in Seq(S) /\ Len(tabcd) = 4 /\ tabcd[1] = a /\ tabcd[2] = b /\ tabcd[3] = c /\ tabcd[4] = d
  OBVIOUS
<1> HIDE DEF S, ta, tbcd, tabcd
<1>2. \A i \in 1..Len(ta) : tabcd[i] = ta[i]
  BY <1>1
<1>3. \A i \in 1..Len(tbcd) : tabcd[Len(ta) + i] = tbcd[i]
  BY <1>1
<1>4. Len(tabcd) = Len(ta) + Len(tbcd)
  BY <1>1
<1>5. ta \in Seq(S) /\ tbcd \in Seq(S) /\ tabcd \in Seq(S)
  BY <1>1
<1>6. ta \o tbcd = tabcd
  BY <1>2, <1>3, <1>4, <1>5, ConcatIs
<1> QED
  BY <1>6 DEF ta, tbcd, tabcd

\* A batch with nothing before it, or after it.
LEMMA NothingBefore ==
  ASSUME NEW a, NEW b, NEW c, NEW d
  PROVE  /\ <<>> \o <<a>> = <<a>> /\ <<>> \o <<a, b>> = <<a, b>> /\ <<>> \o <<a, b, c>> = <<a, b, c>>
         /\ <<>> \o <<a, b, c, d>> = <<a, b, c, d>> /\ <<a>> \o <<>> = <<a>>
<1> DEFINE S == {a, b, c, d}
<1>1. <<a>> \in Seq(S) /\ <<a, b>> \in Seq(S) /\ <<a, b, c>> \in Seq(S) /\ <<a, b, c, d>> \in Seq(S)
  OBVIOUS
<1> QED
  BY <1>1, ConcatEmptySeq

\* What a batch relies on does not move.
LEMMA BatchStays ==
  ASSUME NEW q, BatchOk(q), UNCHANGED <<steps, ck, log, stageEffects>>
  PROVE  BatchOk(q)'
<1>1. (\A s : effectsOf(s)' = effectsOf(s)) /\ \A s, types : eventsOf(s, types)' = eventsOf(s, types)
  BY DEF effectsOf, eventsOf
<1>2. ASSUME NEW k \in 1..Len(q) PROVE WriteOk(q, k)'
  <2>1. WriteOk(q, k)
    BY DEF BatchOk
  <2>2. SaveStatus(q, k) => SaveStatus(q, k)'
    BY <1>1 DEF SaveStatus
  <2>3. ExplicitSave(q, k) => ExplicitSave(q, k)'
    BY <1>1 DEF ExplicitSave
  <2>4. LiveSave(q, k) => LiveSave(q, k)'
    BY <1>1 DEF LiveSave
  <2> QED
    BY <2>1, <2>2, <2>3, <2>4 DEF WriteOk
<1> QED
  BY <1>2 DEF BatchOk

\* The writes that end a Stage whose checkpoint is executing.
LEMMA EndWrites ==
  ASSUME NEW s, ck[s].status = "executing", NEW to, NEW type, type # "stage.started"
  PROVE  <<StageUpdate(s, to)>> \o RecordStageTransition(s, type) =
           <<StageUpdate(s, to), StageRunEvent(s, type),
             CheckpointWrite(s, IF type = "stage.completed" THEN "committed" ELSE "needs_reconciliation", 0),
             StageRunEvent(s, "checkpoint.captured")>>
<1> DEFINE v == CheckpointWrite(s, IF type = "stage.completed" THEN "committed" ELSE "needs_reconciliation", 0)
           e == StageRunEvent(s, type)
           c == StageRunEvent(s, "checkpoint.captured")
           u == StageUpdate(s, to)
<1>1. RecordStageTransition(s, type) = <<>> \o <<e, v, c>>
  BY DEF RecordStageTransition
<1> HIDE DEF e, v, c, u
<1>2. <<u>> \o RecordStageTransition(s, type) = <<u, e, v, c>>
  <2>1. <<>> \o <<e, v, c>> = <<e, v, c>>
    BY NothingBefore
  <2>2. <<u>> \o <<e, v, c>> = <<u, e, v, c>>
    BY OneAndThree
  <2> QED
    BY <1>1, <2>1, <2>2
<1> QED
  BY <1>2 DEF u, e, v, c

\* They are writes the Store accepts.
LEMMA EndAccepted ==
  ASSUME StageTypes, NEW s \in 1..Len(steps), steps[s].status = "running", ck[s].status = "executing", NEW to, NEW type, NEW q,
         (to = "completed" /\ type = "stage.completed") \/ (to = "failed" /\ type = "stage.failed"),
         q = <<StageUpdate(s, to)>> \o RecordStageTransition(s, type)
  PROVE  BatchOk(q) /\ q \in Seq(StageWrites)
<1>1. s \in Nat
  BY Rows
<1>2. /\ Len(q) = 4 /\ q \in Seq({q[1], q[2], q[3], q[4]}) /\ q[1] = [op |-> "step", stage |-> s, to |-> to, cursor |-> 0]
      /\ q[2] = [op |-> "event", stage |-> s, to |-> type, cursor |-> 0]
      /\ q[3] = [op |-> "save", stage |-> s, to |-> IF type = "stage.completed" THEN "committed" ELSE "needs_reconciliation", cursor |-> 0]
      /\ q[4] = [op |-> "event", stage |-> s, to |-> "checkpoint.captured", cursor |-> 0]
  <2> DEFINE v == CheckpointWrite(s, IF type = "stage.completed" THEN "committed" ELSE "needs_reconciliation", 0)
             e == StageRunEvent(s, type)
             c == StageRunEvent(s, "checkpoint.captured")
             u == StageUpdate(s, to)
  <2>1. q = <<u, e, v, c>>
    BY EndWrites
  <2>2. /\ e = [op |-> "event", stage |-> s, to |-> type, cursor |-> 0]
        /\ v = [op |-> "save", stage |-> s, to |-> IF type = "stage.completed" THEN "committed" ELSE "needs_reconciliation", cursor |-> 0]
        /\ c = [op |-> "event", stage |-> s, to |-> "checkpoint.captured", cursor |-> 0]
        /\ u = [op |-> "step", stage |-> s, to |-> to, cursor |-> 0]
    BY DEF StageRunEvent, CheckpointWrite, StageUpdate
  <2> HIDE DEF u, e, v, c
  <2>3. \A z : z = <<u, e, v, c>> => Len(z) = 4 /\ z[1] = u /\ z[2] = e /\ z[3] = v /\ z[4] = c
    OBVIOUS
  <2>4. <<u, e, v, c>> \in Seq({u, e, v, c})
    OBVIOUS
  <2> QED
    BY <2>1, <2>2, <2>3, <2>4
<1>3. q \in Seq(StageWrites)
  <2>1. q[1] \in StageWrites /\ q[2] \in StageWrites /\ q[3] \in StageWrites /\ q[4] \in StageWrites
    BY <1>1, <1>2 DEF StageWrites, StageLogTypes, StageEvents, StageTerminal, CheckpointStatuses, StepStatuses
  <2>2. {q[1], q[2], q[3], q[4]} \subseteq StageWrites
    BY <2>1
  <2> HIDE DEF StageWrites
  <2> QED
    BY <1>2, <2>2, SeqMonotonic
<1>4. WriteOk(q, 1)
  BY <1>2 DEF WriteOk
<1>5. WriteOk(q, 2)
  BY <1>2 DEF WriteOk, StageLogTypes, StageEvents, StageTerminal
<1>6. WriteOk(q, 3)
  <2>1. SaveStatus(q, 3)
    <3>1. \A j \in 1..Len(q) : ~previousSave(q, j, 3)
      BY <1>2 DEF previousSave, saves
    <3>2. q[3].to \in CheckpointStatuses /\ q[3].to # "compensated" /\ q[3].stage = s
      BY <1>2 DEF CheckpointStatuses
    <3>3. checkpointTransitionAllowed(ck[s].status, q[3].to)
      BY <1>2 DEF checkpointTransitionAllowed
    <3> QED
      BY <3>1, <3>2, <3>3 DEF SaveStatus
  <2>2. LiveSave(q, 3)
    BY <1>2 DEF LiveSave, StageEvents, StageTerminal
  <2> QED
    BY <1>2, <2>1, <2>2 DEF WriteOk, live
<1>7. WriteOk(q, 4)
  BY <1>2 DEF WriteOk, StageLogTypes
<1>8. \A k \in 1..Len(q) : WriteOk(q, k)
  BY <1>2, <1>4, <1>5, <1>6, <1>7
<1>9. q # <<>> /\ q[1].stage \in 1..Len(steps)
  BY <1>2
<1> QED
  BY <1>3, <1>8, <1>9 DEF BatchOk

\* The Turn ends: the Stage completes or fails.
LEMMA TurnEnds ==
  ASSUME StageInv, runWorkerStage \/ failCollaborationStage
  PROVE  StageInv'
<1>1. StageTypes /\ Phases /\ TailDone /\ CheckpointRows /\ CompletionIsReal /\ OneRunning /\ CompletedOnce /\ AllCompleted
      /\ KnownSettled /\ NoWriteRepeated /\ TurnRuns
  BY DEF StageInv
<1>2. UNCHANGED <<stageRun, steps, ck, log, stageEffects, known, reused, crashes>> /\ Ready("turn")
  BY DEF runWorkerStage, failCollaborationStage
<1>3. phase = "turn" /\ todo = <<>> /\ stageRun = "running"
  BY <1>2 DEF Ready, Alive
<1>4. /\ Len(steps) > 0 /\ current \notin known /\ steps[current].status = "running" /\ ck[current].status = "executing"
      /\ \A i \in 1..Len(steps) - 1 : i \notin known => steps[i].status = "completed"
  BY <1>1, <1>3 DEF TurnRuns
<1>5. current \in 1..Len(steps) /\ current = Len(steps) /\ Len(steps) \in Nat
  BY <1>1, <1>4, Rows DEF current
<1>6. PICK to, type : /\ (to = "completed" /\ type = "stage.completed" /\ phase' = "tail") \/ (to = "failed" /\ type = "stage.failed" /\ phase' = "failing")
                      /\ todo' = << <<StageUpdate(current, to)>> \o RecordStageTransition(current, type) >>
  BY DEF runWorkerStage, failCollaborationStage
<1>7. PICK q : q = <<StageUpdate(current, to)>> \o RecordStageTransition(current, type)
  OBVIOUS
<1>8. BatchOk(q)' /\ q \in Seq(StageWrites)
  <2>1. BatchOk(q) /\ q \in Seq(StageWrites)
    BY <1>1, <1>4, <1>5, <1>6, <1>7, EndAccepted
  <2> QED
    BY <1>2, <2>1, BatchStays
<1>9. q[1] = [op |-> "step", stage |-> current, to |-> to, cursor |-> 0]
  <2>1. q = <<StageUpdate(current, to), StageRunEvent(current, type),
              CheckpointWrite(current, IF type = "stage.completed" THEN "committed" ELSE "needs_reconciliation", 0),
              StageRunEvent(current, "checkpoint.captured")>>
    BY <1>4, <1>6, <1>7, EndWrites
  <2> QED
    BY <2>1 DEF StageUpdate
<1>10. todo' = <<q>>
  BY <1>6, <1>7
<1>11. Len(todo') = 1 /\ todo'[1] = q /\ todo' \in Seq(Seq(StageWrites)) /\ todo' # <<>>
  BY <1>8, <1>10
<1>12. StageTypes'
  BY <1>1, <1>2, <1>6, <1>11 DEF StageTypes
<1>13. WritesAccepted'
  BY <1>8, <1>11 DEF WritesAccepted
<1>14. (\A s : effectsOf(s)' = effectsOf(s)) /\ \A s, types : eventsOf(s, types)' = eventsOf(s, types)
  BY <1>2 DEF effectsOf, eventsOf
<1>15. CheckpointRows' /\ CompletionIsReal'
  BY <1>1, <1>2, <1>14 DEF CheckpointRows, CheckpointRow, CompletionIsReal
<1>16. OneRunning' /\ CompletedOnce' /\ AllCompleted' /\ NoWriteRepeated'
  BY <1>1, <1>2, <1>3, <1>14 DEF OneRunning, CompletedOnce, AllCompleted, NoWriteRepeated
<1>17. Phases'
  BY <1>1, <1>2, <1>3, <1>6 DEF Phases, Executing
<1>18. KnownSettled' /\ TurnRuns'
  BY <1>1, <1>2, <1>3, <1>6, <1>14 DEF KnownSettled, TurnRuns, Executing
<1>19. TailDone'
  <2> SUFFICES ASSUME phase' = "tail", NEW i \in 1..Len(steps)
               PROVE  (i \notin known => steps[i].status = "completed" \/ ends(i)') /\ (steps[i].status = "running" => ends(i)')
    BY <1>2 DEF TailDone
  <2>1. ends(current)'
    <3>1. \A s : s = current => ends(s)'
      BY <1>6, <1>9, <1>11 DEF ends
    <3> QED
      BY <1>2, <3>1 DEF current
  <2>2. CASE i = current
    <3>1. \A s : s = current => ends(s)'
      BY <1>6, <1>9, <1>11 DEF ends
    <3> QED
      BY <2>2, <3>1
  <2>3. CASE i # current
    <3>1. i \in 1..Len(steps) - 1
      BY <1>5, <2>3
    <3>2. steps[i].status # "running"
      BY <1>1, <1>5, <2>3 DEF OneRunning
    <3> QED
      BY <1>4, <3>1, <3>2
  <2> QED
    BY <2>2, <2>3
<1> QED
  BY <1>12, <1>13, <1>15, <1>16, <1>17, <1>18, <1>19 DEF StageInv


\* The execution stops, where it settles, fails or dies: the rows stay as they are.
LEMMA StageStops ==
  ASSUME StageInv, UNCHANGED <<steps, ck, log, stageEffects>>, todo' = <<>>, phase' = "off",
         stageRun' \in {stageRun, "failed", "completed"}, known' \subseteq known, reused' \subseteq reused, AllCompleted'
  PROVE  StageInv'
<1>1. StageTypes /\ Phases /\ CheckpointRows /\ CompletionIsReal /\ OneRunning /\ CompletedOnce /\ NoWriteRepeated
  BY DEF StageInv
<1>2. (\A s : effectsOf(s)' = effectsOf(s)) /\ \A s, types : eventsOf(s, types)' = eventsOf(s, types)
  BY DEF effectsOf, eventsOf
<1>3. StageTypes'
  BY <1>1 DEF StageTypes
<1>4. CheckpointRows' /\ CompletionIsReal'
  BY <1>1, <1>2 DEF CheckpointRows, CheckpointRow, CompletionIsReal
<1>5. OneRunning' /\ CompletedOnce' /\ NoWriteRepeated'
  BY <1>1, <1>2 DEF OneRunning, CompletedOnce, NoWriteRepeated
<1>6. Phases'
  BY <1>1 DEF Phases, Executing
<1>7. WritesAccepted' /\ KnownSettled' /\ TailDone' /\ TurnRuns'
  BY DEF WritesAccepted, KnownSettled, TailDone, TurnRuns, Executing
<1> QED
  BY <1>3, <1>4, <1>5, <1>6, <1>7 DEF StageInv

\* The Run settles from the tail: it is completed only when every Stage is.
LEMMA SettleKept ==
  ASSUME StageInv, StageSettle
  PROVE  StageInv'
<1>1. StageTypes /\ Phases /\ AllCompleted
  BY DEF StageInv
<1>2. UNCHANGED <<steps, ck, log, stageEffects, todo, known, reused>> /\ todo = <<>> /\ phase' = "off" /\ stageRun' \in {"failed", "completed"}
  BY DEF StageSettle, Ready
<1>3. ASSUME stageRun' = "completed", NEW k \in 1..Len(Roles) PROVE completedOf(Roles[k], 1..Len(steps)) # {}
  <2>1. nextRole = 0
    BY <1>3 DEF StageSettle
  <2>2. PICK i \in stageFinished : steps[i].role = Roles[k]
    BY <1>1, <2>1, NextRole
  <2>3. i \in 1..Len(steps) /\ steps[i].status = "completed"
    BY <1>1, <2>2 DEF stageFinished, Phases, StageTypes
  <2> QED
    BY <2>2, <2>3 DEF completedOf
<1>4. AllCompleted'
  BY <1>2, <1>3 DEF AllCompleted, completedOf
<1> QED
  BY <1>2, <1>4, StageStops

\* A crash, or a write the Store refuses, leaves the rows as they are.
LEMMA StopsKept ==
  ASSUME StageInv, StageCrash \/ WriteFails
  PROVE  StageInv'
<1>1. AllCompleted
  BY DEF StageInv
<1>2. UNCHANGED <<steps, ck, log, stageEffects>> /\ todo' = <<>> /\ phase' = "off" /\ stageRun' \in {stageRun, "failed"}
  BY DEF StageCrash, WriteFails
<1>3. known' \subseteq known /\ reused' \subseteq reused
  BY DEF StageCrash, WriteFails
<1>4. AllCompleted'
  BY <1>1, <1>2 DEF AllCompleted, completedOf
<1> QED
  BY <1>2, <1>3, <1>4, StageStops

\* The Turn calls a tool: only the running Stage has a new effect.
LEMMA BeginKept ==
  ASSUME StageInv, BeginEffect
  PROVE  StageInv'
<1>1. StageTypes /\ Phases /\ CheckpointRows /\ CompletionIsReal /\ OneRunning /\ CompletedOnce /\ NoWriteRepeated /\ AllCompleted
      /\ KnownSettled /\ TailDone /\ TurnRuns
  BY DEF StageInv
<1>2. /\ UNCHANGED <<stageRun, steps, ck, log, phase, todo, known, reused>> /\ todo = <<>> /\ phase = "turn"
      /\ stageEffects' = Append(stageEffects, [stage |-> current, status |-> "executing"])
  BY DEF BeginEffect, Ready
<1>3. Len(steps) > 0 /\ current \notin known /\ ck[current].status = "executing" /\ current \in 1..Len(steps) /\ current = Len(steps)
  BY <1>1, <1>2, Rows DEF TurnRuns, current
<1>4. [stage |-> current, status |-> "executing"] \in [stage : 1..Len(steps), status : StageEffectStatuses]
  BY <1>3 DEF StageEffectStatuses
<1>5. stageEffects \in Seq([stage : 1..Len(steps), status : StageEffectStatuses])
  BY <1>1 DEF StageTypes
<1>6. stageEffects' \in Seq([stage : 1..Len(steps), status : StageEffectStatuses])
  BY <1>2, <1>4, <1>5, AppendProperties
<1>7. ASSUME NEW s, s # current PROVE effectsOf(s)' = effectsOf(s)
  <2>1. /\ Len(stageEffects) \in Nat /\ Len(stageEffects') = Len(stageEffects) + 1
        /\ stageEffects'[Len(stageEffects) + 1].stage = current /\ \A j \in 1..Len(stageEffects) : stageEffects'[j] = stageEffects[j]
    BY <1>2, <1>5
  <2>2. {j \in 1..Len(stageEffects') : stageEffects'[j].stage = s} = {j \in 1..Len(stageEffects) : stageEffects[j].stage = s}
    BY <1>7, <2>1
  <2> QED
    BY <2>1, <2>2 DEF effectsOf
<1> HIDE DEF current
<1>8. StageTypes'
  BY <1>1, <1>2, <1>6 DEF StageTypes
<1>9. \A s, types : eventsOf(s, types)' = eventsOf(s, types)
  BY <1>2 DEF eventsOf
<1>10. CheckpointRows'
  <2> SUFFICES ASSUME NEW s \in 1..Len(steps) PROVE CheckpointRow(s)'
    BY <1>2 DEF CheckpointRows
  <2>1. CheckpointRow(s)
    BY <1>1 DEF CheckpointRows
  <2>2. CASE s = current
    BY <1>2, <1>3, <1>9, <2>1, <2>2 DEF CheckpointRow
  <2>3. CASE s # current
    BY <1>2, <1>7, <1>9, <2>1, <2>3 DEF CheckpointRow
  <2> QED
    BY <2>2, <2>3
<1>11. CompletionIsReal' /\ OneRunning' /\ CompletedOnce' /\ AllCompleted' /\ Phases' /\ TailDone'
  BY <1>1, <1>2 DEF CompletionIsReal, OneRunning, CompletedOnce, AllCompleted, completedOf, Phases, TailDone, ends
<1>12. KnownSettled'
  <2>1. \A i \in known : effectsOf(i)' = effectsOf(i)
    BY <1>3, <1>7
  <2> QED
    BY <1>1, <1>2, <2>1 DEF KnownSettled
<1>13. NoWriteRepeated'
  <2>1. \A i, j \in 1..Len(steps) : i < j => i # current
    BY <1>1, <1>3, Rows
  <2> QED
    BY <1>1, <1>2, <1>7, <2>1 DEF NoWriteRepeated
<1>14. TurnRuns'
  BY <1>1, <1>2 DEF TurnRuns, current, saves
<1>15. WritesAccepted'
  BY <1>2 DEF WritesAccepted
<1> QED
  BY <1>8, <1>10, <1>11, <1>12, <1>13, <1>14, <1>15 DEF StageInv

\* An effect that is not compensated changes: nothing says its Stage has none in force.
LEMMA EffectMoves ==
  ASSUME StageInv, NEW i \in 1..Len(stageEffects), stageEffects[i].status # "compensated", NEW to \in StageEffectStatuses,
         stageEffects' = [stageEffects EXCEPT ![i].status = to], UNCHANGED <<stageRun, steps, ck, log, phase, todo, known, reused>>
  PROVE  StageInv'
<1>1. StageTypes /\ Phases /\ CheckpointRows /\ CompletionIsReal /\ OneRunning /\ CompletedOnce /\ NoWriteRepeated /\ AllCompleted
      /\ KnownSettled /\ TailDone /\ TurnRuns /\ WritesAccepted
  BY DEF StageInv
<1>2. stageEffects \in Seq([stage : 1..Len(steps), status : StageEffectStatuses])
  BY <1>1 DEF StageTypes
<1>3. stageEffects[i] \in [stage : 1..Len(steps), status : StageEffectStatuses]
  BY <1>1, Rows
<1>4. [stageEffects[i] EXCEPT !.status = to] \in [stage : 1..Len(steps), status : StageEffectStatuses]
  BY <1>3
<1>5. /\ stageEffects' \in Seq([stage : 1..Len(steps), status : StageEffectStatuses]) /\ Len(stageEffects') = Len(stageEffects)
      /\ \A j \in 1..Len(stageEffects) : stageEffects'[j] = IF j = i THEN [stageEffects[i] EXCEPT !.status = to] ELSE stageEffects[j]
  BY <1>2, <1>4, ExceptSeq
<1>6. ASSUME NEW s, effectsOf(s) \subseteq {"compensated"} PROVE effectsOf(s)' = effectsOf(s)
  <2>1. stageEffects[i].stage # s
    BY <1>6 DEF effectsOf
  <2>2. {j \in 1..Len(stageEffects') : stageEffects'[j].stage = s} = {j \in 1..Len(stageEffects) : stageEffects[j].stage = s}
    BY <1>3, <1>5
  <2>3. \A j \in {n \in 1..Len(stageEffects) : stageEffects[n].stage = s} : stageEffects'[j] = stageEffects[j]
    BY <1>5, <2>1
  <2> QED
    BY <2>2, <2>3 DEF effectsOf
<1>7. StageTypes'
  BY <1>1, <1>5 DEF StageTypes
<1>8. \A s, types : eventsOf(s, types)' = eventsOf(s, types)
  BY DEF eventsOf
<1>9. CheckpointRows'
  BY <1>1, <1>6, <1>8 DEF CheckpointRows, CheckpointRow
<1>10. CompletionIsReal' /\ OneRunning' /\ CompletedOnce' /\ AllCompleted' /\ Phases' /\ TailDone'
  BY <1>1 DEF CompletionIsReal, OneRunning, CompletedOnce, AllCompleted, completedOf, Phases, TailDone, ends
<1>11. KnownSettled' /\ NoWriteRepeated'
  BY <1>1, <1>6 DEF KnownSettled, NoWriteRepeated
<1>12. TurnRuns'
  BY <1>1 DEF TurnRuns, current, saves
<1>13. ASSUME NEW q, BatchOk(q) PROVE BatchOk(q)'
  <2>1. ASSUME NEW k \in 1..Len(q) PROVE WriteOk(q, k)'
    <3>1. WriteOk(q, k)
      BY <1>13 DEF BatchOk
    <3>2. SaveStatus(q, k) => SaveStatus(q, k)'
      BY <1>6 DEF SaveStatus
    <3>3. ExplicitSave(q, k) => ExplicitSave(q, k)'
      BY <1>8 DEF ExplicitSave
    <3>4. LiveSave(q, k) => LiveSave(q, k)'
      BY <1>8 DEF LiveSave
    <3> QED
      BY <3>1, <3>2, <3>3, <3>4 DEF WriteOk
  <2> QED
    BY <1>13, <2>1 DEF BatchOk
<1>14. WritesAccepted'
  <2>1. \A b \in 1..Len(todo) : \A q : q = todo[b] => BatchOk(q)'
    BY <1>1, <1>13 DEF WritesAccepted
  <2>2. \A b \in 1..Len(todo) : BatchOk(todo[b])'
    BY <2>1
  <2> QED
    BY <1>1, <2>2 DEF WritesAccepted
<1> QED
  BY <1>7, <1>9, <1>10, <1>11, <1>12, <1>14 DEF StageInv

\* An effect in doubt is settled: the checkpoints keep what they say of it.
LEMMA EffectsKept ==
  ASSUME StageInv, FinishEffect \/ ReconcileToolEffect
  PROVE  StageInv'
<1>1. UNCHANGED <<stageRun, steps, ck, log, phase, todo, known, reused>>
  BY DEF FinishEffect, ReconcileToolEffect
<1>2. PICK i \in 1..Len(stageEffects), to \in StageEffectStatuses :
        stageEffects[i].status # "compensated" /\ stageEffects' = [stageEffects EXCEPT ![i].status = to]
  BY DEF FinishEffect, ReconcileToolEffect, StageEffectStatuses, Unsettled
<1> QED
  BY <1>1, <1>2, EffectMoves

\* Resume is validated, then accepted.
LEMMA ResumeKept ==
  ASSUME StageInv, ValidateResume \/ AcceptResume
  PROVE  StageInv'
<1>1. StageTypes /\ Phases /\ CheckpointRows /\ CompletionIsReal /\ OneRunning /\ CompletedOnce /\ NoWriteRepeated /\ AllCompleted
  BY DEF StageInv
<1>2. /\ UNCHANGED <<steps, ck, stageEffects, todo, reused>> /\ stageRun = "failed_recoverable" /\ phase \notin Executing
      /\ phase' \in {"validated", "accepted"} /\ stageRun' \in {"running", "failed_recoverable"}
      /\ known' = 1..Len(steps)
      /\ phase' = "validated" <=> stageRun' = "failed_recoverable"
      /\ log' = log \/ log' = Append(log, runEvent("run.resumed"))
  BY <1>1 DEF ValidateResume, AcceptResume, Executing, Phases
<1>3. todo = <<>> /\ \A j \in 1..Len(steps) : steps[j].status # "running"
  BY <1>1, <1>2 DEF Phases
<1>4. /\ Len(log) \in Nat /\ Len(log') \in Nat /\ Len(log) <= Len(log') /\ log' \in Seq([stage : Nat, type : StageLogTypes]) /\ log' # <<>>
      /\ \A e \in 1..Len(log) : log'[e] = log[e]
      /\ \A e \in 1..Len(log') : e \notin 1..Len(log) => log'[e].type = "run.resumed"
  <2>1. runEvent("run.resumed") \in [stage : Nat, type : StageLogTypes] /\ runEvent("run.resumed").type = "run.resumed"
    BY DEF runEvent, StageLogTypes
  <2>2. log \in Seq([stage : Nat, type : StageLogTypes]) /\ log # <<>>
    BY <1>1 DEF StageTypes
  <2> HIDE DEF runEvent
  <2>3. CASE log' = log
    BY <2>2, <2>3
  <2>4. CASE log' = Append(log, runEvent("run.resumed"))
    <3>1. log' \in Seq([stage : Nat, type : StageLogTypes])
      BY <2>1, <2>2, <2>4, AppendProperties
    <3>2. Len(log') = Len(log) + 1 /\ log'[Len(log) + 1] = runEvent("run.resumed") /\ \A e \in 1..Len(log) : log'[e] = log[e]
      BY <2>1, <2>2, <2>4, AppendProperties
    <3>3. Len(log) \in Nat
      BY <2>2
    <3> QED
      BY <2>1, <3>1, <3>2, <3>3
  <2> QED
    BY <1>2, <2>3, <2>4
<1>5. \A s : effectsOf(s)' = effectsOf(s) /\ eventsOf(s, {"stage.completed"})' = eventsOf(s, {"stage.completed"})
  BY <1>2, <1>4 DEF effectsOf, eventsOf
<1>6. StageTypes'
  BY <1>1, <1>2, <1>4 DEF StageTypes
<1>7. CheckpointRows'
  BY <1>1, <1>2, <1>4, <1>5 DEF CheckpointRows, CheckpointRow
<1>8. CompletionIsReal'
  BY <1>1, <1>2, <1>4 DEF CompletionIsReal
<1>9. OneRunning' /\ CompletedOnce' /\ NoWriteRepeated' /\ AllCompleted'
  BY <1>1, <1>2, <1>5 DEF OneRunning, CompletedOnce, NoWriteRepeated, AllCompleted
<1>10. Phases'
  BY <1>1, <1>2, <1>3 DEF Phases, Executing
<1>11. WritesAccepted' /\ KnownSettled' /\ TailDone' /\ TurnRuns'
  BY <1>2, <1>3 DEF WritesAccepted, KnownSettled, TailDone, TurnRuns, Executing
<1> QED
  BY <1>6, <1>7, <1>8, <1>9, <1>10, <1>11 DEF StageInv


\* A finite set, put in some order.
LEMMA SetInOrder ==
  ASSUME NEW S, IsFiniteSet(S)
  PROVE  SetToSeq(S) \in Seq(S)
<1>1. Cardinality(S) \in Nat /\ ExistsBijection(1..Cardinality(S), S)
  BY FS_CardinalityType
<1>2. PICK f \in Bijection(1..Cardinality(S), S) : TRUE
  BY <1>1 DEF ExistsBijection
<1>3. f \in [1..Cardinality(S) -> S] /\ IsInjective(f)
  BY <1>2 DEF Bijection, Injection
<1>4. SetToSeq(S) \in [1..Cardinality(S) -> S]
  BY <1>3 DEF SetToSeq
<1> QED
  BY <1>1, <1>4

\* A function on a segment of the numbers is a sequence.
LEMMA FunctionAsSeq ==
  ASSUME NEW S, NEW n \in Nat, NEW f \in [1..n -> S]
  PROVE  f \in Seq(S) /\ Len(f) = n
OBVIOUS

\* The repair: what it appends, and what it leaves of the rows.
LEMMA RepairKept ==
  ASSUME StageInv, StageRepair
  PROVE  StageInv'
<1>1. StageTypes /\ Phases /\ CheckpointRows /\ CompletionIsReal /\ OneRunning /\ CompletedOnce /\ NoWriteRepeated
  BY DEF StageInv
<1>2. /\ UNCHANGED <<ck, phase, todo, known, reused>> /\ phase = "off" /\ stageRun' = "failed_recoverable" /\ phase \notin Executing
      /\ steps' = [i \in 1..Len(steps) |-> IF steps[i].status = "running" THEN [steps[i] EXCEPT !.status = "failed"] ELSE steps[i]]
      /\ stageEffects' = [i \in 1..Len(stageEffects) |-> IF stageEffects[i].status = "executing"
                            THEN [stageEffects[i] EXCEPT !.status = "needs_reconciliation"] ELSE stageEffects[i]]
  BY DEF StageRepair, Executing
<1>3. todo = <<>>
  BY <1>1, <1>2 DEF Phases
<1>4. /\ log' \in Seq([stage : Nat, type : StageLogTypes]) /\ log' # <<>> /\ Len(log) \in Nat /\ Len(log') \in Nat /\ Len(log) <= Len(log')
      /\ \A e \in 1..Len(log) : log'[e] = log[e]
      /\ \A e \in 1..Len(log') : e \notin 1..Len(log) => log'[e].type \in {"stage.failed", "run.failed"}
  <2> DEFINE open == {s \in 1..Len(steps) : eventsOf(s, {"stage.started"}) # {} /\ eventsOf(s, StageTerminal) = {}}
             S == {[stage |-> s, type |-> "stage.failed"] : s \in open}
             T == [stage : Nat, type : {"stage.failed", "run.failed"}]
             U == [stage : Nat, type : StageLogTypes]
             q == SetToSeq(S)
             z == <<runEvent("run.failed")>>
  <2>1. log' = (log \o q) \o z
    BY DEF StageRepair
  <2>2. Len(steps) \in Nat /\ log \in Seq(U) /\ log # <<>> /\ Len(log) \in Nat /\ Len(log) > 0
    BY <1>1, Rows DEF StageTypes
  <2>3. IsFiniteSet(S)
    <3>1. open \subseteq 1..Len(steps)
      OBVIOUS
    <3> DEFINE f == [r \in S |-> r.stage]
    <3> HIDE DEF open
    <3>2. f \in Injection(S, 1..Len(steps))
      BY <3>1 DEF Injection, IsInjective
    <3>3. IsFiniteSet(1..Len(steps))
      BY <2>2, FS_Interval
    <3> QED
      BY <3>2, <3>3, FS_Injection
  <2>4. S \subseteq T
    <3>1. open \subseteq Nat
      BY <2>2
    <3> HIDE DEF open
    <3> QED
      BY <3>1
  <2> HIDE DEF S, q
  <2>5. q \in Seq(T)
    <3>1. q \in Seq(S)
      BY <2>3, SetInOrder DEF q
    <3> QED
      BY <2>4, <3>1, SeqMonotonic
  <2>6. z \in Seq(T)
    BY DEF runEvent
  <2>7. T \subseteq U
    BY DEF StageLogTypes, StageEvents, StageTerminal
  <2> HIDE DEF z, T, U
  <2>8. (log \o q) \in Seq(U) /\ Len(log \o q) = Len(log) + Len(q)
        /\ \A i \in 1..Len(log) + Len(q) : (log \o q)[i] = IF i <= Len(log) THEN log[i] ELSE q[i - Len(log)]
    <3>1. q \in Seq(U)
      BY <2>5, <2>7, WiderSeq
    <3> QED
      BY <2>2, <3>1, ConcatProperties
  <2> DEFINE h == log \o q
  <2> HIDE DEF h
  <2>9. /\ log' \in Seq(U) /\ Len(log') = Len(h) + Len(z)
        /\ \A i \in 1..Len(h) + Len(z) : log'[i] = IF i <= Len(h) THEN h[i] ELSE z[i - Len(h)]
    <3>1. z \in Seq(U) /\ h \in Seq(U) /\ log' = h \o z
      BY <2>1, <2>6, <2>7, <2>8, WiderSeq DEF h
    <3> QED
      BY <3>1, ConcatProperties
  <2>10. /\ Len(h) = Len(log) + Len(q) /\ \A i \in 1..Len(log) + Len(q) : h[i] = IF i <= Len(log) THEN log[i] ELSE q[i - Len(log)]
    BY <2>8 DEF h
  <2>11. Len(q) \in Nat /\ Len(z) \in Nat /\ Len(log') = Len(log) + Len(q) + Len(z)
    BY <2>2, <2>5, <2>6, <2>9, <2>10
  <2>12. \A e \in 1..Len(log) : log'[e] = log[e]
    BY <2>2, <2>9, <2>10, <2>11
  <2>13. ASSUME NEW e \in 1..Len(log'), e \notin 1..Len(log) PROVE log'[e] \in T
    <3>1. CASE e <= Len(h)
      <4>1. log'[e] = q[e - Len(log)] /\ e - Len(log) \in 1..Len(q)
        BY <2>2, <2>9, <2>10, <2>11, <2>13, <3>1
      <4> QED
        BY <2>5, <4>1, ElementOf
    <3>2. CASE ~(e <= Len(h))
      <4>1. log'[e] = z[e - Len(h)] /\ e - Len(h) \in 1..Len(z)
        BY <2>2, <2>9, <2>10, <2>11, <2>13, <3>2
      <4> QED
        BY <2>6, <4>1, ElementOf
    <3> QED
      BY <3>1, <3>2
  <2>14. Len(log') \in Nat /\ Len(log) <= Len(log') /\ Len(log') > 0
    BY <2>2, <2>11
  <2>15. log' # <<>>
    BY <2>9, <2>14
  <2>16. \A e \in 1..Len(log') : e \notin 1..Len(log) => log'[e].type \in {"stage.failed", "run.failed"}
    BY <2>13 DEF T
  <2> QED
    BY <2>2, <2>9, <2>12, <2>14, <2>15, <2>16 DEF U
<1>5. \A s : eventsOf(s, {"stage.completed"})' = eventsOf(s, {"stage.completed"})
  BY <1>4 DEF eventsOf
<1>6. /\ steps' \in Seq([role : Range(Roles), status : StepStatuses]) /\ Len(steps') = Len(steps)
      /\ \A i \in 1..Len(steps) : /\ steps'[i].role = steps[i].role /\ steps'[i].status # "running"
                                  /\ steps[i].status # "running" => steps'[i] = steps[i]
                                  /\ steps'[i].status = "completed" <=> steps[i].status = "completed"
  <2>1. Len(steps) \in Nat /\ \A i \in 1..Len(steps) : steps[i] \in [role : Range(Roles), status : StepStatuses]
    BY <1>1, Rows
  <2>2. ASSUME NEW i \in 1..Len(steps)
        PROVE  /\ steps'[i] = IF steps[i].status = "running" THEN [steps[i] EXCEPT !.status = "failed"] ELSE steps[i]
               /\ steps'[i] \in [role : Range(Roles), status : StepStatuses]
    BY <1>2, <2>1 DEF StepStatuses
  <2>3. steps' \in [1..Len(steps) -> [role : Range(Roles), status : StepStatuses]]
    BY <1>2, <2>2
  <2>4. steps' \in Seq([role : Range(Roles), status : StepStatuses]) /\ Len(steps') = Len(steps)
    BY <2>1, <2>3, FunctionAsSeq
  <2> QED
    BY <2>1, <2>2, <2>4
<1>7. /\ stageEffects' \in Seq([stage : 1..Len(steps), status : StageEffectStatuses]) /\ Len(stageEffects') = Len(stageEffects)
      /\ \A i \in 1..Len(stageEffects) : /\ stageEffects'[i].stage = stageEffects[i].stage
                                         /\ stageEffects[i].status = "compensated" => stageEffects'[i] = stageEffects[i]
  <2>1. Len(stageEffects) \in Nat /\ \A i \in 1..Len(stageEffects) : stageEffects[i] \in [stage : 1..Len(steps), status : StageEffectStatuses]
    BY <1>1, Rows
  <2>2. ASSUME NEW i \in 1..Len(stageEffects)
        PROVE  /\ stageEffects'[i] = IF stageEffects[i].status = "executing" THEN [stageEffects[i] EXCEPT !.status = "needs_reconciliation"]
                                     ELSE stageEffects[i]
               /\ stageEffects'[i] \in [stage : 1..Len(steps), status : StageEffectStatuses]
    BY <1>2, <2>1 DEF StageEffectStatuses
  <2>3. stageEffects' \in [1..Len(stageEffects) -> [stage : 1..Len(steps), status : StageEffectStatuses]]
    BY <1>2, <2>2
  <2>4. stageEffects' \in Seq([stage : 1..Len(steps), status : StageEffectStatuses]) /\ Len(stageEffects') = Len(stageEffects)
    BY <2>1, <2>3, FunctionAsSeq
  <2> QED
    BY <2>1, <2>2, <2>4
<1>8. ASSUME NEW s, effectsOf(s) \subseteq {"compensated"} PROVE effectsOf(s)' = effectsOf(s)
  <2>1. {j \in 1..Len(stageEffects') : stageEffects'[j].stage = s} = {j \in 1..Len(stageEffects) : stageEffects[j].stage = s}
    BY <1>7
  <2>2. \A j \in {n \in 1..Len(stageEffects) : stageEffects[n].stage = s} : stageEffects'[j] = stageEffects[j]
    BY <1>7, <1>8 DEF effectsOf
  <2> QED
    BY <2>1, <2>2 DEF effectsOf
<1>9. StageTypes'
  BY <1>1, <1>2, <1>4, <1>6, <1>7 DEF StageTypes
<1>10. CheckpointRows'
  <2> SUFFICES ASSUME NEW s \in 1..Len(steps) PROVE CheckpointRow(s)'
    BY <1>6 DEF CheckpointRows
  <2>1. CheckpointRow(s)
    BY <1>1 DEF CheckpointRows
  <2>2. effectsOf(s) \subseteq {"compensated"} => effectsOf(s)' = effectsOf(s)
    BY <1>8
  <2>3. ck'[s] = ck[s] /\ \A c \in 1..Len(log) : c \in 1..Len(log')
    BY <1>2, <1>4
  <2> QED
    BY <1>5, <2>1, <2>2, <2>3 DEF CheckpointRow
<1>11. CompletionIsReal'
  <2> SUFFICES ASSUME NEW e \in 1..Len(log'), log'[e].type = "stage.completed"
               PROVE  log'[e].stage \in 1..Len(steps) /\ steps'[log'[e].stage].status = "completed"
    BY <1>6 DEF CompletionIsReal
  <2>1. e \in 1..Len(log) /\ log'[e] = log[e]
    BY <1>4
  <2> QED
    BY <1>1, <1>6, <2>1 DEF CompletionIsReal
<1>12. OneRunning' /\ CompletedOnce' /\ AllCompleted'
  BY <1>1, <1>2, <1>6 DEF OneRunning, CompletedOnce, AllCompleted
<1>13. NoWriteRepeated'
  BY <1>1, <1>6, <1>8 DEF NoWriteRepeated
<1>14. Phases'
  BY <1>1, <1>2, <1>3, <1>6 DEF Phases, Executing, StageTypes
<1>15. WritesAccepted' /\ KnownSettled' /\ TailDone' /\ TurnRuns'
  BY <1>2, <1>3 DEF WritesAccepted, KnownSettled, TailDone, TurnRuns, Executing
<1> QED
  BY <1>9, <1>10, <1>11, <1>12, <1>13, <1>14, <1>15 DEF StageInv


\* The end a checkpoint has not seen: the first one after its cursor.
LEMMA TerminalSeen ==
  ASSUME StageTypes, NEW s \in checkpointed
  PROVE  LET t == stageTerminalAfter(s) IN
         /\ s \in 1..Len(steps) /\ ck[s].status \in CheckpointStatuses
         /\ t = 0 => restoresAs(s) = ck[s].status
         /\ t # 0 => /\ ck[s].status \in {"prepared", "executing"} /\ t \in 1..Len(log) /\ t > ck[s].cursor /\ t \in eventsOf(s, StageTerminal)
                     /\ log[t].type = "stage.completed" => t \in eventsOf(s, {"stage.completed"}) /\ restoresAs(s) = "committed"
                     /\ log[t].type # "stage.completed" => restoresAs(s) = "needs_reconciliation"
<1> DEFINE t == stageTerminalAfter(s)
           A == {i \in eventsOf(s, StageTerminal) : i > ck[s].cursor}
<1>1. s \in 1..Len(steps) /\ ck[s].status \in CheckpointStatuses
  BY Rows DEF checkpointed
<1>2. t = IF ck[s].status \in {"prepared", "executing"} /\ A # {} THEN Min(A) ELSE 0
  BY DEF stageTerminalAfter
<1>3. ASSUME t # 0
      PROVE  ck[s].status \in {"prepared", "executing"} /\ t \in 1..Len(log) /\ t > ck[s].cursor /\ t \in eventsOf(s, StageTerminal)
  <2>1. ck[s].status \in {"prepared", "executing"} /\ A # {} /\ t = Min(A)
    BY <1>2, <1>3
  <2>2. A \in SUBSET Nat
    BY Rows DEF eventsOf
  <2> HIDE DEF A, t
  <2>3. PICK x \in A : \A k \in A : x <= k
    BY <2>1, <2>2, Smallest
  <2>4. Min(A) \in A
    BY <2>3 DEF Min
  <2>5. t \in A
    BY <2>1, <2>4
  <2> QED
    BY <2>1, <2>5 DEF A, eventsOf
<1>4. t = 0 => restoresAs(s) = ck[s].status
  BY DEF restoresAs
<1>5. t # 0 => restoresAs(s) = IF log[t].type = "stage.completed" THEN "committed" ELSE "needs_reconciliation"
  BY DEF restoresAs
<1>6. t # 0 /\ log[t].type = "stage.completed" => t \in eventsOf(s, {"stage.completed"})
  BY <1>3 DEF eventsOf
<1> HIDE DEF t
<1>7. t = stageTerminalAfter(s)
  BY DEF t
<1> QED
  BY <1>1, <1>3, <1>4, <1>5, <1>6, <1>7

\* What may be compensated has no other effect in force.
LEMMA CompensatedOnly ==
  ASSUME NEW s, planStageRestore(s), restoresAs(s) \notin {"committed", "compensated"}
  PROVE  effectsOf(s) \subseteq {"compensated"}
BY DEF planStageRestore, hasUncertainEffect

\* A batch whose checkpoint writes carry one cursor.
OneCursor(q, s, n) ==
  /\ \A k \in 1..Len(q) : /\ q[k].stage = s /\ q[k].op \in {"event", "save"}
                          /\ q[k].op = "event" => q[k].to \in StageLogTypes \ {"stage.completed"}
                          /\ saves(q, k) => q[k].cursor = n /\ q[k].to \in CheckpointStatuses
  /\ \A k \in 1..Len(q) : saves(q, k) => /\ q[k].to = "committed" => n \in eventsOf(s, {"stage.completed"})
                                         /\ q[k].to = "compensated" => effectsOf(s) \subseteq {"compensated"}
  /\ \A k \in 1..Len(q) : saves(q, k) => /\ firstSave(q, k) => checkpointTransitionAllowed(ck[s].status, q[k].to)
                                         /\ \A j \in 1..Len(q) : previousSave(q, j, k) => checkpointTransitionAllowed(q[j].to, q[k].to)

\* Writes of one Stage under one cursor, none of them a completion, are acceptable.
LEMMA OneCursorBatch ==
  ASSUME StageTypes, NEW s \in 1..Len(steps), NEW n \in 1..Len(log), ck[s].cursor <= n, NEW q, q # <<>>, Len(q) \in Nat, Len(q) > 0,
         OneCursor(q, s, n)
  PROVE  BatchOk(q)
<1>1. n \in Nat /\ n > 0
  BY Rows
<1>2. ASSUME NEW k \in 1..Len(q) PROVE WriteOk(q, k)
  <2>1. /\ q[k].stage = s /\ q[1].stage = s /\ q[k].op \in {"event", "save"}
        /\ q[k].op = "event" => q[k].to \in StageLogTypes \ {"stage.completed"}
    BY DEF OneCursor
  <2>2. ASSUME q[k].op = "save" PROVE SaveStatus(q, k) /\ ~live(q[k]) /\ ExplicitSave(q, k)
    <3>1. saves(q, k)
      BY <2>2 DEF saves
    <3>2. SaveStatus(q, k)
      BY <2>1, <3>1 DEF SaveStatus, OneCursor
    <3>3. ~live(q[k])
      BY <1>1, <3>1 DEF live, OneCursor
    <3>4. \A j \in 1..k - 1 : j \in 1..Len(q) /\ (saves(q, j) => q[j].cursor = n /\ ~live(q[j]))
      BY <1>1 DEF live, OneCursor
    <3>5. ExplicitSave(q, k)
      <4>1. q[k].cursor = n /\ (q[k].to = "committed" => n \in eventsOf(s, {"stage.completed"}))
        BY <3>1 DEF OneCursor
      <4> QED
        BY <1>1, <2>1, <3>4, <4>1 DEF ExplicitSave
    <3> QED
      BY <3>2, <3>3, <3>5
  <2> QED
    BY <2>1, <2>2 DEF WriteOk
<1>3. q[1].stage \in 1..Len(steps)
  BY DEF OneCursor
<1> QED
  BY <1>2, <1>3 DEF BatchOk


\* The writes that restore a Stage, checkpoint by checkpoint.
LEMMA RestoreShapes ==
  ASSUME StageTypes, NEW s \in checkpointed, NEW q, q = restoreWrites(s)
  PROVE  LET t == stageTerminalAfter(s)
             c == ck[s].cursor
             started == StageRunEvent(s, "compensation.started")
             ended == StageRunEvent(s, "compensation.completed")
             back == StageRunEvent(s, "checkpoint.restored")
         IN \/ t = 0 /\ ck[s].status = "committed" /\ q = <<back>>
            \/ t = 0 /\ ck[s].status = "compensated" /\ q = <<>>
            \/ t = 0 /\ ck[s].status = "needs_reconciliation" /\ q = <<started, CheckpointWrite(s, "compensated", c), ended>>
            \/ t = 0 /\ ck[s].status \in {"prepared", "executing"} /\
                 q = <<started, CheckpointWrite(s, "needs_reconciliation", c), CheckpointWrite(s, "compensated", c), ended>>
            \/ t # 0 /\ log[t].type = "stage.completed" /\ ck[s].status = "prepared" /\
                 q = <<CheckpointWrite(s, "executing", t), CheckpointWrite(s, "committed", t), back>>
            \/ t # 0 /\ log[t].type = "stage.completed" /\ ck[s].status = "executing" /\
                 q = <<CheckpointWrite(s, "committed", t), back>>
            \/ t # 0 /\ log[t].type # "stage.completed" /\
                 q = <<CheckpointWrite(s, "needs_reconciliation", t), started, CheckpointWrite(s, "compensated", t), ended>>
<1> DEFINE t == stageTerminalAfter(s)
           c == ck[s].cursor
           started == StageRunEvent(s, "compensation.started")
           ended == StageRunEvent(s, "compensation.completed")
           back == StageRunEvent(s, "checkpoint.restored")
           nr(n) == CheckpointWrite(s, "needs_reconciliation", n)
           cp(n) == CheckpointWrite(s, "compensated", n)
           cm(n) == CheckpointWrite(s, "committed", n)
           ex(n) == CheckpointWrite(s, "executing", n)
<1>1. /\ ck[s].status \in CheckpointStatuses
      /\ t = 0 => restoresAs(s) = ck[s].status
      /\ t # 0 => /\ ck[s].status \in {"prepared", "executing"}
                  /\ log[t].type = "stage.completed" => restoresAs(s) = "committed"
                  /\ log[t].type # "stage.completed" => restoresAs(s) = "needs_reconciliation"
  BY TerminalSeen
<1>2. reconcileStageTerminal(s) = IF t = 0 THEN <<>>
        ELSE IF log[t].type = "stage.completed"
             THEN (IF ck[s].status = "prepared" THEN <<ex(t)>> ELSE <<>>) \o <<cm(t)>>
             ELSE <<nr(t)>>
  BY DEF reconcileStageTerminal
<1>3. compensateInternalState(s) = (<<started>> \o (IF restoresAs(s) = "needs_reconciliation" THEN <<>>
                                                    ELSE <<nr(IF t = 0 THEN c ELSE t)>>))
                                   \o <<cp(IF t = 0 THEN c ELSE t), ended>>
  BY DEF compensateInternalState
<1>4. q = reconcileStageTerminal(s) \o (CASE restoresAs(s) = "committed" -> <<back>>
                                          [] restoresAs(s) = "compensated" -> <<>>
                                          [] OTHER -> compensateInternalState(s))
  BY DEF restoreWrites
<1>5. restoresAs(s) = "committed" => q = reconcileStageTerminal(s) \o <<back>>
  BY <1>4
<1>6. restoresAs(s) = "compensated" => q = reconcileStageTerminal(s) \o <<>>
  BY <1>4
<1>7. restoresAs(s) \notin {"committed", "compensated"} => q = reconcileStageTerminal(s) \o compensateInternalState(s)
  BY <1>4
<1> HIDE DEF t, c, started, ended, back, nr, cp, cm, ex
<1>8. CASE t = 0 /\ ck[s].status = "committed"
  <2>1. q = <<>> \o <<back>>
    BY <1>1, <1>2, <1>5, <1>8
  <2>2. <<>> \o <<back>> = <<back>>
    BY NothingBefore
  <2> QED
    BY <1>8, <2>1, <2>2 DEF t, back
<1>9. CASE t = 0 /\ ck[s].status = "compensated"
  <2>1. q = <<>> \o <<>>
    BY <1>1, <1>2, <1>6, <1>9
  <2>2. <<>> \o <<>> = <<>>
    <3>1. <<>> \in Seq({})
      OBVIOUS
    <3> QED
      BY <3>1, ConcatEmptySeq
  <2> QED
    BY <1>9, <2>1, <2>2 DEF t
<1>10. CASE t = 0 /\ ck[s].status = "needs_reconciliation"
  <2>1. q = <<>> \o ((<<started>> \o <<>>) \o <<cp(c), ended>>)
    BY <1>1, <1>2, <1>3, <1>7, <1>10
  <2>2. <<started>> \o <<>> = <<started>>
    BY NothingBefore
  <2>3. <<started>> \o <<cp(c), ended>> = <<started, cp(c), ended>>
    BY OneAndTwo
  <2>4. <<>> \o <<started, cp(c), ended>> = <<started, cp(c), ended>>
    BY NothingBefore
  <2>5. q = <<started, cp(c), ended>>
    BY <2>1, <2>2, <2>3, <2>4
  <2> QED
    BY <1>10, <2>5 DEF t, c, started, ended, cp
<1>11. CASE t = 0 /\ ck[s].status \in {"prepared", "executing"}
  <2>1. q = <<>> \o ((<<started>> \o <<nr(c)>>) \o <<cp(c), ended>>)
    BY <1>1, <1>2, <1>3, <1>7, <1>11
  <2>2. <<started>> \o <<nr(c)>> = <<started, nr(c)>>
    BY OneAndOne
  <2>3. <<started, nr(c)>> \o <<cp(c), ended>> = <<started, nr(c), cp(c), ended>>
    BY TwoAndTwo
  <2>4. <<>> \o <<started, nr(c), cp(c), ended>> = <<started, nr(c), cp(c), ended>>
    BY NothingBefore
  <2>5. q = <<started, nr(c), cp(c), ended>>
    BY <2>1, <2>2, <2>3, <2>4
  <2> QED
    BY <1>11, <2>5 DEF t, c, started, ended, cp, nr
<1>12. CASE t # 0 /\ log[t].type = "stage.completed" /\ ck[s].status = "prepared"
  <2>1. q = (<<ex(t)>> \o <<cm(t)>>) \o <<back>>
    BY <1>1, <1>2, <1>5, <1>12
  <2>2. <<ex(t)>> \o <<cm(t)>> = <<ex(t), cm(t)>>
    BY OneAndOne
  <2>3. <<ex(t), cm(t)>> \o <<back>> = <<ex(t), cm(t), back>>
    BY TwoAndOne
  <2>4. q = <<ex(t), cm(t), back>>
    BY <2>1, <2>2, <2>3
  <2> QED
    BY <1>12, <2>4 DEF t, back, ex, cm
<1>13. CASE t # 0 /\ log[t].type = "stage.completed" /\ ck[s].status = "executing"
  <2>1. q = (<<>> \o <<cm(t)>>) \o <<back>>
    BY <1>1, <1>2, <1>5, <1>13
  <2>2. <<>> \o <<cm(t)>> = <<cm(t)>>
    BY NothingBefore
  <2>3. <<cm(t)>> \o <<back>> = <<cm(t), back>>
    BY OneAndOne
  <2>4. q = <<cm(t), back>>
    BY <2>1, <2>2, <2>3
  <2> QED
    BY <1>13, <2>4 DEF t, back, cm
<1>14. CASE t # 0 /\ log[t].type # "stage.completed"
  <2>1. q = <<nr(t)>> \o ((<<started>> \o <<>>) \o <<cp(t), ended>>)
    BY <1>1, <1>2, <1>3, <1>7, <1>14
  <2>2. <<started>> \o <<>> = <<started>>
    BY NothingBefore
  <2>3. <<started>> \o <<cp(t), ended>> = <<started, cp(t), ended>>
    BY OneAndTwo
  <2>4. <<nr(t)>> \o <<started, cp(t), ended>> = <<nr(t), started, cp(t), ended>>
    BY OneAndThree
  <2>5. q = <<nr(t), started, cp(t), ended>>
    BY <2>1, <2>2, <2>3, <2>4
  <2> QED
    BY <1>14, <2>5 DEF t, started, ended, cp, nr
<1> QED
  BY <1>1, <1>8, <1>9, <1>10, <1>11, <1>12, <1>13, <1>14 DEF CheckpointStatuses


\* Restoring a Stage is a batch the Store accepts.
LEMMA RestoreAccepted ==
  ASSUME StageTypes, CheckpointRows, NEW s \in checkpointed, planStageRestore(s), NEW q, q = restoreWrites(s), q # <<>>
  PROVE  BatchOk(q) /\ q \in Seq(StageWrites) /\ q[1].stage = s
<1> DEFINE t == stageTerminalAfter(s)
           c == ck[s].cursor
           E(to) == [op |-> "event", stage |-> s, to |-> to, cursor |-> 0]
           W(to, n) == [op |-> "save", stage |-> s, to |-> to, cursor |-> n]
<1>1. /\ s \in 1..Len(steps) /\ ck[s].status \in CheckpointStatuses /\ c \in 1..Len(log) /\ c \in Nat
      /\ t = 0 => restoresAs(s) = ck[s].status
      /\ t # 0 => /\ ck[s].status \in {"prepared", "executing"} /\ t \in 1..Len(log) /\ t > c
                  /\ log[t].type = "stage.completed" => t \in eventsOf(s, {"stage.completed"}) /\ restoresAs(s) = "committed"
                  /\ log[t].type # "stage.completed" => restoresAs(s) = "needs_reconciliation"
  <2>1. s \in 1..Len(steps) /\ ck[s].status # "none" /\ CheckpointRow(s)
    BY DEF checkpointed, CheckpointRows
  <2>2. c \in 1..Len(log) /\ Len(log) \in Nat
    BY <2>1, Rows DEF CheckpointRow
  <2> QED
    BY <2>2, TerminalSeen
<1>2. restoresAs(s) \notin {"committed", "compensated"} => effectsOf(s) \subseteq {"compensated"}
  BY CompensatedOnly
<1>3. (\A to : StageRunEvent(s, to) = E(to)) /\ \A to, n : CheckpointWrite(s, to, n) = W(to, n)
  BY DEF StageRunEvent, CheckpointWrite
<1>4. /\ \A to \in {"compensation.started", "compensation.completed", "checkpoint.restored"} :
           E(to) \in StageWrites /\ to \in StageLogTypes \ {"stage.completed"}
      /\ \A to \in CheckpointStatuses, n \in Nat : W(to, n) \in StageWrites
  BY <1>1, Rows DEF StageWrites, StageLogTypes, StageEvents, StageTerminal
<1>5. /\ \A to : E(to).op = "event" /\ E(to).stage = s /\ E(to).to = to
      /\ \A to, n : W(to, n).op = "save" /\ W(to, n).stage = s /\ W(to, n).to = to /\ W(to, n).cursor = n
  OBVIOUS
<1>6. LET started == StageRunEvent(s, "compensation.started")
          ended == StageRunEvent(s, "compensation.completed")
          back == StageRunEvent(s, "checkpoint.restored")
      IN \/ t = 0 /\ ck[s].status = "committed" /\ q = <<back>>
         \/ t = 0 /\ ck[s].status = "needs_reconciliation" /\ q = <<started, CheckpointWrite(s, "compensated", c), ended>>
         \/ t = 0 /\ ck[s].status \in {"prepared", "executing"} /\
              q = <<started, CheckpointWrite(s, "needs_reconciliation", c), CheckpointWrite(s, "compensated", c), ended>>
         \/ t # 0 /\ log[t].type = "stage.completed" /\ ck[s].status = "prepared" /\
              q = <<CheckpointWrite(s, "executing", t), CheckpointWrite(s, "committed", t), back>>
         \/ t # 0 /\ log[t].type = "stage.completed" /\ ck[s].status = "executing" /\
              q = <<CheckpointWrite(s, "committed", t), back>>
         \/ t # 0 /\ log[t].type # "stage.completed" /\
              q = <<CheckpointWrite(s, "needs_reconciliation", t), started, CheckpointWrite(s, "compensated", t), ended>>
  BY RestoreShapes
<1>7. Len(log) \in Nat /\ Len(steps) \in Nat
  BY Rows
<1> HIDE DEF t, c, E, W
<1>8. ASSUME t = 0 /\ ck[s].status = "committed",
            q = <<E("checkpoint.restored")>>
      PROVE  BatchOk(q) /\ q \in Seq(StageWrites) /\ q[1].stage = s
  <2>1. Len(q) = 1 /\ q[1] = E("checkpoint.restored")
    BY <1>8
  <2>2. \A k \in 1..1 : k = 1
    OBVIOUS
  <2>3. c \in 1..Len(log) /\ c \in Nat /\ c <= c
    BY <1>1, <1>7
  <2>4. E("checkpoint.restored") \in StageWrites
    BY <1>4, <2>3 DEF CheckpointStatuses
  <2>5. q \in Seq(StageWrites)
    <3>1. <<E("checkpoint.restored")>> \in Seq({E("checkpoint.restored")})
      OBVIOUS
    <3>2. {E("checkpoint.restored")} \subseteq StageWrites
      BY <2>4
    <3> QED
      BY <1>8, <3>1, <3>2, SeqMonotonic
  <2>6. \A k \in 1..Len(q) : /\ q[k].stage = s /\ q[k].op \in {"event", "save"}
                             /\ q[k].op = "event" => q[k].to \in StageLogTypes \ {"stage.completed"}
                             /\ saves(q, k) => q[k].cursor = c /\ q[k].to \in CheckpointStatuses
    BY <1>4, <1>5, <2>1, <2>2 DEF saves, CheckpointStatuses
  <2>7. \A k \in 1..Len(q) : saves(q, k) => /\ q[k].to = "committed" => c \in eventsOf(s, {"stage.completed"})
                                            /\ q[k].to = "compensated" => effectsOf(s) \subseteq {"compensated"}
    BY <1>1, <1>2, <1>5, <1>8, <2>1, <2>2 DEF saves
  <2>8. \A k \in 1..Len(q) : saves(q, k) => /\ firstSave(q, k) => checkpointTransitionAllowed(ck[s].status, q[k].to)
                                            /\ \A j \in 1..Len(q) : previousSave(q, j, k) => checkpointTransitionAllowed(q[j].to, q[k].to)
    <3>1. \A k \in 1..1 : saves(q, k) <=> k \in {}
      BY <1>5, <2>1, <2>2 DEF saves
    <3> QED
      BY <2>1, <3>1
  <2>9. BatchOk(q)
    <3>1. OneCursor(q, s, c)
      BY <2>6, <2>7, <2>8 DEF OneCursor
    <3>2. ck[s].cursor <= c
      BY <2>3 DEF c
    <3> QED
      BY <1>1, <2>1, <2>3, <3>1, <3>2, OneCursorBatch
  <2> QED
    BY <2>1, <2>5, <2>6, <2>9
<1>9. ASSUME t = 0 /\ ck[s].status = "needs_reconciliation",
            q = <<E("compensation.started"), W("compensated", c), E("compensation.completed")>>
      PROVE  BatchOk(q) /\ q \in Seq(StageWrites) /\ q[1].stage = s
  <2>1. Len(q) = 3 /\ q[1] = E("compensation.started") /\ q[2] = W("compensated", c) /\ q[3] = E("compensation.completed")
    BY <1>9
  <2>2. \A k \in 1..3 : k = 1 \/ k = 2 \/ k = 3
    OBVIOUS
  <2>3. c \in 1..Len(log) /\ c \in Nat /\ c <= c
    BY <1>1, <1>7
  <2>4. E("compensation.started") \in StageWrites /\ W("compensated", c) \in StageWrites /\ E("compensation.completed") \in StageWrites
    BY <1>4, <2>3 DEF CheckpointStatuses
  <2>5. q \in Seq(StageWrites)
    <3>1. <<E("compensation.started"), W("compensated", c), E("compensation.completed")>> \in Seq({E("compensation.started"), W("compensated", c), E("compensation.completed")})
      OBVIOUS
    <3>2. {E("compensation.started"), W("compensated", c), E("compensation.completed")} \subseteq StageWrites
      BY <2>4
    <3> QED
      BY <1>9, <3>1, <3>2, SeqMonotonic
  <2>6. \A k \in 1..Len(q) : /\ q[k].stage = s /\ q[k].op \in {"event", "save"}
                             /\ q[k].op = "event" => q[k].to \in StageLogTypes \ {"stage.completed"}
                             /\ saves(q, k) => q[k].cursor = c /\ q[k].to \in CheckpointStatuses
    BY <1>4, <1>5, <2>1, <2>2 DEF saves, CheckpointStatuses
  <2>7. \A k \in 1..Len(q) : saves(q, k) => /\ q[k].to = "committed" => c \in eventsOf(s, {"stage.completed"})
                                            /\ q[k].to = "compensated" => effectsOf(s) \subseteq {"compensated"}
    BY <1>1, <1>2, <1>5, <1>9, <2>1, <2>2 DEF saves
  <2>8. \A k \in 1..Len(q) : saves(q, k) => /\ firstSave(q, k) => checkpointTransitionAllowed(ck[s].status, q[k].to)
                                            /\ \A j \in 1..Len(q) : previousSave(q, j, k) => checkpointTransitionAllowed(q[j].to, q[k].to)
    <3>1. \A k \in 1..3 : saves(q, k) <=> k \in {2}
      BY <1>5, <2>1, <2>2 DEF saves
    <3>2. checkpointTransitionAllowed(ck[s].status, "compensated")
      BY <1>1, <1>9 DEF checkpointTransitionAllowed
    <3>3. q[2].to = "compensated" /\ \A j \in 1..3 : ~previousSave(q, j, 2)
      BY <1>5, <2>1, <2>2, <3>1 DEF previousSave
    <3> QED
      BY <2>1, <3>1, <3>2, <3>3
  <2>9. BatchOk(q)
    <3>1. OneCursor(q, s, c)
      BY <2>6, <2>7, <2>8 DEF OneCursor
    <3>2. ck[s].cursor <= c
      BY <2>3 DEF c
    <3> QED
      BY <1>1, <2>1, <2>3, <3>1, <3>2, OneCursorBatch
  <2> QED
    BY <2>1, <2>5, <2>6, <2>9
<1>10. ASSUME t = 0 /\ ck[s].status \in {"prepared", "executing"},
            q = <<E("compensation.started"), W("needs_reconciliation", c), W("compensated", c), E("compensation.completed")>>
      PROVE  BatchOk(q) /\ q \in Seq(StageWrites) /\ q[1].stage = s
  <2>1. Len(q) = 4 /\ q[1] = E("compensation.started") /\ q[2] = W("needs_reconciliation", c) /\ q[3] = W("compensated", c) /\ q[4] = E("compensation.completed")
    BY <1>10
  <2>2. \A k \in 1..4 : k = 1 \/ k = 2 \/ k = 3 \/ k = 4
    OBVIOUS
  <2>3. c \in 1..Len(log) /\ c \in Nat /\ c <= c
    BY <1>1, <1>7
  <2>4. E("compensation.started") \in StageWrites /\ W("needs_reconciliation", c) \in StageWrites /\ W("compensated", c) \in StageWrites /\ E("compensation.completed") \in StageWrites
    BY <1>4, <2>3 DEF CheckpointStatuses
  <2>5. q \in Seq(StageWrites)
    <3>1. <<E("compensation.started"), W("needs_reconciliation", c), W("compensated", c), E("compensation.completed")>> \in Seq({E("compensation.started"), W("needs_reconciliation", c), W("compensated", c), E("compensation.completed")})
      OBVIOUS
    <3>2. {E("compensation.started"), W("needs_reconciliation", c), W("compensated", c), E("compensation.completed")} \subseteq StageWrites
      BY <2>4
    <3> QED
      BY <1>10, <3>1, <3>2, SeqMonotonic
  <2>6. \A k \in 1..Len(q) : /\ q[k].stage = s /\ q[k].op \in {"event", "save"}
                             /\ q[k].op = "event" => q[k].to \in StageLogTypes \ {"stage.completed"}
                             /\ saves(q, k) => q[k].cursor = c /\ q[k].to \in CheckpointStatuses
    BY <1>4, <1>5, <2>1, <2>2 DEF saves, CheckpointStatuses
  <2>7. \A k \in 1..Len(q) : saves(q, k) => /\ q[k].to = "committed" => c \in eventsOf(s, {"stage.completed"})
                                            /\ q[k].to = "compensated" => effectsOf(s) \subseteq {"compensated"}
    BY <1>1, <1>2, <1>5, <1>10, <2>1, <2>2 DEF saves
  <2>8. \A k \in 1..Len(q) : saves(q, k) => /\ firstSave(q, k) => checkpointTransitionAllowed(ck[s].status, q[k].to)
                                            /\ \A j \in 1..Len(q) : previousSave(q, j, k) => checkpointTransitionAllowed(q[j].to, q[k].to)
    <3>1. \A k \in 1..4 : saves(q, k) <=> k \in {2, 3}
      BY <1>5, <2>1, <2>2 DEF saves
    <3>2. checkpointTransitionAllowed(ck[s].status, "needs_reconciliation")
      BY <1>1, <1>10 DEF checkpointTransitionAllowed
    <3>3. checkpointTransitionAllowed("needs_reconciliation", "compensated")
      BY DEF checkpointTransitionAllowed
    <3>4. q[2].to = "needs_reconciliation" /\ q[3].to = "compensated"
      BY <1>5, <2>1
    <3>5. ~firstSave(q, 3) /\ \A j \in 1..4 : ~previousSave(q, j, 2) /\ (previousSave(q, j, 3) => j = 2)
      BY <2>2, <3>1 DEF firstSave, previousSave
    <3> QED
      BY <2>1, <3>1, <3>2, <3>3, <3>4, <3>5
  <2>9. BatchOk(q)
    <3>1. OneCursor(q, s, c)
      BY <2>6, <2>7, <2>8 DEF OneCursor
    <3>2. ck[s].cursor <= c
      BY <2>3 DEF c
    <3> QED
      BY <1>1, <2>1, <2>3, <3>1, <3>2, OneCursorBatch
  <2> QED
    BY <2>1, <2>5, <2>6, <2>9
<1>11. ASSUME t # 0 /\ log[t].type = "stage.completed" /\ ck[s].status = "prepared",
            q = <<W("executing", t), W("committed", t), E("checkpoint.restored")>>
      PROVE  BatchOk(q) /\ q \in Seq(StageWrites) /\ q[1].stage = s
  <2>1. Len(q) = 3 /\ q[1] = W("executing", t) /\ q[2] = W("committed", t) /\ q[3] = E("checkpoint.restored")
    BY <1>11
  <2>2. \A k \in 1..3 : k = 1 \/ k = 2 \/ k = 3
    OBVIOUS
  <2>3. t \in 1..Len(log) /\ t \in Nat /\ c <= t
    BY <1>1, <1>7, <1>11
  <2>4. W("executing", t) \in StageWrites /\ W("committed", t) \in StageWrites /\ E("checkpoint.restored") \in StageWrites
    BY <1>4, <2>3 DEF CheckpointStatuses
  <2>5. q \in Seq(StageWrites)
    <3>1. <<W("executing", t), W("committed", t), E("checkpoint.restored")>> \in Seq({W("executing", t), W("committed", t), E("checkpoint.restored")})
      OBVIOUS
    <3>2. {W("executing", t), W("committed", t), E("checkpoint.restored")} \subseteq StageWrites
      BY <2>4
    <3> QED
      BY <1>11, <3>1, <3>2, SeqMonotonic
  <2>6. \A k \in 1..Len(q) : /\ q[k].stage = s /\ q[k].op \in {"event", "save"}
                             /\ q[k].op = "event" => q[k].to \in StageLogTypes \ {"stage.completed"}
                             /\ saves(q, k) => q[k].cursor = t /\ q[k].to \in CheckpointStatuses
    BY <1>4, <1>5, <2>1, <2>2 DEF saves, CheckpointStatuses
  <2>7. \A k \in 1..Len(q) : saves(q, k) => /\ q[k].to = "committed" => t \in eventsOf(s, {"stage.completed"})
                                            /\ q[k].to = "compensated" => effectsOf(s) \subseteq {"compensated"}
    BY <1>1, <1>2, <1>5, <1>11, <2>1, <2>2 DEF saves
  <2>8. \A k \in 1..Len(q) : saves(q, k) => /\ firstSave(q, k) => checkpointTransitionAllowed(ck[s].status, q[k].to)
                                            /\ \A j \in 1..Len(q) : previousSave(q, j, k) => checkpointTransitionAllowed(q[j].to, q[k].to)
    <3>1. \A k \in 1..3 : saves(q, k) <=> k \in {1, 2}
      BY <1>5, <2>1, <2>2 DEF saves
    <3>2. checkpointTransitionAllowed(ck[s].status, "executing")
      BY <1>1, <1>11 DEF checkpointTransitionAllowed
    <3>3. checkpointTransitionAllowed("executing", "committed")
      BY DEF checkpointTransitionAllowed
    <3>4. q[1].to = "executing" /\ q[2].to = "committed"
      BY <1>5, <2>1
    <3>5. ~firstSave(q, 2) /\ \A j \in 1..3 : ~previousSave(q, j, 1) /\ (previousSave(q, j, 2) => j = 1)
      BY <2>2, <3>1 DEF firstSave, previousSave
    <3> QED
      BY <2>1, <3>1, <3>2, <3>3, <3>4, <3>5
  <2>9. BatchOk(q)
    <3>1. OneCursor(q, s, t)
      BY <2>6, <2>7, <2>8 DEF OneCursor
    <3>2. ck[s].cursor <= t
      BY <2>3 DEF c
    <3> QED
      BY <1>1, <2>1, <2>3, <3>1, <3>2, OneCursorBatch
  <2> QED
    BY <2>1, <2>5, <2>6, <2>9
<1>12. ASSUME t # 0 /\ log[t].type = "stage.completed" /\ ck[s].status = "executing",
            q = <<W("committed", t), E("checkpoint.restored")>>
      PROVE  BatchOk(q) /\ q \in Seq(StageWrites) /\ q[1].stage = s
  <2>1. Len(q) = 2 /\ q[1] = W("committed", t) /\ q[2] = E("checkpoint.restored")
    BY <1>12
  <2>2. \A k \in 1..2 : k = 1 \/ k = 2
    OBVIOUS
  <2>3. t \in 1..Len(log) /\ t \in Nat /\ c <= t
    BY <1>1, <1>7, <1>12
  <2>4. W("committed", t) \in StageWrites /\ E("checkpoint.restored") \in StageWrites
    BY <1>4, <2>3 DEF CheckpointStatuses
  <2>5. q \in Seq(StageWrites)
    <3>1. <<W("committed", t), E("checkpoint.restored")>> \in Seq({W("committed", t), E("checkpoint.restored")})
      OBVIOUS
    <3>2. {W("committed", t), E("checkpoint.restored")} \subseteq StageWrites
      BY <2>4
    <3> QED
      BY <1>12, <3>1, <3>2, SeqMonotonic
  <2>6. \A k \in 1..Len(q) : /\ q[k].stage = s /\ q[k].op \in {"event", "save"}
                             /\ q[k].op = "event" => q[k].to \in StageLogTypes \ {"stage.completed"}
                             /\ saves(q, k) => q[k].cursor = t /\ q[k].to \in CheckpointStatuses
    BY <1>4, <1>5, <2>1, <2>2 DEF saves, CheckpointStatuses
  <2>7. \A k \in 1..Len(q) : saves(q, k) => /\ q[k].to = "committed" => t \in eventsOf(s, {"stage.completed"})
                                            /\ q[k].to = "compensated" => effectsOf(s) \subseteq {"compensated"}
    BY <1>1, <1>2, <1>5, <1>12, <2>1, <2>2 DEF saves
  <2>8. \A k \in 1..Len(q) : saves(q, k) => /\ firstSave(q, k) => checkpointTransitionAllowed(ck[s].status, q[k].to)
                                            /\ \A j \in 1..Len(q) : previousSave(q, j, k) => checkpointTransitionAllowed(q[j].to, q[k].to)
    <3>1. \A k \in 1..2 : saves(q, k) <=> k \in {1}
      BY <1>5, <2>1, <2>2 DEF saves
    <3>2. checkpointTransitionAllowed(ck[s].status, "committed")
      BY <1>1, <1>12 DEF checkpointTransitionAllowed
    <3>3. q[1].to = "committed" /\ \A j \in 1..2 : ~previousSave(q, j, 1)
      BY <1>5, <2>1, <2>2, <3>1 DEF previousSave
    <3> QED
      BY <2>1, <3>1, <3>2, <3>3
  <2>9. BatchOk(q)
    <3>1. OneCursor(q, s, t)
      BY <2>6, <2>7, <2>8 DEF OneCursor
    <3>2. ck[s].cursor <= t
      BY <2>3 DEF c
    <3> QED
      BY <1>1, <2>1, <2>3, <3>1, <3>2, OneCursorBatch
  <2> QED
    BY <2>1, <2>5, <2>6, <2>9
<1>13. ASSUME t # 0 /\ log[t].type # "stage.completed",
            q = <<W("needs_reconciliation", t), E("compensation.started"), W("compensated", t), E("compensation.completed")>>
      PROVE  BatchOk(q) /\ q \in Seq(StageWrites) /\ q[1].stage = s
  <2>1. Len(q) = 4 /\ q[1] = W("needs_reconciliation", t) /\ q[2] = E("compensation.started") /\ q[3] = W("compensated", t) /\ q[4] = E("compensation.completed")
    BY <1>13
  <2>2. \A k \in 1..4 : k = 1 \/ k = 2 \/ k = 3 \/ k = 4
    OBVIOUS
  <2>3. t \in 1..Len(log) /\ t \in Nat /\ c <= t
    BY <1>1, <1>7, <1>13
  <2>4. W("needs_reconciliation", t) \in StageWrites /\ E("compensation.started") \in StageWrites /\ W("compensated", t) \in StageWrites /\ E("compensation.completed") \in StageWrites
    BY <1>4, <2>3 DEF CheckpointStatuses
  <2>5. q \in Seq(StageWrites)
    <3>1. <<W("needs_reconciliation", t), E("compensation.started"), W("compensated", t), E("compensation.completed")>> \in Seq({W("needs_reconciliation", t), E("compensation.started"), W("compensated", t), E("compensation.completed")})
      OBVIOUS
    <3>2. {W("needs_reconciliation", t), E("compensation.started"), W("compensated", t), E("compensation.completed")} \subseteq StageWrites
      BY <2>4
    <3> QED
      BY <1>13, <3>1, <3>2, SeqMonotonic
  <2>6. \A k \in 1..Len(q) : /\ q[k].stage = s /\ q[k].op \in {"event", "save"}
                             /\ q[k].op = "event" => q[k].to \in StageLogTypes \ {"stage.completed"}
                             /\ saves(q, k) => q[k].cursor = t /\ q[k].to \in CheckpointStatuses
    BY <1>4, <1>5, <2>1, <2>2 DEF saves, CheckpointStatuses
  <2>7. \A k \in 1..Len(q) : saves(q, k) => /\ q[k].to = "committed" => t \in eventsOf(s, {"stage.completed"})
                                            /\ q[k].to = "compensated" => effectsOf(s) \subseteq {"compensated"}
    BY <1>1, <1>2, <1>5, <1>13, <2>1, <2>2 DEF saves
  <2>8. \A k \in 1..Len(q) : saves(q, k) => /\ firstSave(q, k) => checkpointTransitionAllowed(ck[s].status, q[k].to)
                                            /\ \A j \in 1..Len(q) : previousSave(q, j, k) => checkpointTransitionAllowed(q[j].to, q[k].to)
    <3>1. \A k \in 1..4 : saves(q, k) <=> k \in {1, 3}
      BY <1>5, <2>1, <2>2 DEF saves
    <3>2. checkpointTransitionAllowed(ck[s].status, "needs_reconciliation")
      BY <1>1, <1>13 DEF checkpointTransitionAllowed
    <3>3. checkpointTransitionAllowed("needs_reconciliation", "compensated")
      BY DEF checkpointTransitionAllowed
    <3>4. q[1].to = "needs_reconciliation" /\ q[3].to = "compensated"
      BY <1>5, <2>1
    <3>5. ~firstSave(q, 3) /\ \A j \in 1..4 : ~previousSave(q, j, 1) /\ (previousSave(q, j, 3) => j = 1)
      BY <2>2, <3>1 DEF firstSave, previousSave
    <3> QED
      BY <2>1, <3>1, <3>2, <3>3, <3>4, <3>5
  <2>9. BatchOk(q)
    <3>1. OneCursor(q, s, t)
      BY <2>6, <2>7, <2>8 DEF OneCursor
    <3>2. ck[s].cursor <= t
      BY <2>3 DEF c
    <3> QED
      BY <1>1, <2>1, <2>3, <3>1, <3>2, OneCursorBatch
  <2> QED
    BY <2>1, <2>5, <2>6, <2>9
<1> QED
  BY <1>1, <1>3, <1>6, <1>8, <1>9, <1>10, <1>11, <1>12, <1>13


\* The Stages to restore are ranked by their checkpoints: each rank is one Stage's.
LEMMA RestoreOrder ==
  ASSUME StageTypes
  PROVE  /\ Cardinality(restored) \in Nat
         /\ \A k \in 1..Cardinality(restored) : restoredAt(k) \in restored
         /\ \A j, k \in 1..Cardinality(restored) : restoredAt(j) = restoredAt(k) => j = k
<1> DEFINE S == restored
           n == Cardinality(S)
           below(s) == {r \in S : restoredBefore(r, s)}
           rank == [s \in S |-> Cardinality(below(s))]
<1>1. S \subseteq 1..Len(steps) /\ Len(steps) \in Nat /\ \A s \in S : s \in Nat /\ ck[s].cursor \in Nat
  <2>1. S \subseteq 1..Len(steps)
    BY DEF restored, checkpointed
  <2>2. Len(steps) \in Nat /\ \A s \in 1..Len(steps) : ck[s] \in [status : CheckpointStatuses \cup {"none"}, cursor : Nat]
    BY Rows
  <2> HIDE DEF S
  <2>3. ASSUME NEW s \in S PROVE s \in Nat /\ ck[s].cursor \in Nat
    <3>1. s \in 1..Len(steps)
      BY <2>1
    <3>2. ck[s] \in [status : CheckpointStatuses \cup {"none"}, cursor : Nat]
      BY <2>2, <3>1
    <3> QED
      BY <2>2, <3>1, <3>2
  <2> QED
    BY <2>1, <2>2, <2>3
<1>2. IsFiniteSet(S) /\ n \in Nat
  <2>1. IsFiniteSet(1..Len(steps))
    BY <1>1, FS_Interval
  <2> HIDE DEF S
  <2> QED
    BY <1>1, <2>1, FS_Subset, FS_CardinalityType
<1>3. /\ \A a \in S : ~restoredBefore(a, a)
      /\ \A a, b \in S : a # b => restoredBefore(a, b) \/ restoredBefore(b, a)
      /\ \A a, b, c \in S : restoredBefore(a, b) /\ restoredBefore(b, c) => restoredBefore(a, c)
  <2> HIDE DEF S
  <2>1. \A s \in S : s \in Nat /\ ck[s].cursor \in Nat
    BY <1>1
  <2>2. \A a \in S : ~restoredBefore(a, a)
    BY <2>1 DEF restoredBefore
  <2>3. \A a, b \in S : a # b => restoredBefore(a, b) \/ restoredBefore(b, a)
    BY <2>1 DEF restoredBefore
  <2>4. \A a, b, c \in S : restoredBefore(a, b) /\ restoredBefore(b, c) => restoredBefore(a, c)
    BY <2>1 DEF restoredBefore
  <2> QED
    BY <2>2, <2>3, <2>4
<1> HIDE DEF S
<1>4. \A s \in S : IsFiniteSet(below(s)) /\ Cardinality(below(s)) \in Nat
  BY <1>2, FS_Subset, FS_CardinalityType
<1>5. ASSUME NEW s \in S PROVE Cardinality(below(s)) \in 0..n - 1
  <2>1. below(s) \in SUBSET S /\ below(s) # S
    BY <1>3
  <2>2. Cardinality(below(s)) <= n /\ Cardinality(below(s)) # n
    BY <1>2, <2>1, FS_Subset
  <2> HIDE DEF below, n
  <2> QED
    BY <1>2, <1>4, <2>2
<1>6. ASSUME NEW a \in S, NEW b \in S, restoredBefore(a, b) PROVE Cardinality(below(a)) # Cardinality(below(b))
  <2>1. below(a) \in SUBSET below(b) /\ a \in below(b) /\ a \notin below(a)
    BY <1>3, <1>6
  <2> HIDE DEF below
  <2>2. Cardinality(below(b)) = Cardinality(below(a)) => below(a) = below(b)
    BY <1>4, <2>1, FS_Subset
  <2> QED
    BY <2>1, <2>2
<1>7. rank \in Injection(S, 0..n - 1)
  <2>1. rank \in [S -> 0..n - 1]
    BY <1>5
  <2>2. \A a, b \in S : rank[a] = rank[b] => a = b
    BY <1>3, <1>6
  <2> HIDE DEF rank
  <2> QED
    BY <2>1, <2>2 DEF Injection, IsInjective
<1>8. IsFiniteSet(0..n - 1) /\ Cardinality(0..n - 1) = n
  <2> HIDE DEF n
  <2>1. 0 \in Int /\ n - 1 \in Int /\ (0 > n - 1 => n = 0) /\ (n - 1) - 0 + 1 = n
    BY <1>2
  <2> QED
    BY <2>1, FS_Interval
<1>9. rank \in Surjection(S, 0..n - 1)
  <2> HIDE DEF rank
  <2> QED
    BY <1>7, <1>8, FS_Injection DEF n
<1>10. ASSUME NEW k \in 1..n PROVE restoredAt(k) \in S /\ Cardinality(below(restoredAt(k))) = k - 1
  <2>1. k - 1 \in 0..n - 1
    BY <1>2
  <2>2. \E s \in S : rank[s] = k - 1
    <3> HIDE DEF rank
    <3> QED
      BY <1>9, <2>1 DEF Surjection
  <2>3. \E s \in S : Cardinality(below(s)) = k - 1
    BY <2>2
  <2>4. restoredAt(k) = CHOOSE s \in S : Cardinality(below(s)) = k - 1
    BY DEF restoredAt, S
  <2> HIDE DEF below
  <2> QED
    BY <2>3, <2>4
<1>11. ASSUME NEW j \in 1..n, NEW k \in 1..n, restoredAt(j) = restoredAt(k) PROVE j = k
  <2>1. j - 1 = k - 1
    BY <1>10, <1>11
  <2>2. j \in Nat /\ k \in Nat
    BY <1>2
  <2> QED
    BY <2>1, <2>2
<1> QED
  BY <1>2, <1>10, <1>11 DEF S

\* What a plan says of a Stage that is not complete: nothing it wrote is in force.
LEMMA PlanSettled ==
  ASSUME StageTypes, CheckpointRows, CompletionIsReal, planRestore, NEW i \in 1..Len(steps), steps[i].status # "completed"
  PROVE  effectsOf(i) \subseteq {"compensated"}
<1>1. CheckpointRow(i)
  BY DEF CheckpointRows
<1>2. CASE ck[i].status = "none"
  BY <1>1, <1>2 DEF CheckpointRow
<1>3. CASE ck[i].status # "none"
  <2>1. i \in checkpointed /\ planStageRestore(i)
    BY <1>3 DEF checkpointed, planRestore
  <2>2. eventsOf(i, {"stage.completed"}) = {}
    BY DEF eventsOf, CompletionIsReal
  <2> DEFINE t == stageTerminalAfter(i)
  <2>3. /\ t = 0 => restoresAs(i) = ck[i].status
        /\ t # 0 => /\ log[t].type = "stage.completed" => t \in eventsOf(i, {"stage.completed"})
                    /\ log[t].type # "stage.completed" => restoresAs(i) = "needs_reconciliation"
    BY <2>1, TerminalSeen
  <2> HIDE DEF t
  <2>4. restoresAs(i) # "committed"
    BY <1>1, <2>2, <2>3 DEF CheckpointRow
  <2>5. CASE restoresAs(i) = "compensated"
    <3>1. ck[i].status = "compensated"
      BY <2>2, <2>3, <2>5
    <3> QED
      BY <1>1, <3>1 DEF CheckpointRow
  <2>6. CASE restoresAs(i) # "compensated"
    BY <2>1, <2>4, <2>6, CompensatedOnly
  <2> QED
    BY <2>5, <2>6
<1> QED
  BY <1>2, <1>3

\* The plan is applied, or refused.
LEMMA RestoreKept ==
  ASSUME StageInv, RestoreRun
  PROVE  StageInv'
<1>1. StageTypes /\ Phases /\ CheckpointRows /\ CompletionIsReal /\ OneRunning /\ CompletedOnce /\ NoWriteRepeated /\ AllCompleted
  BY DEF StageInv
<1>2. UNCHANGED <<steps, ck, log, stageEffects, known, reused>> /\ phase = "accepted" /\ stageRun = "running"
  BY DEF RestoreRun, Ready, Alive
<1>3. CASE ~planRestore /\ stageRun' = "failed" /\ phase' = "off" /\ todo' = <<>>
  <2>1. AllCompleted'
    BY <1>3 DEF AllCompleted
  <2> QED
    BY <1>2, <1>3, <2>1, StageStops
<1>4. CASE planRestore /\ phase' = "tail" /\ stageRun' = stageRun /\ todo' = [n \in 1..Cardinality(restored) |-> restoreWrites(restoredAt(n))]
  <2> DEFINE n == Cardinality(restored)
  <2>1. n \in Nat /\ (\A k \in 1..n : restoredAt(k) \in restored) /\ \A j, k \in 1..n : restoredAt(j) = restoredAt(k) => j = k
    BY <1>1, RestoreOrder
  <2>2. todo' = [k \in 1..n |-> restoreWrites(restoredAt(k))]
    BY <1>4
  <2> HIDE DEF n
  <2>3. ASSUME NEW s \in restored, NEW q, q = restoreWrites(s) PROVE BatchOk(q)' /\ q \in Seq(StageWrites) /\ q[1].stage = s
    <3>1. s \in checkpointed /\ q # <<>> /\ planStageRestore(s)
      BY <1>4, <2>3 DEF restored, planRestore
    <3>2. BatchOk(q) /\ q \in Seq(StageWrites) /\ q[1].stage = s
      BY <1>1, <2>3, <3>1, RestoreAccepted
    <3> QED
      BY <1>2, <3>2, BatchStays
  <2>4. ASSUME NEW k \in 1..n, NEW q, q = todo'[k] PROVE BatchOk(q)' /\ q \in Seq(StageWrites) /\ q[1].stage = restoredAt(k)
    <3>1. restoredAt(k) \in restored /\ q = restoreWrites(restoredAt(k))
      BY <2>1, <2>2, <2>4
    <3> QED
      BY <2>3, <3>1
  <2>5. \A k \in 1..n : todo'[k] \in Seq(StageWrites) /\ BatchOk(todo[k])' /\ todo'[k][1].stage = restoredAt(k)
    BY <2>4
  <2>6. todo' \in [1..n -> Seq(StageWrites)]
    BY <2>2, <2>5
  <2>7. todo' \in Seq(Seq(StageWrites)) /\ Len(todo') = n
    BY <2>1, <2>6, FunctionAsSeq
  <2>8. WritesAccepted'
    BY <2>1, <2>5, <2>7 DEF WritesAccepted
  <2>9. StageTypes'
    BY <1>1, <1>2, <1>4, <2>7 DEF StageTypes
  <2>10. (\A s : effectsOf(s)' = effectsOf(s)) /\ \A s, types : eventsOf(s, types)' = eventsOf(s, types)
    BY <1>2 DEF effectsOf, eventsOf
  <2>11. CheckpointRows' /\ CompletionIsReal'
    BY <1>1, <1>2, <2>10 DEF CheckpointRows, CheckpointRow, CompletionIsReal
  <2>12. OneRunning' /\ CompletedOnce' /\ NoWriteRepeated' /\ AllCompleted'
    BY <1>1, <1>2, <1>4, <2>10 DEF OneRunning, CompletedOnce, NoWriteRepeated, AllCompleted
  <2>13. known = 1..Len(steps) /\ (\A i \in 1..Len(steps) : steps[i].status # "running") /\ phase' = "tail" /\ stageRun' = "running"
    BY <1>1, <1>2, <1>4 DEF Phases
  <2>14. Phases'
    BY <1>1, <1>2, <2>13 DEF Phases, Executing
  <2>15. \A i \in 1..Len(steps) : steps[i].status # "completed" => effectsOf(i) \subseteq {"compensated"}
    BY <1>1, <1>4, PlanSettled
  <2>16. KnownSettled'
    BY <1>2, <2>10, <2>13, <2>15 DEF KnownSettled
  <2>17. TailDone' /\ TurnRuns'
    BY <1>2, <2>13 DEF TailDone, TurnRuns
  <2> QED
    BY <2>8, <2>9, <2>11, <2>12, <2>14, <2>16, <2>17 DEF StageInv
<1> QED
  BY <1>3, <1>4 DEF RestoreRun

\* The invariant holds at the start,
LEMMA StageInitInv == StageInit => StageInv
<1> SUFFICES ASSUME StageInit PROVE StageInv
  OBVIOUS
<1>1. /\ stageRun = "running" /\ steps = <<>> /\ ck = <<>> /\ stageEffects = <<>> /\ log = <<runEvent("run.started")>>
      /\ phase = "tail" /\ todo = <<>> /\ known = {} /\ reused = {}
  BY DEF StageInit
<1>2. runEvent("run.started") \in [stage : Nat, type : StageLogTypes] /\ runEvent("run.started").type = "run.started"
  BY DEF runEvent, StageLogTypes
<1> HIDE DEF runEvent
<1>3. /\ log \in Seq([stage : Nat, type : StageLogTypes]) /\ log # <<>> /\ Len(log) = 1 /\ log[1].type = "run.started"
  BY <1>1, <1>2
<1>4. StageTypes
  BY <1>1, <1>3 DEF StageTypes
<1>5. CompletionIsReal
  BY <1>3 DEF CompletionIsReal
<1>6. CheckpointRows /\ WritesAccepted /\ OneRunning /\ CompletedOnce /\ AllCompleted /\ Phases /\ KnownSettled /\ TailDone /\ TurnRuns /\ NoWriteRepeated
  BY <1>1 DEF CheckpointRows, WritesAccepted, OneRunning, CompletedOnce, AllCompleted, Phases, KnownSettled, TailDone, TurnRuns,
              NoWriteRepeated, Executing
<1> QED
  BY <1>4, <1>5, <1>6 DEF StageInv

\* every step keeps it, one lemma per handler,
LEMMA StageStep == StageInv /\ [StageNext]_stageVars => StageInv'
<1> SUFFICES ASSUME StageInv, [StageNext]_stageVars PROVE StageInv'
  OBVIOUS
<1>1. CASE Write
  <2>1. StageTypes /\ CheckpointRows /\ CompletionIsReal /\ WritesAccepted /\ OneRunning /\ CompletedOnce
        /\ Phases /\ KnownSettled /\ TailDone /\ TurnRuns /\ NoWriteRepeated
    BY DEF StageInv
  <2>2. StageTypes'
    BY <1>1, <2>1, WriteTyped
  <2>3. CheckpointRows' /\ CompletionIsReal'
    BY <1>1, <2>1, WriteRows
  <2>4. WritesAccepted'
    BY <1>1, <2>1, WriteAccepted
  <2>5. OneRunning' /\ CompletedOnce' /\ AllCompleted' /\ NoWriteRepeated'
    BY <1>1, <2>1, WriteSteps
  <2>6. Phases' /\ KnownSettled' /\ TailDone' /\ TurnRuns'
    BY <1>1, <2>1, WritePhases
  <2> QED
    BY <2>2, <2>3, <2>4, <2>5, <2>6 DEF StageInv
<1>2. CASE WriteFails \/ StageCrash
  BY <1>2, StopsKept
<1>3. CASE runCollaborationTail
  BY <1>3, TailKept
<1>4. CASE BeginEffect
  BY <1>4, BeginKept
<1>5. CASE FinishEffect \/ ReconcileToolEffect
  BY <1>5, EffectsKept
<1>6. CASE runWorkerStage \/ failCollaborationStage
  BY <1>6, TurnEnds
<1>7. CASE StageSettle
  BY <1>7, SettleKept
<1>8. CASE StageRepair
  BY <1>8, RepairKept
<1>9. CASE ValidateResume \/ AcceptResume
  BY <1>9, ResumeKept
<1>10. CASE RestoreRun
  BY <1>10, RestoreKept
<1>11. CASE UNCHANGED stageVars
  <2>1. UNCHANGED <<stageRun, steps, ck, log, stageEffects, phase, todo, known, reused>>
    BY <1>11 DEF stageVars
  <2>2. (\A s : effectsOf(s)' = effectsOf(s)) /\ \A s, types : eventsOf(s, types)' = eventsOf(s, types)
    BY <2>1 DEF effectsOf, eventsOf
  <2>3. StageTypes' /\ CompletionIsReal' /\ OneRunning' /\ CompletedOnce' /\ AllCompleted' /\ Phases' /\ TailDone'
    BY <2>1 DEF StageInv, StageTypes, CompletionIsReal, OneRunning, CompletedOnce, AllCompleted, completedOf, Phases, TailDone, ends
  <2>4. CheckpointRows' /\ KnownSettled' /\ NoWriteRepeated'
    BY <2>1, <2>2 DEF StageInv, CheckpointRows, CheckpointRow, KnownSettled, NoWriteRepeated
  <2>5. TurnRuns'
    BY <2>1 DEF StageInv, TurnRuns, current, saves
  <2>6. WritesAccepted'
    <3>1. \A b \in 1..Len(todo) : \A q : q = todo[b] => BatchOk(q)'
      BY <2>1, BatchStays DEF StageInv, WritesAccepted
    <3>2. \A b \in 1..Len(todo) : BatchOk(todo[b])'
      BY <2>1, <3>1
    <3> QED
      BY <2>1, <3>2 DEF StageInv, WritesAccepted
  <2> QED
    BY <2>3, <2>4, <2>5, <2>6 DEF StageInv
<1> QED
  BY <1>1, <1>2, <1>3, <1>4, <1>5, <1>6, <1>7, <1>8, <1>9, <1>10, <1>11 DEF StageNext

\* so it always holds,
LEMMA StageInvariant == StageSpec => []StageInv
<1>1. StageInit => StageInv
  BY StageInitInv
<1>2. StageInv /\ [StageNext]_stageVars => StageInv'
  BY StageStep
<1> QED
  BY <1>1, <1>2, PTL DEF StageSpec

\* and it says what a restore needs: the saves are accepted, what is committed is durable, no Stage is done twice.
LEMMA StageInvSafe == StageInv => RestoreSafe
<1> SUFFICES ASSUME StageInv PROVE RestoreSafe
  OBVIOUS
<1>1. StageTypes /\ CheckpointRows /\ CompletionIsReal /\ WritesAccepted /\ CompletedOnce /\ AllCompleted /\ NoWriteRepeated
  BY DEF StageInv
<1>2. SavesAreAccepted
  BY <1>1, FirstWriteAccepted DEF SavesAreAccepted
<1>3. CommittedIsDurable
  <2> SUFFICES ASSUME NEW s \in checkpointed, ck[s].status = "committed"
               PROVE  steps[s].status = "completed" /\ \E e \in eventsOf(s, {"stage.completed"}) : e <= ck[s].cursor
    BY DEF CommittedIsDurable
  <2>1. PICK e \in eventsOf(s, {"stage.completed"}) : e <= ck[s].cursor
    BY <1>1 DEF CheckpointRows, CheckpointRow, checkpointed
  <2>2. steps[s].status = "completed"
    BY <1>1, <2>1 DEF eventsOf, CompletionIsReal
  <2> QED
    BY <2>1, <2>2
<1>4. EachStageOnce
  <2> SUFFICES ASSUME NEW k \in 1..Len(Roles)
               PROVE  /\ Cardinality(completedOf(Roles[k], 1..Len(steps))) <= 1
                      /\ stageRun = "completed" => completedOf(Roles[k], 1..Len(steps)) # {}
    BY DEF EachStageOnce
  <2> DEFINE done == completedOf(Roles[k], 1..Len(steps))
  <2>1. \A i, j \in done : i = j
    BY <1>1 DEF completedOf, CompletedOnce
  <2>2. ASSUME done = {} PROVE Cardinality(done) <= 1
    <3>1. Cardinality({}) = 0
      BY FS_EmptySet
    <3> HIDE DEF done
    <3> QED
      BY <2>2, <3>1
  <2>3. ASSUME done # {} PROVE Cardinality(done) <= 1
    <3>1. PICK i \in done : TRUE
      BY <2>3
    <3> HIDE DEF done
    <3>2. done = {i}
      BY <2>1, <3>1
    <3>3. Cardinality(done) = 1
      BY <3>2, FS_Singleton
    <3> QED
      BY <3>3
  <2>4. stageRun = "completed" => done # {}
    BY <1>1 DEF AllCompleted
  <2>5. Cardinality(done) <= 1
    BY <2>2, <2>3
  <2> QED
    BY <2>4, <2>5
<1> QED
  BY <1>1, <1>2, <1>3, <1>4 DEF RestoreSafe

\* A Run that is resumed after any crash never saves a checkpoint the Store refuses, never trusts a
\* completion that is not durable, never repeats a write of a finished Stage and does each Stage once
\* (AgentRuntime.Resume, its checkpoint repair and planStageRestore).
THEOREM RestoreCorrect == StageSpec => []RestoreSafe
<1>1. StageSpec => []StageInv
  BY StageInvariant
<1>2. StageInv => RestoreSafe
  BY StageInvSafe
<1> QED
  BY <1>1, <1>2, PTL
=============================================================================
