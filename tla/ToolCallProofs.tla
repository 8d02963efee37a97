--------------------------- MODULE ToolCallProofs ---------------------------
(***************************************************************************)
(* Proofs about a Tool call: its effect (ToolEffect), the loop that makes   *)
(* it (ToolLoop), the guest it runs in (SandboxRunner), its MCP connection  *)
(* (McpConnections) and the authority it needs (ToolAuthority), for any     *)
(* calls, batches, commands, deliveries and restarts.                       *)
(*                                                                          *)
(* A claim excludes other callbacks because every write advances the        *)
(* version: a request that still holds the current version read the current *)
(* status, and a callback request that holds it belongs to the running      *)
(* callback.  What the journal says is true because every verdict has its   *)
(* witness (Worked, Settled, Meant, Backing).  The guest and the connection *)
(* keep what their lock covers (Tracked, Phased; Current, Open, Bound,      *)
(* Permitted, Honest).  The loop's identities lie within its counters       *)
(* (Identified), which count its writes (WritesNumbered).                   *)
(***************************************************************************)
EXTENDS ToolEffect, ToolLoop, SandboxRunner, McpConnections, ToolAuthority, FiniteSetTheorems, SequenceTheorems, TLAPS

\* The record: opened once, and a committed one has its result.
Recorded ==
  /\ effect.status = "none" => starts = 0 /\ effect.result = "none"
  /\ starts <= 1
  /\ effect.status = "committed" => effect.result # "none"

\* What a request may write next, and the evidence it carries.
Decided(q) ==
  /\ q.status = "committed" => q.result # "none" \/ q.pc = "settle"
  /\ q.undo => q.result # "none" \/ q.pc = "settle"
  /\ q.pc = "decide" => q.status \in {"needs_reconciliation", "reconciling"}
  /\ q.pc = "settle" =>
       \/ q.next = "committed" /\ q.result # "none"
       \/ q.next \in {"failed", "compensated", "needs_reconciliation", "reconciling"} /\ q.result = "none"

\* How a request got where it is: what its command may do there.
Routed(q) ==
  /\ q.pc \in {"claim", "callback"} => cmd[q.command].action \in External
  /\ q.pc = "decide" => cmd[q.command].action \notin External
  /\ q.pc = "settle" /\ cmd[q.command].action \notin External =>
       \/ q.next \in {"compensated", q.status}
       \/ cmd[q.command].action \in {"confirm_committed", "confirm_failed"}

Delivered ==
  \A r \in Requests : req[r].pc # "idle" =>
    /\ req[r].command \in Commands /\ cmd[req[r].command] # NoCommand
    /\ Decided(req[r]) /\ Routed(req[r])

\* The types the arguments need.
Types ==
  /\ effect \in EffectRecord /\ starts \in Nat
  /\ cmd \in [Commands -> CommandRecord] /\ req \in [Requests -> RequestRecord]
  /\ cb \in [Commands -> CallbackPC]

JournalWrite ==
  \/ UNCHANGED <<effect, starts>>
  \/ /\ effect.status = "none" /\ updateToolEffect("executing", "none") /\ starts' = starts + 1
  \/ /\ effect.status = "executing" /\ UNCHANGED starts
     /\ \/ updateToolEffect("executing", "intent") /\ effect.result = "none"
        \/ updateToolEffect("committed", "executed")
        \/ updateToolEffect("failed", effect.result)
        \/ updateToolEffect("needs_reconciliation", effect.result)
  \/ /\ effect.status = "needs_reconciliation" /\ updateToolEffect("needs_reconciliation", effect.result)
     /\ UNCHANGED starts

OperatorIdle == UNCHANGED <<audit, cmd, req, cb, confirmed>>

\* The worker's side of the system: its journal writes leave the operator's state alone.
LEMMA WorkerSteps ==
  ASSUME Next
  PROVE  \/ JournalWrite /\ OperatorIdle
         \/ \E r \in Requests : Reconcile(r) \/ \E c \in Commands : Deliver(r, c)
         \/ \E c \in Commands : Compose(c) \/ Callback(c)
         \/ Crash
<1> USE DEF OperatorIdle, JournalWrite, history, OperatorSame, ProcessSame, JournalFails
<1>1. ASSUME NEW c \in Calls, BeginSideEffect(c) PROVE JournalWrite /\ OperatorIdle
  BY <1>1 DEF BeginSideEffect, canExecute
<1>2. ASSUME NEW c \in Calls, Executor(c) PROVE JournalWrite /\ OperatorIdle
  BY <1>2 DEF Executor, ExecutorWait, ExecutorCommit, ExecutorMark, ExecutorCheck, CompleteToolEffect,
              MarkToolEffectNeedsReconciliation
<1>3. CASE Handler
  BY <1>3 DEF Handler, HandlerIntent, HandlerGivesUp, HandlerRejects, HandlerPublishes, FailToolEffect,
              canSaveIntent
<1>4. CASE RunRests \/ Resume \/ Restart \/ RepairInterruptedRun
  BY <1>4 DEF RunRests, Resume, Restart, RepairInterruptedRun, repairedEffect
<1> QED
  BY <1>1, <1>2, <1>3, <1>4 DEF Next
(* What each step of a request does to its record.                          *)

\* A request that returns.
LEMMA Returns ==
  ASSUME Types, NEW r \in Requests, Return(r)
  PROVE  IdleReq \in RequestRecord /\ req' = [req EXCEPT ![r] = IdleReq]
BY DEF Types, Return, IdleReq, RequestRecord, RequestPC, EffectStatus, Result

\* Deliver gives the request the record as it is.
LEMMA DeliverStep ==
  ASSUME Types, NEW r \in Requests, NEW c \in Commands, Deliver(r, c)
  PROVE  \E q \in RequestRecord :
           /\ req' = [req EXCEPT ![r] = q]
           /\ q.pc = "gate" /\ q.command = c /\ cmd[c] # NoCommand /\ ~q.undo
           /\ q.status = effect.status /\ q.version = effect.version /\ q.result = effect.result
           /\ UNCHANGED <<effect, audit, cmd, cb, confirmed, starts>>
<1> DEFINE q == [IdleReq EXCEPT !.pc = "gate", !.command = c, !.status = effect.status,
                                !.version = effect.version, !.result = effect.result]
<1>1. /\ q.pc = "gate" /\ q.command = c /\ ~q.undo
      /\ q.status = effect.status /\ q.version = effect.version /\ q.result = effect.result
  BY DEF IdleReq
<1>2. q \in RequestRecord
  BY DEF IdleReq, Types, EffectRecord, RequestRecord, RequestPC, EffectStatus
<1>3. req' = [req EXCEPT ![r] = q] /\ cmd[c] # NoCommand
  BY DEF Deliver
<1>4. UNCHANGED <<effect, audit, cmd, cb, confirmed, starts>>
  BY DEF Deliver, WorkSame
<1> HIDE DEF q
<1> QED
  BY <1>1, <1>2, <1>3, <1>4

\* Gate lets a request pass that is neither known nor stale nor settled.
LEMMA GateStep ==
  ASSUME Types, NEW r \in Requests, Gate(r)
  PROVE  /\ req[r].pc = "gate" /\ UNCHANGED <<effect, audit, cmd, cb, confirmed, starts>>
         /\ \/ Return(r)
            \/ \E q \in RequestRecord :
                 /\ req' = [req EXCEPT ![r] = q]
                 /\ q.command = req[r].command /\ q.version = req[r].version
                 /\ q.status = req[r].status /\ q.result = req[r].result
                 /\ \/ q.pc = "claim" /\ action(r) \in External
                    \/ /\ q.pc = "decide" /\ action(r) \notin External
                       /\ q.status \in {"needs_reconciliation", "reconciling"}
                 /\ q.undo => q.status = "committed"
<1>1. req[r].pc = "gate" /\ UNCHANGED <<effect, audit, cmd, cb, confirmed, starts>>
  BY DEF Gate, ReqAt, WorkSame
<1>2. ASSUME ~Return(r)
      PROVE  \E q \in RequestRecord :
                 /\ req' = [req EXCEPT ![r] = q]
                 /\ q.command = req[r].command /\ q.version = req[r].version
                 /\ q.status = req[r].status /\ q.result = req[r].result
                 /\ \/ q.pc = "claim" /\ action(r) \in External
                    \/ /\ q.pc = "decide" /\ action(r) \notin External
                       /\ q.status \in {"needs_reconciliation", "reconciling"}
                 /\ q.undo => q.status = "committed"
  <2> DEFINE pc2 == IF action(r) \in External THEN "claim" ELSE "decide"
             q == [req[r] EXCEPT !.pc = pc2, !.undo = committedUndo(r)]
  <2>1. admitted(r) /\ req' = [req EXCEPT ![r].pc = pc2, ![r].undo = committedUndo(r)]
    BY <1>2 DEF Gate
  <2>2. committedUndo(r) \in BOOLEAN /\ (committedUndo(r) => req[r].status = "committed" /\ action(r) \in External)
    BY DEF committedUndo, External
  <2>3. req[r] \in RequestRecord /\ pc2 \in RequestPC
    BY DEF Types, RequestPC
  <2>4. q \in RequestRecord /\ q.pc = pc2 /\ q.undo = committedUndo(r) /\ q.command = req[r].command
        /\ q.version = req[r].version /\ q.status = req[r].status /\ q.result = req[r].result
    BY <2>2, <2>3 DEF RequestRecord
  <2>5. req' = [req EXCEPT ![r] = q]
    BY <2>1 DEF Types, RequestRecord
  <2>6. action(r) \notin External => req[r].status \in {"needs_reconciliation", "reconciling"}
    BY <2>1, <2>2 DEF admitted
  <2> HIDE DEF q, pc2
  <2>7. pc2 = IF action(r) \in External THEN "claim" ELSE "decide"
    BY DEF pc2
  <2> QED
    BY <2>2, <2>4, <2>5, <2>6, <2>7
<1> QED
  BY <1>1, <1>2

\* Claim writes the claim and starts the callback, or returns.
LEMMA ClaimStep ==
  ASSUME Types, NEW r \in Requests, req[r].command \in Commands, Claim(r)
  PROVE  /\ req[r].pc = "claim" /\ UNCHANGED <<cmd, confirmed, starts>>
         /\ \/ Return(r) /\ UNCHANGED <<effect, audit, cb>>
            \/ /\ reconciliationApplies(r, "claim")
               /\ updateToolEffect("reconciling", effect.result)
               /\ audit' = audit \cup {<<req[r].command, "claim">>}
               /\ cb' = [cb EXCEPT ![req[r].command] = "run"]
               /\ \E q \in RequestRecord :
                    /\ req' = [req EXCEPT ![r] = q]
                    /\ q.pc = "callback" /\ q.command = req[r].command
                    /\ q.version = effect.version + 1 /\ q.status = "reconciling"
                    /\ q.result = req[r].result /\ q.undo = req[r].undo
<1>1. req[r].pc = "claim" /\ UNCHANGED <<cmd, confirmed, starts>>
  BY DEF Claim, ReqAt, WorkSame
<1>2. ASSUME ~(Return(r) /\ UNCHANGED <<effect, audit, cb>>)
      PROVE  /\ reconciliationApplies(r, "claim")
             /\ updateToolEffect("reconciling", effect.result)
             /\ audit' = audit \cup {<<req[r].command, "claim">>}
             /\ cb' = [cb EXCEPT ![req[r].command] = "run"]
             /\ req' = [req EXCEPT ![r].pc = "callback", ![r].version = effect.version + 1,
                                   ![r].status = "reconciling"]
  BY <1>2 DEF Claim, CommitToolEffectReconciliation, reconciledResult
<1> DEFINE q == [req[r] EXCEPT !.pc = "callback", !.version = effect.version + 1, !.status = "reconciling"]
<1>3. req[r] \in RequestRecord /\ effect.version + 1 \in Nat
      /\ "callback" \in RequestPC /\ "reconciling" \in EffectStatus
  BY DEF Types, EffectRecord, RequestPC, EffectStatus
<1>4. /\ q \in RequestRecord /\ q.pc = "callback" /\ q.command = req[r].command
      /\ q.version = effect.version + 1 /\ q.status = "reconciling"
      /\ q.result = req[r].result /\ q.undo = req[r].undo
  BY <1>3 DEF RequestRecord
<1>5. [req EXCEPT ![r].pc = "callback", ![r].version = effect.version + 1, ![r].status = "reconciling"]
        = [req EXCEPT ![r] = q]
  BY DEF Types, RequestRecord
<1> HIDE DEF q
<1> QED
  BY <1>1, <1>2, <1>4, <1>5

\* A request that has decided keeps what it read and carries what it will write.
LEMMA DecideTypes ==
  ASSUME Types, NEW r \in Requests, NEW chosen \in EffectStatus, NEW result \in Result,
         DecideTo(r, chosen, result)
  PROVE  \E q \in RequestRecord :
           /\ req' = [req EXCEPT ![r] = q]
           /\ q.pc = "settle" /\ q.next = chosen /\ q.result = result /\ q.undo = req[r].undo
           /\ q.command = req[r].command /\ q.version = req[r].version /\ q.status = req[r].status
<1> DEFINE q == [req[r] EXCEPT !.pc = "settle", !.next = chosen, !.result = result]
<1>1. req[r] \in RequestRecord /\ "settle" \in RequestPC
  BY DEF Types, RequestPC
<1>2. /\ q \in RequestRecord /\ q.pc = "settle" /\ q.next = chosen /\ q.result = result
      /\ q.undo = req[r].undo
      /\ q.command = req[r].command /\ q.version = req[r].version /\ q.status = req[r].status
  BY <1>1 DEF RequestRecord
<1>3. req' = [req EXCEPT ![r] = q]
  BY DEF DecideTo, Types, RequestRecord
<1> HIDE DEF q
<1> QED
  BY <1>2, <1>3

\* The operator's decision, or the query of a compensation.
LEMMA DecideStep ==
  ASSUME Types, NEW r \in Requests, Decide(r)
  PROVE  /\ req[r].pc = "decide" /\ UNCHANGED <<effect, audit, cmd, cb, confirmed, starts>>
         /\ \E chosen \in EffectStatus, result \in Result :
              /\ DecideTo(r, chosen, result)
              /\ \/ chosen = "committed" /\ result # "none" /\ action(r) = "confirm_committed"
                 \/ chosen = "failed" /\ result = "none" /\ action(r) = "confirm_failed"
                 \/ chosen \in {"compensated", req[r].status} /\ result = "none"
<1>1. req[r].pc = "decide" /\ UNCHANGED <<effect, audit, cmd, cb, confirmed, starts>>
  BY DEF Decide, ReqAt, WorkSame
<1>2. req[r].status \in EffectStatus
  BY DEF Types, RequestRecord
<1>3. {"committed", "failed", "compensated"} \subseteq EffectStatus /\ {"none", "confirmed"} \subseteq Result
  BY DEF EffectStatus, Result
<1>4. \/ action(r) = "confirm_committed" /\ DecideTo(r, "committed", "confirmed")
      \/ action(r) = "confirm_failed" /\ DecideTo(r, "failed", "none")
      \/ DecideTo(r, "compensated", "none")
      \/ DecideTo(r, req[r].status, "none")
  BY DEF Decide
<1> QED
  BY <1>1, <1>2, <1>3, <1>4

\* The outcome of the callback, or the deadline, which keeps the claim.
LEMMA CallbackReturnsStep ==
  ASSUME Types, NEW r \in Requests, CallbackReturns(r)
  PROVE  /\ req[r].pc = "callback" /\ UNCHANGED <<effect, audit, cmd, cb, confirmed, starts>>
         /\ \E chosen \in EffectStatus, result \in Result :
              /\ DecideTo(r, chosen, result)
              /\ \/ chosen = "reconciling" /\ result = "none"
                 \/ /\ cb[req[r].command] # "run"
                    /\ \/ chosen = "committed" /\ result # "none"
                       \/ chosen = "committed" /\ req[r].undo /\ result = req[r].result
                       \/ chosen \in {"compensated", "needs_reconciliation"} /\ result = "none"
<1>1. req[r].pc = "callback" /\ UNCHANGED <<effect, audit, cmd, cb, confirmed, starts>>
  BY DEF CallbackReturns, ReqAt, WorkSame
<1>2. req[r].result \in Result
  BY DEF Types, RequestRecord
<1>3. {"committed", "compensated", "needs_reconciliation", "reconciling"} \subseteq EffectStatus
      /\ {"none", "retried"} \subseteq Result
  BY DEF EffectStatus, Result
<1>4. \/ DecideTo(r, "reconciling", "none")
      \/ /\ cb[req[r].command] # "run"
         /\ \/ DecideTo(r, "committed", "retried")
            \/ req[r].undo /\ DecideTo(r, "committed", req[r].result)
            \/ DecideTo(r, "compensated", "none")
            \/ DecideTo(r, "needs_reconciliation", "none")
  BY DEF CallbackReturns, deadlineStatus
<1> QED
  BY <1>1, <1>2, <1>3, <1>4

\* The settlement, if the version has not moved.
LEMMA SettleStep ==
  ASSUME Types, NEW r \in Requests, Settle(r)
  PROVE  /\ req[r].pc = "settle" /\ Return(r) /\ UNCHANGED <<cmd, cb, starts>>
         /\ \/ UNCHANGED <<effect, audit, confirmed>>
            \/ /\ reconciliationApplies(r, "outcome")
               /\ updateToolEffect(req[r].next, reconciledResult(req[r].next, req[r].result))
               /\ audit' = audit \cup {<<req[r].command, "outcome">>}
               /\ action(r) \in {"confirm_committed", "confirm_failed"} => confirmed'
               /\ confirmed => confirmed'
BY DEF Settle, ReqAt, WorkSame, CommitToolEffectReconciliation

----------------------------------------------------------------------------
(* The record and the requests.                                             *)

\* A request that replaces one keeps the others.
LEMMA ReplaceRequest ==
  ASSUME Types, NEW r \in Requests, NEW q \in RequestRecord, req' = [req EXCEPT ![r] = q]
  PROVE  /\ req' \in [Requests -> RequestRecord]
         /\ req'[r] = q /\ \A s \in Requests : s # r => req'[s] = req[s]
BY DEF Types

\* A journal write is a record.
LEMMA WriteTypes ==
  ASSUME Types, NEW chosen \in EffectStatus, NEW result \in Result, updateToolEffect(chosen, result)
  PROVE  /\ effect' \in EffectRecord
         /\ effect'.status = chosen /\ effect'.result = result /\ effect'.version = effect.version + 1
BY DEF Types, EffectRecord, updateToolEffect

JInv == Types /\ Recorded /\ Delivered

\* The journal starts empty and no request is under way.
LEMMA JInvInit == Init => JInv
<1> SUFFICES ASSUME Init PROVE JInv
  OBVIOUS
<1>1. effect \in EffectRecord /\ starts \in Nat /\ Recorded
  BY DEF Init, EffectRecord, EffectStatus, Result, Recorded
<1>2. IdleReq \in RequestRecord /\ IdleReq.pc = "idle"
  BY DEF IdleReq, RequestRecord, RequestPC, EffectStatus, Result
<1>3. req \in [Requests -> RequestRecord] /\ Delivered
  BY <1>2 DEF Init, Delivered
<1>4. cmd \in [Commands -> CommandRecord] /\ cb \in [Commands -> CallbackPC]
  BY DEF Init, NoCommand, CommandRecord, CallbackPC
<1> QED
  BY <1>1, <1>3, <1>4 DEF JInv, Types

\* Every step keeps the record and the requests as JInv says.
LEMMA JInvStep == JInv /\ [Next]_vars => JInv'
<1> SUFFICES ASSUME JInv, [Next]_vars PROVE JInv'
  OBVIOUS
<1>0. Types /\ Recorded /\ Delivered
  BY DEF JInv
<1>1. CASE JournalWrite /\ OperatorIdle
  <2>1. effect' \in EffectRecord /\ starts' \in Nat /\ Recorded'
    <3>1. effect \in EffectRecord /\ starts \in Nat
      BY <1>0 DEF Types
    <3> QED
      BY <1>0, <1>1, <3>1
      DEF JournalWrite, updateToolEffect, EffectRecord, EffectStatus, Result, Recorded
  <2>2. UNCHANGED <<req, cmd, cb>>
    BY <1>1 DEF OperatorIdle
  <2> QED
    BY <1>0, <2>1, <2>2 DEF JInv, Types, Delivered, Decided, Routed
<1>2. ASSUME NEW r \in Requests, NEW q \in RequestRecord, req' = [req EXCEPT ![r] = q],
             q.pc # "idle" => q.command \in Commands /\ cmd[q.command] # NoCommand /\ Decided(q) /\ Routed(q),
             UNCHANGED cmd
      PROVE  req' \in [Requests -> RequestRecord] /\ Delivered'
  <2>1. /\ req' \in [Requests -> RequestRecord]
        /\ req'[r] = q /\ \A s \in Requests : s # r => req'[s] = req[s]
    BY <1>0, <1>2, ReplaceRequest
  <2>2. ASSUME NEW s \in Requests
        PROVE  (req[s].pc # "idle" => /\ req[s].command \in Commands /\ cmd[req[s].command] # NoCommand
                                      /\ Decided(req[s]) /\ Routed(req[s]))'
    <3>1. CASE s = r
      BY <1>2, <2>1, <3>1 DEF Decided, Routed
    <3>2. CASE s # r
      BY <1>0, <1>2, <2>1, <3>2 DEF Delivered, Decided, Routed
    <3> QED
      BY <3>1, <3>2
  <2> QED
    BY <2>1, <2>2 DEF Delivered
<1>3. ASSUME NEW r \in Requests, Return(r), UNCHANGED cmd
      PROVE  req' \in [Requests -> RequestRecord] /\ Delivered'
  <2>1. IdleReq.pc = "idle"
    BY DEF IdleReq
  <2> QED
    BY <1>0, <1>2, <1>3, <2>1, Returns
<1>4. ASSUME NEW r \in Requests, NEW c \in Commands, Deliver(r, c) PROVE JInv'
  <2>1. PICK q \in RequestRecord :
           /\ req' = [req EXCEPT ![r] = q]
           /\ q.pc = "gate" /\ q.command = c /\ cmd[c] # NoCommand /\ ~q.undo
           /\ q.status = effect.status /\ q.version = effect.version /\ q.result = effect.result
           /\ UNCHANGED <<effect, audit, cmd, cb, confirmed, starts>>
    BY <1>0, <1>4, DeliverStep
  <2>2. Decided(q) /\ Routed(q)
    BY <1>0, <2>1 DEF Decided, Routed, Recorded
  <2>3. req' \in [Requests -> RequestRecord] /\ Delivered'
    BY <1>2, <2>1, <2>2
  <2> QED
    BY <1>0, <2>1, <2>3 DEF JInv, Types, Recorded
<1>5. ASSUME NEW r \in Requests, Gate(r) PROVE JInv'
  <2>1. req' \in [Requests -> RequestRecord] /\ Delivered'
    <3>1. CASE Return(r)
      BY <1>0, <1>3, <1>5, <3>1, GateStep
    <3>2. CASE ~Return(r)
      <4>1. PICK q \in RequestRecord :
                 /\ req' = [req EXCEPT ![r] = q]
                 /\ q.command = req[r].command /\ q.version = req[r].version
                 /\ q.status = req[r].status /\ q.result = req[r].result
                 /\ \/ q.pc = "claim" /\ action(r) \in External
                    \/ /\ q.pc = "decide" /\ action(r) \notin External
                       /\ q.status \in {"needs_reconciliation", "reconciling"}
                 /\ q.undo => q.status = "committed"
        BY <1>0, <1>5, <3>2, GateStep
      <4>2. req[r].pc = "gate" /\ UNCHANGED cmd
        BY <1>0, <1>5, GateStep
      <4>3. q.command \in Commands /\ cmd[q.command] # NoCommand /\ Decided(q) /\ Routed(q)
        BY <1>0, <4>1, <4>2 DEF Delivered, Decided, Routed, action
      <4> QED
        BY <1>2, <4>1, <4>2, <4>3
    <3> QED
      BY <3>1, <3>2
  <2>2. UNCHANGED <<effect, cmd, cb, starts>>
    BY <1>0, <1>5, GateStep
  <2> QED
    BY <1>0, <2>1, <2>2 DEF JInv, Types, Recorded
<1>6. ASSUME NEW r \in Requests, Claim(r) PROVE JInv'
  <2>1. req[r].pc = "claim" /\ req[r].command \in Commands
    BY <1>0, <1>6 DEF Claim, ReqAt, Delivered
  <2>2. UNCHANGED <<cmd, starts>>
    BY <1>0, <1>6, <2>1, ClaimStep
  <2>3. CASE Return(r) /\ UNCHANGED <<effect, audit, cb>>
    <3>1. req' \in [Requests -> RequestRecord] /\ Delivered'
      BY <1>3, <2>2, <2>3
    <3> QED
      BY <1>0, <2>2, <2>3, <3>1 DEF JInv, Types, Recorded
  <2>4. CASE ~(Return(r) /\ UNCHANGED <<effect, audit, cb>>)
    <3>1. /\ reconciliationApplies(r, "claim") /\ updateToolEffect("reconciling", effect.result)
          /\ cb' = [cb EXCEPT ![req[r].command] = "run"]
      BY <1>0, <1>6, <2>1, <2>4, ClaimStep
    <3>2. PICK q \in RequestRecord :
                    /\ req' = [req EXCEPT ![r] = q]
                    /\ q.pc = "callback" /\ q.command = req[r].command
                    /\ q.version = effect.version + 1 /\ q.status = "reconciling"
                    /\ q.result = req[r].result /\ q.undo = req[r].undo
      BY <1>0, <1>6, <2>1, <2>4, ClaimStep
    <3>3. q.command \in Commands /\ cmd[q.command] # NoCommand /\ Decided(q) /\ Routed(q)
      BY <1>0, <2>1, <3>2 DEF Delivered, Decided, Routed
    <3>4. req' \in [Requests -> RequestRecord] /\ Delivered'
      BY <1>2, <2>2, <3>2, <3>3
    <3>5. effect' \in EffectRecord /\ effect'.status = "reconciling"
      <4>1. "reconciling" \in EffectStatus /\ effect.result \in Result
        BY <1>0 DEF Types, EffectRecord, EffectStatus
      <4> QED
        BY <1>0, <3>1, <4>1, WriteTypes
    <3>6. cb' \in [Commands -> CallbackPC]
      BY <1>0, <3>1 DEF Types, CallbackPC
    <3> QED
      BY <1>0, <2>2, <3>4, <3>5, <3>6 DEF JInv, Types, Recorded
  <2> QED
    BY <2>3, <2>4
<1>7. ASSUME NEW r \in Requests, Decide(r) PROVE JInv'
  <2>1. req[r].pc = "decide" /\ UNCHANGED <<effect, cmd, cb, starts>>
    BY <1>0, <1>7, DecideStep
  <2>2. PICK chosen \in EffectStatus, result \in Result :
              /\ DecideTo(r, chosen, result)
              /\ \/ chosen = "committed" /\ result # "none" /\ action(r) = "confirm_committed"
                 \/ chosen = "failed" /\ result = "none" /\ action(r) = "confirm_failed"
                 \/ chosen \in {"compensated", req[r].status} /\ result = "none"
    BY <1>0, <1>7, DecideStep
  <2>3. PICK q \in RequestRecord :
           /\ req' = [req EXCEPT ![r] = q]
           /\ q.pc = "settle" /\ q.next = chosen /\ q.result = result /\ q.undo = req[r].undo
           /\ q.command = req[r].command /\ q.version = req[r].version /\ q.status = req[r].status
    BY <1>0, <2>2, DecideTypes
  <2>4. q.command \in Commands /\ cmd[q.command] # NoCommand /\ Decided(q) /\ Routed(q)
    BY <1>0, <2>1, <2>2, <2>3 DEF Delivered, Decided, Routed, action
  <2>5. req' \in [Requests -> RequestRecord] /\ Delivered'
    BY <1>2, <2>1, <2>3, <2>4
  <2> QED
    BY <1>0, <2>1, <2>5 DEF JInv, Types, Recorded
<1>8. ASSUME NEW r \in Requests, CallbackReturns(r) PROVE JInv'
  <2>1. req[r].pc = "callback" /\ UNCHANGED <<effect, cmd, cb, starts>>
    BY <1>0, <1>8, CallbackReturnsStep
  <2>2. PICK chosen \in EffectStatus, result \in Result :
              /\ DecideTo(r, chosen, result)
              /\ \/ chosen = "reconciling" /\ result = "none"
                 \/ /\ cb[req[r].command] # "run"
                    /\ \/ chosen = "committed" /\ result # "none"
                       \/ chosen = "committed" /\ req[r].undo /\ result = req[r].result
                       \/ chosen \in {"compensated", "needs_reconciliation"} /\ result = "none"
    BY <1>0, <1>8, CallbackReturnsStep
  <2>3. PICK q \in RequestRecord :
           /\ req' = [req EXCEPT ![r] = q]
           /\ q.pc = "settle" /\ q.next = chosen /\ q.result = result /\ q.undo = req[r].undo
           /\ q.command = req[r].command /\ q.version = req[r].version /\ q.status = req[r].status
    BY <1>0, <2>2, DecideTypes
  <2>4. q.command \in Commands /\ cmd[q.command] # NoCommand /\ Decided(q) /\ Routed(q)
    BY <1>0, <2>1, <2>2, <2>3 DEF Delivered, Decided, Routed
  <2>5. req' \in [Requests -> RequestRecord] /\ Delivered'
    BY <1>2, <2>1, <2>3, <2>4
  <2> QED
    BY <1>0, <2>1, <2>5 DEF JInv, Types, Recorded
<1>9. ASSUME NEW r \in Requests, Settle(r) PROVE JInv'
  <2>1. req[r].pc = "settle" /\ Return(r) /\ UNCHANGED <<cmd, cb, starts>>
    BY <1>0, <1>9, SettleStep
  <2>2. req' \in [Requests -> RequestRecord] /\ Delivered'
    BY <1>3, <2>1
  <2>3. effect' \in EffectRecord /\ Recorded'
    <3>1. CASE UNCHANGED effect
      BY <1>0, <2>1, <3>1 DEF Types, Recorded
    <3>2. CASE effect' # effect
      <4> DEFINE result == reconciledResult(req[r].next, req[r].result)
      <4>1. updateToolEffect(req[r].next, result)
        BY <1>0, <1>9, <3>2, SettleStep
      <4>2. Decided(req[r]) /\ req[r].next \in EffectStatus /\ req[r].result \in Result /\ effect.result \in Result
        BY <1>0, <2>1 DEF Types, Delivered, RequestRecord, EffectRecord
      <4>3. result \in Result /\ (req[r].next = "committed" => result # "none") /\ req[r].next # "none"
        BY <2>1, <4>2 DEF reconciledResult, Decided
      <4> HIDE DEF result
      <4>4. effect' \in EffectRecord /\ effect'.status = req[r].next /\ effect'.result = result
        BY <1>0, <4>1, <4>2, <4>3, WriteTypes
      <4> QED
        BY <1>0, <2>1, <4>3, <4>4 DEF Recorded
    <3> QED
      BY <3>1, <3>2
  <2> QED
    BY <1>0, <2>1, <2>2, <2>3 DEF JInv, Types
<1>10. ASSUME NEW c \in Commands, Compose(c) PROVE JInv'
  <2>1. PICK a \in Action : cmd' = [cmd EXCEPT ![c] = [action |-> a, expected |-> effect.version]]
    BY <1>10 DEF Compose
  <2>2. UNCHANGED <<effect, req, cb, starts>> /\ cmd[c] = NoCommand
    BY <1>10 DEF Compose, WorkSame
  <2>3. cmd' \in [Commands -> CommandRecord]
    BY <1>0, <2>1 DEF Types, CommandRecord, EffectRecord
  <2>4. \A d \in Commands : cmd[d] # NoCommand => cmd'[d] = cmd[d]
    BY <1>0, <2>1, <2>2 DEF Types
  <2>5. Delivered'
    BY <1>0, <2>2, <2>4 DEF Delivered, Decided, Routed
  <2> QED
    BY <1>0, <2>2, <2>3, <2>5 DEF JInv, Types, Recorded
<1>11. ASSUME NEW c \in Commands, Callback(c) PROVE JInv'
  <2>1. UNCHANGED <<effect, req, cmd, starts>> /\ \E o \in CallbackPC : cb' = [cb EXCEPT ![c] = o]
    BY <1>11 DEF Callback, history, CallbackPC
  <2>2. cb' \in [Commands -> CallbackPC]
    BY <1>0, <2>1 DEF Types
  <2> QED
    BY <1>0, <2>1, <2>2 DEF JInv, Types, Recorded, Delivered, Decided, Routed
<1>12. CASE Crash
  <2>1. IdleReq \in RequestRecord /\ IdleReq.pc = "idle"
    BY DEF IdleReq, RequestRecord, RequestPC, EffectStatus, Result
  <2>2. req' \in [Requests -> RequestRecord] /\ Delivered'
    BY <1>12, <2>1 DEF Crash, Delivered
  <2>3. UNCHANGED <<effect, cmd, starts>> /\ cb' \in [Commands -> CallbackPC]
    BY <1>12 DEF Crash, history, CallbackPC
  <2> QED
    BY <1>0, <2>2, <2>3 DEF JInv, Types, Recorded
<1>13. CASE UNCHANGED vars
  BY <1>0, <1>13 DEF vars, JInv, Types, Recorded, Delivered, Decided, Routed
<1> QED
  BY <1>1, <1>4, <1>5, <1>6, <1>7, <1>8, <1>9, <1>10, <1>11, <1>12, <1>13, WorkerSteps DEF Reconcile

\* JInv holds in every reachable state.
LEMMA JInvCorrect == Spec => []JInv
BY JInvInit, JInvStep, PTL DEF Spec

\* Whatever calls, crashes, repairs, resumes and reconciliations happen, the executor
\* invokes the handler of one idempotency key at most once (BeginToolEffect's insert).
THEOREM HandlerAtMostOnceCorrect == Spec => []HandlerAtMostOnce
<1>1. JInv => HandlerAtMostOnce
  BY DEF JInv, Recorded, HandlerAtMostOnce
<1> QED
  BY <1>1, JInvCorrect, PTL

----------------------------------------------------------------------------
(* The writes of the record, and the abstract journal.                      *)

ClaimWrite ==
  effect.status \in {"needs_reconciliation", "committed"} /\ updateToolEffect("reconciling", effect.result)

SettleWrite ==
  /\ effect.status \in {"needs_reconciliation", "reconciling"}
  /\ \/ \E s \in {"needs_reconciliation", "reconciling"} : updateToolEffect(s, effect.result)
     \/ \E result \in Result \ {"none"} : updateToolEffect("committed", result)
     \/ \E s \in {"failed", "compensated"} : updateToolEffect(s, "none")

\* Every write of the record is the worker's, a claim or a settlement.
LEMMA EffectWrites ==
  ASSUME JInv, [Next]_vars
  PROVE  UNCHANGED effect \/ JournalWrite \/ ClaimWrite \/ SettleWrite
<1>0. Types /\ Recorded /\ Delivered
  BY DEF JInv
<1>1. ASSUME NEW r \in Requests, Claim(r) PROVE UNCHANGED effect \/ ClaimWrite
  <2>1. req[r].command \in Commands
    BY <1>0, <1>1 DEF Claim, ReqAt, Delivered
  <2> QED
    BY <1>0, <1>1, <2>1, ClaimStep DEF reconciliationApplies, ClaimWrite
<1>2. ASSUME NEW r \in Requests, Settle(r) PROVE UNCHANGED effect \/ SettleWrite
  <2>1. SUFFICES ASSUME effect' # effect PROVE SettleWrite
    OBVIOUS
  <2>2. /\ req[r].pc = "settle" /\ reconciliationApplies(r, "outcome")
        /\ updateToolEffect(req[r].next, reconciledResult(req[r].next, req[r].result))
    BY <1>0, <1>2, <2>1, SettleStep
  <2>3. Decided(req[r]) /\ req[r].result \in Result
    BY <1>0, <2>2 DEF Delivered, Types, RequestRecord
  <2>4. effect.status \in {"needs_reconciliation", "reconciling"}
    BY <2>2 DEF reconciliationApplies
  <2>5. CASE req[r].next = "committed" /\ req[r].result # "none"
    BY <2>2, <2>3, <2>4, <2>5 DEF SettleWrite, reconciledResult
  <2>6. CASE req[r].next \in {"failed", "compensated"} /\ req[r].result = "none"
    BY <2>2, <2>4, <2>6 DEF SettleWrite, reconciledResult
  <2>7. CASE req[r].next \in {"needs_reconciliation", "reconciling"} /\ req[r].result = "none"
    BY <2>2, <2>4, <2>7 DEF SettleWrite, reconciledResult
  <2> QED
    BY <2>2, <2>3, <2>5, <2>6, <2>7 DEF Decided
<1>3. ASSUME NEW r \in Requests, NEW c \in Commands, Deliver(r, c)
      PROVE  UNCHANGED effect
  BY <1>3 DEF Deliver
<1>4. ASSUME NEW r \in Requests, Gate(r) \/ Decide(r) \/ CallbackReturns(r)
      PROVE  UNCHANGED effect
  BY <1>4 DEF Gate, Decide, CallbackReturns
<1>5. ASSUME NEW c \in Commands, Compose(c) \/ Callback(c) PROVE UNCHANGED effect
  BY <1>5 DEF Compose, Callback
<1>6. CASE Crash
  BY <1>6 DEF Crash
<1>7. CASE UNCHANGED vars
  BY <1>7 DEF vars
<1> QED
  BY <1>1, <1>2, <1>3, <1>4, <1>5, <1>6, <1>7, WorkerSteps DEF Reconcile

\* The executor, the handlers, the operators' requests, the crashes and the repair
\* together write the record as EffectJournal promises.
THEOREM JournalImplemented == Spec => ImplementsJournal
<1>1. Init => Journal!Init
  BY DEF Init, Journal!Init
<1>2. JInv /\ [Next]_vars => [Journal!Next]_<<effect.status, effect.version, effect.result>>
  <2> SUFFICES ASSUME JInv, [Next]_vars
               PROVE  [Journal!Next]_<<effect.status, effect.version, effect.result>>
    OBVIOUS
  <2>1. Types /\ Recorded
    BY DEF JInv
  <2> USE DEF updateToolEffect, Journal!Next, Journal!Write
  <2>2. CASE UNCHANGED effect
    BY <2>2
  <2>3. CASE JournalWrite
    BY <2>1, <2>3 DEF JournalWrite, Journal!Open, Journal!Attempt, Journal!Uncertain
  <2>4. CASE ClaimWrite
    BY <2>4 DEF ClaimWrite, Journal!Claim
  <2>5. CASE SettleWrite
    BY <2>5 DEF SettleWrite, Journal!Reconcile
  <2> QED
    BY <2>2, <2>3, <2>4, <2>5, EffectWrites
<1> QED
  BY <1>1, <1>2, JInvCorrect, PTL DEF Spec, ImplementsJournal, Journal!Spec

\* Evidence and results once recorded change only in a settlement: no claim, failed
\* check, timeout or repair loses what an undo needs.
THEOREM EvidenceRetainedCorrect == Spec => EvidenceRetained
<1>1. JInv /\ [Next]_vars =>
        [effect.result # "none" /\ effect'.result # effect.result
           => effect'.status \in {"committed", "failed", "compensated"}]_vars
  <2> SUFFICES ASSUME JInv, [Next]_vars, effect.result # "none", effect'.result # effect.result
               PROVE  effect'.status \in {"committed", "failed", "compensated"}
    OBVIOUS
  <2>1. Recorded
    BY DEF JInv
  <2> QED
    BY <2>1, EffectWrites DEF Recorded, JournalWrite, ClaimWrite, SettleWrite, updateToolEffect
<1> QED
  BY <1>1, JInvCorrect, PTL DEF Spec, EvidenceRetained

----------------------------------------------------------------------------
(* One callback at a time.                                                  *)

\* A request that still holds the current version read the current status.
Fresh(q) == q.version <= effect.version /\ (q.version = effect.version => q.status = effect.status)

\* A request of a callback has its claim on record, leaves "reconciling" only after
\* its callback returned, and while it holds the current version no other callback runs.
Claims(q) ==
  q.pc \in {"callback", "settle"} /\ cmd[q.command].action \in External =>
    /\ <<q.command, "claim">> \in audit
    /\ q.pc = "settle" /\ q.next # "reconciling" => cb[q.command] # "run"
    /\ q.version = effect.version => confirmed \/ \A c \in Commands : cb[c] = "run" => c = q.command

Held == \A r \in Requests : req[r].pc # "idle" => Fresh(req[r]) /\ Claims(req[r])

\* A callback runs only under a claim, or under the compensation a query found done.
Guarded ==
  confirmed \/ \A c \in Commands : cb[c] = "run" => effect.status \in {"reconciling", "compensated"}

Exclusive == Held /\ Guarded /\ CallbackExclusive

\* No callback runs at first.
LEMMA ExclusiveInit == Init => Exclusive
BY DEF Init, Exclusive, Held, Guarded, CallbackExclusive, IdleReq

\* A request that moves without a write.
LEMMA MoveExclusive ==
  ASSUME JInv, Exclusive, NEW r \in Requests, NEW q \in RequestRecord, req' = [req EXCEPT ![r] = q],
         UNCHANGED <<effect, audit, cmd, cb, confirmed>>, q.pc # "idle" => Fresh(q) /\ Claims(q)
  PROVE  Exclusive'
<1>1. req'[r] = q /\ \A s \in Requests : s # r => req'[s] = req[s]
  BY ReplaceRequest DEF JInv
<1>2. Held'
  <2> SUFFICES ASSUME NEW s \in Requests PROVE (req[s].pc # "idle" => Fresh(req[s]) /\ Claims(req[s]))'
    BY DEF Held
  <2>1. CASE s = r
    BY <1>1, <2>1 DEF Fresh, Claims
  <2>2. CASE s # r
    BY <1>1, <2>2 DEF Exclusive, Held, Fresh, Claims
  <2> QED
    BY <2>1, <2>2
<1> QED
  BY <1>2 DEF Exclusive, Guarded, CallbackExclusive

\* A write makes every other request stale.
LEMMA WriteMakesStale ==
  ASSUME JInv, Held, effect'.version = effect.version + 1, NEW s \in Requests, req[s].pc # "idle"
  PROVE  req[s].version < effect'.version
<1>1. req[s].version \in Nat /\ effect.version \in Nat
  BY DEF JInv, Types, RequestRecord, EffectRecord
<1>2. req[s].version <= effect.version
  BY DEF Held, Fresh
<1> QED
  BY <1>1, <1>2

\* Every step keeps the callbacks exclusive.
LEMMA ExclusiveStep == JInv /\ Exclusive /\ [Next]_vars => Exclusive'
<1> SUFFICES ASSUME JInv, Exclusive, [Next]_vars PROVE Exclusive'
  OBVIOUS
<1>0. /\ Types /\ Recorded /\ Delivered /\ Held /\ Guarded /\ CallbackExclusive
      /\ effect.version \in Nat
  BY DEF JInv, Exclusive, Types, EffectRecord
<1>1. CASE JournalWrite /\ OperatorIdle
  <2>0. UNCHANGED <<audit, cmd, req, cb, confirmed>>
    BY <1>1 DEF OperatorIdle
  <2>1. CASE UNCHANGED effect
    BY <1>0, <2>0, <2>1 DEF Exclusive, Held, Fresh, Claims, Guarded, CallbackExclusive
  <2>2. CASE effect' # effect
    <3>1. /\ effect'.version = effect.version + 1
          /\ effect.status \in {"none", "executing", "needs_reconciliation"}
      BY <1>1, <2>2 DEF JournalWrite, updateToolEffect
    <3>2. Held'
      <4> SUFFICES ASSUME NEW s \in Requests, req[s].pc # "idle" PROVE (Fresh(req[s]) /\ Claims(req[s]))'
        BY <2>0 DEF Held
      <4>1. req[s].version < effect'.version
        BY <1>0, <3>1, WriteMakesStale
      <4>2. req[s].version \in Nat /\ effect'.version \in Nat
        BY <1>0, <3>1 DEF Types, RequestRecord
      <4> QED
        BY <1>0, <2>0, <4>1, <4>2 DEF Held, Fresh, Claims
    <3>3. Guarded'
      BY <1>0, <2>0, <3>1 DEF Guarded
    <3> QED
      BY <1>0, <2>0, <3>2, <3>3 DEF Exclusive, CallbackExclusive
  <2> QED
    BY <2>1, <2>2
<1>2. ASSUME NEW r \in Requests, NEW c \in Commands, Deliver(r, c) PROVE Exclusive'
  <2>1. PICK q \in RequestRecord :
           /\ req' = [req EXCEPT ![r] = q]
           /\ q.pc = "gate" /\ q.command = c /\ cmd[c] # NoCommand /\ ~q.undo
           /\ q.status = effect.status /\ q.version = effect.version /\ q.result = effect.result
           /\ UNCHANGED <<effect, audit, cmd, cb, confirmed, starts>>
    BY <1>0, <1>2, DeliverStep
  <2>2. Fresh(q) /\ Claims(q)
    BY <1>0, <2>1 DEF Fresh, Claims
  <2> QED
    BY <2>1, <2>2, MoveExclusive
<1>3. ASSUME NEW r \in Requests, Return(r), UNCHANGED <<effect, audit, cmd, cb, confirmed>>
      PROVE  Exclusive'
  <2>1. IdleReq.pc = "idle"
    BY DEF IdleReq
  <2> QED
    BY <1>0, <1>3, <2>1, Returns, MoveExclusive
<1>4. ASSUME NEW r \in Requests, Gate(r) PROVE Exclusive'
  <2>1. req[r].pc = "gate" /\ UNCHANGED <<effect, audit, cmd, cb, confirmed, starts>>
    BY <1>0, <1>4, GateStep
  <2>2. CASE Return(r)
    BY <1>3, <2>1, <2>2
  <2>3. CASE ~Return(r)
    <3>1. PICK q \in RequestRecord :
                 /\ req' = [req EXCEPT ![r] = q]
                 /\ q.command = req[r].command /\ q.version = req[r].version
                 /\ q.status = req[r].status /\ q.result = req[r].result
                 /\ \/ q.pc = "claim" /\ action(r) \in External
                    \/ /\ q.pc = "decide" /\ action(r) \notin External
                       /\ q.status \in {"needs_reconciliation", "reconciling"}
                 /\ q.undo => q.status = "committed"
      BY <1>0, <1>4, <2>3, GateStep
    <3>2. Fresh(q) /\ Claims(q)
      BY <1>0, <2>1, <3>1 DEF Held, Fresh, Claims
    <3> QED
      BY <2>1, <3>1, <3>2, MoveExclusive
  <2> QED
    BY <2>2, <2>3
<1>5. ASSUME NEW r \in Requests, Claim(r) PROVE Exclusive'
  <2>1. req[r].pc = "claim" /\ req[r].command \in Commands
    BY <1>0, <1>5 DEF Claim, ReqAt, Delivered
  <2>2. UNCHANGED <<cmd, confirmed, starts>>
    BY <1>0, <1>5, <2>1, ClaimStep
  <2>3. CASE Return(r) /\ UNCHANGED <<effect, audit, cb>>
    BY <1>3, <2>2, <2>3
  <2>4. CASE ~(Return(r) /\ UNCHANGED <<effect, audit, cb>>)
    <3> DEFINE d == req[r].command
    <3>1. /\ reconciliationApplies(r, "claim") /\ updateToolEffect("reconciling", effect.result)
          /\ audit' = audit \cup {<<d, "claim">>} /\ cb' = [cb EXCEPT ![d] = "run"]
      BY <1>0, <1>5, <2>1, <2>4, ClaimStep
    <3>2. PICK q \in RequestRecord :
                    /\ req' = [req EXCEPT ![r] = q]
                    /\ q.pc = "callback" /\ q.command = req[r].command
                    /\ q.version = effect.version + 1 /\ q.status = "reconciling"
                    /\ q.result = req[r].result /\ q.undo = req[r].undo
      BY <1>0, <1>5, <2>1, <2>4, ClaimStep
    <3>3. effect'.status = "reconciling" /\ effect'.version = effect.version + 1
      BY <3>1 DEF updateToolEffect
    <3>4. <<d, "claim">> \notin audit /\ effect.status \in {"needs_reconciliation", "committed"}
      BY <3>1 DEF reconciliationApplies
    <3>5. confirmed \/ \A c \in Commands : cb[c] # "run"
      BY <1>0, <3>4 DEF Guarded
    <3>6. cb'[d] = "run" /\ \A c \in Commands : c # d => cb'[c] = cb[c]
      BY <1>0, <2>1, <3>1 DEF Types
    <3>7. confirmed' \/ \A c \in Commands : cb'[c] = "run" => c = d
      BY <2>2, <3>5, <3>6
    <3>8. req'[r] = q /\ \A s \in Requests : s # r => req'[s] = req[s]
      BY <1>0, <3>2, ReplaceRequest
    <3>9. ASSUME NEW s \in Requests, req'[s].pc # "idle" PROVE (Fresh(req[s]) /\ Claims(req[s]))'
      <4>1. CASE s = r
        BY <1>0, <2>2, <3>1, <3>2, <3>3, <3>7, <3>8, <4>1 DEF Fresh, Claims
      <4>2. CASE s # r
        <5>1. req'[s] = req[s] /\ req[s].version < effect'.version
          BY <1>0, <3>3, <3>8, <3>9, <4>2, WriteMakesStale
        <5>2. req[s].version \in Nat /\ effect'.version \in Nat /\ req[s].command \in Commands
          BY <1>0, <3>3, <3>9, <5>1 DEF Types, RequestRecord, Delivered
        <5>3. Fresh(req[s])'
          BY <5>1, <5>2 DEF Fresh
        <5>4. Claims(req[s])'
          <6> SUFFICES ASSUME req[s].pc \in {"callback", "settle"}, cmd[req[s].command].action \in External
                       PROVE  /\ <<req[s].command, "claim">> \in audit'
                              /\ req[s].pc = "settle" /\ req[s].next # "reconciling"
                                   => cb'[req[s].command] # "run"
            BY <2>2, <5>1, <5>2 DEF Claims
          <6>1. /\ <<req[s].command, "claim">> \in audit
                /\ req[s].pc = "settle" /\ req[s].next # "reconciling" => cb[req[s].command] # "run"
            BY <1>0 DEF Held, Claims
          <6>2. req[s].command # d
            BY <3>4, <6>1
          <6> QED
            BY <3>1, <3>6, <5>2, <6>1, <6>2
        <5> QED
          BY <5>3, <5>4
      <4> QED
        BY <4>1, <4>2
    <3>10. Held'
      BY <3>9 DEF Held
    <3>11. Guarded'
      BY <3>3 DEF Guarded
    <3>12. CallbackExclusive'
      BY <3>7 DEF CallbackExclusive
    <3> QED
      BY <3>10, <3>11, <3>12 DEF Exclusive
  <2> QED
    BY <2>3, <2>4
<1>6. ASSUME NEW r \in Requests, Decide(r) PROVE Exclusive'
  <2>1. req[r].pc = "decide" /\ UNCHANGED <<effect, audit, cmd, cb, confirmed, starts>>
    BY <1>0, <1>6, DecideStep
  <2>2. PICK chosen \in EffectStatus, result \in Result : DecideTo(r, chosen, result)
    BY <1>0, <1>6, DecideStep
  <2>3. PICK q \in RequestRecord :
           /\ req' = [req EXCEPT ![r] = q]
           /\ q.pc = "settle" /\ q.next = chosen /\ q.result = result /\ q.undo = req[r].undo
           /\ q.command = req[r].command /\ q.version = req[r].version /\ q.status = req[r].status
    BY <1>0, <2>2, DecideTypes
  <2>4. Fresh(q) /\ Claims(q)
    BY <1>0, <2>1, <2>3 DEF Held, Fresh, Claims, Delivered, Routed
  <2> QED
    BY <2>1, <2>3, <2>4, MoveExclusive
<1>7. ASSUME NEW r \in Requests, CallbackReturns(r) PROVE Exclusive'
  <2>1. req[r].pc = "callback" /\ UNCHANGED <<effect, audit, cmd, cb, confirmed, starts>>
    BY <1>0, <1>7, CallbackReturnsStep
  <2>2. PICK chosen \in EffectStatus, result \in Result :
              DecideTo(r, chosen, result) /\ (chosen = "reconciling" \/ cb[req[r].command] # "run")
    BY <1>0, <1>7, CallbackReturnsStep
  <2>3. PICK q \in RequestRecord :
           /\ req' = [req EXCEPT ![r] = q]
           /\ q.pc = "settle" /\ q.next = chosen /\ q.result = result /\ q.undo = req[r].undo
           /\ q.command = req[r].command /\ q.version = req[r].version /\ q.status = req[r].status
    BY <1>0, <2>2, DecideTypes
  <2>4. Fresh(q) /\ Claims(q)
    BY <1>0, <2>1, <2>2, <2>3 DEF Held, Fresh, Claims
  <2> QED
    BY <2>1, <2>3, <2>4, MoveExclusive
<1>8. ASSUME NEW r \in Requests, Settle(r) PROVE Exclusive'
  <2>1. req[r].pc = "settle" /\ Return(r) /\ UNCHANGED <<cmd, cb, starts>>
    BY <1>0, <1>8, SettleStep
  <2>2. CASE UNCHANGED <<effect, audit, confirmed>>
    BY <1>3, <2>1, <2>2
  <2>3. CASE ~UNCHANGED <<effect, audit, confirmed>>
    <3>1. /\ reconciliationApplies(r, "outcome")
          /\ updateToolEffect(req[r].next, reconciledResult(req[r].next, req[r].result))
          /\ audit' = audit \cup {<<req[r].command, "outcome">>}
          /\ action(r) \in {"confirm_committed", "confirm_failed"} => confirmed'
          /\ confirmed => confirmed'
      BY <1>0, <1>8, <2>3, SettleStep
    <3>2. effect'.status = req[r].next /\ effect'.version = effect.version + 1
      BY <3>1 DEF updateToolEffect
    <3>3. req'[r].pc = "idle" /\ \A s \in Requests : s # r => req'[s] = req[s]
      <4>1. IdleReq \in RequestRecord /\ req' = [req EXCEPT ![r] = IdleReq]
        BY <1>0, <2>1, Returns
      <4>2. IdleReq.pc = "idle"
        BY DEF IdleReq
      <4> QED
        BY <1>0, <4>1, <4>2, ReplaceRequest
    <3>4. ASSUME NEW s \in Requests, req'[s].pc # "idle" PROVE (Fresh(req[s]) /\ Claims(req[s]))'
      <4>1. req'[s] = req[s] /\ req[s].version < effect'.version
        BY <1>0, <3>2, <3>3, <3>4, WriteMakesStale
      <4>2. req[s].version \in Nat /\ effect'.version \in Nat
        BY <1>0, <3>2 DEF Types, RequestRecord
      <4>3. Fresh(req[s]) /\ Claims(req[s])
        BY <1>0, <3>4, <4>1 DEF Held
      <4> QED
        BY <2>1, <3>1, <4>1, <4>2, <4>3 DEF Fresh, Claims
    <3>5. Guarded'
      <4> SUFFICES ASSUME ~confirmed', NEW c \in Commands, cb[c] = "run"
                   PROVE  effect'.status \in {"reconciling", "compensated"}
        BY <2>1 DEF Guarded
      <4>1. ~confirmed /\ action(r) \notin {"confirm_committed", "confirm_failed"}
        BY <3>1
      <4>2. effect.status = "reconciling" /\ req[r].version = effect.version
        BY <1>0, <3>1, <4>1 DEF Guarded, reconciliationApplies
      <4>3. CASE action(r) \in External
        BY <1>0, <2>1, <3>2, <4>1, <4>2, <4>3 DEF Held, Claims, action
      <4>4. CASE action(r) \notin External
        BY <1>0, <2>1, <3>2, <4>1, <4>2, <4>4 DEF Held, Fresh, Delivered, Routed, action
      <4> QED
        BY <4>3, <4>4
    <3>6. CallbackExclusive'
      BY <1>0, <2>1, <3>1 DEF CallbackExclusive
    <3>7. Held'
      BY <3>4 DEF Held
    <3> QED
      BY <3>5, <3>6, <3>7 DEF Exclusive
  <2> QED
    BY <2>2, <2>3
<1>9. ASSUME NEW c \in Commands, Compose(c) PROVE Exclusive'
  <2>1. UNCHANGED <<effect, audit, req, cb, confirmed>> /\ cmd[c] = NoCommand
        /\ \A d \in Commands : d # c => cmd'[d] = cmd[d]
    BY <1>0, <1>9 DEF Compose, WorkSame, Types
  <2>2. ASSUME NEW s \in Requests, req[s].pc # "idle" PROVE cmd'[req[s].command] = cmd[req[s].command]
    BY <1>0, <2>1, <2>2 DEF Delivered
  <2> QED
    BY <1>0, <2>1, <2>2 DEF Exclusive, Held, Fresh, Claims, Guarded, CallbackExclusive
<1>10. ASSUME NEW c \in Commands, Callback(c) PROVE Exclusive'
  <2>1. UNCHANGED <<effect, audit, req, cmd, confirmed>>
        /\ \A d \in Commands : cb'[d] = "run" => cb[d] = "run"
    BY <1>0, <1>10 DEF Callback, history, Types
  <2>2. \A s \in Requests : req[s].pc # "idle" => req[s].command \in Commands
    BY <1>0 DEF Delivered
  <2> QED
    BY <1>0, <2>1, <2>2 DEF Exclusive, Held, Fresh, Claims, Guarded, CallbackExclusive
<1>11. CASE Crash
  BY <1>11 DEF Crash, Exclusive, Held, Guarded, CallbackExclusive, IdleReq
<1>12. CASE UNCHANGED vars
  BY <1>0, <1>12 DEF vars, Exclusive, Held, Fresh, Claims, Guarded, CallbackExclusive
<1> QED
  BY <1>1, <1>2, <1>4, <1>5, <1>6, <1>7, <1>8, <1>9, <1>10, <1>11, <1>12, WorkerSteps DEF Reconcile

\* Two retry or compensation callbacks never run at the same time, across deadlines,
\* redeliveries, crashes and restarts, unless an operator's confirmation took the claim
\* of the first away (ReconcileToolEffect, CommitToolEffectReconciliation).
THEOREM CallbackExclusiveCorrect == Spec => []CallbackExclusive
<1>1. Exclusive => CallbackExclusive
  BY DEF Exclusive
<1> QED
  BY <1>1, JInvCorrect, ExclusiveInit, ExclusiveStep, PTL DEF Spec

----------------------------------------------------------------------------
(* The types of the whole system.                                           *)

\* Every variable keeps its type.
LEMMA TypeInit == Init => TypeOK
<1> SUFFICES ASSUME Init PROVE TypeOK
  OBVIOUS
<1>1. Types
  BY JInvInit DEF JInv
<1>2. /\ audit \subseteq Commands \X {"claim", "outcome"} /\ hand = "off" /\ call \in [Calls -> CallPC]
      /\ run = "running" /\ boot \in Nat /\ {applied, up, confirmed, overlap} \subseteq BOOLEAN
  BY DEF Init, CallPC
<1> QED
  BY <1>1, <1>2 DEF TypeOK, Types

\* The executor and the handler.
LEMMA WorkerTypes ==
  ASSUME TypeOK, Types', Handler \/ \E c \in Calls : BeginSideEffect(c) \/ Executor(c)
  PROVE  TypeOK'
<1> USE DEF TypeOK, Types, OperatorSame, ProcessSame, history, SetCall, CallPC
<1>1. CASE Handler
  BY <1>1 DEF Handler, HandlerIntent, HandlerGivesUp, HandlerRejects, HandlerPublishes
<1>2. ASSUME NEW c \in Calls, BeginSideEffect(c) PROVE TypeOK'
  BY <1>2 DEF BeginSideEffect
<1>3. ASSUME NEW c \in Calls, Executor(c) PROVE TypeOK'
  BY <1>3 DEF Executor, ExecutorWait, ExecutorCommit, ExecutorMark, ExecutorCheck
<1> QED
  BY <1>1, <1>2, <1>3

\* The operator's requests, and the callbacks.
LEMMA OperatorTypes ==
  ASSUME TypeOK, Types', Delivered, NEW r \in Requests,
         Reconcile(r) \/ \E c \in Commands : Deliver(r, c)
  PROVE  TypeOK'
<1> USE DEF TypeOK, Types, WorkSame, ProcessSame
<1>1. ASSUME NEW c \in Commands, Deliver(r, c) PROVE TypeOK'
  BY <1>1 DEF Deliver
<1>2. CASE Gate(r)
  BY <1>2 DEF Gate
<1>3. CASE Claim(r)
  <2>1. audit' \subseteq Commands \X {"claim", "outcome"}
    <3>1. req[r].command \in Commands
      BY <1>3 DEF Claim, ReqAt, Delivered
    <3>2. audit' = audit \/ audit' = audit \cup {<<req[r].command, "claim">>}
      BY <1>3 DEF Claim, CommitToolEffectReconciliation
    <3> QED
      BY <3>1, <3>2
  <2>2. overlap' \in BOOLEAN
    BY <1>3 DEF Claim, outstanding
  <2>3. UNCHANGED <<applied, hand, call, confirmed, run, boot, up>>
    BY <1>3 DEF Claim
  <2> QED
    BY <2>1, <2>2, <2>3
<1>4. CASE Decide(r)
  <2>1. overlap' \in BOOLEAN
    BY <1>4 DEF Decide, outstanding
  <2>2. UNCHANGED <<audit, applied, hand, call, confirmed, run, boot, up>>
    BY <1>4 DEF Decide
  <2> QED
    BY <2>1, <2>2
<1>5. CASE CallbackReturns(r)
  BY <1>5 DEF CallbackReturns
<1>6. CASE Settle(r)
  <2>1. audit' \subseteq Commands \X {"claim", "outcome"}
    <3>1. req[r].command \in Commands
      BY <1>6 DEF Settle, ReqAt, Delivered
    <3>2. audit' = audit \/ audit' = audit \cup {<<req[r].command, "outcome">>}
      BY <1>6 DEF Settle, CommitToolEffectReconciliation
    <3> QED
      BY <3>1, <3>2
  <2>2. confirmed' \in BOOLEAN
    BY <1>6 DEF Settle
  <2>3. UNCHANGED <<applied, hand, call, overlap, run, boot, up>>
    BY <1>6 DEF Settle
  <2> QED
    BY <2>1, <2>2, <2>3
<1> QED
  BY <1>1, <1>2, <1>3, <1>4, <1>5, <1>6 DEF Reconcile

\* Every step keeps the types.
LEMMA TypeStep == JInv /\ TypeOK /\ [Next]_vars => TypeOK'
<1> SUFFICES ASSUME JInv, TypeOK, [Next]_vars PROVE TypeOK'
  OBVIOUS
<1>0. Types' /\ Delivered
  BY JInvStep DEF JInv
<1>1. CASE Handler \/ \E c \in Calls : BeginSideEffect(c) \/ Executor(c)
  BY <1>0, <1>1, WorkerTypes
<1>2. ASSUME NEW r \in Requests, Reconcile(r) \/ \E c \in Commands : Deliver(r, c) PROVE TypeOK'
  BY <1>0, <1>2, OperatorTypes
<1> USE DEF TypeOK, Types
<1>3. ASSUME NEW c \in Commands, Compose(c) PROVE TypeOK'
  BY <1>0, <1>3 DEF Compose, WorkSame, ProcessSame
<1>4. ASSUME NEW c \in Commands, Callback(c) PROVE TypeOK'
  <2>1. applied' \in BOOLEAN
    BY <1>4 DEF Callback
  <2>2. UNCHANGED <<audit, hand, call, run, boot, up, starts, confirmed, overlap>>
    BY <1>4 DEF Callback, history
  <2> QED
    BY <1>0, <2>1, <2>2
<1>5. CASE RunRests \/ Resume \/ Restart \/ RepairInterruptedRun
  <2>1. /\ UNCHANGED <<audit, applied, hand, call, starts, confirmed, overlap>>
        /\ boot' = boot \/ boot' = boot + 1
        /\ up' = up \/ up' = TRUE
        /\ run' = run \/ run' \in {"rest", "running"}
    BY <1>5 DEF RunRests, Resume, Restart, RepairInterruptedRun, OperatorSame, history
  <2>2. boot' \in Nat /\ run' \in {"running", "orphaned", "rest"}
    BY <2>1
  <2>3. up' \in BOOLEAN
    BY <2>1
  <2>4. UNCHANGED <<audit, applied, hand, call, starts, confirmed, overlap>>
    BY <2>1
  <2>5. {applied', up', confirmed', overlap'} \subseteq BOOLEAN
    BY <2>3, <2>4
  <2>6. Types'
    BY <1>0
  <2> QED
    BY <2>2, <2>4, <2>5, <2>6
<1>6. CASE Crash
  <2>1. applied' \in BOOLEAN /\ up' \in BOOLEAN
    BY <1>6 DEF Crash
  <2>2. call' \in [Calls -> CallPC]
    BY <1>6 DEF Crash, CallPC
  <2>3. hand' = "off" /\ run' \in {"running", "orphaned", "rest"}
        /\ UNCHANGED <<audit, boot, starts, confirmed, overlap>>
    BY <1>6 DEF Crash, history
  <2> QED
    BY <1>0, <2>1, <2>2, <2>3
<1>7. CASE UNCHANGED vars
  BY <1>0, <1>7 DEF vars
<1> QED
  BY <1>1, <1>2, <1>3, <1>4, <1>5, <1>6, <1>7 DEF Next

\* One idempotency key, one execution: whatever calls carry the key, however often they
\* are repeated, delivered again, crashed and resumed, its handler starts at most once
\* (BeginToolEffect) and its reconciliation callbacks exclude each other.
THEOREM EffectsOnceCorrect == Spec => []EffectsOnce
<1>1. JInv /\ Exclusive /\ TypeOK => EffectsOnce
  BY DEF JInv, Recorded, Exclusive, EffectsOnce, HandlerAtMostOnce
<1> QED
  BY <1>1, JInvCorrect, ExclusiveInit, ExclusiveStep, TypeInit, TypeStep, PTL DEF Spec

----------------------------------------------------------------------------
(* The journal and the world.                                               *)

mayPublish == hand \in {"run", "intent"}

\* What the worker's side knows of the world until an operator's word is taken.
Worked ==
  /\ effect.status = "none" => ~applied /\ hand = "off" /\ \A c \in Calls : call[c] # "commit"
  /\ effect.status = "executing" =>
       /\ mayPublish \/ hand = "reject" => ~applied
       /\ hand = "ok" \/ (\E c \in Calls : call[c] = "commit") => applied
  /\ effect.status = "failed" => ~applied /\ ~mayPublish
  /\ (\E c \in Calls : call[c] = "not_applied") => effect.status = "failed"

\* What a settled or claimed record says of it, if no write was outstanding when a
\* claim or a query was made.
Settled ==
  /\ effect.status = "committed" => applied
  /\ effect.status = "compensated" => ~applied /\ ~outstanding
  /\ effect.status = "reconciling" => ~mayPublish

\* What a request at the record's version will write is true when it writes it.
Meant(q) ==
  /\ q.pc = "callback" =>
       /\ cb[q.command] = "ok" => (applied <=> cmd[q.command].action = "retry_with_same_key")
       /\ q.undo /\ cb[q.command] \in {"run", "rejected"} => applied
  /\ q.pc = "settle" =>
       /\ q.next = "committed" /\ cmd[q.command].action \in External => applied
       /\ q.next = "compensated" => ~applied /\ ~outstanding

AllMeant == \A r \in Requests : req[r].pc # "idle" /\ req[r].version = effect.version => Meant(req[r])

\* An undo claims a committed effect; a callback's request claimed the record and
\* never settles it as failed.
Backed(q) ==
  /\ q.pc = "claim" /\ q.undo => q.status = "committed"
  /\ q.pc \in {"callback", "settle"} /\ cmd[q.command].action \in External =>
       q.status = "reconciling" /\ (q.pc = "settle" => q.next # "failed")
Backing == \A r \in Requests : req[r].pc # "idle" => Backed(req[r])

Truth ==
  /\ ~confirmed => Worked
  /\ ~confirmed /\ ~overlap => Settled /\ AllMeant

TInv == JInv /\ Exclusive /\ TypeOK /\ Backing

\* Nothing has happened yet.
LEMMA TruthInit == Init => Backing /\ Truth
<1> SUFFICES ASSUME Init PROVE Backing /\ Truth
  OBVIOUS
<1>1. \A r \in Requests : req[r].pc = "idle"
  BY DEF Init, IdleReq
<1>2. Worked /\ Settled
  BY DEF Init, Worked, Settled, mayPublish
<1> QED
  BY <1>1, <1>2 DEF Backing, Truth, AllMeant

\* Backing follows the requests alone.
LEMMA BackingStep == JInv /\ Backing /\ [Next]_vars => Backing'
<1> SUFFICES ASSUME JInv, Backing, [Next]_vars PROVE Backing'
  OBVIOUS
<1>0. Types /\ Delivered
  BY DEF JInv
<1>1. ASSUME NEW r \in Requests, NEW q \in RequestRecord, req' = [req EXCEPT ![r] = q], UNCHANGED cmd,
             q.pc # "idle" => Backed(q)
      PROVE  Backing'
  <2>1. req'[r] = q /\ \A s \in Requests : s # r => req'[s] = req[s]
    BY <1>0, <1>1, ReplaceRequest
  <2> SUFFICES ASSUME NEW s \in Requests, req'[s].pc # "idle" PROVE Backed(req[s])'
    BY DEF Backing
  <2>2. CASE s = r
    BY <1>1, <2>1, <2>2 DEF Backed
  <2>3. CASE s # r
    BY <1>1, <2>1, <2>3 DEF Backing, Backed
  <2> QED
    BY <2>2, <2>3
<1>2. ASSUME UNCHANGED <<req, cmd>> PROVE Backing'
  BY <1>2 DEF Backing, Backed
<1>3. ASSUME NEW r \in Requests, Return(r), UNCHANGED cmd PROVE Backing'
  <2>1. IdleReq.pc = "idle"
    BY DEF IdleReq
  <2> QED
    BY <1>0, <1>1, <1>3, <2>1, Returns
<1>4. ASSUME NEW r \in Requests, NEW c \in Commands, Deliver(r, c) PROVE Backing'
  <2>1. PICK q \in RequestRecord :
           /\ req' = [req EXCEPT ![r] = q] /\ q.pc = "gate" /\ UNCHANGED cmd
    BY <1>0, <1>4, DeliverStep
  <2> QED
    BY <1>1, <2>1 DEF Backed
<1>5. ASSUME NEW r \in Requests, Gate(r) PROVE Backing'
  <2>1. UNCHANGED cmd
    BY <1>0, <1>5, GateStep
  <2>2. CASE Return(r)
    BY <1>3, <2>1, <2>2
  <2>3. CASE ~Return(r)
    <3>1. PICK q \in RequestRecord :
             /\ req' = [req EXCEPT ![r] = q] /\ q.pc \in {"claim", "decide"}
             /\ q.undo => q.status = "committed"
      BY <1>0, <1>5, <2>3, GateStep
    <3> QED
      BY <1>1, <2>1, <3>1 DEF Backed
  <2> QED
    BY <2>2, <2>3
<1>6. ASSUME NEW r \in Requests, Claim(r) PROVE Backing'
  <2>1. req[r].pc = "claim" /\ req[r].command \in Commands
    BY <1>0, <1>6 DEF Claim, ReqAt, Delivered
  <2>2. UNCHANGED cmd
    BY <1>0, <1>6, <2>1, ClaimStep
  <2>3. CASE Return(r)
    BY <1>3, <2>2, <2>3
  <2>4. CASE ~Return(r)
    <3>1. PICK q \in RequestRecord :
             req' = [req EXCEPT ![r] = q] /\ q.pc = "callback" /\ q.status = "reconciling"
      BY <1>0, <1>6, <2>1, <2>4, ClaimStep
    <3> QED
      BY <1>1, <2>2, <3>1 DEF Backed
  <2> QED
    BY <2>3, <2>4
<1>7. ASSUME NEW r \in Requests, Decide(r) PROVE Backing'
  <2>1. req[r].pc = "decide" /\ UNCHANGED cmd
    BY <1>0, <1>7, DecideStep
  <2>2. PICK chosen \in EffectStatus, result \in Result : DecideTo(r, chosen, result)
    BY <1>0, <1>7, DecideStep
  <2>3. PICK q \in RequestRecord :
           req' = [req EXCEPT ![r] = q] /\ q.pc = "settle" /\ q.command = req[r].command
    BY <1>0, <2>2, DecideTypes
  <2>4. cmd[q.command].action \notin External
    BY <1>0, <2>1, <2>3 DEF Delivered, Routed
  <2> QED
    BY <1>1, <2>1, <2>3, <2>4 DEF Backed
<1>8. ASSUME NEW r \in Requests, CallbackReturns(r) PROVE Backing'
  <2>1. req[r].pc = "callback" /\ UNCHANGED cmd
    BY <1>0, <1>8, CallbackReturnsStep
  <2>2. PICK chosen \in EffectStatus, result \in Result : DecideTo(r, chosen, result) /\ chosen # "failed"
    BY <1>0, <1>8, CallbackReturnsStep
  <2>3. PICK q \in RequestRecord :
           /\ req' = [req EXCEPT ![r] = q] /\ q.pc = "settle" /\ q.next = chosen
           /\ q.command = req[r].command /\ q.status = req[r].status
    BY <1>0, <2>2, DecideTypes
  <2>4. req[r].status = "reconciling"
    BY <1>0, <2>1 DEF Backing, Backed, Delivered, Routed
  <2> QED
    BY <1>1, <2>1, <2>2, <2>3, <2>4 DEF Backed
<1>9. ASSUME NEW r \in Requests, Settle(r) PROVE Backing'
  BY <1>0, <1>3, <1>9, SettleStep
<1>10. ASSUME NEW c \in Commands, Compose(c) PROVE Backing'
  <2>1. UNCHANGED req /\ cmd[c] = NoCommand /\ \A d \in Commands : d # c => cmd'[d] = cmd[d]
    BY <1>0, <1>10 DEF Compose, Types
  <2>2. ASSUME NEW s \in Requests, req[s].pc # "idle" PROVE cmd'[req[s].command] = cmd[req[s].command]
    BY <1>0, <2>1, <2>2 DEF Delivered
  <2> QED
    BY <2>1, <2>2 DEF Backing, Backed
<1>11. ASSUME NEW c \in Commands, Callback(c) PROVE Backing'
  BY <1>2, <1>11 DEF Callback
<1>12. CASE Crash
  BY <1>12 DEF Crash, Backing, IdleReq
<1>13. CASE JournalWrite /\ OperatorIdle
  BY <1>2, <1>13 DEF OperatorIdle
<1>14. CASE UNCHANGED vars
  BY <1>2, <1>14 DEF vars
<1> QED
  BY <1>4, <1>5, <1>6, <1>7, <1>8, <1>9, <1>10, <1>11, <1>12, <1>13, <1>14, WorkerSteps DEF Reconcile

\* A request that moves while record and world stand still.
LEMMA MoveTruth ==
  ASSUME Types, Truth, NEW r \in Requests, NEW q \in RequestRecord, req' = [req EXCEPT ![r] = q],
         UNCHANGED <<effect, applied, hand, call, cmd, cb, confirmed>>, overlap => overlap',
         ~confirmed /\ ~overlap' /\ q.pc # "idle" /\ q.version = effect.version => Meant(q)
  PROVE  Truth'
<1>1. req'[r] = q /\ \A s \in Requests : s # r => req'[s] = req[s]
  BY ReplaceRequest
<1>2. ~confirmed' => Worked'
  BY DEF Truth, Worked, mayPublish
<1>3. ASSUME ~confirmed', ~overlap' PROVE Settled' /\ AllMeant'
  <2>1. Settled /\ AllMeant
    BY <1>3 DEF Truth
  <2>2. Settled'
    BY <2>1 DEF Settled, mayPublish, outstanding
  <2>3. ASSUME NEW s \in Requests, req'[s].pc # "idle", req'[s].version = effect'.version
        PROVE  Meant(req[s])'
    <3>1. CASE s = r
      BY <1>1, <1>3, <2>3, <3>1 DEF Meant, outstanding
    <3>2. CASE s # r
      BY <1>1, <2>1, <2>3, <3>2 DEF AllMeant, Meant, outstanding
    <3> QED
      BY <3>1, <3>2
  <2> QED
    BY <2>2, <2>3 DEF AllMeant
<1> QED
  BY <1>2, <1>3 DEF Truth

\* The worker's side cannot disturb what a request means to write: a write of the
\* record makes the request stale, a publication finds no claim made without it.
LEMMA WorkKeepsMeaning ==
  ASSUME TInv, Settled, AllMeant, UNCHANGED <<cmd, req, cb>>,
         UNCHANGED effect \/ effect'.version = effect.version + 1,
         effect' = effect => /\ UNCHANGED applied \/ mayPublish
                             /\ mayPublish' => mayPublish
  PROVE  AllMeant'
<1>0. Types /\ Delivered /\ Held
  BY DEF TInv, JInv, Exclusive
<1> SUFFICES ASSUME NEW s \in Requests, req[s].pc # "idle", req[s].version = effect'.version
             PROVE  Meant(req[s])'
  BY DEF AllMeant
<1>1. UNCHANGED effect
  <2>1. req[s].version \in Nat /\ effect.version \in Nat
    BY <1>0 DEF Types, RequestRecord, EffectRecord
  <2> QED
    BY <1>0, <2>1, WriteMakesStale DEF TInv
<1>2. Meant(req[s]) /\ req[s].status = effect.status
  BY <1>0, <1>1 DEF AllMeant, Held, Fresh
<1>3. CASE ~mayPublish
  BY <1>1, <1>2, <1>3 DEF Meant, outstanding, mayPublish
<1>4. CASE mayPublish
  <2>1. effect.status # "reconciling" /\ outstanding
    BY <1>4 DEF Settled, outstanding, mayPublish
  <2>2. req[s].pc # "callback" /\ (req[s].pc = "settle" => cmd[req[s].command].action \notin External)
    BY <1>0, <1>2, <2>1 DEF TInv, Backing, Backed, Delivered, Routed
  <2>3. req[s].pc = "settle" => req[s].next # "compensated"
    BY <1>2, <2>1 DEF Meant
  <2> QED
    BY <2>2, <2>3 DEF Meant
<1> QED
  BY <1>3, <1>4

\* What a write does to the record.
LEMMA Updated ==
  ASSUME effect.version \in Nat, NEW chosen, NEW result, updateToolEffect(chosen, result)
  PROVE  /\ effect'.status = chosen /\ effect'.result = result
         /\ effect'.version = effect.version + 1 /\ effect' # effect
  BY DEF updateToolEffect

\* A step of the worker's side: what it may do to record, world and handler.
Works ==
  /\ UNCHANGED <<cmd, req, cb, confirmed, overlap>>
  /\ UNCHANGED effect \/ effect'.version = effect.version + 1
  /\ effect' = effect => (UNCHANGED applied \/ mayPublish) /\ (mayPublish' => mayPublish)

\* Whatever the worker's side does is such a step.
LEMMA WorkFrame ==
  ASSUME JInv, Handler \/ RepairInterruptedRun \/ \E c \in Calls : BeginSideEffect(c) \/ Executor(c)
  PROVE  Works
<1>1. effect.version \in Nat
  BY DEF JInv, Types, EffectRecord
<1>2. UNCHANGED <<cmd, req, cb, confirmed, overlap>>
  BY DEF Handler, HandlerIntent, HandlerGivesUp, HandlerRejects, HandlerPublishes, BeginSideEffect, Executor,
         ExecutorWait, ExecutorCommit, ExecutorMark, ExecutorCheck, RepairInterruptedRun, OperatorSame, history
<1>3. UNCHANGED effect \/ effect'.version = effect.version + 1
  <2>1. JournalWrite
    <3> USE DEF JournalWrite, history, JournalFails
    <3>1. ASSUME NEW c \in Calls, BeginSideEffect(c) PROVE JournalWrite
      BY <3>1 DEF BeginSideEffect, canExecute
    <3>2. ASSUME NEW c \in Calls, Executor(c) PROVE JournalWrite
      BY <3>2 DEF Executor, ExecutorWait, ExecutorCommit, ExecutorMark, ExecutorCheck, CompleteToolEffect,
                  MarkToolEffectNeedsReconciliation
    <3>3. CASE Handler
      BY <3>3 DEF Handler, HandlerIntent, HandlerGivesUp, HandlerRejects, HandlerPublishes, FailToolEffect,
                  canSaveIntent
    <3>4. CASE RepairInterruptedRun
      BY <3>4 DEF RepairInterruptedRun, repairedEffect
    <3> QED
      BY <3>1, <3>2, <3>3, <3>4
  <2> QED
    BY <1>1, <2>1, Updated DEF JournalWrite
<1>4. (UNCHANGED applied \/ mayPublish) /\ ((mayPublish' => mayPublish) \/ updateToolEffect("executing", "none"))
  <2> USE DEF mayPublish, history, JournalFails
  <2>1. ASSUME NEW c \in Calls, BeginSideEffect(c)
        PROVE  UNCHANGED applied /\ (UNCHANGED hand \/ updateToolEffect("executing", "none"))
    BY <2>1 DEF BeginSideEffect
  <2>2. ASSUME NEW c \in Calls, Executor(c) PROVE UNCHANGED <<applied, hand>>
    BY <2>2 DEF Executor, ExecutorWait, ExecutorCommit, ExecutorMark, ExecutorCheck
  <2>3. CASE HandlerIntent
    BY <2>3 DEF HandlerIntent
  <2>4. CASE HandlerGivesUp
    BY <2>4 DEF HandlerGivesUp
  <2>5. CASE HandlerRejects
    BY <2>5 DEF HandlerRejects
  <2>6. CASE HandlerPublishes
    BY <2>6 DEF HandlerPublishes
  <2>7. CASE RepairInterruptedRun
    BY <2>7 DEF RepairInterruptedRun
  <2> QED
    BY <2>1, <2>2, <2>3, <2>4, <2>5, <2>6, <2>7 DEF Handler
<1> QED
  BY <1>1, <1>2, <1>3, <1>4, Updated DEF Works

\* Executor and handler write the record only as they know the world.
LEMMA WorkerTruth ==
  ASSUME TypeOK, Worked, ~overlap => Settled,
         Handler \/ RepairInterruptedRun \/ \E c \in Calls : BeginSideEffect(c) \/ Executor(c)
  PROVE  Worked' /\ (~overlap => Settled')
<1>0. call \in [Calls -> CallPC] /\ effect.version \in Nat
  BY DEF TypeOK, EffectRecord
<1> USE DEF Worked, Settled, mayPublish, outstanding
<1>1. ASSUME NEW c \in Calls, BeginSideEffect(c) PROVE Worked' /\ (~overlap => Settled')
  <2>1. UNCHANGED <<applied, cb>>
    BY <1>1 DEF BeginSideEffect, OperatorSame
  <2>2. CASE canExecute /\ updateToolEffect("executing", "none") /\ SetCall(c, "wait") /\ hand' = "run"
    <3>1. effect'.status = "executing" /\ ~applied /\ effect.status = "none"
      BY <1>0, <2>2, Updated DEF canExecute
    <3>2. \A d \in Calls : call'[d] = IF d = c THEN "wait" ELSE call[d]
      BY <1>0, <2>2 DEF SetCall
    <3> QED
      BY <2>1, <2>2, <3>1, <3>2
  <2>3. CASE ~(canExecute /\ updateToolEffect("executing", "none") /\ SetCall(c, "wait") /\ hand' = "run")
    <3>1. PICK x \in {"replayed", "refused", "error"} : UNCHANGED <<effect, hand>> /\ SetCall(c, x)
      BY <1>1, <2>3 DEF BeginSideEffect, JournalFails
    <3>2. \A d \in Calls : call'[d] = IF d = c THEN x ELSE call[d]
      BY <1>0, <3>1 DEF SetCall
    <3> QED
      BY <2>1, <3>1, <3>2
  <2> QED
    BY <2>2, <2>3
<1>2. CASE HandlerIntent
  <2>1. UNCHANGED <<applied, call, cb>> /\ hand = "run" /\ hand' \in {"intent", "err", "reject"}
        /\ \/ effect.status = "executing" /\ updateToolEffect("executing", "intent")
           \/ UNCHANGED effect /\ hand' # "intent"
    BY <1>2 DEF HandlerIntent, canSaveIntent, OperatorSame
  <2>2. effect'.status = effect.status
    BY <1>0, <2>1, Updated
  <2> QED
    BY <2>1, <2>2
<1>3. CASE HandlerGivesUp
  BY <1>3 DEF HandlerGivesUp, OperatorSame
<1>4. CASE HandlerRejects
  <2>1. UNCHANGED <<applied, call, cb>> /\ hand = "reject" /\ hand' = "err"
        /\ (UNCHANGED effect \/ (effect.status = "executing" /\ updateToolEffect("failed", effect.result)))
    BY <1>4 DEF HandlerRejects, FailToolEffect, JournalFails, OperatorSame
  <2>2. UNCHANGED effect \/ (effect.status = "executing" /\ effect'.status = "failed")
    BY <1>0, <2>1, Updated
  <2> QED
    BY <2>1, <2>2
<1>5. CASE HandlerPublishes
  BY <1>5 DEF HandlerPublishes, OperatorSame
<1>6. ASSUME NEW c \in Calls, Executor(c) PROVE Worked' /\ (~overlap => Settled')
  <2>1. UNCHANGED <<applied, hand, cb>>
    BY <1>6 DEF Executor, ExecutorWait, ExecutorCommit, ExecutorMark, ExecutorCheck, OperatorSame
  <2>2. PICK x \in CallPC : SetCall(c, x) /\ (x = "commit" => call[c] = "wait" /\ hand = "ok" /\ UNCHANGED effect)
                          /\ (x = "not_applied" => effect.status = "failed" /\ UNCHANGED effect)
    <3> USE DEF CallPC
    <3>1. CASE ExecutorWait(c)
      BY <3>1 DEF ExecutorWait, Worker
    <3>2. CASE ExecutorCommit(c)
      <4>1. SetCall(c, "done") \/ SetCall(c, "mark")
        BY <3>2 DEF ExecutorCommit
      <4> QED
        BY <4>1
    <3>3. CASE ExecutorMark(c)
      <4>1. SetCall(c, "error") \/ SetCall(c, "check")
        BY <3>3 DEF ExecutorMark
      <4> QED
        BY <4>1
    <3>4. CASE ExecutorCheck(c)
      <4>1. \/ SetCall(c, "not_applied") /\ effect.status = "failed" /\ UNCHANGED effect
            \/ SetCall(c, "error")
        BY <3>4 DEF ExecutorCheck, effectWasRejected
      <4> QED
        BY <4>1
    <3> QED
      BY <1>6, <3>1, <3>2, <3>3, <3>4 DEF Executor
  <2>3. \A d \in Calls : call'[d] = IF d = c THEN x ELSE call[d]
    BY <1>0, <2>2 DEF SetCall
  <2>4. \/ UNCHANGED effect
        \/ call[c] = "commit" /\ effect.status = "executing" /\ updateToolEffect("committed", "executed")
        \/ /\ effect.status \in {"executing", "needs_reconciliation"}
           /\ updateToolEffect("needs_reconciliation", effect.result)
    BY <1>6 DEF Executor, ExecutorWait, ExecutorCommit, ExecutorMark, ExecutorCheck, CompleteToolEffect,
                MarkToolEffectNeedsReconciliation, JournalFails, Worker
  <2>5. CASE UNCHANGED effect
    BY <2>1, <2>2, <2>3, <2>5
  <2>6. CASE call[c] = "commit" /\ effect.status = "executing" /\ updateToolEffect("committed", "executed")
    <3>1. effect'.status = "committed" /\ applied /\ effect' # effect
      BY <1>0, <2>6, Updated
    <3> QED
      BY <2>1, <2>2, <2>3, <2>6, <3>1
  <2>7. CASE /\ effect.status \in {"executing", "needs_reconciliation"}
             /\ updateToolEffect("needs_reconciliation", effect.result)
    <3>1. effect'.status = "needs_reconciliation" /\ effect' # effect
      BY <1>0, <2>7, Updated
    <3> QED
      BY <2>1, <2>2, <2>3, <2>7, <3>1
  <2> QED
    BY <2>4, <2>5, <2>6, <2>7
<1>7. CASE RepairInterruptedRun
  <2>1. UNCHANGED <<applied, call, cb, hand>>
        /\ (UNCHANGED effect \/ (effect.status = "executing" /\ updateToolEffect("needs_reconciliation", effect.result)))
    BY <1>7 DEF RepairInterruptedRun, repairedEffect, OperatorSame
  <2>2. UNCHANGED effect \/ (effect.status = "executing" /\ effect'.status = "needs_reconciliation")
    BY <1>0, <2>1, Updated
  <2> QED
    BY <2>1, <2>2
<1> QED
  BY <1>1, <1>2, <1>3, <1>4, <1>5, <1>6, <1>7 DEF Handler

\* A claim: no write was outstanding, and an undo claims an effect in force.
LEMMA ClaimTruth ==
  ASSUME TInv, Truth, NEW r \in Requests, Claim(r)
  PROVE  Truth'
<1>0. /\ Types /\ Delivered /\ Held /\ Guarded /\ Backing /\ overlap \in BOOLEAN
      /\ effect.version \in Nat
  BY DEF TInv, JInv, Exclusive, TypeOK, Types, EffectRecord
<1>1. req[r].pc = "claim" /\ req[r].command \in Commands
  BY <1>0 DEF Claim, ReqAt, Delivered
<1>2. UNCHANGED <<applied, hand, call, cmd, confirmed>>
  BY DEF Claim, WorkSame
<1>3. CASE Return(r) /\ UNCHANGED <<effect, audit, cb>>
  <2>1. overlap => overlap'
    BY DEF Claim
  <2>2. IdleReq.pc = "idle"
    BY DEF IdleReq
  <2> QED
    BY <1>0, <1>2, <1>3, <2>1, <2>2, Returns, MoveTruth
<1>4. CASE ~(Return(r) /\ UNCHANGED <<effect, audit, cb>>)
  <2> DEFINE d == req[r].command
  <2>1. /\ reconciliationApplies(r, "claim") /\ updateToolEffect("reconciling", effect.result)
        /\ cb' = [cb EXCEPT ![d] = "run"]
    BY <1>0, <1>1, <1>4, ClaimStep
  <2>2. PICK q \in RequestRecord :
                    /\ req' = [req EXCEPT ![r] = q]
                    /\ q.pc = "callback" /\ q.command = req[r].command
                    /\ q.version = effect.version + 1 /\ q.status = "reconciling"
                    /\ q.result = req[r].result /\ q.undo = req[r].undo
    BY <1>0, <1>1, <1>4, ClaimStep
  <2>3. overlap' = (overlap \/ outstanding)
    <3>1. ~(Return(r) /\ UNCHANGED <<effect, audit, cb, overlap>>)
      BY <1>4
    <3> QED
      BY <3>1 DEF Claim
  <2>4. effect'.status = "reconciling" /\ effect'.version = effect.version + 1
    BY <2>1 DEF updateToolEffect
  <2>5. effect.status \in {"needs_reconciliation", "committed"} /\ req[r].status = effect.status
    BY <1>0, <1>1, <2>1 DEF reconciliationApplies, Held, Fresh
  <2>6. ~confirmed' => Worked'
    BY <1>2, <2>4, <2>5 DEF Truth, Worked
  <2>7. ASSUME ~confirmed', ~overlap' PROVE Settled' /\ AllMeant'
    <3>1. Settled /\ ~outstanding
      BY <1>0, <1>2, <2>3, <2>7 DEF Truth
    <3>2. Settled'
      BY <1>2, <2>4, <3>1 DEF Settled, outstanding, mayPublish
    <3>3. req'[r] = q /\ \A s \in Requests : s # r => req'[s] = req[s]
      BY <1>0, <2>2, ReplaceRequest
    <3>4. cb'[d] = "run"
      BY <1>0, <1>1, <2>1 DEF Types
    <3>5. Meant(req[r])'
      <4>1. q.undo => applied
        BY <1>0, <1>1, <2>2, <2>5, <3>1 DEF Backing, Backed, Settled
      <4> QED
        BY <1>2, <2>2, <3>3, <3>4, <4>1 DEF Meant
    <3>6. ASSUME NEW s \in Requests, s # r, req'[s].pc # "idle" PROVE req'[s].version # effect'.version
      <4>1. req[s].version < effect'.version /\ req[s].version \in Nat
        BY <1>0, <2>4, <3>3, <3>6, WriteMakesStale DEF TInv, Types, RequestRecord
      <4> QED
        BY <1>0, <2>4, <3>3, <3>6, <4>1
    <3> QED
      BY <3>2, <3>5, <3>6 DEF AllMeant
  <2> QED
    BY <2>6, <2>7 DEF Truth
<1> QED
  BY <1>3, <1>4

\* A callback acts alone, under the claim of its own request.
LEMMA CallbackTruth ==
  ASSUME TInv, Truth, NEW c \in Commands, Callback(c)
  PROVE  Truth'
<1>0. Types /\ Delivered /\ Held /\ Guarded /\ Backing
  BY DEF TInv, JInv, Exclusive
<1>1. /\ cb[c] = "run" /\ UNCHANGED <<effect, hand, call, cmd, req, confirmed, overlap>>
      /\ \A d \in Commands : d # c => cb'[d] = cb[d]
      /\ cb'[c] # "run"
  BY <1>0 DEF Callback, history, Types
<1>2. ~confirmed => effect.status \in {"reconciling", "compensated"}
  BY <1>0, <1>1 DEF Guarded
<1>3. ~confirmed' => Worked'
  BY <1>1, <1>2 DEF Truth, Worked
<1>4. ASSUME ~confirmed', ~overlap' PROVE Settled' /\ AllMeant'
  <2>1. Settled /\ AllMeant /\ outstanding
    BY <1>1, <1>4 DEF Truth, outstanding
  <2>2. effect.status = "reconciling"
    BY <1>1, <1>2, <1>4, <2>1 DEF Settled
  <2>3. Settled'
    BY <1>1, <2>1, <2>2 DEF Settled, mayPublish
  <2>4. ASSUME NEW s \in Requests, req[s].pc # "idle", req[s].version = effect.version
        PROVE  Meant(req[s])'
    <3>1. Meant(req[s]) /\ Claims(req[s])
      BY <1>0, <2>1, <2>4 DEF AllMeant, Held
    <3>2. CASE req[s].pc = "callback"
      <4>1. c = req[s].command
        BY <1>0, <1>1, <1>4, <2>4, <3>1, <3>2 DEF Claims, Delivered, Routed
      <4>2. /\ cb'[c] = "ok" => applied' = (cmd[c].action = "retry_with_same_key")
            /\ cb'[c] = "rejected" => UNCHANGED applied
        BY <1>0 DEF Callback, Types
      <4>3. cb'[c] = "ok" => (applied' <=> cmd'[c].action = "retry_with_same_key")
        BY <1>1, <4>2
      <4>4. req[s].undo /\ cb'[c] = "rejected" => applied'
        BY <1>1, <3>1, <3>2, <4>1, <4>2 DEF Meant
      <4> QED
        BY <1>1, <3>2, <4>1, <4>3, <4>4 DEF Meant
    <3>3. CASE req[s].pc = "settle"
      <4>1. CASE cmd[req[s].command].action \in External
        <5>1. req[s].next \notin {"committed", "compensated"}
          BY <1>0, <1>1, <1>4, <2>4, <3>1, <3>3, <4>1 DEF Claims
        <5> QED
          BY <1>1, <3>3, <5>1 DEF Meant
      <4>2. CASE cmd[req[s].command].action \notin External
        <5>1. req[s].next # "compensated"
          BY <2>1, <3>1, <3>3 DEF Meant
        <5> QED
          BY <1>1, <3>3, <4>2, <5>1 DEF Meant
      <4> QED
        BY <4>1, <4>2
    <3> QED
      BY <1>1, <3>2, <3>3 DEF Meant
  <2> QED
    BY <1>1, <2>3, <2>4 DEF AllMeant
<1> QED
  BY <1>3, <1>4 DEF Truth

\* A settlement writes what its request meant, or an operator's word.
LEMMA SettleTruth ==
  ASSUME TInv, Truth, NEW r \in Requests, Settle(r)
  PROVE  Truth'
<1>0. Types /\ Delivered /\ Held /\ Guarded /\ Backing /\ effect.version \in Nat
  BY DEF TInv, JInv, Exclusive, Types, EffectRecord
<1>1. req[r].pc = "settle" /\ Return(r) /\ UNCHANGED <<cmd, cb, starts>>
  BY <1>0, SettleStep
<1>2. UNCHANGED <<applied, hand, call, overlap>>
  BY DEF Settle, WorkSame
<1>3. CASE UNCHANGED <<effect, audit, confirmed>>
  <2>1. IdleReq.pc = "idle"
    BY DEF IdleReq
  <2> QED
    BY <1>0, <1>1, <1>2, <1>3, <2>1, Returns, MoveTruth
<1>4. CASE ~UNCHANGED <<effect, audit, confirmed>>
  <2>1. /\ reconciliationApplies(r, "outcome")
        /\ updateToolEffect(req[r].next, reconciledResult(req[r].next, req[r].result))
        /\ action(r) \in {"confirm_committed", "confirm_failed"} => confirmed'
        /\ confirmed => confirmed'
    BY <1>0, <1>4, SettleStep
  <2>2. effect'.status = req[r].next /\ effect'.version = effect.version + 1
    BY <2>1 DEF updateToolEffect
  <2>3. /\ req[r].version = effect.version /\ req[r].status = effect.status
        /\ effect.status \in {"reconciling", "needs_reconciliation"}
    BY <1>0, <1>1, <2>1 DEF reconciliationApplies, Held, Fresh
  <2>4. req'[r].pc = "idle" /\ \A s \in Requests : s # r => req'[s] = req[s]
    <3>1. IdleReq \in RequestRecord /\ req' = [req EXCEPT ![r] = IdleReq]
      BY <1>0, <1>1, Returns
    <3>2. IdleReq.pc = "idle"
      BY DEF IdleReq
    <3> QED
      BY <1>0, <3>1, <3>2, ReplaceRequest
  <2>5. ASSUME NEW s \in Requests, req'[s].pc # "idle" PROVE req'[s].version # effect'.version
    <3>1. req[s].version < effect'.version /\ req[s].version \in Nat
      BY <1>0, <2>2, <2>4, <2>5, WriteMakesStale DEF TInv, Types, RequestRecord
    <3> QED
      BY <1>0, <2>2, <2>4, <2>5, <3>1
  <2>6. ASSUME ~confirmed'
        PROVE  /\ req[r].next \in {"committed", "compensated", "needs_reconciliation", "reconciling"}
               /\ req[r].next = "committed" => cmd[req[r].command].action \in External
               /\ req[r].next = "reconciling" => effect.status = "reconciling"
    <3>1. action(r) \notin {"confirm_committed", "confirm_failed"}
      BY <2>1, <2>6
    <3>2. Decided(req[r]) /\ Routed(req[r]) /\ Backed(req[r])
      BY <1>0, <1>1 DEF Delivered, Backing
    <3> QED
      BY <1>1, <2>3, <3>1, <3>2 DEF Decided, Routed, Backed, action
  <2>7. ~confirmed' => Worked'
    <3>1. ~confirmed' => ~confirmed
      BY <2>1
    <3> QED
      BY <1>2, <2>2, <2>3, <2>6, <3>1 DEF Truth, Worked
  <2>8. ASSUME ~confirmed', ~overlap' PROVE Settled' /\ AllMeant'
    <3>1. Settled /\ AllMeant
      BY <1>2, <2>1, <2>8 DEF Truth
    <3>2. Meant(req[r])
      BY <1>1, <2>3, <3>1 DEF AllMeant
    <3>3. Settled'
      BY <1>1, <1>2, <2>2, <2>6, <2>8, <3>1, <3>2 DEF Settled, Meant, mayPublish, outstanding
    <3> QED
      BY <2>5, <3>3 DEF AllMeant
  <2> QED
    BY <2>7, <2>8 DEF Truth
<1> QED
  BY <1>3, <1>4

\* Requests that decide, from a callback that ended or from a query of the world.
LEMMA DecideTruth ==
  ASSUME TInv, Truth, NEW r \in Requests, Decide(r) \/ CallbackReturns(r)
  PROVE  Truth'
<1>0. Types /\ Delivered /\ Held /\ Backing /\ overlap \in BOOLEAN
  BY DEF TInv, JInv, Exclusive, TypeOK
<1>1. UNCHANGED <<effect, applied, hand, call, cmd, cb, confirmed>> /\ (overlap => overlap')
  BY <1>0 DEF Decide, CallbackReturns, WorkSame
<1>2. ASSUME NEW chosen \in EffectStatus, NEW result \in Result, DecideTo(r, chosen, result),
             ~confirmed /\ ~overlap' /\ req[r].version = effect.version =>
               /\ chosen = "committed" /\ action(r) \in External => applied
               /\ chosen = "compensated" => ~applied /\ ~outstanding
      PROVE  Truth'
  <2>1. PICK q \in RequestRecord :
           /\ req' = [req EXCEPT ![r] = q]
           /\ q.pc = "settle" /\ q.next = chosen /\ q.result = result /\ q.undo = req[r].undo
           /\ q.command = req[r].command /\ q.version = req[r].version /\ q.status = req[r].status
    BY <1>0, <1>2, DecideTypes
  <2>2. ~confirmed /\ ~overlap' /\ q.version = effect.version => Meant(q)
    BY <1>2, <2>1 DEF Meant, action
  <2> QED
    BY <1>0, <1>1, <2>1, <2>2, MoveTruth
<1>3. req[r].status \in EffectStatus /\ req[r].result \in Result
  BY <1>0 DEF Types, RequestRecord
<1>4. {"committed", "failed", "compensated", "needs_reconciliation", "reconciling"} \subseteq EffectStatus
      /\ {"none", "retried", "confirmed"} \subseteq Result
  BY DEF EffectStatus, Result
<1>5. CASE Decide(r)
  <2>1. req[r].pc = "decide" /\ overlap' = (overlap \/ outstanding)
    BY <1>5 DEF Decide, ReqAt
  <2>2. action(r) \notin External /\ req[r].status \notin {"committed", "compensated"}
    BY <1>0, <2>1 DEF Delivered, Routed, Decided, action
  <2>3. \/ DecideTo(r, "committed", "confirmed") \/ DecideTo(r, "failed", "none")
        \/ ~applied /\ DecideTo(r, "compensated", "none")
        \/ DecideTo(r, req[r].status, "none")
    BY <1>5 DEF Decide
  <2> QED
    BY <1>0, <1>2, <1>3, <1>4, <2>1, <2>2, <2>3
<1>6. CASE CallbackReturns(r)
  <2> DEFINE o == cb[req[r].command]
  <2>1. req[r].pc = "callback" /\ UNCHANGED overlap
    BY <1>6 DEF CallbackReturns, ReqAt
  <2>2. \/ DecideTo(r, "reconciling", "none") \/ DecideTo(r, "needs_reconciliation", "none")
        \/ o = "ok" /\ action(r) = "retry_with_same_key" /\ DecideTo(r, "committed", "retried")
        \/ o = "ok" /\ action(r) # "retry_with_same_key" /\ DecideTo(r, "compensated", "none")
        \/ o = "rejected" /\ req[r].undo /\ DecideTo(r, "committed", req[r].result)
    BY <1>6 DEF CallbackReturns, deadlineStatus
  <2>3. ASSUME ~confirmed, ~overlap, req[r].version = effect.version
        PROVE  /\ o = "ok" => (applied <=> action(r) = "retry_with_same_key")
               /\ o = "rejected" /\ req[r].undo => applied
               /\ o # "run" => ~outstanding
    <3>1. Settled /\ Meant(req[r]) /\ effect.status = "reconciling"
      BY <1>0, <2>1, <2>3 DEF Truth, AllMeant, Held, Fresh, Backing, Backed, Delivered, Routed
    <3>2. \A d \in Commands : cb[d] = "run" => d = req[r].command
      BY <1>0, <2>1, <2>3 DEF Held, Claims, Delivered, Routed
    <3> QED
      BY <2>1, <3>1, <3>2 DEF Meant, Settled, mayPublish, outstanding, action
  <2> HIDE DEF o
  <2> QED
    BY <1>2, <1>3, <1>4, <2>1, <2>2, <2>3
<1> QED
  BY <1>5, <1>6

\* Every step keeps the journal truthful.
LEMMA TruthStep == TInv /\ Truth /\ [Next]_vars => Truth'
<1> SUFFICES ASSUME TInv, Truth, [Next]_vars PROVE Truth'
  OBVIOUS
<1>0. Types /\ Delivered /\ Held /\ Guarded /\ TypeOK
  BY DEF TInv, JInv, Exclusive
<1>1. CASE Handler \/ RepairInterruptedRun \/ \E c \in Calls : BeginSideEffect(c) \/ Executor(c)
  <2>1. Works
    BY <1>1, WorkFrame DEF TInv
  <2>2. ~confirmed => Worked' /\ (~overlap => Settled')
    BY <1>0, <1>1, WorkerTruth DEF Truth
  <2>3. ~confirmed /\ ~overlap => AllMeant'
    BY <2>1, WorkKeepsMeaning DEF Truth, Works
  <2> QED
    BY <2>1, <2>2, <2>3 DEF Truth, Works
<1>2. ASSUME UNCHANGED <<effect, applied, hand, call, cmd, cb, req, confirmed, overlap>> PROVE Truth'
  BY <1>2 DEF Truth, Worked, Settled, AllMeant, Meant, mayPublish, outstanding
<1>3. ASSUME NEW r \in Requests, NEW c \in Commands, Deliver(r, c) PROVE Truth'
  <2>1. PICK q \in RequestRecord : req' = [req EXCEPT ![r] = q] /\ q.pc = "gate"
    BY <1>0, <1>3, DeliverStep
  <2>2. Meant(q)
    BY <2>1 DEF Meant
  <2>3. UNCHANGED <<effect, applied, hand, call, cmd, cb, confirmed, overlap>>
    BY <1>3 DEF Deliver, WorkSame
  <2> QED
    BY <1>0, <2>1, <2>2, <2>3, MoveTruth
<1>4. ASSUME NEW r \in Requests, Gate(r) PROVE Truth'
  <2>1. UNCHANGED <<effect, applied, hand, call, cmd, cb, confirmed, overlap>>
    BY <1>4 DEF Gate, WorkSame
  <2>2. PICK q \in RequestRecord : req' = [req EXCEPT ![r] = q] /\ q.pc \in {"idle", "claim", "decide"}
    <3>1. IdleReq.pc = "idle"
      BY DEF IdleReq
    <3> QED
      BY <1>0, <1>4, <3>1, GateStep, Returns
  <2>3. Meant(q)
    BY <2>2 DEF Meant
  <2> QED
    BY <1>0, <2>1, <2>2, <2>3, MoveTruth
<1>5. ASSUME NEW c \in Commands, Compose(c) PROVE Truth'
  <2>1. UNCHANGED <<effect, applied, hand, call, req, cb, confirmed, overlap>> /\ cmd[c] = NoCommand
        /\ \A d \in Commands : d # c => cmd'[d] = cmd[d]
    BY <1>0, <1>5 DEF Compose, WorkSame, Types
  <2>2. ASSUME NEW s \in Requests, req[s].pc # "idle" PROVE cmd'[req[s].command] = cmd[req[s].command]
    BY <1>0, <2>1, <2>2 DEF Delivered
  <2> QED
    BY <2>1, <2>2 DEF Truth, Worked, Settled, AllMeant, Meant, mayPublish, outstanding
<1>6. CASE Crash
  <2>1. /\ UNCHANGED <<effect, confirmed, overlap>> /\ hand' = "off"
        /\ \A c \in Commands : cb'[c] = "off"
        /\ \A r \in Requests : req'[r].pc = "idle"
        /\ \A c \in Calls : call'[c] # "commit" /\ (call'[c] = "not_applied" => call[c] = "not_applied")
    BY <1>0, <1>6 DEF Crash, history, IdleReq, TypeOK
  <2>2. /\ applied => applied' \/ \E c \in Commands : cb[c] = "run"
        /\ ~outstanding => applied' = applied
    BY <1>6 DEF Crash, outstanding
  <2>3. ~confirmed /\ effect.status \notin {"reconciling", "compensated"} =>
          (mayPublish <=> outstanding) /\ \A c \in Commands : cb[c] # "run"
    BY <1>0 DEF Guarded, outstanding, mayPublish
  <2>4. ~confirmed' => Worked'
    BY <2>1, <2>2, <2>3 DEF Truth, Worked, mayPublish
  <2>5. ~confirmed' /\ ~overlap' => Settled'
    BY <2>1, <2>2, <2>3 DEF Truth, Settled, mayPublish, outstanding
  <2> QED
    BY <2>1, <2>4, <2>5 DEF Truth, AllMeant
<1>7. CASE RunRests \/ Resume \/ Restart
  BY <1>2, <1>7 DEF RunRests, Resume, Restart, OperatorSame, history
<1>8. CASE UNCHANGED vars
  BY <1>2, <1>8 DEF vars
<1> QED
  BY <1>1, <1>3, <1>4, <1>5, <1>6, <1>7, <1>8, ClaimTruth, CallbackTruth, SettleTruth, DecideTruth
  DEF Next, Reconcile

\* What the record and a call's report say is true of the world: a committed effect is in
\* force, a failed or compensated one is not, and EffectNotApplied is only told of a write
\* that never happened and no longer can, through every timeout, late handler, lost journal
\* write, crash, redelivery and reconciliation, unless an operator's word was taken (or,
\* for the record, a claim was made while a write was still outstanding).
THEOREM JournalTruthCorrect == Spec => []JournalIsTruthful
<1>1. Truth => JournalIsTruthful
  BY DEF Truth, Worked, Settled, JournalIsTruthful, JournalTellsTruth, NotAppliedIsProven, mayPublish
<1>2. Init => TInv /\ Truth
  BY JInvInit, ExclusiveInit, TypeInit, TruthInit DEF TInv
<1>3. TInv /\ Truth /\ [Next]_vars => TInv' /\ Truth'
  BY JInvStep, ExclusiveStep, TypeStep, BackingStep, TruthStep DEF TInv
<1> QED
  BY <1>1, <1>2, <1>3, PTL DEF Spec

----------------------------------------------------------------------------
(* The sandbox runner.  A call between its record and its removal is in the *)
(* records (Tracked), only a process that is up has calls (Phased), and the *)
(* lock is given back early only when Close holds every slot (Phased again). *)

Occupied == {c \in SandboxCalls : sandboxAt[c] \in holding}

\* What a call has in the state directory and at the daemon.
Tracked ==
  /\ VmsAreOwned
  /\ \A c \in SandboxCalls :
       /\ sandboxAt[c] \in working => c \in records
       /\ sandboxAt[c] = "unrecord" => c \notin vms \/ c \in cutOff
       /\ outcome[c] # "none" => sandboxAt[c] = "done"
  /\ ConfirmedIsGone

Phased ==
  /\ process # "up" => \A c \in SandboxCalls : sandboxAt[c] \in {"idle", "done"}
  /\ lock <=> (process # "down" /\ closer # "released")
  /\ closer # "none" => process = "up" /\ sandboxClosed
  /\ closer = "released" => taken = MaxConcurrent

SandboxInv == SandboxTypeOK /\ Tracked /\ Phased

\* Two sets of calls that differ in one call at most.
LEMMA OccupiedMoves ==
  ASSUME SandboxTypeOK, NEW c \in SandboxCalls, NEW p, to(c, p)
  PROVE  /\ Cardinality(Occupied) \in Nat /\ Cardinality(Occupied') \in Nat
         /\ Cardinality(Occupied') <= Cardinality(Occupied) + 1
         /\ (p \in holding => sandboxAt[c] \in holding) => Cardinality(Occupied') <= Cardinality(Occupied)
<1>1. IsFiniteSet(Occupied) /\ IsFiniteSet(Occupied')
  BY SandboxAssumption, FS_Subset DEF Occupied
<1>2. \A d \in SandboxCalls : sandboxAt'[d] = IF d = c THEN p ELSE sandboxAt[d]
  BY DEF to, SandboxTypeOK
<1>3. Occupied' \in SUBSET (Occupied \cup {c})
  BY <1>2 DEF Occupied
<1>4. IsFiniteSet(Occupied \cup {c}) /\ Cardinality(Occupied \cup {c}) <= Cardinality(Occupied) + 1
  <2>1. Cardinality(Occupied) \in Nat
    BY <1>1, FS_CardinalityType
  <2>2. IsFiniteSet(Occupied \cup {c})
        /\ Cardinality(Occupied \cup {c}) = IF c \in Occupied THEN Cardinality(Occupied) ELSE Cardinality(Occupied) + 1
    BY <1>1, FS_AddElement
  <2> QED
    BY <2>1, <2>2
<1>5. Cardinality(Occupied') <= Cardinality(Occupied \cup {c}) /\ Cardinality(Occupied \cup {c}) \in Nat
  BY <1>3, <1>4, FS_Subset, FS_CardinalityType
<1>6. Cardinality(Occupied) \in Nat /\ Cardinality(Occupied') \in Nat
  BY <1>1, FS_CardinalityType
<1>7. ASSUME p \in holding => sandboxAt[c] \in holding PROVE Cardinality(Occupied') <= Cardinality(Occupied)
  <2>1. Occupied' \in SUBSET Occupied
    BY <1>2, <1>7 DEF Occupied
  <2> QED
    BY <1>1, <2>1, FS_Subset
<1> QED
  BY <1>4, <1>5, <1>6, <1>7

\* With every slot taken by Close no call occupies one.
LEMMA NobodyOccupies ==
  ASSUME SandboxTypeOK, taken = MaxConcurrent
  PROVE  (\A c \in SandboxCalls : sandboxAt[c] \notin holding) /\ ~(sandboxSlots < MaxConcurrent)
<1>1. IsFiniteSet(Occupied) /\ Cardinality(Occupied) \in Nat
  BY SandboxAssumption, FS_Subset, FS_CardinalityType DEF Occupied
<1>2. sandboxSlots = Cardinality(Occupied) + taken
  BY DEF sandboxSlots, Occupied
<1>3. Cardinality(Occupied) = 0
  BY <1>1, <1>2, SandboxAssumption DEF SandboxTypeOK
<1>4. Occupied = {}
  BY <1>1, <1>3, FS_EmptySet
<1> QED
  BY <1>2, <1>3, <1>4, SandboxAssumption DEF Occupied

\* A step of one call: where it may go, and what it does to its own record and VM.
LEMMA CallKeeps ==
  ASSUME SandboxInv, NEW c \in SandboxCalls, process = "up",
         sandboxAt[c] # "done",
         NEW p \in holding \cup {"checked", "done"}, to(c, p),
         p \in holding => sandboxAt[c] \in holding \/ sandboxSlots < MaxConcurrent,
         UNCHANGED runner, unhealthy' \in BOOLEAN,
         \/ UNCHANGED <<orphans, cutOff>>
         \/ orphans' = orphans \cup {c} /\ cutOff' = cutOff \cup {c},
         \/ UNCHANGED outcome
         \/ p = "done" /\ \E o \in {"refused", "ended", "unconfirmed"} : outcome' = [outcome EXCEPT ![c] = o],
         vms' \in {vms, vms \cup {c}, vms \ {c}}, records' \in {records, records \cup {c}, records \ {c}},
         c \in vms' => c \in records' \cup cutOff', p \in working => c \in records',
         p = "unrecord" => c \notin vms' \/ c \in cutOff', outcome'[c] = "ended" => c \notin records'
  PROVE  SandboxInv'
<1>0. /\ sandboxAt \in [SandboxCalls -> holding \cup {"idle", "checked", "done"}]
      /\ outcome \in [SandboxCalls -> {"none", "refused", "ended", "unconfirmed"}]
      /\ taken \in 0..MaxConcurrent /\ MaxConcurrent \in Nat /\ sandboxSlots <= MaxConcurrent
  BY SandboxAssumption DEF SandboxInv, SandboxTypeOK
<1>1. \A d \in SandboxCalls : sandboxAt'[d] = IF d = c THEN p ELSE sandboxAt[d]
  BY <1>0 DEF to
<1>2. \A d \in SandboxCalls \ {c} : /\ outcome'[d] = outcome[d] /\ (d \in vms' <=> d \in vms)
                                  /\ (d \in records' <=> d \in records) /\ (d \in cutOff' <=> d \in cutOff)
  BY <1>0
<1>3. SandboxTypeOK'
  <2>1. sandboxAt' \in [SandboxCalls -> holding \cup {"idle", "checked", "done"}]
    BY <1>0 DEF to
  <2>2. outcome' \in [SandboxCalls -> {"none", "refused", "ended", "unconfirmed"}]
    BY <1>0
  <2>3. sandboxSlots' <= MaxConcurrent
    <3>1. sandboxSlots = Cardinality(Occupied) + taken /\ sandboxSlots' = Cardinality(Occupied') + taken
      BY DEF sandboxSlots, Occupied, runner
    <3>2. /\ Cardinality(Occupied) \in Nat /\ Cardinality(Occupied') \in Nat
          /\ Cardinality(Occupied') <= Cardinality(Occupied) + 1
          /\ (p \in holding => sandboxAt[c] \in holding) => Cardinality(Occupied') <= Cardinality(Occupied)
      BY OccupiedMoves DEF SandboxInv
    <3> QED
      BY <1>0, <3>1, <3>2
  <2>4. /\ records' \subseteq SandboxCalls /\ vms' \subseteq SandboxCalls
        /\ cutOff' \subseteq SandboxCalls /\ orphans' \subseteq cutOff'
    BY DEF SandboxInv, SandboxTypeOK
  <2> QED
    BY <2>1, <2>2, <2>3, <2>4 DEF SandboxInv, SandboxTypeOK, runner
<1>4. Tracked'
  <2>1. VmsAreOwned'
    BY <1>2 DEF SandboxInv, Tracked, VmsAreOwned, SandboxTypeOK
  <2>2. ASSUME NEW d \in SandboxCalls
        PROVE  /\ sandboxAt'[d] \in working => d \in records'
               /\ sandboxAt'[d] = "unrecord" => d \notin vms' \/ d \in cutOff'
               /\ outcome'[d] # "none" => sandboxAt'[d] = "done"
               /\ outcome'[d] = "ended" => d \notin records' /\ (d \in vms' => d \in cutOff')
    <3>1. CASE d # c
      BY <1>1, <1>2, <3>1 DEF SandboxInv, Tracked, ConfirmedIsGone
    <3>2. CASE d = c
      BY <1>0, <1>1, <3>2 DEF SandboxInv, Tracked, ConfirmedIsGone
    <3> QED
      BY <3>1, <3>2
  <2> QED
    BY <2>1, <2>2 DEF Tracked, ConfirmedIsGone
<1>5. Phased'
  BY DEF SandboxInv, Phased, runner
<1> QED
  BY <1>3, <1>4, <1>5 DEF SandboxInv

LEMMA CallStepKeeps ==
  ASSUME SandboxInv, NEW c \in SandboxCalls, SandboxRun(c) \/ callStep(c)
  PROVE  SandboxInv'
<1>0. /\ sandboxAt \in [SandboxCalls -> holding \cup {"idle", "checked", "done"}]
      /\ outcome \in [SandboxCalls -> {"none", "refused", "ended", "unconfirmed"}]
      /\ unhealthy \in BOOLEAN /\ (c \in vms => c \in records \cup cutOff)
      /\ (sandboxAt[c] \in working => c \in records) /\ (sandboxAt[c] = "unrecord" => c \notin vms \/ c \in cutOff)
      /\ (outcome[c] # "none" => sandboxAt[c] = "done")
  BY DEF SandboxInv, SandboxTypeOK, Tracked, VmsAreOwned
<1>1. process = "up" /\ sandboxAt[c] # "done"
  BY DEF SandboxRun, callStep, TakeSlot, Record, Create, CreateReturns, Exec, ExecReturns, RemoveVm, List, Unrecord,
         SandboxInv, Phased
<1> USE DEF sandboxEnds, holding, working
<1>2. CASE SandboxRun(c)
  BY <1>0, <1>1, <1>2, CallKeeps DEF SandboxRun
<1>3. CASE TakeSlot(c)
  BY <1>0, <1>1, <1>3, CallKeeps DEF TakeSlot
<1>4. CASE Record(c)
  BY <1>0, <1>1, <1>4, CallKeeps DEF Record, recordFailed
<1>5. CASE Create(c)
  BY <1>0, <1>1, <1>5, CallKeeps DEF Create
<1>6. CASE CreateReturns(c)
  BY <1>0, <1>1, <1>6, CallKeeps DEF CreateReturns
<1>7. CASE Exec(c)
  BY <1>0, <1>1, <1>7, CallKeeps DEF Exec
<1>8. CASE ExecReturns(c)
  BY <1>0, <1>1, <1>8, CallKeeps DEF ExecReturns
<1>9. CASE RemoveVm(c)
  BY <1>0, <1>1, <1>9, CallKeeps DEF RemoveVm
<1>10. CASE List(c)
  BY <1>0, <1>1, <1>10, CallKeeps DEF List, absentAfter, cleanupFails
<1>11. CASE Unrecord(c)
  BY <1>0, <1>1, <1>11, CallKeeps DEF Unrecord, cleanupFails
<1> QED
  BY <1>2, <1>3, <1>4, <1>5, <1>6, <1>7, <1>8, <1>9, <1>10, <1>11 DEF callStep

\* What is gained and lost by the process as a whole.
LEMMA SandboxInductive ==
  ASSUME SandboxInv, [SandboxNext]_sandboxVars
  PROVE  SandboxInv'
<1>1. ASSUME NEW c \in SandboxCalls, SandboxRun(c) \/ callStep(c) PROVE SandboxInv'
  BY <1>1, CallStepKeeps
<1>2. ASSUME NEW c \in SandboxCalls, OrphanCreates(c) PROVE SandboxInv'
  <2>1. /\ UNCHANGED <<process, lock, sandboxTodo, sandboxClosed, unhealthy, closer, taken, stops, sandboxAt, outcome, records, cutOff>>
        /\ c \in orphans /\ orphans' = orphans \ {c} /\ vms' \in {vms, vms \cup {c}}
    BY <1>2 DEF OrphanCreates, runner
  <2>2. c \in cutOff
    BY <2>1 DEF SandboxInv, SandboxTypeOK
  <2>3. sandboxSlots' = sandboxSlots
    BY <2>1 DEF sandboxSlots
  <2>4. SandboxTypeOK'
    BY <2>1, <2>3 DEF SandboxInv, SandboxTypeOK
  <2>5. Tracked'
    BY <2>1, <2>2 DEF SandboxInv, Tracked, VmsAreOwned, ConfirmedIsGone, working
  <2>6. Phased'
    BY <2>1 DEF SandboxInv, Phased
  <2> QED
    BY <2>4, <2>5, <2>6 DEF SandboxInv
<1>3. ASSUME UNCHANGED sandboxAt PROVE Occupied' = Occupied
  BY <1>3 DEF Occupied
<1>s. sandboxSlots = Cardinality(Occupied) + taken /\ sandboxSlots' = Cardinality(Occupied') + taken'
      /\ Cardinality(Occupied) \in Nat
  BY SandboxAssumption, FS_Subset, FS_CardinalityType DEF sandboxSlots, Occupied
<1>4. CASE New
  <2>1. SandboxTypeOK'
    <3>1. taken' = 0 /\ taken' \in 0..MaxConcurrent
      BY <1>4, SandboxAssumption DEF New
    <3>2. sandboxSlots' <= MaxConcurrent
      BY <1>3, <1>4, <1>s, <3>1, SandboxAssumption DEF New, SandboxInv, SandboxTypeOK
    <3>3. lock' \in BOOLEAN /\ sandboxClosed' \in BOOLEAN /\ unhealthy' \in BOOLEAN
      BY <1>4 DEF New
    <3> QED
      BY <1>4, <3>1, <3>2, <3>3 DEF New, SandboxInv, SandboxTypeOK
  <2> QED
    BY <1>4, <2>1, SandboxAssumption DEF New, SandboxInv, SandboxTypeOK, Tracked, VmsAreOwned, Phased, ConfirmedIsGone
<1>5. ASSUME NEW n \in SandboxCalls, Recover(n) PROVE SandboxInv'
  <2>1. /\ UNCHANGED <<process, lock, sandboxClosed, unhealthy, closer, taken, sandboxAt, outcome, orphans, cutOff, stops>>
        /\ process = "recovering" /\ records' = records \ {n} /\ sandboxTodo' = sandboxTodo \ {n}
        /\ vms' = vms \ {n} \/ (vms' = vms /\ n \notin vms)
    BY <1>5 DEF Recover, absentAfter
  <2>2. SandboxTypeOK'
    BY <1>3, <1>s, <2>1, SandboxAssumption DEF SandboxInv, SandboxTypeOK
  <2>3. Tracked'
    BY <2>1 DEF SandboxInv, Tracked, VmsAreOwned, Phased, ConfirmedIsGone, working
  <2>4. Phased'
    BY <2>1 DEF SandboxInv, Phased
  <2> QED
    BY <2>2, <2>3, <2>4 DEF SandboxInv
<1>6. CASE StartFails \/ CheckAvailability \/ SandboxClose \/ CloseExpires
  <2>1. UNCHANGED <<taken, sandboxAt, outcome, records, vms, orphans, cutOff, stops, unhealthy>>
    BY <1>6 DEF StartFails, CheckAvailability, SandboxClose, CloseExpires
  <2>2. SandboxTypeOK'
    BY <1>3, <1>6, <1>s, <2>1, SandboxAssumption
       DEF StartFails, CheckAvailability, SandboxClose, CloseExpires, SandboxInv, SandboxTypeOK
  <2>3. Tracked'
    BY <2>1 DEF SandboxInv, Tracked, VmsAreOwned, ConfirmedIsGone
  <2>4. Phased'
    <3>1. CASE StartFails
      BY <3>1 DEF StartFails, SandboxInv, Phased
    <3>2. CASE CheckAvailability
      BY <3>2 DEF CheckAvailability, SandboxInv, Phased
    <3>3. CASE SandboxClose
      BY <3>3 DEF SandboxClose, SandboxInv, Phased
    <3>4. CASE CloseExpires
      BY <3>4 DEF CloseExpires, SandboxInv, Phased
    <3> QED
      BY <1>6, <3>1, <3>2, <3>3, <3>4
  <2> QED
    BY <2>2, <2>3, <2>4 DEF SandboxInv
<1>7. CASE CloseTakes
  <2>1. SandboxTypeOK'
    BY <1>3, <1>7, <1>s, SandboxAssumption DEF CloseTakes, SandboxInv, SandboxTypeOK
  <2> QED
    BY <1>7, <2>1 DEF CloseTakes, SandboxInv, Tracked, VmsAreOwned, Phased, ConfirmedIsGone
<1>8. CASE CloseReleases
  <2>1. SandboxTypeOK'
    BY <1>3, <1>8, <1>s, SandboxAssumption DEF CloseReleases, SandboxInv, SandboxTypeOK
  <2> QED
    BY <1>8, <2>1 DEF CloseReleases, allTaken, SandboxInv, Tracked, VmsAreOwned, Phased, ConfirmedIsGone
<1>9. CASE Stops
  <2>1. PICK creating \in SUBSET {c \in SandboxCalls : sandboxAt[c] = "creating"} :
          orphans' = orphans \cup creating /\ cutOff' = cutOff \cup creating
    BY <1>9 DEF Stops
  <2>2. /\ process' = "down" /\ lock' = FALSE /\ sandboxTodo' = {} /\ closer' = "none" /\ taken' = 0
        /\ stops' = stops + 1 /\ stops < MaxStops /\ UNCHANGED <<sandboxClosed, unhealthy, outcome, records, vms>>
        /\ sandboxAt' = [c \in SandboxCalls |-> IF sandboxAt[c] = "idle" THEN "idle" ELSE "done"]
    BY <1>9 DEF Stops
  <2>3. Occupied' = {}
    BY <2>2 DEF Occupied, holding, working
  <2>4. SandboxTypeOK'
    <3>1. taken' \in 0..MaxConcurrent /\ sandboxSlots' <= MaxConcurrent /\ stops' \in 0..MaxStops
      BY <1>s, <2>2, <2>3, FS_EmptySet, SandboxAssumption DEF SandboxInv, SandboxTypeOK
    <3>2. sandboxAt' \in [SandboxCalls -> holding \cup {"idle", "checked", "done"}]
      BY <2>2
    <3>3. lock' \in BOOLEAN /\ cutOff' \subseteq SandboxCalls /\ orphans' \subseteq cutOff'
      BY <2>1, <2>2 DEF SandboxInv, SandboxTypeOK
    <3> QED
      BY <2>2, <3>1, <3>2, <3>3 DEF SandboxInv, SandboxTypeOK
  <2>5. Tracked'
    BY <2>1, <2>2 DEF SandboxInv, SandboxTypeOK, Tracked, VmsAreOwned, ConfirmedIsGone, working
  <2>6. Phased'
    BY <2>2 DEF Phased
  <2> QED
    BY <2>4, <2>5, <2>6 DEF SandboxInv
<1>10. CASE UNCHANGED sandboxVars
  <2>1. SandboxTypeOK'
    BY <1>3, <1>10, <1>s DEF sandboxVars, SandboxInv, SandboxTypeOK
  <2> QED
    BY <1>10, <2>1 DEF sandboxVars, SandboxInv, Tracked, VmsAreOwned, Phased, ConfirmedIsGone
<1> QED
  BY <1>1, <1>2, <1>4, <1>5, <1>6, <1>7, <1>8, <1>9, <1>10 DEF SandboxNext

\* Crashes, failing cleanups and a Close at any moment lose no VM whose create was answered
\* and share no directory, with any number of calls and slots: every VM keeps its ownership
\* record until it is gone unless its create was cut off, a confirmed cleanup left nothing
\* but such a late VM, and the lock covers all work (RunWithProgress, remove, Close).
THEOREM SandboxCorrect == SandboxSpec => []SandboxSafe
<1>1. SandboxInit => SandboxInv
  <2> SUFFICES ASSUME SandboxInit PROVE SandboxInv
    OBVIOUS
  <2>1. Occupied = {} /\ sandboxSlots = Cardinality(Occupied) + taken
    BY DEF SandboxInit, Occupied, holding, working, sandboxSlots
  <2>2. SandboxTypeOK
    <3>1. taken \in 0..MaxConcurrent /\ sandboxSlots <= MaxConcurrent /\ stops \in 0..MaxStops
      BY <2>1, FS_EmptySet, SandboxAssumption DEF SandboxInit
    <3>2. lock \in BOOLEAN /\ sandboxClosed \in BOOLEAN /\ unhealthy \in BOOLEAN
      BY DEF SandboxInit
    <3> QED
      BY <3>1, <3>2 DEF SandboxInit, SandboxTypeOK
  <2> QED
    BY <2>2 DEF SandboxInit, SandboxInv, Tracked, VmsAreOwned, Phased, ConfirmedIsGone, working
<1>2. SandboxInv /\ [SandboxNext]_sandboxVars => SandboxInv'
  BY SandboxInductive
<1>3. SandboxInv => SandboxSafe
  <2> SUFFICES ASSUME SandboxInv PROVE LockCoversTheWork
    BY DEF SandboxInv, Tracked, SandboxSafe, VmsAreOwned
  <2>1. ASSUME NEW c \in SandboxCalls, sandboxAt[c] \in working PROVE lock
    <3>1. process = "up" /\ sandboxAt[c] \in holding
      BY <2>1 DEF SandboxInv, Phased, working, holding
    <3>2. closer # "released"
      BY <3>1, NobodyOccupies DEF SandboxInv, Phased
    <3> QED
      BY <3>1, <3>2 DEF SandboxInv, Phased
  <2> QED
    BY <2>1 DEF LockCoversTheWork
<1> QED
  BY <1>1, <1>2, <1>3, PTL DEF SandboxSpec

----------------------------------------------------------------------------
(* MCP connections.  Revisions make a row an exclusive edit: a Test that     *)
(* still finds its revision finds the fields it read (Current).  Adapters are *)
(* only ever closed, so what a Run froze stays (Bound), and the ghost of    *)
(* every later authorization covers the one at the boundary (Permitted).    *)

Listed == Definitions \cup {"missing", "down"}
CipherText == [n : Nat, url : Urls \cup {"none"}]
Discovery == [def : Listed \cup {"none"}, url : Urls \cup {"none"}, cipher : Nat]
Row ==
  [deleted : BOOLEAN, url : Urls, auth : {"none", "bearer"}, cipher : CipherText, enabled : BOOLEAN,
   status : {"configured", "discovered", "mcp_connection_failed"}, discovery : Discovery,
   selected : BOOLEAN, revision : Nat]

RowTypes ==
  /\ mcpRow \in Row /\ saving \in {Nothing} \cup Row /\ tokens \in Nat /\ remote \in [Urls -> Listed]
  /\ tests \in [Testers -> {Nothing} \cup [c : Row, at : {"read", "discovered"}]]

\* A configuration whose discovery is its own; without authentication it has no token.
rowFits(c) ==
  /\ c.discovery # NoDefinition => c.discovery.url = c.url /\ c.discovery.cipher = c.cipher.n
  /\ c.auth = "none" => c.cipher = NoCipher

Fit ==
  /\ rowFits(mcpRow) /\ (saving # Nothing => rowFits(saving))
  /\ \A t \in Testers : tests[t] # Nothing => rowFits(tests[t].c)

sameEdit(c, d) ==
  c.url = d.url /\ c.auth = d.auth /\ c.cipher = d.cipher /\ c.enabled = d.enabled /\ c.selected = d.selected

\* A Test whose revision still stands read what the row still says.
Current ==
  \A t \in Testers : tests[t] # Nothing =>
    /\ tests[t].c.revision <= mcpRow.revision
    /\ tests[t].c.revision = mcpRow.revision /\ ~mcpRow.deleted => sameEdit(tests[t].c, mcpRow)

RowInv == RowTypes /\ Fit /\ Current

\* An edit keeps or drops the discovery with what it was made with.
LEMMA EditFits ==
  ASSUME NEW c \in Row, rowFits(c), NEW u \in Urls, NEW a \in {"none", "bearer"}, NEW k \in {"keep", "new"},
         NEW e \in BOOLEAN, NEW s \in BOOLEAN, tokens \in Nat, k = "new" => a = "bearer"
  PROVE  Edited(c, u, a, k, e, s) \in Row /\ rowFits(Edited(c, u, a, k, e, s))
<1> DEFINE changed == identityChanged(c, u, a, k)
           m == savedCipher(c, u, a, k)
           d == IF changed THEN NoDefinition ELSE c.discovery
           st == IF changed THEN "configured" ELSE c.status
<1>1. m \in CipherText /\ d \in Discovery /\ st \in {"configured", "discovered", "mcp_connection_failed"}
  <2>1. c.cipher \in CipherText /\ c.discovery \in Discovery /\ c.status \in {"configured", "discovered", "mcp_connection_failed"}
    BY DEF Row
  <2>2. NoCipher \in CipherText /\ NoDefinition \in Discovery /\ [n |-> tokens + 1, url |-> u] \in CipherText
    BY DEF NoCipher, NoDefinition, CipherText, Discovery
  <2> QED
    BY <2>1, <2>2 DEF savedCipher
<1>2. Edited(c, u, a, k, e, s) =
        [c EXCEPT !.url = u, !.auth = a, !.enabled = e, !.selected = s, !.cipher = m, !.discovery = d, !.status = st]
  BY DEF Edited
<1>3. a = "none" => m = NoCipher
  BY DEF savedCipher, rowFits, Row
<1>4. d # NoDefinition => d.url = u /\ d.cipher = m.n
  BY DEF identityChanged, savedCipher, rowFits, Row
<1> HIDE DEF m, d, st
<1> DEFINE x == [c EXCEPT !.url = u, !.auth = a, !.enabled = e, !.selected = s, !.cipher = m, !.discovery = d, !.status = st]
<1>5. x \in Row
  BY <1>1 DEF Row
<1>6. x.url = u /\ x.auth = a /\ x.cipher = m /\ x.discovery = d
  BY DEF Row
<1> HIDE DEF x
<1>7. rowFits(x)
  BY <1>3, <1>4, <1>6 DEF rowFits
<1> QED
  BY <1>2, <1>5, <1>7 DEF x

\* What a Test writes is its read with another discovery.
LEMMA DiscoveredFits ==
  ASSUME NEW c \in Row, rowFits(c), remote \in [Urls -> Listed]
  PROVE  /\ discovered(c) \in Row /\ rowFits(discovered(c)) /\ sameEdit(discovered(c), c)
         /\ discovered(c).revision = c.revision
<1> DEFINE d == [def |-> remote[c.url], url |-> c.url, cipher |-> c.cipher.n]
<1>1. c.url \in Urls /\ c.cipher \in CipherText /\ c.cipher.n \in Nat
  BY DEF Row, CipherText
<1>2. d \in Discovery /\ NoDefinition \in Discovery
  BY <1>1 DEF Discovery, NoDefinition
<1>3. PICK x \in {d, NoDefinition}, st \in {"discovered", "mcp_connection_failed"} :
        discovered(c) = [c EXCEPT !.discovery = x, !.status = st]
  BY DEF discovered
<1>4. discovered(c) \in Row /\ discovered(c).discovery = x /\ sameEdit(discovered(c), c)
      /\ discovered(c).revision = c.revision
  BY <1>2, <1>3 DEF Row, sameEdit
<1>5. x # NoDefinition => x.url = c.url /\ x.cipher = c.cipher.n
  OBVIOUS
<1> QED
  BY <1>4, <1>5 DEF rowFits, sameEdit

LEMMA BumpedFits ==
  ASSUME mcpRow \in Row, NEW c \in Row, rowFits(c)
  PROVE  bumped(c) \in Row /\ rowFits(bumped(c)) /\ sameEdit(bumped(c), c) /\ bumped(c).revision = mcpRow.revision + 1
         /\ mcpRow.revision \in Nat
  BY DEF bumped, Row, rowFits, sameEdit

LEMMA RowInductive == RowInv /\ [McpNext]_mcpVars => RowInv' /\ (tests' # tests => sameEdit(mcpRow', mcpRow))
<1> SUFFICES ASSUME RowInv, [McpNext]_mcpVars
             PROVE  RowInv' /\ (tests' # tests => sameEdit(mcpRow', mcpRow))
  OBVIOUS
<1> DEFINE Goal == RowInv' /\ (tests' # tests => sameEdit(mcpRow', mcpRow))
<1>0. /\ mcpRow \in Row /\ rowFits(mcpRow) /\ saving \in {Nothing} \cup Row /\ tokens \in Nat /\ remote \in [Urls -> Listed]
      /\ tests \in [Testers -> {Nothing} \cup [c : Row, at : {"read", "discovered"}]] /\ mcpRow.revision \in Nat
      /\ (saving # Nothing => rowFits(saving))
  BY DEF RowInv, RowTypes, Fit, Row
<1>a. \A t \in Testers : tests[t] # Nothing => tests[t].c \in Row /\ tests[t].c.revision \in Nat /\ rowFits(tests[t].c)
  BY <1>0 DEF RowInv, Fit, Row
<1>b. \A c : sameEdit(c, c)
  BY DEF sameEdit
<1>1. ASSUME NEW u \in Urls, NEW a \in {"none", "bearer"}, NEW k \in {"keep", "new"}, NEW e \in BOOLEAN, NEW s \in BOOLEAN,
             SaveRead(u, a, k, e, s)
      PROVE  Goal
  <2>1. saving' \in Row /\ rowFits(saving') /\ UNCHANGED <<mcpRow, tests, remote>> /\ tokens' \in Nat
    BY <1>0, <1>1, EditFits DEF SaveRead
  <2> QED
    BY <1>0, <2>1 DEF RowInv, RowTypes, Fit, Current
<1>2. CASE SaveWrite
  <2>1. /\ mcpRow' = bumped(saving) /\ saving \in Row /\ rowFits(saving) /\ saving' = Nothing
        /\ UNCHANGED <<tests, remote, tokens>>
    BY <1>0, <1>2 DEF SaveWrite, writesRow
  <2>2. mcpRow' \in Row /\ rowFits(mcpRow') /\ mcpRow'.revision = mcpRow.revision + 1
    BY <1>0, <2>1, BumpedFits
  <2>3. RowTypes' /\ Fit'
    BY <1>0, <2>1, <2>2 DEF RowInv, RowTypes, Fit
  <2>4. Current'
    BY <1>0, <1>a, <2>1, <2>2 DEF RowInv, Current
  <2> QED
    BY <2>1, <2>3, <2>4 DEF RowInv
<1>3. CASE SaveConflict
  BY <1>0, <1>3 DEF SaveConflict, RowInv, RowTypes, Fit, Current
<1>4. ASSUME NEW t \in Testers, TestRead(t) PROVE Goal
  <2>1. tests' = [tests EXCEPT ![t] = [c |-> mcpRow, at |-> "read"]] /\ UNCHANGED <<mcpRow, saving, remote, tokens>>
    BY <1>4 DEF TestRead
  <2>2. tests'[t].c = mcpRow /\ \A z \in Testers \ {t} : tests'[z] = tests[z]
    BY <1>0, <2>1
  <2>3. RowTypes'
    BY <1>0, <2>1 DEF RowTypes
  <2>4. Fit' /\ Current'
    BY <1>0, <1>b, <2>1, <2>2 DEF RowInv, Fit, Current
  <2> QED
    BY <1>b, <2>1, <2>3, <2>4 DEF RowInv
<1>5. ASSUME NEW t \in Testers, DiscoverDefinitions(t) PROVE Goal
  <2>1. /\ tests' = [tests EXCEPT ![t] = [c |-> discovered(tests[t].c), at |-> "discovered"]]
        /\ UNCHANGED <<mcpRow, saving, remote, tokens>> /\ tests[t] # Nothing
    BY <1>5 DEF DiscoverDefinitions
  <2>2. PICK d \in Row : d = discovered(tests[t].c) /\ rowFits(d) /\ sameEdit(d, tests[t].c)
                         /\ d.revision = tests[t].c.revision
    BY <1>0, <1>a, <2>1, DiscoveredFits
  <2>3. tests'[t].c = d /\ \A z \in Testers \ {t} : tests'[z] = tests[z]
    BY <1>0, <2>1, <2>2
  <2>4. RowTypes'
    BY <1>0, <2>1, <2>2 DEF RowTypes
  <2>5. Fit'
    BY <1>0, <2>1, <2>2, <2>3 DEF RowInv, Fit
  <2>6. Current'
    BY <1>0, <2>1, <2>2, <2>3 DEF RowInv, Current, sameEdit
  <2> QED
    BY <1>b, <2>1, <2>4, <2>5, <2>6 DEF RowInv
<1>6. ASSUME NEW t \in Testers, TestWrite(t) PROVE Goal
  <2>1. /\ mcpRow' = bumped(tests[t].c) /\ tests[t] # Nothing /\ tests' = [tests EXCEPT ![t] = Nothing]
        /\ ~mcpRow.deleted /\ mcpRow.revision = tests[t].c.revision /\ UNCHANGED <<saving, remote, tokens>>
    BY <1>6 DEF TestWrite, writesRow, sameRevision
  <2>2. /\ mcpRow' \in Row /\ rowFits(mcpRow') /\ sameEdit(mcpRow', tests[t].c) /\ mcpRow'.revision = mcpRow.revision + 1
    BY <1>0, <1>a, <2>1, BumpedFits
  <2>3. tests'[t] = Nothing /\ \A z \in Testers \ {t} : tests'[z] = tests[z]
    BY <1>0, <2>1
  <2>4. RowTypes'
    BY <1>0, <2>1, <2>2 DEF RowTypes
  <2>5. Fit'
    BY <1>0, <2>1, <2>2, <2>3 DEF RowInv, Fit
  <2>6. Current'
    BY <1>0, <1>a, <2>2, <2>3 DEF RowInv, Current
  <2>7. sameEdit(mcpRow', mcpRow)
    BY <2>1, <2>2 DEF RowInv, Current, sameEdit
  <2> QED
    BY <2>4, <2>5, <2>6, <2>7 DEF RowInv
<1>7. ASSUME NEW t \in Testers, TestConflict(t) PROVE Goal
  <2>1. tests' = [tests EXCEPT ![t] = Nothing] /\ UNCHANGED <<mcpRow, saving, remote, tokens>>
    BY <1>7 DEF TestConflict
  <2>2. tests'[t] = Nothing /\ \A z \in Testers \ {t} : tests'[z] = tests[z]
    BY <1>0, <2>1
  <2>3. RowTypes'
    BY <1>0, <2>1 DEF RowTypes
  <2> QED
    BY <1>b, <2>1, <2>2, <2>3 DEF RowInv, Fit, Current
<1>8. CASE DeleteRow
  <2>1. /\ mcpRow' = [mcpRow EXCEPT !.deleted = TRUE, !.enabled = FALSE, !.cipher = NoCipher, !.discovery = NoDefinition]
        /\ UNCHANGED <<saving, tests, remote, tokens>>
    BY <1>8 DEF DeleteRow, writesRow
  <2>2. NoCipher \in CipherText /\ NoDefinition \in Discovery
    BY DEF NoCipher, NoDefinition, CipherText, Discovery
  <2>3. mcpRow' \in Row /\ mcpRow'.deleted = TRUE /\ mcpRow'.revision = mcpRow.revision
        /\ mcpRow'.cipher = NoCipher /\ mcpRow'.discovery = NoDefinition
    BY <1>0, <2>1, <2>2 DEF Row
  <2>4. RowTypes'
    BY <1>0, <2>1, <2>3 DEF RowTypes
  <2>5. Fit'
    BY <2>1, <2>3 DEF RowInv, Fit, rowFits
  <2>6. Current'
    BY <2>1, <2>3 DEF RowInv, Current
  <2> QED
    BY <2>1, <2>4, <2>5, <2>6 DEF RowInv
<1>9. ASSUME NEW u \in Urls, NEW d \in Listed, RemoteChanges(u, d) PROVE Goal
  BY <1>0, <1>9 DEF RemoteChanges, RowInv, RowTypes, Fit, Current
<1>10. CASE UNCHANGED <<mcpRow, saving, tests, tokens, remote>>
  BY <1>10 DEF RowInv, RowTypes, Fit, Current
<1>11. CASE Evict \/ Deactivate \/ Close \/ UNCHANGED mcpVars
  BY <1>10, <1>11 DEF Evict, Deactivate, Close, mcpVars
<1>12. ASSUME NEW r \in McpRuns,
              \/ CatalogRead(r) \/ CatalogCached(r) \/ CatalogBind(r) \/ CatalogClosed(r) \/ RunEnds(r)
              \/ Enter(r) \/ Relist(r) \/ Authorize(r) \/ CallTool(r) \/ CallFails(r)
       PROVE  Goal
  BY <1>10, <1>12 DEF CatalogRead, CatalogCached, CatalogBind, CatalogClosed, RunEnds, Enter, Relist, Authorize,
                      CallTool, CallFails
<1> QED
  BY <1>1, <1>2, <1>3, <1>4, <1>5, <1>6, <1>7, <1>8, <1>9, <1>11, <1>12 DEF McpNext, Listed

Adapter == [c : Row, closed : BOOLEAN]

CallTypes ==
  /\ adapters \in Seq(Adapter) /\ cache \in 0..Len(adapters)
  /\ listing \in [McpRuns -> {Nothing} \cup Row] /\ binding \in [McpRuns -> Nat]
  /\ mcpCall \in [McpRuns -> {"idle", "entered", "listed", "authorized"}] /\ allowed \in [McpRuns -> BOOLEAN]

Open == \A i \in 1..Len(adapters) : ~adapters[i].closed => i = cache

Bound ==
  \A r \in McpRuns :
    /\ listing[r] # Nothing => binding[r] = 0 /\ mcpCall[r] = "idle"
    /\ binding[r] <= Len(adapters)
    /\ mcpCall[r] # "idle" => binding[r] > 0

\* While a call is between its listing and its dispatch, a row that authorizes it was noted.
Permitted ==
  \A r \in McpRuns :
    /\ mcpCall[r] = "listed" /\ authorizes(mcpRow, active, frozen(r)) => allowed[r]
    /\ mcpCall[r] = "authorized" => allowed[r]

Honest ==
  /\ sent \subseteq [run : McpRuns, frozen : Listed \cup {"none"}, listed : Listed, dispatched : BOOLEAN]
  /\ \A s \in sent : s.listed = s.frozen

CallInv == CallTypes /\ Open /\ Bound /\ Permitted /\ Honest

\* Closing an adapter changes nothing else.
LEMMA ShutKeeps ==
  ASSUME adapters \in Seq(Adapter), NEW i \in 0..Len(adapters)
  PROVE  /\ shut(adapters, i) \in Seq(Adapter) /\ Len(shut(adapters, i)) = Len(adapters)
         /\ \A j \in 1..Len(adapters) :
              /\ shut(adapters, i)[j].c = adapters[j].c
              /\ ~shut(adapters, i)[j].closed => ~adapters[j].closed /\ j # i
<1>1. CASE i = 0
  BY <1>1 DEF shut
<1>2. CASE i # 0
  <2>1. i \in 1..Len(adapters) /\ adapters[i] \in Adapter
    BY <1>2
  <2>2. shut(adapters, i) = [adapters EXCEPT ![i] = [adapters[i] EXCEPT !.closed = TRUE]]
    BY <1>2, <2>1 DEF shut
  <2>3. [adapters[i] EXCEPT !.closed = TRUE] \in Adapter /\ [adapters[i] EXCEPT !.closed = TRUE].closed = TRUE
        /\ [adapters[i] EXCEPT !.closed = TRUE].c = adapters[i].c
    BY <2>1 DEF Adapter
  <2> QED
    BY <2>1, <2>2, <2>3
<1> QED
  BY <1>1, <1>2

\* What a Run froze stays while adapters are made and closed, the Run's Binding apart.
LEMMA AdaptersKeep ==
  ASSUME CallInv, adapters' \in Seq(Adapter), cache' \in 0..Len(adapters'), Len(adapters') >= Len(adapters), Open',
         \A j \in 1..Len(adapters) : adapters'[j].c = adapters[j].c,
         UNCHANGED <<listing, binding, mcpCall, allowed, sent, mcpRow, active>>
  PROVE  CallInv'
<1>1. CallTypes' /\ Honest'
  BY DEF CallInv, CallTypes, Honest
<1>2. Len(adapters) \in Nat /\ Len(adapters') \in Nat /\ binding \in [McpRuns -> Nat]
  BY DEF CallInv, CallTypes
<1>3. Bound'
  BY <1>2 DEF CallInv, Bound
<1>4. \A r \in McpRuns : mcpCall[r] # "idle" => frozen(r)' = frozen(r)
  BY <1>2 DEF CallInv, Bound, frozen
<1>5. Permitted'
  BY <1>4 DEF CallInv, Permitted
<1> QED
  BY <1>1, <1>3, <1>5 DEF CallInv

\* A row is written or the Workspace closed: later authorizations are noted.
LEMMA RowWritesKeep ==
  ASSUME CallInv, UNCHANGED <<adapters, cache, listing, binding, mcpCall, sent>>,
         \/ noted(mcpRow', active) /\ active' = active
         \/ UNCHANGED <<mcpRow, allowed>> /\ active' = FALSE
         \/ UNCHANGED <<mcpRow, allowed, active>>
  PROVE  CallInv'
<1>1. allowed' \in [McpRuns -> BOOLEAN] /\ \A r \in McpRuns : allowed[r] => allowed'[r]
  BY DEF noted, CallInv, CallTypes
<1>2. CallTypes' /\ Open' /\ Bound' /\ Honest'
  BY <1>1 DEF CallInv, CallTypes, Open, Bound, Honest
<1>3. ASSUME NEW r \in McpRuns, mcpCall[r] = "listed", authorizes(mcpRow', active', adapters[binding[r]].c)
      PROVE  allowed'[r]
  <2>1. CASE noted(mcpRow', active) /\ active' = active
    <3>1. binding[r] > 0
      BY <1>3 DEF CallInv, Bound
    <3> QED
      BY <1>3, <2>1, <3>1 DEF noted
  <2>2. CASE active' = FALSE
    BY <1>3, <2>2 DEF authorizes
  <2>3. CASE UNCHANGED <<mcpRow, allowed, active>>
    BY <1>3, <2>3 DEF CallInv, Permitted, frozen
  <2> QED
    BY <2>1, <2>2, <2>3
<1>4. Permitted'
  BY <1>1, <1>3 DEF CallInv, Permitted, frozen
<1> QED
  BY <1>2, <1>4 DEF CallInv

\* One Run's Catalog or call moves; the others keep what they had.
LEMMA RunMoves ==
  ASSUME CallInv, NEW r \in McpRuns, UNCHANGED <<adapters, cache, mcpRow, active>>,
         listing' \in [McpRuns -> {Nothing} \cup Row], binding' \in [McpRuns -> Nat], allowed' \in [McpRuns -> BOOLEAN],
         NEW p \in {"idle", "entered", "listed", "authorized"}, mcpCall' = [mcpCall EXCEPT ![r] = p],
         \A q \in McpRuns \ {r} : listing'[q] = listing[q] /\ binding'[q] = binding[q] /\ allowed'[q] = allowed[q],
         listing'[r] # Nothing => binding'[r] = 0 /\ p = "idle", binding'[r] <= Len(adapters), p # "idle" => binding'[r] > 0,
         p = "listed" /\ authorizes(mcpRow, active, adapters[binding'[r]].c) => allowed'[r],
         p = "authorized" => allowed'[r], Honest'
  PROVE  CallInv'
<1>1. CallTypes' /\ Open'
  BY DEF CallInv, CallTypes, Open
<1>2. mcpCall'[r] = p /\ \A q \in McpRuns \ {r} : mcpCall'[q] = mcpCall[q]
  BY DEF CallInv, CallTypes
<1>3. Bound'
  BY <1>2 DEF CallInv, Bound
<1>4. Permitted'
  BY <1>2 DEF CallInv, Permitted, frozen
<1> QED
  BY <1>1, <1>3, <1>4 DEF CallInv

LEMMA CallInductive == RowInv /\ CallInv /\ [McpNext]_mcpVars => CallInv'
<1> SUFFICES ASSUME RowInv, CallInv, [McpNext]_mcpVars PROVE CallInv'
  OBVIOUS
<1>0. /\ adapters \in Seq(Adapter) /\ cache \in 0..Len(adapters) /\ Len(adapters) \in Nat
      /\ listing \in [McpRuns -> {Nothing} \cup Row] /\ binding \in [McpRuns -> Nat]
      /\ mcpCall \in [McpRuns -> {"idle", "entered", "listed", "authorized"}] /\ allowed \in [McpRuns -> BOOLEAN]
      /\ mcpRow \in Row /\ remote \in [Urls -> Listed]
  BY DEF CallInv, CallTypes, RowInv, RowTypes
<1>a. \A r \in McpRuns : /\ listing[r] # Nothing => binding[r] = 0 /\ mcpCall[r] = "idle" /\ listing[r] \in Row
                         /\ binding[r] <= Len(adapters) /\ (mcpCall[r] # "idle" => binding[r] > 0)
  BY <1>0 DEF CallInv, Bound
<1>b. ASSUME UNCHANGED sent PROVE Honest'
  BY <1>b DEF CallInv, Honest
<1>1. CASE SaveWrite \/ DeleteRow \/ Deactivate \/ SaveConflict \/ UNCHANGED mcpVars
  BY <1>1, RowWritesKeep DEF SaveWrite, DeleteRow, writesRow, Deactivate, SaveConflict, mcpVars
<1>2. ASSUME NEW t \in Testers, TestRead(t) \/ DiscoverDefinitions(t) \/ TestWrite(t) \/ TestConflict(t) PROVE CallInv'
  BY <1>2, RowWritesKeep DEF TestRead, DiscoverDefinitions, TestWrite, TestConflict, writesRow
<1>3. ASSUME NEW u, NEW a, NEW k, NEW e, NEW s, SaveRead(u, a, k, e, s) PROVE CallInv'
  BY <1>3, RowWritesKeep DEF SaveRead
<1>4. ASSUME NEW u, NEW d, RemoteChanges(u, d) PROVE CallInv'
  BY <1>4, RowWritesKeep DEF RemoteChanges
<1>5. CASE Evict \/ Close
  <2>1. adapters' = shut(adapters, cache) /\ cache' = 0 /\ UNCHANGED <<listing, binding, mcpCall, allowed, sent, mcpRow, active>>
    BY <1>5 DEF Evict, Close
  <2>2. /\ adapters' \in Seq(Adapter) /\ Len(adapters') = Len(adapters)
        /\ \A j \in 1..Len(adapters) : /\ adapters'[j].c = adapters[j].c
                                       /\ ~adapters'[j].closed => ~adapters[j].closed /\ j # cache
    BY <1>0, <2>1, ShutKeeps
  <2>3. Open'
    BY <2>2 DEF CallInv, Open
  <2> QED
    BY <1>0, <2>1, <2>2, <2>3, AdaptersKeep
<1>6. ASSUME NEW r \in McpRuns, CatalogRead(r) PROVE CallInv'
  <2>1. /\ listing' = [listing EXCEPT ![r] = mcpRow] /\ binding[r] = 0 /\ mcpCall[r] = "idle"
        /\ UNCHANGED <<adapters, cache, mcpRow, active, binding, mcpCall, allowed, sent>>
    BY <1>6 DEF CatalogRead
  <2>2. mcpCall' = [mcpCall EXCEPT ![r] = "idle"]
    BY <1>0, <2>1
  <2> QED
    BY <1>0, <1>a, <1>b, <2>1, <2>2, RunMoves
<1>7. ASSUME NEW r \in McpRuns, CatalogCached(r) PROVE CallInv'
  <2>1. /\ listing' = [listing EXCEPT ![r] = Nothing] /\ binding' = [binding EXCEPT ![r] = cache] /\ listing[r] # Nothing
        /\ UNCHANGED <<adapters, cache, mcpRow, active, mcpCall, allowed, sent>>
    BY <1>7 DEF CatalogCached
  <2>2. mcpCall' = [mcpCall EXCEPT ![r] = "idle"]
    BY <1>0, <1>a, <2>1
  <2>3. /\ listing' \in [McpRuns -> {Nothing} \cup Row] /\ binding' \in [McpRuns -> Nat] /\ allowed' \in [McpRuns -> BOOLEAN]
        /\ listing'[r] = Nothing /\ binding'[r] = cache /\ cache <= Len(adapters)
        /\ \A q \in McpRuns \ {r} : listing'[q] = listing[q] /\ binding'[q] = binding[q] /\ allowed'[q] = allowed[q]
    BY <1>0, <2>1
  <2>4. Honest'
    BY <1>b, <2>1
  <2> QED
    BY <2>1, <2>2, <2>3, <2>4, RunMoves
<1>8. ASSUME NEW r \in McpRuns, CatalogBind(r) PROVE CallInv'
  <2>1. /\ listing' = [listing EXCEPT ![r] = Nothing] /\ binding' = [binding EXCEPT ![r] = Len(adapters) + 1]
        /\ adapters' = Append(shut(adapters, cache), [c |-> listing[r], closed |-> FALSE]) /\ cache' = Len(adapters) + 1
        /\ UNCHANGED <<mcpRow, active, mcpCall, allowed, sent>> /\ listing[r] # Nothing
    BY <1>8 DEF CatalogBind, replaced
  <2>2. listing[r] \in Row /\ mcpCall[r] = "idle"
    BY <1>a, <2>1
  <2>3. /\ shut(adapters, cache) \in Seq(Adapter) /\ Len(shut(adapters, cache)) = Len(adapters)
        /\ \A j \in 1..Len(adapters) : /\ shut(adapters, cache)[j].c = adapters[j].c
                                       /\ ~shut(adapters, cache)[j].closed => ~adapters[j].closed /\ j # cache
    BY <1>0, ShutKeeps
  <2>4. [c |-> listing[r], closed |-> FALSE] \in Adapter
    BY <2>2 DEF Adapter
  <2>5. /\ adapters' \in Seq(Adapter) /\ Len(adapters') = Len(adapters) + 1
        /\ \A j \in 1..Len(adapters) : adapters'[j] = shut(adapters, cache)[j]
    BY <2>1, <2>3, <2>4
  <2>6. Open'
    BY <1>0, <2>1, <2>3, <2>5 DEF CallInv, Open
  <2>7. CallTypes'
    BY <1>0, <2>1, <2>5 DEF CallTypes
  <2>8. Bound'
    BY <1>0, <1>a, <2>1, <2>2, <2>5 DEF Bound
  <2>9. \A q \in McpRuns : mcpCall[q] # "idle" => frozen(q)' = frozen(q)
    BY <1>0, <1>a, <2>1, <2>2, <2>3, <2>5 DEF frozen
  <2>10. Permitted'
    BY <2>1, <2>9 DEF CallInv, Permitted
  <2> QED
    BY <1>b, <2>1, <2>6, <2>7, <2>8, <2>10 DEF CallInv
<1>9. ASSUME NEW r \in McpRuns, CatalogClosed(r) PROVE CallInv'
  <2>1. /\ listing' = [listing EXCEPT ![r] = Nothing] /\ listing[r] # Nothing
        /\ UNCHANGED <<adapters, cache, mcpRow, active, binding, mcpCall, allowed, sent>>
    BY <1>9 DEF CatalogClosed
  <2>2. mcpCall' = [mcpCall EXCEPT ![r] = "idle"]
    BY <1>0, <1>a, <2>1
  <2> QED
    BY <1>0, <1>a, <1>b, <2>1, <2>2, RunMoves
<1>10. ASSUME NEW r \in McpRuns, RunEnds(r) PROVE CallInv'
  <2>1. /\ binding' = [binding EXCEPT ![r] = 0] /\ mcpCall[r] = "idle" /\ binding[r] > 0
        /\ UNCHANGED <<adapters, cache, mcpRow, active, listing, mcpCall, allowed, sent>>
    BY <1>10 DEF RunEnds
  <2>2. mcpCall' = [mcpCall EXCEPT ![r] = "idle"]
    BY <1>0, <2>1
  <2>3. /\ listing' \in [McpRuns -> {Nothing} \cup Row] /\ binding' \in [McpRuns -> Nat] /\ allowed' \in [McpRuns -> BOOLEAN]
        /\ listing'[r] = Nothing /\ binding'[r] = 0 /\ 0 <= Len(adapters)
        /\ \A q \in McpRuns \ {r} : listing'[q] = listing[q] /\ binding'[q] = binding[q] /\ allowed'[q] = allowed[q]
    BY <1>0, <1>a, <2>1
  <2>4. Honest'
    BY <1>b, <2>1
  <2> QED
    BY <2>1, <2>2, <2>3, <2>4, RunMoves
<1>11. ASSUME NEW r \in McpRuns, Enter(r) PROVE CallInv'
  <2>1. /\ mcpCall' = [mcpCall EXCEPT ![r] = "entered"] /\ binding[r] > 0
        /\ UNCHANGED <<adapters, cache, mcpRow, active, listing, binding, allowed, sent>>
    BY <1>11 DEF Enter
  <2>2. /\ listing' \in [McpRuns -> {Nothing} \cup Row] /\ binding' \in [McpRuns -> Nat] /\ allowed' \in [McpRuns -> BOOLEAN]
        /\ listing'[r] = Nothing /\ binding'[r] > 0 /\ binding'[r] <= Len(adapters)
        /\ \A q \in McpRuns \ {r} : listing'[q] = listing[q] /\ binding'[q] = binding[q] /\ allowed'[q] = allowed[q]
    BY <1>0, <1>a, <2>1
  <2>3. Honest'
    BY <1>b, <2>1
  <2> QED
    BY <2>1, <2>2, <2>3, RunMoves
<1>12. ASSUME NEW r \in McpRuns, Relist(r) PROVE CallInv'
  <2>1. /\ mcpCall' = [mcpCall EXCEPT ![r] = "listed"] /\ mcpCall[r] = "entered"
        /\ allowed' = [allowed EXCEPT ![r] = authorizes(mcpRow, active, frozen(r))]
        /\ sent' = sent \cup {[run |-> r, frozen |-> frozen(r).discovery.def, listed |-> remote[frozen(r).url],
                               dispatched |-> FALSE]}
        /\ remote[frozen(r).url] = frozen(r).discovery.def
        /\ UNCHANGED <<adapters, cache, mcpRow, active, listing, binding>>
    BY <1>12 DEF Relist, sameDefinition
  <2>2. frozen(r) \in Row /\ frozen(r).url \in Urls
    <3>1. binding[r] \in 1..Len(adapters)
      BY <1>0, <1>a, <2>1
    <3>2. adapters[binding[r]] \in Adapter
      BY <1>0, <3>1
    <3> QED
      BY <3>2 DEF frozen, Adapter, Row
  <2>3. remote[frozen(r).url] \in Listed
    BY <1>0, <2>2
  <2>4. Honest'
    <3> DEFINE new == [run |-> r, frozen |-> frozen(r).discovery.def, listed |-> remote[frozen(r).url], dispatched |-> FALSE]
    <3>1. frozen(r).discovery.def \in Listed \cup {"none"}
      BY <2>1, <2>3
    <3>2. new \in [run : McpRuns, frozen : Listed \cup {"none"}, listed : Listed, dispatched : BOOLEAN]
      BY <1>12, <2>3, <3>1
    <3>3. new.listed = new.frozen
      BY <2>1
    <3>4. sent' = sent \cup {new}
      BY <2>1
    <3> HIDE DEF new
    <3> QED
      BY <3>2, <3>3, <3>4 DEF CallInv, Honest
  <2>5. allowed' \in [McpRuns -> BOOLEAN] /\ (authorizes(mcpRow, active, adapters[binding[r]].c) => allowed'[r])
        /\ \A q \in McpRuns \ {r} : allowed'[q] = allowed[q]
    <3>1. authorizes(mcpRow, active, frozen(r)) \in BOOLEAN
      BY DEF authorizes
    <3> QED
      BY <1>0, <2>1, <3>1 DEF frozen
  <2> QED
    BY <1>0, <1>a, <2>1, <2>4, <2>5, RunMoves
<1>13. ASSUME NEW r \in McpRuns, Authorize(r) PROVE CallInv'
  <2>1. /\ mcpCall' = [mcpCall EXCEPT ![r] = "authorized"] /\ mcpCall[r] = "listed" /\ authorizes(mcpRow, active, frozen(r))
        /\ UNCHANGED <<adapters, cache, mcpRow, active, listing, binding, allowed, sent>>
    BY <1>13 DEF Authorize, authorized
  <2>2. allowed[r]
    BY <2>1 DEF CallInv, Permitted
  <2> QED
    BY <1>0, <1>a, <1>b, <2>1, <2>2, RunMoves
<1>14. ASSUME NEW r \in McpRuns, CallTool(r) \/ CallFails(r) PROVE CallInv'
  <2>1. /\ mcpCall' = [mcpCall EXCEPT ![r] = "idle"]
        /\ UNCHANGED <<adapters, cache, mcpRow, active, listing, binding, allowed>>
    BY <1>14 DEF CallTool, CallFails
  <2>2. Honest'
    <3>1. CASE CallFails(r)
      BY <3>1 DEF CallFails, CallInv, Honest
    <3>2. CASE CallTool(r)
      <4>1. sent' = {[s EXCEPT !.dispatched = (s.dispatched \/ s.run = r)] : s \in sent}
        BY <3>2 DEF CallTool
      <4>2. \A s \in sent : LET d == [s EXCEPT !.dispatched = (s.dispatched \/ s.run = r)] IN
              /\ d \in [run : McpRuns, frozen : Listed \cup {"none"}, listed : Listed, dispatched : BOOLEAN]
              /\ d.listed = d.frozen
        BY DEF CallInv, Honest
      <4> QED
        BY <4>1, <4>2 DEF Honest
    <3> QED
      BY <1>14, <3>1, <3>2
  <2> QED
    BY <1>0, <1>a, <2>1, <2>2, RunMoves
<1> QED
  BY <1>1, <1>2, <1>3, <1>4, <1>5, <1>6, <1>7, <1>8, <1>9, <1>10, <1>11, <1>12, <1>13, <1>14 DEF McpNext

\* Edits, Tests, Catalogs, calls and the server's own changes, in any order and number,
\* leave no call, listing or client of an earlier connection: a Run calls what it froze
\* (Relist), a withdrawal before the boundary stops the call (SetCallAuthorization), every
\* open adapter is the cached one, the stored discovery rowFits the stored endpoint, and a
\* Test undoes no edit (SaveMCPConnection's revision).
THEOREM ConnectionsCorrect == McpSpec => ConnectionsSafe
<1>1. McpInit => RowInv /\ CallInv
  <2> SUFFICES ASSUME McpInit PROVE RowInv /\ CallInv
    OBVIOUS
  <2>1. mcpRow \in Row /\ rowFits(mcpRow)
    <3>1. PICK u \in Urls : mcpRow = [deleted |-> FALSE, url |-> u, auth |-> "none", cipher |-> NoCipher, enabled |-> FALSE,
                 status |-> "configured", discovery |-> NoDefinition, selected |-> FALSE, revision |-> 1]
      BY DEF McpInit
    <3>2. NoCipher \in CipherText /\ NoDefinition \in Discovery
      BY DEF NoCipher, NoDefinition, CipherText, Discovery
    <3> QED
      BY <3>1, <3>2 DEF Row, rowFits
  <2>2. RowInv
    BY <2>1 DEF McpInit, RowInv, RowTypes, Fit, Current, Listed
  <2>3. CallTypes
    BY DEF McpInit, CallTypes
  <2> QED
    BY <2>2, <2>3 DEF McpInit, CallInv, Open, Bound, Permitted, Honest
<1>2. RowInv /\ CallInv => FrozenDefinitionsOnly /\ OpenAdaptersAreCached /\ DiscoveryFitsEndpoint
  <2> SUFFICES ASSUME RowInv, CallInv PROVE FrozenDefinitionsOnly /\ OpenAdaptersAreCached /\ DiscoveryFitsEndpoint
    OBVIOUS
  <2>1. DOMAIN adapters = 1..Len(adapters)
    BY DEF CallInv, CallTypes
  <2> QED
    BY <2>1 DEF RowInv, Fit, rowFits, CallInv, Open, Honest, FrozenDefinitionsOnly, OpenAdaptersAreCached,
                DiscoveryFitsEndpoint, requests
<1>3. RowInv /\ CallInv /\ [McpNext]_mcpVars => [withdrawalStopsCall /\ testsNeverUndoEdits]_mcpVars
  BY RowInductive DEF CallInv, Permitted, withdrawalStopsCall, testsNeverUndoEdits, sameEdit
<1> QED
  BY <1>1, <1>2, <1>3, RowInductive, CallInductive, PTL DEF McpSpec, ConnectionsSafe

----------------------------------------------------------------------------
(* The authority of a Run.  A call asks two policies, the frozen and the    *)
(* current one, and each is a set of rules with one rule per Tool: a Tool   *)
(* that is granted is not also denied.  The identity of the execution Run   *)
(* is what counts approvals (Counted).                                      *)

Counted ==
  /\ status \in [Runs -> {"none", "running", "interrupted", "failed", "completed"}]
  /\ executions = IF status["execution"] = "none" THEN 0 ELSE 1

LEMMA CountedInductive == Counted /\ [AuthorityNext]_authorityVars => Counted'
<1> SUFFICES ASSUME Counted, [AuthorityNext]_authorityVars PROVE Counted'
  OBVIOUS
<1>0. status \in [Runs -> {"none", "running", "interrupted", "failed", "completed"}] /\ "execution" \in Runs /\ "run" \in Runs
  BY DEF Counted, Runs
<1>1. CASE UNCHANGED <<status, executions>>
  BY <1>1 DEF Counted
<1>2. ASSUME NEW plan \in BOOLEAN, PrepareRun(plan) PROVE Counted'
  BY <1>0, <1>2 DEF PrepareRun, Counted
<1>3. ASSUME NEW r \in Runs, RestoreRuntime(r) \/ AuthorityCrash(r) PROVE Counted'
  <2>1. status[r] # "none" /\ executions' = executions
        /\ \E s \in {"running", "interrupted", "failed"} : status' = [status EXCEPT ![r] = s]
    BY <1>3 DEF RestoreRuntime, AuthorityCrash
  <2> QED
    BY <1>0, <2>1 DEF Counted
<1>4. CASE CompletePlan
  BY <1>0, <1>4 DEF CompletePlan, Counted
<1>5. ASSUME NEW peer \in BOOLEAN, StartExecution(peer) PROVE Counted'
  BY <1>0, <1>5 DEF StartExecution, createExecution, ExecutionRunID, Counted
<1>6. CASE SaveConfig \/ LoadConfig \/ Reload \/ ReplaceBindings \/ PeerFindsNoRow \/ PeerInserts \/ UpdateAgent \/ Archive
            \/ ResolvePlan \/ UNCHANGED authorityVars
  BY <1>1, <1>6 DEF SaveConfig, LoadConfig, Reload, ReplaceBindings, PeerFindsNoRow, PeerInserts, UpdateAgent, Archive,
                    ResolvePlan, authorityVars
<1>7. ASSUME NEW t \in Bindings, NEW b \in BOOLEAN, SetWorkspaceToolEnabled(t, b) PROVE Counted'
  BY <1>1, <1>7 DEF SetWorkspaceToolEnabled
<1>8. ASSUME NEW r \in Runs, NEW t \in Bindings, NEW s \in Scopes[t], Call(r, t, s) PROVE Counted'
  BY <1>1, <1>8 DEF Call
<1> QED
  BY <1>2, <1>3, <1>4, <1>5, <1>6, <1>7, <1>8 DEF AuthorityNext

\* A policy that grants a call does not deny its Tool.
LEMMA GrantedIsNotDenied ==
  ASSUME NEW rules, NEW default, NEW t, NEW scope, NEW available, Evaluate(rules, default, t, scope, available)
  PROVE  \A u \in rules : u.tool = t => u.action \in {"allow", "allow_and_log"}
<1>1. \A u, w \in rules : u.tool = w.tool => u = w
  BY DEF Evaluate, ValidatePolicy
<1>2. {u \in rules : u.tool = t} # {} => \E u \in rules : u.tool = t /\ u.action \in {"allow", "allow_and_log"}
  BY DEF Evaluate, decisionForAction
<1> QED
  BY <1>1, <1>2

\* Only a call moves the last call, and it passed both decisions.
LEMMA CallsAsk ==
  ASSUME [AuthorityNext]_authorityVars, last' # last
  PROVE  \E r \in Runs, t \in Bindings : \E s \in Scopes[t] : Call(r, t, s)
BY DEF AuthorityNext, SaveConfig, LoadConfig, Reload, ReplaceBindings, PeerFindsNoRow, PeerInserts, SetWorkspaceToolEnabled,
       UpdateAgent, Archive, PrepareRun, RestoreRuntime, AuthorityCrash, CompletePlan, ResolvePlan, StartExecution, authorityVars

\* The steps of the allowlist: once there is a row, one command changes one Tool.
LEMMA AllowlistMoves ==
  ASSUME [AuthorityNext]_authorityVars, row # NoRow, row' # row
  PROVE  \E t \in Bindings : \E permitted \in {row.allowed \cup {t}, row.allowed \ {t}} : row' = [allowed |-> permitted, rev |-> row.rev + 1]
<1>1. \A initial : EnsureWorkspaceToolConfig(row, initial) = row
  BY DEF EnsureWorkspaceToolConfig
<1>2. ASSUME NEW t \in Bindings, NEW b \in BOOLEAN, SetWorkspaceToolEnabled(t, b)
      PROVE  row' = [allowed |-> IF b THEN row.allowed \cup {t} ELSE row.allowed \ {t}, rev |-> row.rev + 1]
  BY <1>1, <1>2 DEF SetWorkspaceToolEnabled
<1>3. insertedRow = row
  BY DEF insertedRow
<1>4. \E t \in Bindings, b \in BOOLEAN : SetWorkspaceToolEnabled(t, b)
  BY <1>1, <1>3 DEF AuthorityNext, SaveConfig, LoadConfig, Reload, ReplaceBindings, PeerFindsNoRow, PeerInserts, UpdateAgent, Archive,
         PrepareRun, RestoreRuntime, AuthorityCrash, CompletePlan, ResolvePlan, StartExecution, Call, authorityVars
<1> QED
  BY <1>2, <1>4

\* Whatever operator, owner, discovery, restarts and racing approvals do, a call stays inside
\* every grant, the frozen and the current ones; a plan reads only, keeps what it read and is
\* executed once (evaluateSecurity, authorizeTool, resolvePlan).
THEOREM AuthorityCorrect == AuthoritySpec => AuthorityHolds
<1>1. AuthorityInit => Counted
  BY DEF AuthorityInit, Counted, Runs
<1>2. Counted => PlanExecutedOnce
  BY DEF Counted, PlanExecutedOnce
<1>3. [AuthorityNext]_authorityVars => [callsStayInsideEveryGrant /\ plansStayReadOnlyAndPrivate]_authorityVars
  <2> SUFFICES ASSUME [AuthorityNext]_authorityVars, last' # last
               PROVE  callsStayInsideEveryGrant /\ plansStayReadOnlyAndPrivate
    BY DEF callsStayInsideEveryGrant, plansStayReadOnlyAndPrivate
  <2>1. PICK r \in Runs, t \in Bindings : \E s \in Scopes[t] : Call(r, t, s)
    BY CallsAsk
  <2>2. PICK s \in Scopes[t] : Call(r, t, s)
    BY <2>1
  <2>3. last'.run = r /\ last'.tool = t /\ evaluateSecurity(r, t, s) /\ authorizeTool(r, t, s)
    BY <2>2 DEF Call
  <2>4. /\ Evaluate(snap[r].rules, snap[r].default, t, s, credentialScopes(authorityReady[r].names))
        /\ Evaluate(WithRules, authorityLoaded.cfg.default, t, s, credentialScopes(authorityReady[r].names))
    BY <2>3 DEF evaluateSecurity, authorizeTool
  <2>5. /\ \A u \in snap[r].rules : u.tool = t => u.action \in {"allow", "allow_and_log"}
        /\ \A u \in authorityLoaded.cfg.rules : u.tool = t => u.action \in {"allow", "allow_and_log"}
    BY <2>4, GrantedIsNotDenied DEF WithRules
  <2>6. defs[t] > 0 /\ t \in row'.allowed
    BY <2>2, <2>3 DEF Call, authorizeTool, Resolve, enabledNames
  <2>7. callsStayInsideEveryGrant
    BY <2>3, <2>5, <2>6 DEF callsStayInsideEveryGrant, authorizeTool, toolDefinitionMatches, currentRunAgent, withHarnessTools
  <2>8. plansStayReadOnlyAndPrivate
    BY <2>3 DEF plansStayReadOnlyAndPrivate, evaluateSecurity, AllowsPlanning, TransmitsData
  <2> QED
    BY <2>7, <2>8
<1>4. [AuthorityNext]_authorityVars => [allowlistIsDecidedOnce]_authorityVars
  <2> SUFFICES ASSUME [AuthorityNext]_authorityVars, row # NoRow, row' # row
               PROVE  row'.rev = row.rev + 1 /\ Cardinality((row'.allowed \ row.allowed) \cup (row.allowed \ row'.allowed)) <= 1
    BY DEF allowlistIsDecidedOnce
  <2>1. PICK t \in Bindings : \E permitted \in {row.allowed \cup {t}, row.allowed \ {t}} : row' = [allowed |-> permitted, rev |-> row.rev + 1]
    BY AllowlistMoves
  <2> DEFINE D == (row'.allowed \ row.allowed) \cup (row.allowed \ row'.allowed)
  <2>2. D = {} \/ D = {t}
    BY <2>1
  <2>3. Cardinality({}) = 0 /\ Cardinality({t}) = 1
    BY FS_EmptySet, FS_Singleton
  <2> QED
    BY <2>1, <2>2, <2>3
<1> QED
  BY <1>1, <1>2, <1>3, <1>4, CountedInductive, PTL DEF AuthoritySpec, AuthorityHolds

-----------------------------------------------------------------------------
(***************************************************************************)
(* The tool loop.  An identity counts: every identity an attempt used lies  *)
(* within its counters (Identified), the writer's counter is the writes that*)
(* ran and those still to run (Numbered), so the next write has the number  *)
(* its identity says, in this attempt and in every other.                   *)
(***************************************************************************)
SlotNames == names \cup {"unloaded"}
CallIds == (SlotNames \cup {"round"}) \X Nat

LoopTypes ==
  /\ mode \in {"eager", "lazy"} /\ turn \in {"none", "running", "waiting", "failed", "completed"}
  /\ at \in {"none", "model", "execute"} /\ (turn = "running" <=> at # "none")
  /\ discovery \in [active : SUBSET Tools, searches : Nat]
  /\ saved \in [exists : BOOLEAN, active : SUBSET Tools, searches : Nat]
  /\ slots \in [SlotNames -> Nat] /\ round \in Nat /\ count \in Nat /\ searched \in Nat
  /\ used \subseteq CallIds /\ found \subseteq Tools
  /\ batch \in Seq(names) /\ ids \in Seq(CallIds) /\ Len(ids) = Len(batch) /\ todo \subseteq DOMAIN batch
  /\ at # "execute" => batch = <<>> /\ ids = <<>>
  /\ turn = "waiting" => continuation.slots \in [SlotNames -> Nat] /\ continuation.round \in Nat

\* What was read protects the rest of the batch, of the Turn and of the Run.
Protected ==
  /\ turn = "running" /\ evidence => private
  /\ at = "execute" =>
       /\ context => private
       /\ \A i \in DOMAIN batch : batch[i] = "reader" => private
       /\ "reader" \in results => \E i \in DOMAIN batch : batch[i] = "reader"
       /\ "sender" \in results => \A i \in DOMAIN batch : batch[i] # "reader"
  /\ ~leaked

\* The searches that ran are those of the newest discovery event.
SearchesSaved ==
  /\ mode = "lazy" => searched <= saved.searches
  /\ mode = "eager" => searched = 0
  /\ saved.searches <= MaxSearchCalls /\ discovery.searches <= MaxSearchCalls
  /\ ~saved.exists => saved.searches = 0
  /\ mode = "lazy" /\ turn \in {"running", "waiting"} => saved.exists
  /\ mode = "lazy" /\ turn = "running" => saved.searches = discovery.searches

\* An identity lies within the counters of a round.
within(u, s, r) == IF mode = "lazy" THEN u[1] \in SlotNames /\ u[2] <= s[u[1]] ELSE u[2] <= r * BatchMax

Identified ==
  /\ at = "model" => \A u \in used : within(u, slots, round)
  /\ turn = "waiting" => \A u \in used : within(u, continuation.slots, continuation.round)
  /\ at = "execute" =>
       /\ \A u \in used : within(u, slots, round + 1)
       /\ \A i \in DOMAIN batch : within(ids[i], slots, round + 1)
       /\ \A i \in todo : ids[i] \notin used
       /\ \A i, j \in DOMAIN batch : ids[i] = ids[j] => i = j

\* The loaded writer's calls that have not run.
pendingWrites == {i \in todo : batch[i] = "writer" /\ "writer" \in discovery.active}
pendingAfter(i) == {j \in pendingWrites : j > i}

WritesNumbered ==
  mode = "lazy" /\ "writer" \in Tools =>
    /\ turn = "running" => slots["writer"] = count + Cardinality(pendingWrites)
    /\ turn = "waiting" => continuation.slots["writer"] = count
    /\ \A i \in pendingWrites : ids[i] = <<"writer", slots["writer"] - Cardinality(pendingAfter(i))>>

JournalNumbered == mode = "lazy" => \A e \in journal : e.id = <<"writer", e.nth>> /\ e.nth \in Nat

LoopInv == LoopTypes /\ Protected /\ SearchesSaved /\ Identified /\ WritesNumbered /\ JournalNumbered

\* An end of the Turn forgets the batch.
LEMMA LoopEnded ==
  ASSUME LoopInv, NEW how \in {"failed", "completed"}, ends(how),
         UNCHANGED <<mode, used, count, searched, leaked, saved, journal>>,
         discovery' \in [active : SUBSET Tools, searches : Nat], discovery'.searches <= MaxSearchCalls,
         slots' \in [SlotNames -> Nat], round' \in Nat
  PROVE  LoopInv'
<1>1. turn' = how /\ at' = "none" /\ batch' = <<>> /\ todo' = {} /\ results' = {} /\ ids' = <<>> /\ found' = {}
  BY DEF ends
<1>2. LoopTypes'
  <2>1. Len(ids') = Len(batch') /\ DOMAIN batch' = {}
    BY <1>1
  <2> QED
    BY <1>1, <2>1 DEF LoopInv, LoopTypes
<1>3. Protected'
  BY <1>1 DEF LoopInv, Protected
<1>4. SearchesSaved'
  BY <1>1 DEF LoopInv, SearchesSaved
<1>5. Identified'
  BY <1>1 DEF Identified
<1>6. WritesNumbered'
  <2>1. pendingWrites' = {}
    BY <1>1 DEF pendingWrites
  <2> QED
    BY <1>1, <2>1 DEF WritesNumbered
<1>7. JournalNumbered'
  BY DEF LoopInv, JournalNumbered
<1> QED
  BY <1>2, <1>3, <1>4, <1>5, <1>6, <1>7 DEF LoopInv

LEMMA LoopStarts ==
  ASSUME LoopInit
  PROVE  LoopInv
<1>1. mode \in {"eager", "lazy"} /\ MaxSearchCalls \in Nat
  BY LoopAssumption DEF LoopInit
<1>2. LoopTypes
  <2>1. Empty \in [active : SUBSET Tools, searches : Nat] /\ NoSlots \in [SlotNames -> Nat]
        /\ [exists |-> FALSE, active |-> {}, searches |-> 0] \in [exists : BOOLEAN, active : SUBSET Tools, searches : Nat]
    BY DEF Empty, NoSlots, SlotNames
  <2> QED
    BY <1>1, <2>1 DEF LoopInit, LoopTypes
<1>3. Protected
  BY DEF LoopInit, Protected
<1>4. SearchesSaved
  BY <1>1 DEF LoopInit, SearchesSaved, Empty
<1>5. Identified
  BY DEF LoopInit, Identified
<1>6. WritesNumbered
  BY DEF LoopInit, WritesNumbered, pendingWrites
<1> QED
  BY <1>2, <1>3, <1>4, <1>5, <1>6 DEF LoopInv, JournalNumbered, LoopInit

\* A first attempt or a retry, with what the Run's events say.
LEMMA StartKeeps ==
  ASSUME LoopInv, Start
  PROVE  LoopInv'
<1>1. /\ slots' = NoSlots /\ round' = 1 /\ used' = {} /\ count' = 0 /\ turn' = "running" /\ at' = "model"
      /\ private' = evidence /\ context' = FALSE /\ turn \in {"none", "failed"}
      /\ UNCHANGED <<mode, batch, todo, results, ids, found, evidence, journal, continuation, searched, leaked>>
  BY DEF Start, restored, fixed, loopCall
<1>2. at = "none" /\ batch = <<>> /\ todo = {} /\ ids = <<>>
  BY <1>1 DEF LoopInv, LoopTypes
<1>3. /\ discovery' \in [active : SUBSET Tools, searches : Nat] /\ saved' \in [exists : BOOLEAN, active : SUBSET Tools, searches : Nat]
      /\ saved'.searches = saved.searches /\ (mode = "lazy" => saved'.exists) /\ (saved'.exists \/ saved'.exists = saved.exists)
      /\ discovery'.searches \in {0, saved.searches}
      /\ mode = "lazy" => discovery'.searches = saved.searches
  <2>1. CASE mode = "lazy" /\ saved.exists
    BY <2>1 DEF Start, LoopInv, LoopTypes
  <2>2. CASE mode = "lazy" /\ ~saved.exists
    BY <2>2 DEF Start, LoopInv, LoopTypes, SearchesSaved, Empty
  <2>3. CASE mode # "lazy"
    BY <2>3 DEF Start, LoopInv, LoopTypes, Empty
  <2> QED
    BY <2>1, <2>2, <2>3
<1>4. LoopTypes'
  <2>1. NoSlots \in [SlotNames -> Nat]
    BY DEF NoSlots, SlotNames
  <2> QED
    BY <1>1, <1>2, <1>3, <2>1 DEF LoopInv, LoopTypes
<1>5. Protected'
  BY <1>1 DEF LoopInv, Protected
<1>6. SearchesSaved'
  BY <1>1, <1>3, LoopAssumption DEF LoopInv, SearchesSaved
<1>7. Identified'
  BY <1>1 DEF Identified
<1>8. WritesNumbered'
  <2>1. pendingWrites' = {}
    BY <1>1, <1>2 DEF pendingWrites
  <2>2. "writer" \in Tools => NoSlots["writer"] = 0
    BY DEF NoSlots, names
  <2> QED
    BY <1>1, <2>1, <2>2, FS_EmptySet DEF WritesNumbered
<1> QED
  BY <1>1, <1>4, <1>5, <1>6, <1>7, <1>8 DEF LoopInv, JournalNumbered

LEMMA ResumeKeeps ==
  ASSUME LoopInv, LoopResume
  PROVE  LoopInv'
<1>1. /\ slots' = continuation.slots /\ round' = continuation.round /\ turn = "waiting" /\ turn' = "running" /\ at' = "model"
      /\ private' = evidence
      /\ UNCHANGED <<mode, batch, todo, results, ids, found, saved, evidence, journal, used, count, searched, leaked>>
  BY DEF LoopResume, restored, resumedSlots, fixed, loopCall
<1>2. at = "none" /\ batch = <<>> /\ todo = {} /\ ids = <<>>
  BY <1>1 DEF LoopInv, LoopTypes
<1>3. /\ discovery' \in [active : SUBSET Tools, searches : Nat] /\ discovery'.searches \in {0, saved.searches}
      /\ mode = "lazy" => discovery'.searches = saved.searches
  <2>1. CASE mode = "lazy"
    BY <2>1 DEF LoopResume, LoopInv, LoopTypes
  <2>2. CASE mode # "lazy"
    BY <2>2 DEF LoopResume, LoopInv, LoopTypes, Empty
  <2> QED
    BY <2>1, <2>2
<1>4. LoopTypes'
  BY <1>1, <1>2, <1>3 DEF LoopInv, LoopTypes
<1>5. Protected'
  BY <1>1 DEF LoopInv, Protected
<1>6. SearchesSaved'
  BY <1>1, <1>3, LoopAssumption DEF LoopInv, SearchesSaved
<1>7. Identified'
  BY <1>1 DEF LoopInv, Identified, within
<1>8. WritesNumbered'
  <2>1. pendingWrites' = {}
    BY <1>1, <1>2 DEF pendingWrites
  <2>2. count \in Nat
    BY DEF LoopInv, LoopTypes
  <2> QED
    BY <1>1, <2>1, <2>2, FS_EmptySet DEF LoopInv, WritesNumbered
<1> QED
  BY <1>1, <1>4, <1>5, <1>6, <1>7, <1>8 DEF LoopInv, JournalNumbered

LEMMA SteerKeeps ==
  ASSUME LoopInv, AnswerThenSteer
  PROVE  LoopInv'
<1>1. /\ round' = round + 1 /\ turn = "running" /\ at = "model" /\ round \in Nat
      /\ UNCHANGED <<mode, turn, at, discovery, private, context, batch, todo, results, ids, found, slots,
                     saved, evidence, journal, continuation, used, count, searched, leaked>>
  BY DEF AnswerThenSteer, fixed, loopCall, durable, world, LoopInv, LoopTypes
<1>2. LoopTypes'
  BY <1>1 DEF LoopInv, LoopTypes
<1>3. Protected'
  BY <1>1 DEF LoopInv, Protected
<1>4. SearchesSaved'
  BY <1>1 DEF LoopInv, SearchesSaved
<1>5. Identified'
  <2>1. \A u \in used : within(u, slots, round)
    BY <1>1 DEF LoopInv, Identified
  <2>2. \A u \in used' : within(u, slots', round')
    <3>1. ASSUME NEW u \in used PROVE within(u, slots, round + 1)
      <4>1. u[2] \in Nat
        BY DEF LoopInv, LoopTypes, CallIds
      <4>2. round * BatchMax \in Nat /\ (round + 1) * BatchMax = round * BatchMax + BatchMax /\ BatchMax \in Nat
        BY <1>1, LoopAssumption
      <4>3. within(u, slots, round)
        BY <2>1
      <4> QED
        BY <4>1, <4>2, <4>3 DEF within
    <3> QED
      BY <1>1, <3>1 DEF within
  <2> QED
    BY <1>1, <2>2 DEF Identified, within
<1>6. WritesNumbered'
  BY <1>1 DEF LoopInv, WritesNumbered, pendingWrites, pendingAfter
<1> QED
  BY <1>1, <1>2, <1>3, <1>4, <1>5, <1>6 DEF LoopInv, JournalNumbered

\* A batch as a sequence of names.
LEMMA BatchShape ==
  ASSUME NEW calls \in batches
  PROVE  /\ calls \in Seq(names) /\ Len(calls) \in Nat /\ Len(calls) <= BatchMax /\ DOMAIN calls = 1..Len(calls)
         /\ IsFiniteSet(DOMAIN calls)
<1>1. PICK n \in 1..BatchMax : calls \in [1..n -> offered]
  BY DEF batches
<1>2. n \in Nat /\ n <= BatchMax
  BY <1>1, LoopAssumption
<1>3. offered \subseteq names
  BY DEF offered, names
<1>4. calls \in [1..n -> names]
  BY <1>1, <1>3
<1>5. calls \in Seq(names) /\ Len(calls) = n
  BY <1>2, <1>4, IsASeq
<1> QED
  BY <1>2, <1>4, <1>5, FS_Interval

\* The calls of a batch up to i that share the slot n.
sameSlot(calls, i, n) == {j \in 1..i : slotName(calls[j]) = n}

LEMMA SlotCounts ==
  ASSUME LoopTypes, NEW calls \in batches
  PROVE  /\ \A c \in names : slotName(c) \in SlotNames
         /\ \A i \in DOMAIN calls : slotName(calls[i]) \in SlotNames
         /\ \A i \in 0..Len(calls) : \A n : IsFiniteSet(sameSlot(calls, i, n)) /\ Cardinality(sameSlot(calls, i, n)) \in Nat
         /\ \A i, k \in 0..Len(calls) : \A n : i <= k =>
              Cardinality(sameSlot(calls, i, n)) <= Cardinality(sameSlot(calls, k, n))
         /\ \A i, k \in DOMAIN calls : i < k =>
              Cardinality(sameSlot(calls, i, slotName(calls[k]))) < Cardinality(sameSlot(calls, k, slotName(calls[k])))
         /\ \A i \in DOMAIN calls : 1 <= Cardinality(sameSlot(calls, i, slotName(calls[i])))
<1>1. calls \in Seq(names) /\ Len(calls) \in Nat /\ DOMAIN calls = 1..Len(calls)
  BY BatchShape
<1>2. \A c \in names : slotName(c) \in SlotNames
  BY DEF slotName, SlotNames, names, LoopTypes
<1>3. \A i \in DOMAIN calls : slotName(calls[i]) \in SlotNames
  BY <1>1, <1>2
<1>4. ASSUME NEW i \in 0..Len(calls), NEW n
      PROVE  IsFiniteSet(sameSlot(calls, i, n)) /\ Cardinality(sameSlot(calls, i, n)) \in Nat
  <2>1. IsFiniteSet(1..i)
    BY <1>1, FS_Interval
  <2>2. sameSlot(calls, i, n) \subseteq 1..i
    BY DEF sameSlot
  <2> QED
    BY <2>1, <2>2, FS_Subset, FS_CardinalityType
<1>5. ASSUME NEW i \in 0..Len(calls), NEW k \in 0..Len(calls), NEW n, i <= k
      PROVE  Cardinality(sameSlot(calls, i, n)) <= Cardinality(sameSlot(calls, k, n))
  <2>1. sameSlot(calls, i, n) \subseteq sameSlot(calls, k, n)
    BY <1>1, <1>5 DEF sameSlot
  <2> QED
    BY <1>4, <2>1, FS_Subset
<1>6. ASSUME NEW i \in DOMAIN calls, NEW k \in DOMAIN calls, i < k
      PROVE  Cardinality(sameSlot(calls, i, slotName(calls[k]))) < Cardinality(sameSlot(calls, k, slotName(calls[k])))
  <2> DEFINE n == slotName(calls[k])
             S == sameSlot(calls, i, n)
             T == sameSlot(calls, k, n)
  <2>1. S \subseteq T /\ k \in T /\ k \notin S
    BY <1>1, <1>6 DEF sameSlot
  <2>2. i \in 0..Len(calls) /\ k \in 0..Len(calls)
    BY <1>1
  <2>3. IsFiniteSet(S) /\ IsFiniteSet(T) /\ Cardinality(S) \in Nat /\ Cardinality(T) \in Nat
    BY <1>4, <2>2
  <2>4. Cardinality(S) <= Cardinality(T) /\ (Cardinality(S) = Cardinality(T) => S = T)
    BY <2>1, <2>3, FS_Subset
  <2> QED
    BY <2>1, <2>3, <2>4
<1>7. ASSUME NEW i \in DOMAIN calls PROVE 1 <= Cardinality(sameSlot(calls, i, slotName(calls[i])))
  <2>1. i \in sameSlot(calls, i, slotName(calls[i])) /\ i \in 0..Len(calls)
    BY <1>1 DEF sameSlot
  <2> QED
    BY <1>4, <2>1, FS_EmptySet
<1> QED
  BY <1>2, <1>3, <1>4, <1>5, <1>6, <1>7

LEMMA RoundIds ==
  ASSUME LoopInv, NEW calls \in batches, at = "model",
         slots' = IF mode = "eager" THEN slots
                  ELSE [n \in DOMAIN slots |-> slots[n] + Cardinality({i \in DOMAIN calls : slotName(calls[i]) = n})]
  PROVE  /\ slots' \in [SlotNames -> Nat]
         /\ \A n \in SlotNames : slots[n] <= slots'[n]
         /\ mode = "lazy" => \A n \in SlotNames : slots'[n] = slots[n] + Cardinality(sameSlot(calls, Len(calls), n))
         /\ [i \in DOMAIN calls |-> callId(calls, i)] \in Seq(CallIds)
         /\ \A i \in DOMAIN calls : callId(calls, i) \notin used /\ within(callId(calls, i), slots', round + 1)
         /\ \A i, k \in DOMAIN calls : callId(calls, i) = callId(calls, k) => i = k
<1>1. /\ mode \in {"eager", "lazy"} /\ slots \in [SlotNames -> Nat] /\ round \in Nat /\ used \subseteq CallIds /\ LoopTypes
      /\ \A u \in used : within(u, slots, round)
  BY DEF LoopInv, LoopTypes, Identified
<1>2. calls \in Seq(names) /\ Len(calls) \in Nat /\ DOMAIN calls = 1..Len(calls) /\ Len(calls) <= BatchMax /\ BatchMax \in Nat
  BY BatchShape, LoopAssumption
<1>3. round * BatchMax \in Nat /\ (round + 1) * BatchMax = round * BatchMax + BatchMax
  BY <1>1, <1>2
<1>4. CASE mode = "eager"
  <2>1. slots' = slots
    BY <1>4
  <2>2. \A i \in DOMAIN calls : callId(calls, i) = <<"round", round * BatchMax + i>> /\ round * BatchMax + i \in Nat
    BY <1>2, <1>3, <1>4 DEF callId
  <2>3. \A i \in DOMAIN calls : callId(calls, i) \in CallIds
    BY <2>2 DEF CallIds
  <2>4. [i \in DOMAIN calls |-> callId(calls, i)] \in Seq(CallIds)
    BY <1>2, <2>3, IsASeq
  <2>5. ASSUME NEW i \in DOMAIN calls PROVE callId(calls, i) \notin used /\ within(callId(calls, i), slots', round + 1)
    <3>1. i \in Nat /\ 1 <= i /\ i <= BatchMax
      BY <1>2
    <3>2. PICK b \in Nat : b = round * BatchMax
      BY <1>3
    <3>3. (round + 1) * BatchMax = b + BatchMax /\ callId(calls, i) = <<"round", b + i>>
      BY <1>3, <2>2, <3>2
    <3>4. callId(calls, i)[2] = b + i /\ b + i <= b + BatchMax /\ ~(b + i <= b)
      BY <1>2, <3>1, <3>3
    <3>5. within(callId(calls, i), slots', round + 1)
      BY <1>4, <3>3, <3>4 DEF within
    <3>6. ~within(callId(calls, i), slots, round)
      BY <1>4, <3>2, <3>4 DEF within
    <3> QED
      BY <1>1, <3>5, <3>6
  <2>6. ASSUME NEW i \in DOMAIN calls, NEW k \in DOMAIN calls, callId(calls, i) = callId(calls, k) PROVE i = k
    BY <1>2, <1>3, <2>2, <2>6
  <2> QED
    BY <1>1, <1>4, <2>1, <2>4, <2>5, <2>6
<1>5. CASE mode = "lazy"
  <2>1. \A n : {i \in DOMAIN calls : slotName(calls[i]) = n} = sameSlot(calls, Len(calls), n)
    BY <1>2 DEF sameSlot
  <2>2. slots' = [n \in SlotNames |-> slots[n] + Cardinality(sameSlot(calls, Len(calls), n))]
    BY <1>1, <1>5, <2>1
  <2>3. \A n \in SlotNames : slots'[n] = slots[n] + Cardinality(sameSlot(calls, Len(calls), n))
    BY <2>2
  <2>4. Len(calls) \in 0..Len(calls) /\ DOMAIN calls \subseteq 0..Len(calls)
    BY <1>2
  <2>5. \A n \in SlotNames : slots[n] \in Nat /\ Cardinality(sameSlot(calls, Len(calls), n)) \in Nat
    BY <1>1, <2>4, SlotCounts
  <2>6. slots' \in [SlotNames -> Nat] /\ \A n \in SlotNames : slots[n] <= slots'[n]
    BY <2>2, <2>3, <2>5
  <2>7. \A i \in DOMAIN calls :
          callId(calls, i) = <<slotName(calls[i]), slots[slotName(calls[i])] + Cardinality(sameSlot(calls, i, slotName(calls[i])))>>
    BY <1>5 DEF callId, slotIn, sameSlot
  <2>8. \A i \in DOMAIN calls :
          /\ slotName(calls[i]) \in SlotNames /\ slots[slotName(calls[i])] \in Nat
          /\ Cardinality(sameSlot(calls, i, slotName(calls[i]))) \in Nat
          /\ 1 <= Cardinality(sameSlot(calls, i, slotName(calls[i])))
          /\ Cardinality(sameSlot(calls, i, slotName(calls[i]))) <= Cardinality(sameSlot(calls, Len(calls), slotName(calls[i])))
    BY <1>1, <1>2, <2>4, SlotCounts
  <2>9. \A i \in DOMAIN calls : callId(calls, i) \in CallIds
    BY <2>7, <2>8 DEF CallIds
  <2>10. [i \in DOMAIN calls |-> callId(calls, i)] \in Seq(CallIds)
    BY <1>2, <2>9, IsASeq
  <2>11. ASSUME NEW i \in DOMAIN calls PROVE callId(calls, i) \notin used /\ within(callId(calls, i), slots', round + 1)
    <3>1. PICK n \in SlotNames : n = slotName(calls[i])
      BY <2>8
    <3>2. PICK c \in Nat : c = Cardinality(sameSlot(calls, i, n))
      BY <2>8, <3>1
    <3>3. callId(calls, i) = <<n, slots[n] + c>> /\ 1 <= c /\ slots[n] \in Nat /\ slots[n] + c <= slots'[n] /\ slots[n] + c > slots[n]
      <4>1. PICK d \in Nat : d = Cardinality(sameSlot(calls, Len(calls), n))
        BY <2>5
      <4>2. c <= d /\ 1 <= c
        BY <2>8, <3>1, <3>2, <4>1
      <4>3. slots'[n] = slots[n] + d /\ slots[n] \in Nat
        BY <2>3, <2>5, <4>1
      <4>4. callId(calls, i) = <<n, slots[n] + c>>
        BY <2>7, <3>1, <3>2
      <4> QED
        BY <4>2, <4>3, <4>4
    <3>4. within(callId(calls, i), slots', round + 1)
      BY <1>5, <3>3 DEF within
    <3>5. ~(slots[n] + c <= slots[n])
      BY <3>3
    <3>6. ~within(callId(calls, i), slots, round)
      BY <1>5, <3>3, <3>5 DEF within
    <3> QED
      BY <1>1, <3>4, <3>6
  <2>12. ASSUME NEW i \in DOMAIN calls, NEW k \in DOMAIN calls, callId(calls, i) = callId(calls, k), i < k PROVE FALSE
    <3>1. slotName(calls[i]) = slotName(calls[k])
      BY <2>7, <2>12
    <3>2. slots[slotName(calls[k])] + Cardinality(sameSlot(calls, i, slotName(calls[k])))
            = slots[slotName(calls[k])] + Cardinality(sameSlot(calls, k, slotName(calls[k])))
      BY <2>7, <2>12, <3>1
    <3>3. Cardinality(sameSlot(calls, i, slotName(calls[k]))) < Cardinality(sameSlot(calls, k, slotName(calls[k])))
      BY <1>1, <2>12, SlotCounts
    <3>4. /\ Cardinality(sameSlot(calls, i, slotName(calls[k]))) \in Nat
          /\ Cardinality(sameSlot(calls, k, slotName(calls[k]))) \in Nat /\ slots[slotName(calls[k])] \in Nat
      BY <2>8, <3>1
    <3> QED
      BY <3>2, <3>3, <3>4
  <2>13. \A i, k \in DOMAIN calls : callId(calls, i) = callId(calls, k) => i = k
    <3>1. \A i, k \in DOMAIN calls : i < k \/ k < i \/ i = k
      BY <1>2
    <3> QED
      BY <2>12, <3>1
  <2> QED
    BY <1>5, <2>3, <2>6, <2>10, <2>11, <2>13
<1> QED
  BY <1>1, <1>4, <1>5

LEMMA RoundKeeps ==
  ASSUME LoopInv, NEW calls \in batches, ToolRound(calls)
  PROVE  LoopInv'
<1>1. /\ turn = "running" /\ at = "model" /\ at' = "execute" /\ batch' = calls /\ todo' = DOMAIN calls /\ results' = {} /\ found' = {}
      /\ ids' = [i \in DOMAIN calls |-> callId(calls, i)] /\ private' = (private \/ context \/ protectedBatch(calls))
      /\ slots' = IF mode = "eager" THEN slots
                  ELSE [n \in DOMAIN slots |-> slots[n] + Cardinality({i \in DOMAIN calls : slotName(calls[i]) = n})]
      /\ UNCHANGED <<mode, turn, discovery, context, round, saved, evidence, journal, continuation, used, count, searched, leaked>>
  BY DEF ToolRound, fixed, durable, world
<1>2. calls \in Seq(names) /\ Len(calls) \in Nat /\ DOMAIN calls = 1..Len(calls) /\ IsFiniteSet(DOMAIN calls)
  BY BatchShape
<1>3. /\ slots' \in [SlotNames -> Nat]
      /\ \A n \in SlotNames : slots[n] <= slots'[n]
      /\ mode = "lazy" => \A n \in SlotNames : slots'[n] = slots[n] + Cardinality(sameSlot(calls, Len(calls), n))
      /\ ids' \in Seq(CallIds)
      /\ \A i \in DOMAIN calls : callId(calls, i) \notin used /\ within(callId(calls, i), slots', round + 1)
      /\ \A i, k \in DOMAIN calls : callId(calls, i) = callId(calls, k) => i = k
  BY <1>1, RoundIds
<1>4. DOMAIN ids' = DOMAIN calls /\ \A i \in DOMAIN calls : ids'[i] = callId(calls, i)
  BY <1>1
<1>5. Len(ids') = Len(calls)
  BY <1>2, <1>3, <1>4
<1>6. LoopTypes'
  BY <1>1, <1>2, <1>3, <1>5 DEF LoopInv, LoopTypes
<1>7. Protected'
  <2>1. \A i \in DOMAIN batch' : batch'[i] = "reader" => private'
    BY <1>1 DEF protectedBatch
  <2> QED
    BY <1>1, <2>1 DEF LoopInv, Protected
<1>8. SearchesSaved'
  BY <1>1 DEF LoopInv, SearchesSaved
<1>9. Identified'
  <2>1. \A u \in used : within(u, slots', round + 1)
    <3>1. ASSUME NEW u \in used PROVE within(u, slots', round + 1)
      <4>1. u[1] \in SlotNames \cup {"round"} /\ u[2] \in Nat /\ within(u, slots, round)
        BY <1>1 DEF LoopInv, LoopTypes, CallIds, Identified
      <4>2. CASE mode = "lazy"
        <5>1. u[1] \in SlotNames /\ u[2] <= slots[u[1]] /\ slots[u[1]] <= slots'[u[1]] /\ slots[u[1]] \in Nat /\ slots'[u[1]] \in Nat
          BY <1>3, <4>1, <4>2 DEF within, LoopInv, LoopTypes
        <5> QED
          BY <4>1, <4>2, <5>1 DEF within
      <4>3. CASE mode # "lazy"
        <5>1. round \in Nat /\ BatchMax \in Nat
          BY LoopAssumption DEF LoopInv, LoopTypes
        <5>2. round * BatchMax \in Nat /\ (round + 1) * BatchMax = round * BatchMax + BatchMax
          BY <5>1
        <5>3. u[2] <= round * BatchMax
          BY <4>1, <4>3 DEF within
        <5>4. u[2] <= (round + 1) * BatchMax
          BY <4>1, <5>1, <5>2, <5>3
        <5> QED
          BY <4>3, <5>4 DEF within
      <4> QED
        BY <4>2, <4>3
    <3> QED
      BY <3>1
  <2>2. \A u : within(u, slots', round + 1) <=> (IF mode' = "lazy" THEN u[1] \in SlotNames /\ u[2] <= slots'[u[1]] ELSE u[2] <= (round' + 1) * BatchMax)
    BY <1>1 DEF within
  <2>3. \A u \in used' : IF mode' = "lazy" THEN u[1] \in SlotNames /\ u[2] <= slots'[u[1]] ELSE u[2] <= (round' + 1) * BatchMax
    BY <1>1, <2>1, <2>2
  <2>4. \A i \in DOMAIN batch' : IF mode' = "lazy" THEN ids'[i][1] \in SlotNames /\ ids'[i][2] <= slots'[ids'[i][1]] ELSE ids'[i][2] <= (round' + 1) * BatchMax
    BY <1>1, <1>3, <1>4, <2>2
  <2>5. \A i \in todo' : ids'[i] \notin used'
    BY <1>1, <1>3, <1>4
  <2>6. \A i, j \in DOMAIN batch' : ids'[i] = ids'[j] => i = j
    BY <1>1, <1>3, <1>4
  <2> QED
    BY <1>1, <2>3, <2>4, <2>5, <2>6 DEF Identified, within
<1>10. WritesNumbered'
  <2> SUFFICES ASSUME mode = "lazy", "writer" \in Tools
               PROVE  /\ slots'["writer"] = count + Cardinality(pendingWrites')
                      /\ \A i \in pendingWrites' : ids'[i] = <<"writer", slots'["writer"] - Cardinality(pendingAfter(i)')>>
    BY <1>1 DEF WritesNumbered
  <2>1. "writer" \in SlotNames /\ LoopTypes /\ count \in Nat
    BY DEF SlotNames, names, LoopInv, LoopTypes
  <2>2. todo = {}
    BY <1>1 DEF LoopInv, LoopTypes
  <2>3. slots["writer"] = count
    <3>1. pendingWrites = {}
      BY <2>2 DEF pendingWrites
    <3> QED
      BY <1>1, <2>1, <3>1, FS_EmptySet DEF LoopInv, WritesNumbered
  <2>4. pendingWrites' = {i \in DOMAIN calls : calls[i] = "writer" /\ "writer" \in discovery.active}
    BY <1>1 DEF pendingWrites
  <2>5. \A i \in DOMAIN calls : slotName(calls[i]) = "writer" <=> calls[i] = "writer" /\ "writer" \in discovery.active
    BY DEF slotName
  <2>6. pendingWrites' = sameSlot(calls, Len(calls), "writer")
    BY <1>2, <2>4, <2>5 DEF sameSlot
  <2>7. slots'["writer"] = count + Cardinality(pendingWrites')
    BY <1>3, <2>1, <2>3, <2>6
  <2>8. ASSUME NEW i \in pendingWrites' PROVE ids'[i] = <<"writer", slots'["writer"] - Cardinality(pendingAfter(i)')>>
    <3>1. i \in DOMAIN calls /\ slotName(calls[i]) = "writer"
      BY <2>4, <2>5
    <3>2. ids'[i] = <<"writer", count + Cardinality(sameSlot(calls, i, "writer"))>>
      BY <1>4, <2>3, <3>1 DEF callId, slotIn, sameSlot
    <3> DEFINE A == sameSlot(calls, i, "writer")
               B == pendingAfter(i)'
    <3>3. B = {j \in pendingWrites' : j > i}
      BY DEF pendingAfter
    <3>4. pendingWrites' = A \cup B /\ A \cap B = {}
      BY <1>2, <2>6, <3>1, <3>3 DEF sameSlot
    <3>5. IsFiniteSet(pendingWrites') /\ Cardinality(pendingWrites') \in Nat
      BY <1>2, <2>1, <2>6, SlotCounts
    <3>6. IsFiniteSet(A) /\ IsFiniteSet(B) /\ Cardinality(A) \in Nat /\ Cardinality(B) \in Nat
      BY <3>4, <3>5, FS_Subset, FS_CardinalityType
    <3>7. Cardinality(pendingWrites') = Cardinality(A) + Cardinality(B)
      <4>1. Cardinality(A \cup B) = Cardinality(A) + Cardinality(B) - Cardinality(A \cap B)
        BY <3>6, FS_Union
      <4>2. Cardinality(A \cap B) = 0
        BY <3>4, FS_EmptySet
      <4> HIDE DEF A, B
      <4> QED
        BY <3>4, <3>6, <4>1, <4>2
    <3>8. count + Cardinality(A) = slots'["writer"] - Cardinality(B)
      BY <2>1, <2>7, <3>6, <3>7
    <3> QED
      BY <3>2, <3>8
  <2> QED
    BY <2>7, <2>8
<1> QED
  BY <1>1, <1>6, <1>7, <1>8, <1>9, <1>10 DEF LoopInv, JournalNumbered

\* A call leaves the batch: what remains to be done.
LEMMA CallDone ==
  ASSUME LoopInv, at = "execute", NEW i \in todo, todo' = todo \ {i},
         UNCHANGED <<mode, turn, at, batch, ids, slots, round, continuation, context, evidence>>,
         discovery' \in [active : SUBSET Tools, searches : Nat], discovery'.active = discovery.active,
         saved' \in [exists : BOOLEAN, active : SUBSET Tools, searches : Nat], searched' \in Nat,
         found' \subseteq Tools, SearchesSaved', ~leaked', private => private',
         "reader" \in results' => "reader" \in results \/ batch[i] = "reader",
         "sender" \in results' => "sender" \in results \/ \A k \in DOMAIN batch : batch[k] # "reader",
         \/ used' = used /\ count' = count /\ journal' = journal /\ i \notin pendingWrites
         \/ used' = used \cup {ids[i]} /\ count' = count /\ journal' = journal /\ i \notin pendingWrites
         \/ used' = used \cup {ids[i]} /\ count' = count + 1 /\ JournalNumbered'
              /\ (mode = "lazy" => i \in pendingWrites /\ \A k \in todo : i <= k)
  PROVE  LoopInv'
<1>1. /\ turn = "running" /\ todo \subseteq DOMAIN batch /\ batch \in Seq(names) /\ ids \in Seq(CallIds) /\ Len(ids) = Len(batch)
      /\ DOMAIN batch = 1..Len(batch) /\ DOMAIN ids = DOMAIN batch /\ Len(batch) \in Nat /\ count \in Nat
  BY DEF LoopInv, LoopTypes
<1>2. ids[i] \in CallIds /\ (used' = used \/ used' = used \cup {ids[i]})
  BY <1>1, ElementOfSeq
<1>3. LoopTypes'
  BY <1>1, <1>2 DEF LoopInv, LoopTypes
<1>4. Protected'
  BY <1>1 DEF LoopInv, Protected
<1>5. Identified'
  <2>1. \A u : within(u, slots, round + 1)' <=> within(u, slots, round + 1)
    BY DEF within
  <2>2. \A u \in used' : within(u, slots, round + 1)
    BY <1>1, <1>2 DEF LoopInv, Identified
  <2>3. \A k \in todo' : ids[k] \notin used'
    BY <1>1, <1>2 DEF LoopInv, Identified
  <2> QED
    BY <1>1, <2>1, <2>2, <2>3 DEF LoopInv, Identified, within
<1>6. WritesNumbered'
  <2> SUFFICES ASSUME mode = "lazy", "writer" \in Tools
               PROVE  /\ slots["writer"] = count' + Cardinality(pendingWrites')
                      /\ \A k \in pendingWrites' : ids[k] = <<"writer", slots["writer"] - Cardinality(pendingAfter(k)')>>
    BY <1>1 DEF WritesNumbered
  <2>1. /\ slots["writer"] = count + Cardinality(pendingWrites)
        /\ \A k \in pendingWrites : ids[k] = <<"writer", slots["writer"] - Cardinality(pendingAfter(k))>>
    BY <1>1 DEF LoopInv, WritesNumbered
  <2>2. pendingWrites' = pendingWrites \ {i}
    BY DEF pendingWrites
  <2>3. CASE i \notin pendingWrites
    <3>1. pendingWrites' = pendingWrites /\ count' = count
      BY <2>2, <2>3
    <3>2. \A k : pendingAfter(k)' = pendingAfter(k)
      BY <3>1 DEF pendingAfter
    <3> QED
      BY <2>1, <3>1, <3>2
  <2>4. CASE i \in pendingWrites
    <3>1. count' = count + 1 /\ \A k \in todo : i <= k
      BY <2>4
    <3>2. pendingWrites \subseteq DOMAIN batch /\ pendingWrites \subseteq todo
      BY <1>1 DEF pendingWrites
    <3>3. IsFiniteSet(pendingWrites) /\ Cardinality(pendingWrites) \in Nat
      <4>1. IsFiniteSet(DOMAIN batch)
        BY <1>1, FS_Interval
      <4>2. IsFiniteSet(pendingWrites)
        BY <3>2, <4>1, FS_Subset
      <4> QED
        BY <4>2, FS_CardinalityType
    <3>4. Cardinality(pendingWrites') = Cardinality(pendingWrites) - 1
      BY <2>2, <2>4, <3>3, FS_RemoveElement
    <3>5. \A k \in pendingWrites' : pendingAfter(k)' = pendingAfter(k)
      <4>1. ASSUME NEW k \in pendingWrites' PROVE pendingAfter(k)' = pendingAfter(k)
        <5>1. k \in DOMAIN batch /\ i \in DOMAIN batch /\ i <= k
          BY <1>1, <2>2, <3>1, <3>2
        <5>2. ~(i > k)
          BY <1>1, <5>1
        <5> QED
          BY <2>2, <5>2 DEF pendingAfter
      <4> QED
        BY <4>1
    <3>6. slots["writer"] = count' + Cardinality(pendingWrites')
      BY <1>1, <2>1, <3>1, <3>3, <3>4
    <3> QED
      BY <2>1, <2>2, <3>5, <3>6
  <2> QED
    BY <2>3, <2>4
<1>7. JournalNumbered'
  BY DEF LoopInv, JournalNumbered
<1> QED
  BY <1>3, <1>4, <1>5, <1>6, <1>7 DEF LoopInv

\* The next write's identity says which write it is.
LEMMA NextWrite ==
  ASSUME LoopInv, NEW i \in todo, ready(i), batch[i] = "writer", loopAdmitted(batch[i]), mode = "lazy"
  PROVE  i \in pendingWrites /\ (\A k \in todo : i <= k) /\ ids[i] = <<"writer", count + 1>> /\ count \in Nat
<1>1. i \in pendingWrites
  BY DEF loopAdmitted, loaded, pendingWrites
<1>2. turn = "running" /\ at = "execute" /\ todo \subseteq DOMAIN batch /\ DOMAIN batch = 1..Len(batch) /\ Len(batch) \in Nat
      /\ batch \in Seq(names) /\ count \in Nat
  BY DEF ready, LoopInv, LoopTypes
<1>3. serial
  BY <1>2 DEF serial
<1>4. \A k \in todo : i <= k
  BY <1>3 DEF ready
<1>5. "writer" \in Tools
  BY <1>1 DEF pendingWrites, LoopInv, LoopTypes
<1>6. /\ slots["writer"] = count + Cardinality(pendingWrites)
      /\ ids[i] = <<"writer", slots["writer"] - Cardinality(pendingAfter(i))>>
  BY <1>1, <1>2, <1>5 DEF LoopInv, WritesNumbered
<1>7. pendingAfter(i) = pendingWrites \ {i}
  <2>1. \A k \in pendingWrites : k > i <=> k # i
    BY <1>2, <1>4 DEF pendingWrites
  <2> QED
    BY <2>1 DEF pendingAfter
<1>8. IsFiniteSet(pendingWrites) /\ Cardinality(pendingWrites) \in Nat
  <2>1. pendingWrites \subseteq 1..Len(batch)
    BY <1>2 DEF pendingWrites
  <2>2. IsFiniteSet(1..Len(batch))
    BY <1>2, FS_Interval
  <2>3. IsFiniteSet(pendingWrites)
    BY <2>1, <2>2, FS_Subset
  <2> QED
    BY <2>3, FS_CardinalityType
<1>9. Cardinality(pendingAfter(i)) = Cardinality(pendingWrites) - 1
  BY <1>1, <1>7, <1>8, FS_RemoveElement
<1>10. slots["writer"] - Cardinality(pendingAfter(i)) = count + 1
  BY <1>2, <1>6, <1>8, <1>9
<1> QED
  BY <1>1, <1>2, <1>4, <1>6, <1>10

LEMMA DenyKeeps ==
  ASSUME LoopInv, NEW i \in DOMAIN batch, Deny(i)
  PROVE  LoopInv'
<1>1. /\ i \in todo /\ at = "execute" /\ ~loopAdmitted(batch[i]) /\ todo' = todo \ {i}
      /\ UNCHANGED <<mode, turn, at, discovery, private, context, batch, results, ids, found, slots, round,
                     saved, evidence, journal, continuation, used, count, searched, leaked>>
  BY DEF Deny, ready, fixed, durable, world
<1>2. i \notin pendingWrites
  <2>1. i \in pendingWrites => loaded(batch[i]) /\ batch[i] # "sender"
    BY DEF loaded, pendingWrites
  <2> QED
    BY <1>1, <2>1 DEF loopAdmitted
<1>3. /\ discovery' \in [active : SUBSET Tools, searches : Nat] /\ saved' \in [exists : BOOLEAN, active : SUBSET Tools, searches : Nat]
      /\ searched' \in Nat /\ found' \subseteq Tools /\ ~leaked'
  BY <1>1 DEF LoopInv, LoopTypes, Protected
<1>4. SearchesSaved'
  BY <1>1 DEF LoopInv, SearchesSaved
<1> QED
  BY <1>1, <1>2, <1>3, <1>4, CallDone

LEMMA RunKeeps ==
  ASSUME LoopInv, NEW i \in DOMAIN batch, Run(i)
  PROVE  LoopInv'
<1>1. /\ i \in todo /\ at = "execute" /\ turn = "running" /\ batch[i] # "writer" /\ loopAdmitted(batch[i]) /\ todo' = todo \ {i}
      /\ results' = results \cup {batch[i]} /\ used' = used \cup {ids[i]} /\ private' = (private \/ batch[i] = "reader")
      /\ leaked' = (leaked \/ (batch[i] = "sender" /\ (context \/ evidence \/ "reader" \in results))
                       \/ (batch[i] = "reader" /\ "sender" \in results))
      /\ UNCHANGED <<mode, turn, at, discovery, context, batch, ids, found, slots, round,
                     saved, evidence, journal, continuation, count, searched>>
  BY DEF Run, ready, fixed, durable
<1>2. i \notin pendingWrites
  BY <1>1 DEF pendingWrites
<1>3. /\ discovery' \in [active : SUBSET Tools, searches : Nat] /\ saved' \in [exists : BOOLEAN, active : SUBSET Tools, searches : Nat]
      /\ searched' \in Nat /\ found' \subseteq Tools
  BY <1>1 DEF LoopInv, LoopTypes
<1>4. SearchesSaved'
  BY <1>1 DEF LoopInv, SearchesSaved
<1>5. batch[i] = "sender" => ~private
  BY <1>1 DEF loopAdmitted
<1>6. batch[i] = "sender" => \A k \in DOMAIN batch : batch[k] # "reader"
  BY <1>1, <1>5 DEF LoopInv, Protected
<1>7. batch[i] = "sender" => ~context /\ ~evidence /\ "reader" \notin results
  BY <1>1, <1>5, <1>6 DEF LoopInv, Protected
<1>8. batch[i] = "reader" => "sender" \notin results
  BY <1>1 DEF LoopInv, Protected
<1>9. ~leaked'
  BY <1>1, <1>7, <1>8 DEF LoopInv, Protected
<1>10. /\ "reader" \in results' => "reader" \in results \/ batch[i] = "reader"
       /\ "sender" \in results' => "sender" \in results \/ \A k \in DOMAIN batch : batch[k] # "reader"
       /\ private => private'
  BY <1>1, <1>6
<1> QED
  BY <1>1, <1>2, <1>3, <1>4, <1>9, <1>10, CallDone

LEMMA WriteKeeps ==
  ASSUME LoopInv, NEW i \in DOMAIN batch, Write(i)
  PROVE  LoopInv'
<1>1. /\ ready(i) /\ i \in todo /\ at = "execute" /\ batch[i] = "writer" /\ loopAdmitted(batch[i]) /\ todo' = todo \ {i}
      /\ results' = results \cup {batch[i]} /\ used' = used \cup {ids[i]} /\ count' = count + 1
      /\ journal' = IF \E e \in journal : e.id = ids[i] THEN journal ELSE journal \cup {[id |-> ids[i], nth |-> count + 1]}
      /\ UNCHANGED <<mode, turn, at, discovery, private, context, batch, ids, found, slots, round,
                     saved, evidence, continuation, searched, leaked>>
  BY DEF Write, ready, fixed
<1>2. mode = "lazy" => /\ i \in pendingWrites /\ (\A k \in todo : i <= k)
                       /\ ids[i] = <<"writer", count + 1>> /\ count \in Nat
  BY <1>1, NextWrite
<1>3. /\ discovery' \in [active : SUBSET Tools, searches : Nat] /\ saved' \in [exists : BOOLEAN, active : SUBSET Tools, searches : Nat]
      /\ searched' \in Nat /\ found' \subseteq Tools /\ ~leaked'
  BY <1>1 DEF LoopInv, LoopTypes, Protected
<1>4. SearchesSaved'
  BY <1>1 DEF LoopInv, SearchesSaved
<1>5. JournalNumbered'
  <2> SUFFICES ASSUME mode = "lazy", NEW e \in journal' PROVE e.id = <<"writer", e.nth>> /\ e.nth \in Nat
    BY <1>1 DEF JournalNumbered
  <2>1. CASE e \in journal
    BY <2>1 DEF LoopInv, JournalNumbered
  <2>2. CASE e = [id |-> ids[i], nth |-> count + 1]
    BY <1>2, <2>2
  <2> QED
    BY <1>1, <2>1, <2>2
<1>6. /\ "reader" \in results' => "reader" \in results \/ batch[i] = "reader"
      /\ "sender" \in results' => "sender" \in results \/ \A k \in DOMAIN batch : batch[k] # "reader"
  BY <1>1
<1> QED
  BY <1>1, <1>2, <1>3, <1>4, <1>5, <1>6, CallDone

LEMMA SearchKeeps ==
  ASSUME LoopInv, NEW i \in DOMAIN batch, NEW m \in SUBSET Tools, Search(i, m)
  PROVE  LoopInv'
<1>1. /\ i \in todo /\ at = "execute" /\ turn = "running" /\ batch[i] = "tool_search" /\ mode = "lazy" /\ discovery.searches < MaxSearchCalls
      /\ discovery' = [discovery EXCEPT !.searches = @ + 1] /\ saved' = [saved EXCEPT !.searches = discovery.searches + 1]
      /\ searched' = searched + 1 /\ todo' = todo \ {i} /\ results' = results \cup {"tool_search"} /\ found' = found \cup m
      /\ UNCHANGED <<mode, turn, at, private, context, batch, ids, slots, round, evidence, journal, continuation, used, count, leaked>>
  BY DEF Search, searchSaved, ready, fixed
<1>2. i \notin pendingWrites
  BY <1>1 DEF pendingWrites
<1>3. /\ discovery \in [active : SUBSET Tools, searches : Nat] /\ saved \in [exists : BOOLEAN, active : SUBSET Tools, searches : Nat]
      /\ searched \in Nat /\ found \subseteq Tools /\ ~leaked /\ searched <= saved.searches /\ saved.searches = discovery.searches /\ saved.exists
  BY <1>1 DEF LoopInv, LoopTypes, Protected, SearchesSaved
<1>4. /\ discovery'.searches = discovery.searches + 1 /\ discovery'.active = discovery.active
      /\ saved'.searches = discovery.searches + 1 /\ saved'.exists = saved.exists
      /\ discovery' \in [active : SUBSET Tools, searches : Nat] /\ saved' \in [exists : BOOLEAN, active : SUBSET Tools, searches : Nat]
  <2>1. PICK n \in Nat : n = discovery.searches + 1
    BY <1>3
  <2>2. discovery' = [discovery EXCEPT !.searches = n] /\ saved' = [saved EXCEPT !.searches = n]
    BY <1>1, <2>1
  <2>3. discovery'.searches = n /\ discovery'.active = discovery.active /\ discovery' \in [active : SUBSET Tools, searches : Nat]
    BY <1>3, <2>2
  <2>4. saved'.searches = n /\ saved'.exists = saved.exists /\ saved' \in [exists : BOOLEAN, active : SUBSET Tools, searches : Nat]
    BY <1>3, <2>2
  <2> QED
    BY <2>1, <2>3, <2>4
<1>5. SearchesSaved'
  <2>1. searched' <= saved'.searches /\ saved'.searches <= MaxSearchCalls /\ discovery'.searches <= MaxSearchCalls
    BY <1>1, <1>3, <1>4, LoopAssumption
  <2> QED
    BY <1>1, <1>3, <1>4, <2>1 DEF SearchesSaved
<1>6. /\ "reader" \in results' => "reader" \in results \/ batch[i] = "reader"
      /\ "sender" \in results' => "sender" \in results \/ \A k \in DOMAIN batch : batch[k] # "reader"
      /\ searched' \in Nat /\ found' \subseteq Tools /\ ~leaked'
  BY <1>1, <1>3
<1> QED
  BY <1>1, <1>2, <1>4, <1>5, <1>6, CallDone

\* The observations of a batch, and what it found becomes active.
LEMMA ObserveKeeps ==
  ASSUME LoopInv, Observe
  PROVE  LoopInv'
<1>1. /\ turn = "running" /\ at = "execute" /\ todo = {} /\ at' = "model" /\ round' = round + 1
      /\ batch' = <<>> /\ results' = {} /\ ids' = <<>> /\ found' = {}
      /\ evidence' = (evidence \/ "reader" \in results) /\ context' = (context \/ "reader" \in results)
      /\ discovery' = [discovery EXCEPT !.active = activated]
      /\ saved' = IF activated = discovery.active THEN saved
                  ELSE [exists |-> TRUE, active |-> activated, searches |-> discovery.searches]
      /\ UNCHANGED <<mode, turn, private, todo, slots, journal, continuation, used, count, searched, leaked>>
  BY DEF Observe, fixed, world
<1>2. /\ discovery \in [active : SUBSET Tools, searches : Nat] /\ saved \in [exists : BOOLEAN, active : SUBSET Tools, searches : Nat]
      /\ activated \in SUBSET Tools /\ round \in Nat
  BY DEF LoopInv, LoopTypes, activated
<1>3. /\ discovery' \in [active : SUBSET Tools, searches : Nat] /\ discovery'.searches = discovery.searches
      /\ saved' \in [exists : BOOLEAN, active : SUBSET Tools, searches : Nat]
      /\ (saved' = saved \/ (saved'.exists /\ saved'.searches = discovery.searches))
  <2>1. discovery' \in [active : SUBSET Tools, searches : Nat] /\ discovery'.searches = discovery.searches
    BY <1>1, <1>2
  <2>2. [exists |-> TRUE, active |-> activated, searches |-> discovery.searches] \in [exists : BOOLEAN, active : SUBSET Tools, searches : Nat]
    BY <1>2
  <2> QED
    BY <1>1, <1>2, <2>1, <2>2
<1>4. LoopTypes'
  <2>1. Len(ids') = Len(batch') /\ todo' \subseteq DOMAIN batch'
    BY <1>1
  <2> QED
    BY <1>1, <1>2, <1>3, <2>1 DEF LoopInv, LoopTypes
<1>5. Protected'
  BY <1>1 DEF LoopInv, Protected
<1>6. SearchesSaved'
  <2>1. mode = "lazy" => saved'.searches = saved.searches /\ saved'.exists
    BY <1>1, <1>3 DEF LoopInv, SearchesSaved
  <2>2. saved'.searches <= MaxSearchCalls /\ (~saved'.exists => saved'.searches = 0)
    BY <1>1, <1>3 DEF LoopInv, SearchesSaved
  <2> QED
    BY <1>1, <1>3, <2>1, <2>2 DEF LoopInv, SearchesSaved
<1>7. Identified'
  BY <1>1 DEF LoopInv, Identified, within
<1>8. WritesNumbered'
  <2>1. pendingWrites' = {} /\ pendingWrites = {}
    BY <1>1 DEF pendingWrites
  <2> QED
    BY <1>1, <2>1 DEF LoopInv, WritesNumbered
<1> QED
  BY <1>1, <1>4, <1>5, <1>6, <1>7, <1>8 DEF LoopInv, JournalNumbered

LEMMA SuspendKeeps ==
  ASSUME LoopInv, Suspend
  PROVE  LoopInv'
<1>1. /\ turn = "running" /\ at = "execute" /\ batch = <<"request_user_input">> /\ turn' = "waiting" /\ at' = "none"
      /\ batch' = <<>> /\ todo' = {} /\ results' = {} /\ ids' = <<>> /\ found' = {}
      /\ continuation'.slots = slots /\ continuation'.round = round + 1
      /\ UNCHANGED <<mode, discovery, slots, round, saved, evidence, journal, used, count, searched, leaked>>
  BY DEF Suspend, ends, fixed, world
<1>2. LoopTypes'
  <2>1. Len(ids') = Len(batch') /\ todo' \subseteq DOMAIN batch'
    BY <1>1
  <2> QED
    BY <1>1, <2>1 DEF LoopInv, LoopTypes
<1>3. Protected'
  BY <1>1 DEF LoopInv, Protected
<1>4. SearchesSaved'
  BY <1>1 DEF LoopInv, SearchesSaved
<1>5. Identified'
  BY <1>1 DEF LoopInv, Identified, within
<1>6. WritesNumbered'
  <2>1. pendingWrites' = {}
    BY <1>1 DEF pendingWrites
  <2>2. pendingWrites = {}
    <3>1. \A i \in DOMAIN batch : batch[i] = "request_user_input"
      BY <1>1
    <3> QED
      BY <3>1 DEF pendingWrites, LoopInv, LoopTypes
  <2>3. mode = "lazy" /\ "writer" \in Tools => slots["writer"] = count
    <3>1. count \in Nat
      BY DEF LoopInv, LoopTypes
    <3> QED
      BY <1>1, <2>2, <3>1, FS_EmptySet DEF LoopInv, WritesNumbered
  <2> QED
    BY <1>1, <2>1, <2>3 DEF WritesNumbered
<1> QED
  BY <1>1, <1>2, <1>3, <1>4, <1>5, <1>6 DEF LoopInv, JournalNumbered

LEMMA EndingKeeps ==
  ASSUME LoopInv,
         \/ Answer \/ TooManyActive \/ Fail
         \/ \E b \in batches : RefuseBatch(b)
         \/ \E i \in DOMAIN batch : WriteUncertain(i) \/ SearchFails(i)
  PROVE  LoopInv'
<1>1. /\ discovery \in [active : SUBSET Tools, searches : Nat] /\ discovery.searches <= MaxSearchCalls
      /\ slots \in [SlotNames -> Nat] /\ round \in Nat
  BY DEF LoopInv, LoopTypes, SearchesSaved
<1>2. Empty \in [active : SUBSET Tools, searches : Nat] /\ Empty.searches <= MaxSearchCalls /\ NoSlots \in [SlotNames -> Nat]
  BY LoopAssumption DEF Empty, NoSlots, SlotNames
<1>3. CASE Fail
  <2>1. /\ ends("failed") /\ UNCHANGED <<mode, used, count, searched, leaked, saved, journal>>
        /\ discovery' = Empty /\ slots' = NoSlots /\ round' = 0
    BY <1>3 DEF Fail, fixed, durable, world
  <2> QED
    BY <1>2, <2>1, LoopEnded
<1>4. CASE ~Fail
  <2>1. PICK how \in {"failed", "completed"} : ends(how)
    BY <1>4 DEF Answer, TooManyActive, RefuseBatch, WriteUncertain, SearchFails
  <2>2. UNCHANGED <<mode, used, count, searched, leaked, saved, journal, discovery, slots, round>>
    BY <1>4 DEF Answer, TooManyActive, RefuseBatch, WriteUncertain, SearchFails, fixed, durable, world
  <2> QED
    BY <1>1, <2>1, <2>2, LoopEnded
<1> QED
  BY <1>3, <1>4

LEMMA LoopStutters ==
  ASSUME LoopInv, UNCHANGED loopVars
  PROVE  LoopInv'
<1>1. /\ mode' = mode /\ turn' = turn /\ at' = at /\ discovery' = discovery /\ private' = private /\ context' = context
      /\ batch' = batch /\ todo' = todo /\ results' = results /\ ids' = ids /\ found' = found /\ slots' = slots
      /\ round' = round /\ saved' = saved /\ evidence' = evidence /\ journal' = journal /\ continuation' = continuation
      /\ used' = used /\ count' = count /\ searched' = searched /\ leaked' = leaked
  BY DEF loopVars
<1>2. LoopTypes'
  BY <1>1 DEF LoopInv, LoopTypes
<1>3. Protected' /\ SearchesSaved' /\ JournalNumbered'
  BY <1>1 DEF LoopInv, Protected, SearchesSaved, JournalNumbered
<1>4. Identified'
  BY <1>1 DEF LoopInv, Identified, within
<1>5. WritesNumbered'
  BY <1>1 DEF LoopInv, WritesNumbered, pendingWrites, pendingAfter
<1> QED
  BY <1>2, <1>3, <1>4, <1>5 DEF LoopInv

LEMMA LoopSteps ==
  ASSUME LoopInv, [LoopNext]_loopVars
  PROVE  LoopInv'
<1>1. CASE UNCHANGED loopVars
  BY <1>1, LoopStutters
<1>2. CASE LoopNext
  BY <1>2, StartKeeps, ResumeKeeps, SteerKeeps, RoundKeeps, DenyKeeps, RunKeeps, WriteKeeps, SearchKeeps, ObserveKeeps,
     SuspendKeeps, EndingKeeps DEF LoopNext
<1> QED
  BY <1>1, <1>2

\* Every step gives a write the number its identity says, and no identity twice.
LEMMA IdentityStep ==
  ASSUME LoopInv, [LoopNext]_loopVars
  PROVE  sameSlotSameWrite /\ identitiesAreNotReused
<1> SUFFICES ASSUME NEW i \in DOMAIN batch, i \in todo \ todo', count' = count + 1 \/ used' # used \/ count' # count
             PROVE  /\ mode = "lazy" /\ count' = count + 1 => \A e \in journal' : e.id = ids[i] => e.nth = count + 1
                    /\ ids[i] \notin used
  BY DEF sameSlotSameWrite, identitiesAreNotReused
<1>1. todo \subseteq DOMAIN batch /\ (at # "execute" => todo = {}) /\ count \in Nat /\ (turn = "running" <=> at # "none")
  BY DEF LoopInv, LoopTypes
<1>2. at = "execute" /\ turn = "running"
  BY <1>1
<1>3. ids[i] \notin used
  BY <1>2 DEF LoopInv, Identified
<1>4. ASSUME mode = "lazy", count' = count + 1 PROVE \A e \in journal' : e.id = ids[i] => e.nth = count + 1
  <2>1. PICK k \in DOMAIN batch : Write(k)
    <3>1. count' # count
      BY <1>1, <1>4
    <3>2. CASE UNCHANGED loopVars
      BY <3>1, <3>2 DEF loopVars
    <3>3. CASE Start \/ LoopResume \/ Answer \/ AnswerThenSteer \/ Observe \/ TooManyActive \/ Suspend \/ Fail
      BY <1>2, <3>1, <3>3 DEF Start, LoopResume, Answer, AnswerThenSteer, Observe, TooManyActive, Suspend, Fail, world
    <3>4. CASE \E b \in batches : RefuseBatch(b) \/ ToolRound(b)
      BY <3>1, <3>4 DEF RefuseBatch, ToolRound, world
    <3>5. CASE \E k \in DOMAIN batch : Deny(k) \/ Run(k) \/ WriteUncertain(k) \/ SearchFails(k) \/ \E m \in SUBSET Tools : Search(k, m)
      BY <3>1, <3>5 DEF Deny, Run, WriteUncertain, SearchFails, Search, world
    <3> QED
      BY <3>2, <3>3, <3>4, <3>5 DEF LoopNext
  <2>2. i = k
    BY <2>1 DEF Write
  <2>3. ids[i] = <<"writer", count + 1>>
    BY <1>4, <2>1, <2>2, NextWrite DEF Write, ready
  <2>4. JournalNumbered'
    BY LoopSteps DEF LoopInv
  <2>5. mode' = mode
    BY <2>1 DEF Write, fixed
  <2> SUFFICES ASSUME NEW e \in journal', e.id = ids[i] PROVE e.nth = count + 1
    OBVIOUS
  <2>6. e.id = <<"writer", e.nth>>
    BY <1>4, <2>4, <2>5 DEF JournalNumbered
  <2> QED
    BY <2>3, <2>6
<1> QED
  BY <1>3, <1>4

\* A Stage's batches, crashes and resumes neither leak what was read, nor win back searches,
\* nor let an identity stand for two writes: for any Tools, limits, batches and retries.
THEOREM ToolLoopCorrect == LoopSpec => ToolLoopSafe
<1>1. LoopInit => LoopInv
  BY LoopStarts
<1>2. LoopInv /\ [LoopNext]_loopVars => LoopInv'
  BY LoopSteps
<1>3. LoopInv => PrivateDataNeverLeaves /\ SearchesStayBounded
  BY LoopAssumption DEF LoopInv, LoopTypes, Protected, SearchesSaved, PrivateDataNeverLeaves, SearchesStayBounded
<1>4. LoopInv /\ [LoopNext]_loopVars => sameSlotSameWrite /\ identitiesAreNotReused
  BY IdentityStep
<1>5. LoopInv /\ [LoopNext]_loopVars => [sameSlotSameWrite /\ identitiesAreNotReused]_loopVars
  BY <1>4
<1> QED
  BY <1>1, <1>2, <1>3, <1>5, PTL DEF LoopSpec, ToolLoopSafe
=============================================================================
