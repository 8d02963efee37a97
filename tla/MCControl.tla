----------------------------- MODULE MCControl ------------------------------
(***************************************************************************)
(* The components that decide what a Run does next, one at a time: the run  *)
(* picks a part, whose Next then moves while the other parts rest.          *)
(***************************************************************************)
EXTENDS RunLifecycle, Clarification, DurableInput, StageCheckpoint, VerificationGate, TLC

CONSTANT Parts \* which components this run explores
VARIABLE part \* the one that moves

\* Requests, workers and keys are interchangeable; the parts share these model values.
ControlSymmetry == Permutations(Jobs) \cup Permutations(Keys)

\* The inbox sees a crash, a failure, a withdrawal or an expiry, or a third Run.
\* The last is explored with one receipt and no disturbance.
\* A third process of the lifecycle finds a stream of lifecycle events only.
OneDisturbance ==
  /\ part = "inputs" =>
       /\ withdrawals + faults <= 1
       /\ Len(runs) > 2 => Len(inputs) <= 1 /\ withdrawals + faults = 0
  /\ part = "lifecycle" /\ boot > 2 => ~\E i \in DOMAIN events : events[i].type = "work"

RolesValue == <<"worker", "reviewer">>

VerifiersValue == <<"schema", "citation">>

\* Of all the streams that Start, Resume, Stop, settlement, crash and repair can
\* interleave into, the program's own diagnostic ("run has more than one terminal event"
\* and the rest) only ever objects to run.canceled after a recoverable run.failed.
DiagnosticsCleanButStoppedRecovery ==
  ~run.contract => \/ checkRunLifecycle(run.status, events) = "ok"
                   \/ /\ checkRunLifecycle(run.status, events) = "run_terminal_duplicate"
                      /\ \E i, j \in DOMAIN events :
                           /\ events[i].type = "run.failed" /\ events[i].status = "failed_recoverable"
                           /\ lastLifecycle(j) /\ events[j].type = "run.canceled" /\ i < j
                           /\ \A k \in i + 1..j - 1 : ~lifecycle(k)

-----------------------------------------------------------------------------
ControlInit ==
  /\ part \in Parts
  /\ Init
  /\ ClarifyInit
  /\ InputInit
  /\ StageInit
  /\ GateInit
  /\ part # "lifecycle" => run.status = "queued" /\ run.contract = FALSE
  /\ part # "clarification" => mode = "single"
  /\ part # "inputs" => jobs[CHOOSE j \in Jobs : TRUE] # Idle
  /\ part # "verification" => contract = CHOOSE c \in {FreezeContract(r) : r \in {q \in Requests : acceptedContract(q)}} : TRUE

ControlNext ==
  \/ part = "lifecycle" /\ Next /\ UNCHANGED <<part, clarifyVars, inputVars, stageVars, gateVars>>
  \/ part = "clarification" /\ ClarifyNext /\ UNCHANGED <<part, vars, inputVars, stageVars, gateVars>>
  \/ part = "inputs" /\ InputNext /\ UNCHANGED <<part, vars, clarifyVars, stageVars, gateVars>>
  \/ part = "checkpoints" /\ StageNext /\ UNCHANGED <<part, vars, clarifyVars, inputVars, gateVars>>
  \/ part = "verification" /\ GateNext /\ UNCHANGED <<part, vars, clarifyVars, inputVars, stageVars>>

controlVars == <<part, vars, clarifyVars, inputVars, stageVars, gateVars>>
ControlSpec == ControlInit /\ [][ControlNext]_controlVars
=============================================================================
