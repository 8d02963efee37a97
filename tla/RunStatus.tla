----------------------------- MODULE RunStatus -----------------------------
(***************************************************************************)
(* What the durable lifecycle of a Run promises to everyone who reads its   *)
(* status: the status alone, moved by whichever writer wins, with no        *)
(* process, no stream, no retry and no crash in sight.                      *)
(***************************************************************************)
CONSTANTS Contracts
VARIABLES status,   \* the committed status
          contract  \* the Run carries a completion contract

Init == status \in {"queued", "running"} /\ contract \in Contracts

\* Execution begins, or begins again after a pause or an interruption.
Execute ==
  /\ status \in {"queued", "waiting_for_user", "failed_recoverable"}
  /\ status' = "running"

\* An executing Run reaches an outcome, or its process dies.
Outcome ==
  /\ status = "running"
  /\ status' \in {"completed", "failed", "failed_recoverable", "waiting_for_user"}

\* Stop reaches an executing Run's worker first; any other open Run ends at once.
Stop ==
  \/ status = "running" /\ status' = "canceling"
  \/ status \in {"queued", "waiting_for_user", "failed_recoverable"} /\ status' = "canceled"

\* A stopped Run can only end: acknowledged, or failed on its own.
Acknowledge == status = "canceling" /\ status' \in {"canceled", "failed"}

\* Only the completion gate of a contracted Run reconsiders a Run that does
\* not execute, a failed one included.
Reconsider ==
  /\ contract /\ status \in {"waiting_for_user", "failed_recoverable", "failed"}
  /\ status' \in {"completed", "failed", "failed_recoverable", "waiting_for_user"}

Next == (Execute \/ Outcome \/ Stop \/ Acknowledge \/ Reconsider) /\ UNCHANGED contract

Spec == Init /\ [][Next]_<<status, contract>>
=============================================================================
