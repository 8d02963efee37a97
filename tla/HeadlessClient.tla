--------------------------- MODULE HeadlessClient ---------------------------
(***************************************************************************)
(* The agentflow command line as a process beside the API: it submits a Run  *)
(* or takes a given one, observes it, reads its replay, writes a new private *)
(* evidence file and turns all of it into an exit code.  The submission's    *)
(* answer, the connection and the client's own deadline may fail at any      *)
(* step; none of them stops the Run.                                         *)
(***************************************************************************)
EXTENDS Naturals

CONSTANTS MaxSteps   \* status changes of the Run

VARIABLES command,   \* start, observe, result or cancel
          options,   \* detach, output, whether the destination exists, whether a result value is due
          request,   \* POST /api/chat at the server: none, queued, streaming, done, refused
          refusal,   \* the class of the HTTP status the server refused with
          stream,    \* what the response shows: nothing, the conversation, the Run, its end
          run,       \* the Run the submission created, or the one named on the command line
          known,     \* the client has the Run's identity
          at,        \* the step of Execute
          report,    \* the replay the client read
          file,      \* the evidence destination
          exit,      \* the exit code, 99 while running
          steps
clientVars == <<command, options, request, refusal, stream, run, known, at, report, file, exit, steps>>
server == <<request, refusal, stream, run>>

Running == 99
NoRun == [status |-> "none", verification |-> "none", value |-> FALSE]
statuses == {"running", "waiting_for_user", "failed", "failed_recoverable", "canceled", "completed"}

ClientInit ==
  /\ command \in {"start", "observe", "result", "cancel"}
  /\ options \in [detach : BOOLEAN, output : BOOLEAN, exists : BOOLEAN, contract : BOOLEAN]
  /\ options.detach => ~options.output
  /\ options.exists => options.output
  /\ command = "cancel" => ~options.output
  /\ request = "none" /\ refusal = "none" /\ stream = "nothing"
  /\ run = IF command = "start" THEN NoRun
           ELSE [status |-> "running", verification |-> "pending", value |-> FALSE]
  /\ known = (command # "start") /\ at = "begin" /\ report = NoRun
  /\ file = IF options.exists THEN "foreign" ELSE "absent"
  /\ exit = Running /\ steps = 0

ends(code) == exit' = code /\ at' = "end"

----------------------------------------------------------------------------
\* executeRunCommand: refused before anything streams, or the conversation frame, then
\* the Run's; preparation may still fail once the stream began.
Refuse(class) ==
  /\ request = "queued" /\ request' = "refused" /\ refusal' = class
  /\ UNCHANGED <<command, options, stream, run, known, at, report, file, exit, steps>>
StreamConversation ==
  /\ request = "queued" /\ request' = "streaming"
  /\ stream' = IF stream = "lost" THEN stream ELSE "conversation"
  /\ UNCHANGED <<command, options, refusal, run, known, at, report, file, exit, steps>>
CreateRun ==
  /\ request = "streaming" /\ run = NoRun
  /\ run' = [status |-> "running", verification |-> "pending", value |-> FALSE]
  /\ UNCHANGED <<command, options, request, refusal, stream, known, at, report, file, exit, steps>>
StreamRun ==
  /\ request = "streaming" /\ run # NoRun /\ stream = "conversation" /\ stream' = "run"
  /\ UNCHANGED <<command, options, request, refusal, run, known, at, report, file, exit, steps>>
PreparationFails ==
  /\ request = "streaming" /\ run = NoRun /\ request' = "done"
  /\ stream' = IF stream = "lost" THEN stream ELSE "ended"
  /\ UNCHANGED <<command, options, refusal, run, known, at, report, file, exit, steps>>

\* The Run moves on, whoever watches; completed is final and its verification accepted.
Advance ==
  /\ run # NoRun /\ run.status \notin {"completed", "canceled"} /\ steps < MaxSteps /\ steps' = steps + 1
  /\ \E s \in statuses, v \in {"pending", "passed", "failed", "blocked", "not_required"}, value \in BOOLEAN :
       /\ s = "completed" => v \in {"passed", "not_required"}
       /\ value => s = "completed" /\ v = "passed"
       /\ s = "completed" /\ v = "passed" /\ options.contract => value
       /\ run' = [status |-> s, verification |-> v, value |-> value]
  /\ UNCHANGED <<command, options, request, refusal, stream, known, at, report, file, exit>>

\* The connection of the submission breaks, which does not reach the Run.
Lose ==
  /\ request # "none" /\ stream \notin {"lost"} /\ at = "submitted" /\ stream' = "lost"
  /\ UNCHANGED <<command, options, request, refusal, run, known, at, report, file, exit, steps>>

----------------------------------------------------------------------------
\* Execute checks the evidence destination before anything is sent.
Begin ==
  /\ at = "begin"
  /\ IF options.exists THEN ends(1)
     ELSE /\ at' = IF command = "start" THEN "submit" ELSE command
          /\ UNCHANGED exit
  /\ UNCHANGED <<command, options, server, known, report, file, steps>>

\* The deadline or an interrupt before the request leaves: nothing was submitted.
Interrupted ==
  /\ at \in {"submit", "observe", "result"} /\ \E code \in {124, 130} : ends(code)
  /\ UNCHANGED <<command, options, server, known, report, file, steps>>

Submit ==
  /\ at = "submit" /\ at' = "submitted" /\ request' = "queued"
  /\ UNCHANGED <<command, options, refusal, stream, run, known, report, file, exit, steps>>

\* Mutant: a lost answer is reported like any other client error.
submissionLost == 1

submissionUnknown == 7
\* Only 4xx is definite: anything else may have created a Run.
definite(class) == class \in {"auth", "overload", "invalid"}
exitCode(class) == CASE class = "auth" -> 4 [] class = "overload" -> 8 [] OTHER -> 1

\* Start reads frames until one names the Run.
Acknowledge ==
  /\ at = "submitted" /\ stream = "run" /\ known' = TRUE
  /\ IF options.detach THEN ends(0) ELSE at' = "observe" /\ UNCHANGED exit
  /\ UNCHANGED <<command, options, server, report, file, steps>>
StartFails ==
  /\ at = "submitted"
  /\ \/ request = "refused" /\ stream # "lost"
        /\ ends(IF definite(refusal) THEN exitCode(refusal) ELSE submissionUnknown)
     \/ stream \in {"lost", "ended"} /\ ends(submissionUnknown)
     \/ stream \in {"nothing", "conversation"} /\ ends(submissionUnknown)   \* the client's deadline
  /\ UNCHANGED <<command, options, server, known, report, file, steps>>

\* Observe returns when a stopping event or snapshot was read, or loses the stream.
Observe ==
  /\ at = "observe"
  /\ \/ run.status \in statuses \ {"running"} /\ at' = "result" /\ UNCHANGED exit
     \/ \E code \in {1, 4, 124, 130} : ends(code)
  /\ UNCHANGED <<command, options, server, known, report, file, steps>>

Result ==
  /\ at = "result"
  /\ \/ report' = run /\ at' = "save" /\ UNCHANGED exit
     \/ ends(1) /\ UNCHANGED report
  /\ UNCHANGED <<command, options, server, known, file, steps>>

removedOnFailure == "absent"

\* saveReport: exclusive creation, removed again unless every step succeeded.
saveReport ==
  /\ at = "save"
  /\ \/ ~options.output /\ at' = "exit" /\ UNCHANGED <<exit, file>>
     \/ options.output /\ file = "absent" /\ file' = "complete" /\ at' = "exit" /\ UNCHANGED exit
     \/ options.output /\ file = "absent" /\ file' = removedOnFailure /\ ends(1)
     \/ options.output /\ file # "absent" /\ ends(1) /\ UNCHANGED file
  /\ UNCHANGED <<command, options, server, known, report, steps>>

\* Another program creates the destination meanwhile.
ForeignFile ==
  /\ file = "absent" /\ options.output /\ exit = Running /\ file' = "foreign"
  /\ UNCHANGED <<command, options, server, known, at, report, exit, steps>>

resultExit(r) ==
  CASE r.verification \in {"failed", "blocked"} \/ r.status \in {"failed", "failed_recoverable"} -> 3
    [] r.status = "completed" ->
         IF r.verification \notin {"passed", "not_required"} \/ (options.contract /\ ~r.value) THEN 3 ELSE 0
    [] r.status = "canceled" -> 6
    [] OTHER -> 5
Exit ==
  /\ at = "exit" /\ ends(resultExit(report))
  /\ UNCHANGED <<command, options, server, known, report, file, steps>>

\* The cancel command asks the server, whose answer may be lost.
Cancel ==
  /\ at = "cancel"
  /\ \/ run.status \notin {"completed", "canceled"} /\ run' = [run EXCEPT !.status = "canceled"]
     \/ UNCHANGED run
  /\ \E code \in {0, 1} : ends(code)
  /\ UNCHANGED <<command, options, request, refusal, stream, known, report, file, steps>>

ClientNext ==
  \/ \E class \in {"auth", "overload", "invalid", "unavailable"} : Refuse(class)
  \/ StreamConversation \/ CreateRun \/ StreamRun \/ PreparationFails \/ Advance \/ Lose
  \/ Begin \/ Interrupted \/ Submit \/ Acknowledge \/ StartFails \/ Observe \/ Result
  \/ saveReport \/ ForeignFile \/ Exit \/ Cancel

ClientSpec == ClientInit /\ [][ClientNext]_clientVars

----------------------------------------------------------------------------
(* A script that retries on any exit code but 7 never runs its request twice: when start ends  *)
(* otherwise without the Run's identity, the server neither created a Run for it nor will     *)
(* (runclient Start: only a 4xx is a definite refusal).                                      *)
OnlyUnknownMayHaveRun ==
  command = "start" /\ exit \notin {Running, 7} /\ ~known => run = NoRun /\ request \in {"none", "refused"}

(* Exit 0 of start, observe and result means that the Run is completed and accepted now, its    *)
(* value is there when the contract asks for one, and the evidence file is whole.            *)
ZeroIsVerifiedSuccess ==
  exit = 0 /\ command # "cancel" /\ ~(command = "start" /\ options.detach) =>
    /\ run.status = "completed" /\ run.verification \in {"passed", "not_required"}
    /\ options.contract => run.value
    /\ options.output => file = "complete"

(* The evidence file is the client's whole report or not the client's at all: no partial file   *)
(* survives a failed write and an existing one is never replaced (saveReport).               *)
EvidenceIsWholeOrForeign ==
  /\ exit # Running => file # "partial"
  /\ file = "complete" => report # NoRun /\ ~options.exists

\* A script may trust the exit code and the evidence file: the parts above.
ClientSafe == OnlyUnknownMayHaveRun /\ ZeroIsVerifiedSuccess /\ EvidenceIsWholeOrForeign
=============================================================================
