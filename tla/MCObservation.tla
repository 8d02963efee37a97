--------------------------- MODULE MCObservation ----------------------------
(***************************************************************************)
(* What is shown of a Run and kept of its output, one component at a time:  *)
(* the run picks a part, whose Next then moves while the other parts rest.  *)
(***************************************************************************)
EXTENDS EventStream, HeadlessClient, OutputCheckpoint, ExecutionTrace, RunReplay, RunSession, TLC

CONSTANT Parts \* which components this run explores
VARIABLE part \* the one that moves

\* Output: a second Turn, the whole text and a further call or attempt one at a time; a further
\* attempt of the further call has text or other slots.  Trace: two Turns when nothing is lost,
\* the second with one Tool call, and one call when a write is refused and the Run resumed.
\* Session: the third action of the user without a fault and with one Run at most, of the
\* conversation on display, and the longest Run alone, in the conversation the page began with.
\* Replay: a projection of one Run that may be verified twice and whose sixth write completes it,
\* or the queue over two Runs after one write or over one Run after three, verified once at most;
\* nothing is written once the request is served, and the queue is followed while an effect it
\* must show is uncertain.
ObservationBounds ==
  /\ part = "output" =>
       /\ turn = 2 => /\ call + attempt = 2 /\ Len(said) < 2 /\ ~speech.tools /\ Len(items) < 2
                      /\ Cardinality({n \in outputs : outputLog[n].turn = 1}) < 3
       /\ Len(said) = 3 => call + attempt = 2 /\ Len(items) < 2
       /\ call + attempt > 2 => Len(said) < 2
       /\ call + attempt = 4 => said = <<>> \/ Len(items) < 2
  /\ part = "trace" =>
       /\ turns = 2 => lost = 0 /\ \A k \in DOMAIN calls : k[2] = "c1"
       /\ lost > 0 /\ resumes > 0 => Cardinality(DOMAIN calls) < 2
  /\ part = "session" =>
       /\ acts = 3 => faults = 0 /\ Len(runs) < 2 /\ (runs = <<>> \/ sessionActive = "a")
       /\ \A r \in DOMAIN runs : Len(runs[r].log) = 3 => Len(runs) = 1 /\ stored["b"] = 0 /\ sessionActive = "a"
  /\ part = "replay" =>
       LET alone == replayRun["r2"].status = "queued" /\ effect["r2"] = "none" IN
       /\ reader.kind = "none" \/ reader.left # <<>>
       /\ clock = 6 => replayRun["r1"].status = "completed"
       /\ reader.kind = "attention" => reader.uncertain # {}
       /\ \/ /\ alone /\ reader.kind # "attention" /\ ~blocked /\ replayCheckpoint["r1"] = "none"
             /\ reader.left \in {<<>>, <<"r1">>}
          \/ clock <= 1 /\ reader.kind # "projection" /\ ~blocked /\ \A r \in Runs : evidence[r] = <<>> /\ ~verify[r].on /\ effect[r] # "committed"
          \/ clock <= 3 /\ reader.kind # "projection" /\ alone /\ verify["r1"].attempt < 2
             /\ \A i \in DOMAIN evidence["r1"] : evidence["r1"][i].status = "failed" <=> evidence["r1"][i].verifier = "v1"

-----------------------------------------------------------------------------
ObservationInit ==
  /\ part \in Parts
  /\ FeedInit
  /\ ClientInit
  /\ OutputInit
  /\ TraceInit
  /\ ReplayInit
  /\ SessionInit
  /\ part # "client" => command = "result" /\ options = [detach |-> FALSE, output |-> FALSE, exists |-> FALSE, contract |-> FALSE]
  /\ part # "replay" => replayLog = [r \in Runs |-> <<>>]
  /\ sessionActive = "a" \* conversations are interchangeable

ObservationNext ==
  \/ part = "events" /\ FeedNext /\ UNCHANGED <<part, clientVars, outputVars, traceVars, replayVars, sessionVars>>
  \/ part = "client" /\ ClientNext /\ UNCHANGED <<part, feedVars, outputVars, traceVars, replayVars, sessionVars>>
  \/ part = "output" /\ OutputNext /\ UNCHANGED <<part, feedVars, clientVars, traceVars, replayVars, sessionVars>>
  \/ part = "trace" /\ TraceNext /\ UNCHANGED <<part, feedVars, clientVars, outputVars, replayVars, sessionVars>>
  \/ part = "replay" /\ ReplayNext /\ UNCHANGED <<part, feedVars, clientVars, outputVars, traceVars, sessionVars>>
  \/ part = "session" /\ SessionNext /\ UNCHANGED <<part, feedVars, clientVars, outputVars, traceVars, replayVars>>

observationVars == <<part, feedVars, clientVars, outputVars, traceVars, replayVars, sessionVars>>
ObservationSpec == ObservationInit /\ [][ObservationNext]_observationVars

\* The fairness of EventStream; the ticker of OutputCheckpoint fires every second while the
\* Turn runs; the page's callbacks and the server's Run of RunSession go on.
ObservationFairSpec ==
  /\ ObservationSpec
  /\ \A n \in 1..MaxEvents : WF_feedVars(part = "events" /\ PublishCommitted(n))
  /\ WF_feedVars(part = "events" /\ observeRunEvents)
  /\ WF_feedVars(part = "events" /\ (WriteEvent \/ WriteLagged))
  /\ WF_feedVars(part = "events" /\ (ReadEvent \/ ReadSnapshot \/ ReadEnd))
  /\ WF_outputVars(part = "output" /\ Tick)
  /\ WF_sessionVars(part = "session" /\ Browser) /\ WF_sessionVars(part = "session" /\ RunStep)

\* What a Run has said and that it ended is shown in the end: observers learn of it
\* (EventStream), safe text becomes durable while the Turn runs (OutputCheckpoint) and the page
\* shows the stop (RunSession).
ShownInTheEnd == ObserverLearnsTheEnd /\ SafeTextCommits /\ StopIsShown
=============================================================================
