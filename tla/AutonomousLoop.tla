---------------------------- MODULE AutonomousLoop ----------------------------
(***************************************************************************)
(* Loop mode: iterations of Observe, Plan, Act, Review and Decide Stages      *)
(* under the iteration and output limits, the decision with its fallbacks     *)
(* and its human-input guard, the final Stage, cancellation, and the ways     *)
(* back into the loop: textual human input, a Tool clarification inside Act,  *)
(* and recovery after a crash, each of which rebuilds the loop's state from   *)
(* the persisted Stages.                                                      *)
(***************************************************************************)
EXTENDS Naturals, Sequences, FiniteSets, FiniteSetsExt

CONSTANTS MaxIterations, MaxOutputChars,  \* the frozen AutonomousLimits
          Contracted,                     \* the Run has a structured output contract
          MaxResumes                      \* bounds the exploration

ASSUME IterationLimits == MaxIterations \in Nat \ {0} /\ MaxOutputChars \in Nat

VARIABLES autoRun,      \* running, waiting, canceling, canceled, failed, failed_recoverable, completed
          steps,    \* the Run's CollaborationSteps in creation order
          loop,     \* the executing goroutine
          autoPending,  \* the open clarification: none, human, tool
          resumes
autoVars == <<autoRun, steps, loop, autoPending, resumes>>

Order == <<"observe", "plan", "act", "review", "decide">>
loopRoles == {Order[i] : i \in DOMAIN Order}
after(role) == IF role = "final" THEN "emit"
               ELSE IF role = "decide" THEN "decided"
               ELSE Order[1 + CHOOSE i \in 1..4 : Order[i] = role]

\* pc: off, top, a role, decided, asked, final, emit, resumed; step: the Stage in flight;
\* key: the iteration whose completed Stages are reused.
Off == [pc |-> "off", iter |-> 0, chars |-> 0, step |-> 0, key |-> 0]
loopFrom(iter, chars, key) == [pc |-> "top", iter |-> iter, chars |-> chars, step |-> 0, key |-> key]
\* RunAutonomous
AutoInit ==
  /\ autoRun = "running" /\ steps = <<>> /\ loop = loopFrom(1, 0, 0) /\ autoPending = "none" /\ resumes = 0

AutoStep(role, iter, status, out) == [role |-> role, iter |-> iter, status |-> status, out |-> out]
completedOf(ss, role, iter) == {n \in DOMAIN ss : ss[n].role = role /\ ss[n].iter = iter /\ ss[n].status = "completed"}
written(ss, set) == MapThenSumSet(LAMBDA n : ss[n].out, set)
maxIter(ss, set) == IF set = {} THEN 0 ELSE Max({ss[n].iter : n \in set})

----------------------------------------------------------------------------
\* stopIfCanceled and stopAutonomousStageIfCanceled: the loop settles a requested cancellation.
stopIfCanceled ==
  /\ loop.pc # "off" /\ autoRun = "canceling"
  /\ autoRun' = "canceled" /\ loop' = Off
  /\ steps' = IF loop.step = 0 THEN steps ELSE [steps EXCEPT ![loop.step].status = "failed", ![loop.step].out = 0]
  /\ UNCHANGED <<autoPending, resumes>>

\* The head of an iteration: past the last iteration or the output limit only Final remains.
limitReached(chars) == chars >= MaxOutputChars
Iterate ==
  /\ loop.pc = "top" /\ autoRun = "running"
  /\ loop' = [loop EXCEPT !.pc = IF loop.iter > MaxIterations \/ limitReached(loop.chars) THEN "final" ELSE "observe",
                          !.iter = IF @ > MaxIterations THEN MaxIterations ELSE @]
  /\ UNCHANGED <<autoRun, steps, autoPending, resumes>>

atStage(role) == loop.pc = role /\ loop.step = 0 /\ autoRun = "running"
               /\ (role \in loopRoles \/ (role = "final" /\ Contracted))
\* runAutonomousStep: a completed Stage of the resumed iteration is reused.
reusable(role) == IF loop.key = loop.iter THEN completedOf(steps, role, loop.iter) ELSE {}
Reuse(role) ==
  /\ atStage(role) /\ reusable(role) # {}
  /\ loop' = [loop EXCEPT !.pc = after(role), !.chars = @ + steps[Max(reusable(role))].out]
  /\ UNCHANGED <<autoRun, steps, autoPending, resumes>>
StartStage(role) ==
  /\ atStage(role) /\ reusable(role) = {}
  /\ steps' = Append(steps, AutoStep(role, loop.iter, "running", 0))
  /\ loop' = [loop EXCEPT !.step = Len(steps) + 1]
  /\ UNCHANGED <<autoRun, autoPending, resumes>>
\* The Turn ends with output; after it a cancellation would have been seen.
CompleteStage ==
  /\ loop.step # 0 /\ loop.pc \in loopRoles \cup {"final"} /\ autoRun = "running"
  /\ steps' = [steps EXCEPT ![loop.step].status = "completed", ![loop.step].out = 1]
  /\ loop' = [loop EXCEPT !.step = 0, !.pc = after(loop.pc), !.chars = @ + 1]
  /\ UNCHANGED <<autoRun, autoPending, resumes>>
\* failCollaborationStage; the command layer settles the Run by the error.
FailStage ==
  /\ loop.step # 0 /\ autoRun = "running"
  /\ steps' = [steps EXCEPT ![loop.step].status = "failed", ![loop.step].out = 0]
  /\ autoRun' \in {"failed", "failed_recoverable"} /\ loop' = Off
  /\ UNCHANGED <<autoPending, resumes>>
\* Act's Tool loop asked for clarification: the Stage stays open and the Run waits.
Suspend ==
  /\ loop.pc = "act" /\ loop.step # 0 /\ autoRun = "running"
  /\ autoRun' = "waiting" /\ autoPending' = "tool" /\ loop' = Off
  /\ UNCHANGED <<steps, resumes>>

----------------------------------------------------------------------------
\* The decision: parsed, then the limit, then the human-input guard over the Stage texts.
parseAutonomousDecision(d) == IF d = "rework" THEN "continue" ELSE d
fallback(d) == IF d # "invalid" THEN d ELSE IF loop.iter = MaxIterations THEN "stop" ELSE "continue"
decision(d, need) == IF limitReached(loop.chars) THEN "stop" ELSE IF need THEN "ask_user" ELSE d
Decide(d, need) ==
  /\ loop.pc = "decided" /\ autoRun \in {"running", "canceling"}
  /\ LET choice == decision(fallback(parseAutonomousDecision(d)), need) IN
     \/ choice = "ask_user" /\ loop' = [loop EXCEPT !.pc = "asked", !.step = Len(steps) + 1]
        /\ steps' = Append(steps, AutoStep("human_input", loop.iter, "running", 1))
     \/ choice # "ask_user" /\ UNCHANGED steps
        /\ IF choice = "stop" \/ loop.iter = MaxIterations THEN loop' = [loop EXCEPT !.pc = "final"]
           ELSE loop' = [loop EXCEPT !.pc = "top", !.iter = @ + 1]
  /\ UNCHANGED <<autoRun, autoPending, resumes>>
\* suspendHumanInputClarification: the Run waits, or the question's Stage fails with a Run that
\* is no longer running.
suspendHumanInput ==
  /\ loop.pc = "asked" /\ loop' = Off
  /\ \/ autoRun = "running" /\ autoRun' = "waiting" /\ autoPending' = "human" /\ UNCHANGED steps
     \/ autoRun = "canceling" /\ autoRun' = "canceled" /\ UNCHANGED autoPending
        /\ steps' = [steps EXCEPT ![loop.step].status = "failed"]
  /\ UNCHANGED resumes
\* emitAutonomousFinal without a contract: the Stage is written completed; with one it is an
\* ordinary Stage (StartStage("final")).
Final ==
  /\ loop.pc = "final" /\ ~Contracted /\ autoRun \in {"running", "canceling"}
  /\ steps' = Append(steps, AutoStep("final", loop.iter, "completed", 1))
  /\ loop' = [loop EXCEPT !.pc = "emit"]
  /\ UNCHANGED <<autoRun, autoPending, resumes>>
\* The candidate is saved and the Run completed, or its cancellation settled.
Complete ==
  /\ loop.pc = "emit" /\ loop' = Off
  /\ autoRun' = IF autoRun = "canceling" THEN "canceled" ELSE "completed"
  /\ UNCHANGED <<steps, autoPending, resumes>>

----------------------------------------------------------------------------
\* Stop: a waiting Run is canceled at once, a running one is asked to stop.
Stop ==
  /\ autoRun \in {"running", "waiting"}
  /\ autoRun' = IF autoRun = "running" THEN "canceling" ELSE "canceled"
  /\ autoPending' = IF autoRun = "waiting" THEN "none" ELSE autoPending
  /\ UNCHANGED <<steps, loop, resumes>>
\* The process dies; startup repair settles what it finds.
AutoCrash == loop.pc # "off" /\ loop' = Off /\ UNCHANGED <<autoRun, steps, autoPending, resumes>>
ColdStart ==
  /\ loop.pc = "off" /\ autoRun \in {"running", "canceling"}
  /\ autoRun' = IF autoRun = "running" THEN "failed_recoverable" ELSE "canceled"
  /\ UNCHANGED <<steps, loop, autoPending, resumes>>

resume == resumes < MaxResumes /\ resumes' = resumes + 1
latestHumanInputStep == CHOOSE n \in DOMAIN steps :
  steps[n].role = "human_input" /\ \A m \in (n + 1)..Len(steps) : steps[m].role # "human_input"
\* rebuildAutonomousState: the Stages as they were before the answer, and the answer.
\* Mutant: the loop starts over at its first iteration.
rebuildAutonomousFirst(answer) == loopFrom(1, answer + written(steps, DOMAIN steps), 0)
rebuildAutonomousState(answer) ==
  loopFrom(maxIter(steps, DOMAIN steps) + 1, answer + written(steps, DOMAIN steps), 0)
\* ResumeAutonomous, resumeClarificationHumanInput: the answer completes the question's Stage.
ResumeHumanInput ==
  /\ autoRun = "waiting" /\ autoPending = "human" /\ resume
  /\ autoRun' = "running" /\ autoPending' = "none"
  /\ steps' = [steps EXCEPT ![latestHumanInputStep].status = "completed", ![latestHumanInputStep].out = 1]
  /\ loop' = rebuildAutonomousState(1)

\* resumeClarificationTool: the suspended Act Turn continues ...
ResumeTool ==
  /\ autoRun = "waiting" /\ autoPending = "tool" /\ resume
  /\ autoRun' = "running" /\ autoPending' = "none"
  /\ loop' = [Off EXCEPT !.pc = "resumed", !.step = CHOOSE n \in DOMAIN steps :
                steps[n].role = "act" /\ \A m \in (n + 1)..Len(steps) : steps[m].role # "act"]
  /\ UNCHANGED steps
\* ... and resumeClarificationAutonomous goes back to the head of its iteration, whose completed
\* Stages it will count again while it reuses them.
counted(ss, iter) == {n \in DOMAIN ss : ss[n].iter < iter /\ ss[n].status = "completed"}
resumeClarificationAutonomous ==
  /\ loop.pc = "resumed" /\ autoRun = "running"
  /\ steps' = [steps EXCEPT ![loop.step].status = "completed", ![loop.step].out = 1]
  /\ loop' = loopFrom(steps[loop.step].iter, written(steps', counted(steps', steps[loop.step].iter)),
                      steps[loop.step].iter)
  /\ UNCHANGED <<autoRun, autoPending, resumes>>

\* ResumeRecoverableAutonomous: a recovery Stage, then the iteration after the last completed one.
rebuildRecoverableAutonomousState(note) ==
  LET done == {n \in DOMAIN steps : steps[n].status = "completed" /\ steps[n].role # "recovery"}
  IN  loopFrom(maxIter(steps, done) + 1, note + written(steps, done), 0)
nextAutonomousIteration == maxIter(steps, DOMAIN steps) + 1
ResumeRecoverable(note) ==
  /\ autoRun = "failed_recoverable" /\ resume
  /\ autoRun' = "running" /\ autoPending' = "none"
  /\ steps' = Append(steps, AutoStep("recovery", nextAutonomousIteration, "completed", note))
  /\ loop' = rebuildRecoverableAutonomousState(note)

Work ==
  \/ stopIfCanceled \/ Iterate
  \/ \E role \in loopRoles \cup {"final"} : Reuse(role) \/ StartStage(role)
  \/ CompleteStage \/ Suspend
  \/ \E d \in {"continue", "stop", "rework", "ask_user", "invalid"}, need \in BOOLEAN : Decide(d, need)
  \/ suspendHumanInput \/ Final \/ Complete \/ resumeClarificationAutonomous
AutoNext ==
  \/ Work \/ FailStage \/ Stop \/ AutoCrash \/ ColdStart
  \/ ResumeHumanInput \/ ResumeTool \/ \E note \in {0, 1} : ResumeRecoverable(note)
AutoSpec == AutoInit /\ [][AutoNext]_autoVars

-----------------------------------------------------------------------------
(* Properties *)

done(n) == steps[n].status = "completed"

work == {n \in DOMAIN steps : steps[n].role \in loopRoles /\ done(n)}

\* No Stage of an iteration is completed twice and every completed one follows the completed
\* Stages before it, however often the Run was suspended, recovered or resumed: Act, the only
\* Stage with Tools, runs to its end at most once per iteration.
IterationsRunOnce ==
  \A n \in work :
    /\ \A m \in work : steps[m].role = steps[n].role /\ steps[m].iter = steps[n].iter => m = n
    /\ \A i \in 1..5 : \A j \in 1..(i - 1) :
         steps[n].role = Order[i] => \E m \in work : m < n /\ steps[m].role = Order[j] /\ steps[m].iter = steps[n].iter

\* Iteration numbers stay within the frozen limit and never go back, across every way of resuming.
IterationsAdvance ==
  \A n \in DOMAIN steps : steps[n].role \in loopRoles =>
    /\ steps[n].iter \in 1..MaxIterations
    /\ \A m \in work : m < n => steps[m].iter <= steps[n].iter

human == {n \in DOMAIN steps : steps[n].role \in {"human_input", "recovery"}}

before == {n \in work : steps[n].iter < loop.iter}

\* The rebuilt output counter covers the completed Stages before the iteration and counts none
\* twice; only questions, answers and recovery notes are added to it. Suspending or crashing
\* neither escapes MaxOutputChars nor uses it up.
OutputIsCounted ==
  loop.pc = "top" =>
    /\ loop.chars >= written(steps, before)
    /\ loop.chars <= written(steps, before) + 2 * Cardinality(human) + Cardinality({n \in DOMAIN steps : steps[n].role = "final"})

\* At the output limit the loop only finishes: the guard no longer turns the decision into a
\* question, so a Run at its limit never waits for its user.
limitNeverAsks ==
  steps' # steps /\ steps'[Len(steps')].role = "human_input" => ~limitReached(loop.chars)

\* execution-modes.md draws "Wait -->|Input / same-Run continuation| Observe": a completed Run
\* observed every answer it asked for.
AnswerIsObserved ==
  autoRun = "completed" =>
    \A n \in DOMAIN steps : steps[n].role = "human_input" /\ done(n) =>
      \E m \in DOMAIN steps : m > n /\ steps[m].role = "observe"

\* durable-recovery.md: "A committed Stage emits checkpoint.restored and is not rerun": the
\* final Stage is produced once.
FinalOnce == Cardinality({n \in DOMAIN steps : steps[n].role = "final" /\ done(n)}) <= 1

\* Suspending, crashing and resuming neither repeats a Stage nor loses count: the first four
\* parts above.
IterationsSafe ==
  /\ [](IterationsRunOnce /\ IterationsAdvance /\ OutputIsCounted)
  /\ [][limitNeverAsks]_autoVars
=============================================================================
