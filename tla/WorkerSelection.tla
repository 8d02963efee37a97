--------------------------- MODULE WorkerSelection ---------------------------
(***************************************************************************)
(* A Multi-Agent Run: capture of the candidate Agents, planning, approval of  *)
(* the plan with routing requirements, selection of the Worker (eligibility,  *)
(* ranking by hints or by a model, the abstention gate), its durable record,  *)
(* the remaining Stages, and recovery after a failure or a crash, while an    *)
(* operator enables and disables Tools and archives Agents.                   *)
(***************************************************************************)
EXTENDS Naturals, Sequences, FiniteSets, SequencesExt, FiniteSetsExt

CONSTANTS SelectionAgents,        \* numbered in the order of their names
          SelectionTools,
          Profiles,      \* per Agent: Tools, memory, template, and the hints the task matches
          TaskTools,     \* the Tools whose names the task mentions
          Approvals,     \* the routing requirements a user may approve
          Scores, Confidences,   \* what the router model may answer; confidence in halves
          Modes,         \* router modes: query_match, auto
          MaxSelectionCrashes, MaxChanges

capabilityHintWeight == 6
taskExampleWeight == 3
toolHintWeight == 4
preferenceHintWeight == 2
exclusionHintWeight == 8
MinimumScore == capabilityHintWeight
MinimumScoreMargin == 1
MinimumLLMConfidence == 1
ASSUME ProfilesAssumption == DOMAIN Profiles = SelectionAgents /\ SelectionAgents \subseteq Nat \ {0}

VARIABLES selectionReady,     \* the Tools the Workspace may use now
          archived,
          selectionFrozen,    \* the Runtime Snapshot: Tools of each candidate
          selectionRun,       \* [status, agent]
          selectionSteps, selections,   \* Collaboration Steps and agent.selection.decided events
          exec,      \* the execution in memory
          asked,     \* the requirements of the approved continuation
          selectionCrashes, changes
selectionVars == <<selectionReady, archived, selectionFrozen, selectionRun, selectionSteps, selections, exec, asked, selectionCrashes, changes>>
record == <<selectionRun, selectionSteps, selections>>

NoExec == [role |-> "none"]
NoAsk == [required |-> {}, prohibited |-> {}, memory |-> FALSE, preferred |-> FALSE]
NoAgent == 0
SelectionInit ==
  /\ selectionReady \in SUBSET SelectionTools /\ archived = {} /\ selectionFrozen = <<>> /\ selectionRun = [status |-> "none", agent |-> NoAgent]
  /\ selectionSteps = <<>> /\ selections = <<>> /\ exec = NoExec /\ asked = NoAsk /\ selectionCrashes = 0 /\ changes = 0

\* captureRuntimeSnapshot keeps the Tools that are ready; templates compete only without owned Agents.
candidates ==
  LET here == SelectionAgents \ archived
      owned == {a \in here : ~Profiles[a].template}
  IN  IF owned = {} THEN here ELSE owned
FilterAgent(tools) == tools \cap selectionReady
PrepareCollaborationRun(a) ==
  /\ selectionRun.status = "none" /\ a \in SelectionAgents \ archived
  /\ selectionFrozen' = [c \in candidates |-> FilterAgent(Profiles[c].tools)]
  /\ selectionRun' = [status |-> "running", agent |-> a]
  /\ exec' = [role |-> "planner", turn |-> FALSE, done |-> {}, worker |-> NoAgent]
  /\ UNCHANGED <<selectionReady, archived, selectionSteps, selections, asked, selectionCrashes, changes>>
\* restoreRuntime refuses a Run one of whose candidates was archived.
restoreRuntime == DOMAIN selectionFrozen \cap archived = {}

----------------------------------------------------------------------------
\* Eligibility.
ConflictingTools(q) == q.required \cap q.prohibited
ExclusionReasons(a, q, enabled) ==
  {<<"required_tool", t>> : t \in {u \in q.required : u \notin enabled \/ u \notin selectionFrozen[a]}}
    \cup {<<"prohibited_tool", t>> : t \in {u \in q.prohibited : u \in selectionFrozen[a] /\ u \in enabled}}
    \cup (IF q.memory /\ ~Profiles[a].memory THEN {<<"memory_required", 0>>} ELSE {})
eligibleWorkerAgents(q, enabled) == {a \in DOMAIN selectionFrozen : ExclusionReasons(a, q, enabled) = {}}

\* Ranking by hints.
scoreAgentForTaskDeclarative(a, q, enabled) ==
  LET p == Profiles[a]
      up == capabilityHintWeight * p.capabilities + (IF q.preferred THEN preferenceHintWeight * p.capabilities ELSE 0)
              + taskExampleWeight * p.examples + toolHintWeight * Cardinality(selectionFrozen[a] \cap enabled \cap TaskTools) + p.terms
      down == exclusionHintWeight * p.exclusions
  IN  IF up > down THEN up - down ELSE 0
\* Scores in order; equal scores by name.
sorted(scores) == SetToSortSeq(DOMAIN scores, LAMBDA a, b : scores[a] > scores[b] \/ (scores[a] = scores[b] /\ a < b))
rankWorkerAgentsDeclarative(S, q, enabled) ==
  LET scores == [a \in S |-> scoreAgentForTaskDeclarative(a, q, enabled)]
  IN  [mode |-> "query_match", agent |-> sorted(scores)[1], scores |-> scores, confidence |-> 0]

\* The router model's answer: every candidate scored once, the best one selected.
Answers == [agent : SelectionAgents, scores : UNION {[S -> Scores] : S \in SUBSET SelectionAgents}, confidence : Confidences]
parseLLMRouteDecision(x, S) ==
  /\ x.agent \in S /\ DOMAIN x.scores = S
  /\ \A a \in S : x.scores[a] <= 100 /\ x.scores[a] <= x.scores[x.agent]
  /\ x.confidence <= 2
shouldFallbackAgentSelection(e) == e \in {"invalid_response", "provider_unavailable"}

\* applySelectionGate
runnerUp(d) == LET order == sorted(d.scores) IN d.scores[order[2]]
abstains(d) ==
  \/ d.scores[d.agent] < MinimumScore
  \/ Cardinality(DOMAIN d.scores) > 1 /\ d.scores[d.agent] < runnerUp(d) + MinimumScoreMargin
  \/ d.mode = "llm" /\ d.confidence < MinimumLLMConfidence
Decided(outcome, agent, mode, scores) == [outcome |-> outcome, agent |-> agent, mode |-> mode, scores |-> scores]
gated(d) == IF abstains(d) THEN Decided("no_suitable_agent", NoAgent, d.mode, d.scores) ELSE Decided("selected", d.agent, d.mode, d.scores)
\* The decisions routeWorkerAgent can return.
routeEligibleWorkerAgent(S, q, enabled) ==
  (IF "query_match" \in Modes THEN {gated(rankWorkerAgentsDeclarative(S, q, enabled))} ELSE {})
    \cup (IF "auto" \in Modes
          THEN {gated([mode |-> "llm"] @@ x) : x \in {y \in Answers : parseLLMRouteDecision(y, S)}}
                 \cup {IF shouldFallbackAgentSelection(e) THEN gated(rankWorkerAgentsDeclarative(S, q, enabled))
                       ELSE Decided("router_failed", NoAgent, "auto", <<>>) : e \in {"invalid_response", "provider_unavailable", "canceled", "budget_exhausted"}}
          ELSE {})
routeWorkerAgent(q, enabled) ==
  IF ConflictingTools(q) # {} THEN {Decided("router_failed", NoAgent, "none", <<>>)}
  ELSE LET S == eligibleWorkerAgents(q, enabled)
       IN  IF S = {} THEN {Decided("no_eligible_agent", NoAgent, "none", <<>>)} ELSE routeEligibleWorkerAgent(S, q, enabled)

----------------------------------------------------------------------------
\* ContinueCollaboration: approval of the plan, then the Router.
ContinueCollaboration(q) ==
  /\ selectionRun.status = "waiting_for_user" /\ exec = NoExec /\ restoreRuntime
  /\ selectionRun' = [selectionRun EXCEPT !.status = "running"] /\ asked' = q
  /\ exec' = [role |-> "router", turn |-> FALSE, done |-> {}, worker |-> NoAgent, enabled |-> selectionReady]
  /\ UNCHANGED <<selectionReady, archived, selectionFrozen, selectionSteps, selections, selectionCrashes, changes>>
Route ==
  /\ exec.role = "router" /\ ~exec.turn
  /\ \E d \in routeWorkerAgent(asked, exec.enabled) :
       /\ selectionSteps' = Append(selectionSteps, [role |-> "router", agent |-> d.agent, status |-> IF d.outcome = "selected" THEN "completed" ELSE "failed"])
       /\ exec' = [exec EXCEPT !.turn = TRUE] @@ [decision |-> d]
  /\ UNCHANGED <<selectionReady, archived, selectionFrozen, selectionRun, selections, asked, selectionCrashes, changes>>
fails(s) == selectionRun' = [selectionRun EXCEPT !.status = s] /\ exec' = NoExec
\* publishStage, publishAgentSelection; a refused selection ends the Run here.
publishAgentSelection ==
  /\ exec.role = "router" /\ exec.turn
  /\ selections' = Append(selections, [stage |-> Len(selectionSteps), asked |-> asked] @@ exec.decision)
  /\ \/ exec.decision.outcome # "selected" /\ \E s \in {"failed", "failed_recoverable"} : fails(s)
     \/ /\ exec.decision.outcome = "selected"
        /\ exec' = [exec EXCEPT !.role = "assign", !.turn = FALSE, !.worker = exec.decision.agent] /\ UNCHANGED selectionRun
  /\ UNCHANGED <<selectionReady, archived, selectionFrozen, selectionSteps, asked, selectionCrashes, changes>>
UpdateRunAgent ==
  /\ exec.role = "assign"
  /\ IF exec.worker \in archived THEN \E s \in {"failed", "failed_recoverable"} : fails(s)
     ELSE selectionRun' = [selectionRun EXCEPT !.agent = exec.worker] /\ exec' = [exec EXCEPT !.role = "worker"]
  /\ UNCHANGED <<selectionReady, archived, selectionFrozen, selectionSteps, selections, asked, selectionCrashes, changes>>

\* runCollaborationTail: the first Stage that is not done.
tailRoles == <<"worker", "reviewer", "finalizer">>
nextRole(done) == LET left == SelectSeq(tailRoles, LAMBDA r : r \notin done) IN IF left = <<>> THEN "end" ELSE left[1]
catalogForAgent(a) == selectionFrozen[a] \cap exec.enabled
SelectionStartStage ==
  /\ exec.role \in {"planner", "worker", "reviewer", "finalizer"} /\ ~exec.turn
  /\ selectionSteps' = Append(selectionSteps, [role |-> exec.role, agent |-> IF exec.role = "worker" THEN exec.worker ELSE NoAgent, status |-> "running"])
  /\ exec' = [exec EXCEPT !.turn = TRUE]
  /\ UNCHANGED <<selectionReady, archived, selectionFrozen, selectionRun, selections, asked, selectionCrashes, changes>>
\* UpdateCollaborationStep and publishStage.
completed == [selectionSteps EXCEPT ![Len(selectionSteps)].status = "completed"]
SelectionCompleteStage ==
  /\ exec.role \in {"planner", "worker", "reviewer", "finalizer"} /\ exec.turn /\ selectionSteps' = completed
  /\ IF exec.role = "planner" THEN fails("waiting_for_user")
     ELSE LET done == exec.done \cup {exec.role} IN
          IF nextRole(done) = "end" THEN fails("completed")
          ELSE exec' = [exec EXCEPT !.role = nextRole(done), !.turn = FALSE, !.done = done] /\ UNCHANGED selectionRun
  /\ UNCHANGED <<selectionReady, archived, selectionFrozen, selections, asked, selectionCrashes, changes>>
failCollaborationStage ==
  /\ exec.role \in {"planner", "worker", "reviewer", "finalizer"} /\ exec.turn
  /\ selectionSteps' = [selectionSteps EXCEPT ![Len(selectionSteps)].status = "failed"] /\ \E s \in {"failed", "failed_recoverable"} : fails(s)
  /\ selectionCrashes < MaxSelectionCrashes /\ selectionCrashes' = selectionCrashes + 1
  /\ UNCHANGED <<selectionReady, archived, selectionFrozen, selections, asked, changes>>
\* The process dies; cold-start repair leaves the Run recoverable.
SelectionCrash ==
  /\ exec # NoExec /\ selectionCrashes < MaxSelectionCrashes /\ selectionCrashes' = selectionCrashes + 1 /\ fails("failed_recoverable")
  /\ UNCHANGED <<selectionReady, archived, selectionFrozen, selectionSteps, selections, asked, changes>>

\* ResumeRecoverableCollaboration: the latest completed Router Step names the Worker.
latestCompletedCollaborationStep(role) == {n \in DOMAIN selectionSteps : selectionSteps[n].role = role /\ selectionSteps[n].status = "completed"}
\* Mutant: recovery starts with the Agent of the Run.
routedWorkerOfRun == selectionRun.agent
routedWorker == selectionSteps[Max(latestCompletedCollaborationStep("router"))].agent
ResumeCollaboration ==
  /\ selectionRun.status = "failed_recoverable" /\ exec = NoExec /\ restoreRuntime
  /\ latestCompletedCollaborationStep("planner") # {} /\ latestCompletedCollaborationStep("router") # {}
  /\ routedWorker \in DOMAIN selectionFrozen
  /\ LET done == {r \in Range(tailRoles) : latestCompletedCollaborationStep(r) # {}} IN
     IF nextRole(done) = "end" THEN selectionRun' = [selectionRun EXCEPT !.status = "completed"] /\ exec' = NoExec
     ELSE /\ selectionRun' = [selectionRun EXCEPT !.status = "running"]
          /\ exec' = [role |-> nextRole(done), turn |-> FALSE, done |-> done, worker |-> routedWorker, enabled |-> selectionReady]
  /\ UNCHANGED <<selectionReady, archived, selectionFrozen, selectionSteps, selections, asked, selectionCrashes, changes>>

----------------------------------------------------------------------------
changed == changes < MaxChanges /\ changes' = changes + 1
SetWorkspaceToolEnabled(t) ==
  /\ changed /\ selectionReady' = IF t \in selectionReady THEN selectionReady \ {t} ELSE selectionReady \cup {t}
  /\ UNCHANGED <<archived, selectionFrozen, record, exec, asked, selectionCrashes>>
ArchiveAgent(a) ==
  /\ changed /\ archived' = archived \cup {a}
  /\ UNCHANGED <<selectionReady, selectionFrozen, record, exec, asked, selectionCrashes>>

SelectionNext ==
  \/ \E a \in SelectionAgents : PrepareCollaborationRun(a) \/ ArchiveAgent(a)
  \/ \E q \in Approvals : ContinueCollaboration(q)
  \/ \E t \in SelectionTools : SetWorkspaceToolEnabled(t)
  \/ Route \/ publishAgentSelection \/ UpdateRunAgent
  \/ SelectionStartStage \/ SelectionCompleteStage \/ failCollaborationStage
  \/ SelectionCrash \/ ResumeCollaboration
SelectionSpec == SelectionInit /\ [][SelectionNext]_selectionVars

-----------------------------------------------------------------------------
(* Properties *)

stepsOf(role) == {n \in DOMAIN selectionSteps : selectionSteps[n].role = role}

\* "recovery after selection reuses the persisted Router Step instead of selecting again": one selection
\* succeeds, every Worker Stage is of its Agent and follows it, and no completed Stage is repeated,
\* however often the Run fails and is resumed.
OneWorkerOneSelection ==
  /\ \A n \in stepsOf("worker") : \E m \in stepsOf("router") : m < n /\ selectionSteps[m].status = "completed" /\ selectionSteps[m].agent = selectionSteps[n].agent
  /\ \A r \in {"router", "worker", "reviewer", "finalizer"} : Cardinality(latestCompletedCollaborationStep(r)) <= 1

\* A selected Worker met the approved hard requirements when it was selected, had positive evidence,
\* and was strictly better than every other candidate considered, whichever way it was ranked.
SelectedIsBest ==
  \A n \in DOMAIN selections :
    LET d == selections[n] IN
    d.outcome = "selected" =>
      /\ d.scores[d.agent] >= 6 /\ \A b \in DOMAIN d.scores \ {d.agent} : d.scores[b] < d.scores[d.agent]
      /\ d.asked.required \subseteq selectionFrozen[d.agent] /\ (d.asked.memory => Profiles[d.agent].memory)
      /\ selectionSteps[d.stage].agent = d.agent

\* "`routing_requirements` may declare ... These fields are hard requirements": a Worker is offered
\* every required and no prohibited Tool.
WorkerMeetsRequirements ==
  exec.role = "worker" => asked.required \subseteq catalogForAgent(exec.worker) /\ asked.prohibited \cap catalogForAgent(exec.worker) = {}

\* The same while the Run was never interrupted.
FirstWorkerMeetsRequirements == selectionCrashes = 0 => WorkerMeetsRequirements

\* "The approved requirements ... are persisted in its `agent.selection.decided` event": a Worker never
\* runs without the event of the selection it comes from.
WorkerHasSelectionEvent ==
  \A n \in stepsOf("worker") : \E k \in DOMAIN selections : selections[k].outcome = "selected" /\ selections[k].agent = selectionSteps[n].agent

\* One selection, of the best candidate that meets the requirements: the parts above but
\* WorkerMeetsRequirements and WorkerHasSelectionEvent.
SelectionSafe == OneWorkerOneSelection /\ SelectedIsBest /\ FirstWorkerMeetsRequirements
=============================================================================
