------------------------------ MODULE TaskState ------------------------------
(***************************************************************************)
(* A Conversation's structured Task State: immutable revisions, each a typed *)
(* patch and the resulting snapshot, written by users over HTTP and by the   *)
(* model through the journalled update_task_state Tool.  Texts are abstract: *)
(* an entity is its ID and the part of it that operations distinguish.       *)
(***************************************************************************)
EXTENDS Naturals, Sequences, FiniteSets, SequencesExt

CONSTANTS Ids,          \* entity IDs after normalizeTaskID
          Operations,   \* operations patches are made of: [type, id, value]
          Users, Calls, \* HTTP clients; identities of update_task_state calls
          MaxOps,       \* 50 operations
          MaxTaskItems,     \* MaxTaskStateBytes, in entities
          MaxVersion    \* bounds the exploration

TaskTypes == {"set_goal", "clear_goal", "upsert_task", "set_task_status", "remove_task", "add_decision",
              "upsert_constraint", "remove_constraint", "upsert_blocker", "resolve_blocker", "remove_blocker",
              "add_artifact_ref", "remove_artifact_ref"}
ASSUME TaskAssumption ==
  /\ \A op \in Operations : op.type \in TaskTypes /\ op.id \in Ids
  /\ MaxOps \in Nat /\ "none" \notin Calls

VARIABLES revisions,  \* task_state_revisions: [patch, state, seen, call]
          taskView,       \* per client: the version and state it last read
          journal,    \* per Tool call: none, prepared, committed, uncertain
          args,       \* per Tool call: its patch and what its author had read
          taskPhase,      \* per Tool call: idle, running, applied, failed
          taskEvents      \* task_state.updated events: revision numbers
taskVars == <<revisions, taskView, journal, args, taskPhase, taskEvents>>

TaskClients == Users \cup Calls
NoFn == [i \in {} |-> "none"]
EmptyTaskState == [goal |-> "", tasks |-> NoFn, decisions |-> <<>>, constraints |-> NoFn, blockers |-> NoFn, refs |-> {}]
TaskStatuses == {"pending", "in_progress", "completed", "canceled"}

\* GetTaskState: the newest revision's snapshot, or the empty state at version 0.
version == Len(revisions)
current == IF version = 0 THEN EmptyTaskState ELSE revisions[version].state

----------------------------------------------------------------------------
\* applyTaskStateOperation.  An operation either applies or refuses the patch.
upsert(f, id, v) == [i \in DOMAIN f \cup {id} |-> IF i = id THEN v ELSE f[i]]
remove(f, id) == [i \in DOMAIN f \ {id} |-> f[i]]
containsDecision(ds, id) == \E k \in DOMAIN ds : ds[k].id = id
refuses(s, op) ==
  CASE op.type = "set_task_status" -> op.id \notin DOMAIN s.tasks \/ op.value \notin TaskStatuses
    [] op.type = "remove_task" -> op.id \notin DOMAIN s.tasks
    [] op.type = "add_decision" ->
         containsDecision(s.decisions, op.id) \/ (op.value # "" /\ ~containsDecision(s.decisions, op.value))
    [] op.type = "remove_constraint" -> op.id \notin DOMAIN s.constraints
    [] op.type \in {"resolve_blocker", "remove_blocker"} -> op.id \notin DOMAIN s.blockers
    [] OTHER -> FALSE
applyTaskStateOperation(s, op) ==
  CASE op.type = "set_goal" -> [s EXCEPT !.goal = op.value]
    [] op.type = "clear_goal" -> [s EXCEPT !.goal = ""]
    [] op.type \in {"upsert_task", "set_task_status"} -> [s EXCEPT !.tasks = upsert(@, op.id, op.value)]
    [] op.type = "remove_task" -> [s EXCEPT !.tasks = remove(@, op.id)]
    [] op.type = "add_decision" -> [s EXCEPT !.decisions = Append(@, [id |-> op.id, supersedes |-> op.value])]
    [] op.type = "upsert_constraint" -> [s EXCEPT !.constraints = upsert(@, op.id, op.value)]
    [] op.type = "remove_constraint" -> [s EXCEPT !.constraints = remove(@, op.id)]
    [] op.type = "upsert_blocker" -> [s EXCEPT !.blockers = upsert(@, op.id, op.value)]
    [] op.type = "resolve_blocker" -> [s EXCEPT !.blockers = upsert(@, op.id, "resolved")]
    [] op.type = "remove_blocker" -> [s EXCEPT !.blockers = remove(@, op.id)]
    [] op.type = "add_artifact_ref" -> [s EXCEPT !.refs = @ \cup {op.id}]
    [] op.type = "remove_artifact_ref" -> [s EXCEPT !.refs = @ \ {op.id}]
\* The patch on a copy: the first refused operation refuses it all.
step(acc, op) ==
  IF ~acc.ok \/ refuses(acc.state, op) THEN [acc EXCEPT !.ok = FALSE]
  ELSE [acc EXCEPT !.state = applyTaskStateOperation(@, op)]
patched(s, ops) ==
  LET after[k \in 0..Len(ops)] == IF k = 0 THEN [ok |-> TRUE, state |-> s] ELSE step(after[k - 1], ops[k])
  IN  after[Len(ops)]
taskSize(s) == Cardinality(DOMAIN s.tasks) + Len(s.decisions) + Cardinality(DOMAIN s.constraints)
           + Cardinality(DOMAIN s.blockers) + Cardinality(s.refs)
acceptable(s, ops) ==
  /\ ops # <<>> /\ Len(ops) <= MaxOps
  /\ patched(s, ops).ok /\ taskSize(patched(s, ops).state) <= MaxTaskItems

TaskInit ==
  /\ revisions = <<>>
  /\ taskView = [c \in TaskClients |-> [version |-> 0, state |-> EmptyTaskState]]
  /\ journal = [c \in Calls |-> "none"] /\ taskPhase = [c \in Calls |-> "idle"]
  /\ args = [c \in Calls |-> [ops |-> <<>>, seen |-> EmptyTaskState, expected |-> 0]]
  /\ taskEvents = {}

\* ApplyTaskStatePatch of the Store: one transaction under the Conversation's row lock.
\* Mutant: the expected version is not compared.
expectedAny(v) == TRUE
expected(v) == v = version
commits(ops, v, seen, call) ==
  /\ version < MaxVersion /\ expected(v) /\ acceptable(current, ops)
  /\ revisions' = Append(revisions, [patch |-> ops, state |-> patched(current, ops).state, seen |-> seen, call |-> call])

----------------------------------------------------------------------------
\* GET task-state; Context Assembly before a model call.
Load(c) ==
  /\ taskView[c].version # version
  /\ taskView' = [taskView EXCEPT ![c] = [version |-> version, state |-> current]]
  /\ UNCHANGED <<revisions, journal, args, taskPhase, taskEvents>>
\* PATCH task-state.  A conflict or an invalid patch changes nothing.
patchTaskState(u, ops) ==
  /\ commits(ops, taskView[u].version, taskView[u].state, "none")
  /\ UNCHANGED <<taskView, journal, args, taskPhase, taskEvents>>

\* The Tool: journal, Handler, journal, event.
BeginPatch(c, ops) ==
  /\ taskPhase[c] = "idle" /\ journal[c] = "none"
  /\ journal' = [journal EXCEPT ![c] = "prepared"] /\ taskPhase' = [taskPhase EXCEPT ![c] = "running"]
  /\ args' = [args EXCEPT ![c] = [ops |-> ops, seen |-> taskView[c].state, expected |-> taskView[c].version]]
  /\ UNCHANGED <<revisions, taskView, taskEvents>>
Apply(c) ==
  /\ taskPhase[c] = "running"
  /\ commits(args[c].ops, args[c].expected, args[c].seen, c)
  /\ taskPhase' = [taskPhase EXCEPT ![c] = "applied"]
  /\ UNCHANGED <<taskView, journal, args, taskEvents>>
\* A version conflict, an invalid patch or a failed transaction: the effect is uncertain.
Refused(c) ==
  /\ taskPhase[c] = "running"
  /\ taskPhase' = [taskPhase EXCEPT ![c] = "idle"] /\ journal' = [journal EXCEPT ![c] = "uncertain"]
  /\ UNCHANGED <<revisions, taskView, args, taskEvents>>
revisionOf(c) == CHOOSE k \in DOMAIN revisions : revisions[k].call = c
Publish(c) ==
  /\ taskPhase[c] = "applied" /\ revisionOf(c) \notin taskEvents
  /\ taskEvents' = taskEvents \cup {revisionOf(c)}
  /\ UNCHANGED <<revisions, taskView, journal, args, taskPhase>>
TaskSettle(c) ==
  /\ taskPhase[c] = "applied"
  /\ journal' = [journal EXCEPT ![c] = "committed"] /\ taskPhase' = [taskPhase EXCEPT ![c] = "idle"]
  /\ UNCHANGED <<revisions, taskView, args, taskEvents>>
\* The process dies: a prepared effect is uncertain for whoever tries the call again.
TaskCrash ==
  /\ \E c \in Calls : taskPhase[c] # "idle"
  /\ taskPhase' = [c \in Calls |-> "idle"]
  /\ journal' = [c \in Calls |-> IF taskPhase[c] # "idle" THEN "uncertain" ELSE journal[c]]
  /\ UNCHANGED <<revisions, taskView, args, taskEvents>>

patches == UNION {[1..n -> Operations] : n \in 1..MaxOps}
TaskNext ==
  \/ \E c \in TaskClients : Load(c)
  \/ \E u \in Users, ops \in patches : patchTaskState(u, ops)
  \/ \E c \in Calls, ops \in patches : BeginPatch(c, ops)
  \/ \E c \in Calls : Apply(c) \/ Refused(c) \/ Publish(c) \/ TaskSettle(c)
  \/ TaskCrash
TaskSpec == TaskInit /\ [][TaskNext]_taskVars

-----------------------------------------------------------------------------
(* Properties *)

stateBefore(k) == IF k = 1 THEN EmptyTaskState ELSE revisions[k - 1].state

\* The position of the last operation of a patch on one entity, 0 when there is none.
lastOn(ops, types, id) ==
  LET at == {i \in DOMAIN ops : ops[i].type \in types /\ ops[i].id = id}
  IN  IF at = {} THEN 0 ELSE CHOOSE i \in at : \A j \in at : j <= i

holds(f, g, ops, sets, removes, id) ==
  LET i == lastOn(ops, sets \cup removes, id)
  IN  IF i = 0 THEN (id \in DOMAIN f <=> id \in DOMAIN g) /\ (id \in DOMAIN f => f[id] = g[id])
      ELSE IF ops[i].type \in removes THEN id \notin DOMAIN g
      ELSE id \in DOMAIN g /\ g[id] = (IF ops[i].type = "resolve_blocker" THEN "resolved" ELSE ops[i].value)

\* A revision is its whole patch: every entity is as the last operation on it says, and the
\* ones no operation names are as before.  An accepted patch never drops an operation.
LastOperationWins ==
  \A k \in DOMAIN revisions, id \in Ids : LET r == revisions[k] IN
    /\ holds(stateBefore(k).tasks, r.state.tasks, r.patch, {"upsert_task", "set_task_status"}, {"remove_task"}, id)
    /\ holds(stateBefore(k).constraints, r.state.constraints, r.patch, {"upsert_constraint"}, {"remove_constraint"}, id)
    /\ holds(stateBefore(k).blockers, r.state.blockers, r.patch, {"upsert_blocker", "resolve_blocker"}, {"remove_blocker"}, id)

\* Nobody writes over a change it has not seen: the state a revision's author had read is
\* the one the revision replaced, for users and for a model's call that waited in between
\* ("it must reload and intentionally rebase").
AuthorSawWhatItChanged == \A k \in DOMAIN revisions : revisions[k].seen = stateBefore(k)

\* Decisions are append-only, and one can only supersede an earlier one: no revision loses a
\* decision, no chain of supersessions is circular or points nowhere.
DecisionsKeepHistory ==
  \A k \in DOMAIN revisions : LET ds == revisions[k].state.decisions IN
    /\ IsPrefix(stateBefore(k).decisions, ds)
    /\ \A i \in DOMAIN ds : ds[i].supersedes # "" => \E j \in 1..(i - 1) : ds[j].id = ds[i].supersedes

\* A committed receipt has its revision and only one, and a published event names a revision
\* that exists; the reverse may fail (the receipt or the event was lost).
ReceiptsHaveRevisions ==
  /\ \A c \in Calls : journal[c] = "committed" => Cardinality({k \in DOMAIN revisions : revisions[k].call = c}) = 1
  /\ \A k \in taskEvents : k \in DOMAIN revisions /\ revisions[k].call \in Calls

\* A Task State is the patches its authors meant, each applied whole to the state its author
\* saw: the four parts above.
TaskStateSafe ==
  LastOperationWins /\ AuthorSawWhatItChanged /\ DecisionsKeepHistory /\ ReceiptsHaveRevisions
=============================================================================
