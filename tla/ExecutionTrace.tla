--------------------------- MODULE ExecutionTrace ---------------------------
(***************************************************************************)
(* The Stage, Turn, model-call and Tool-call events of a Run: who writes   *)
(* them (the Turn engine, the recorder around a model call, the tracer and *)
(* the progress sink around a Tool call), what a cancellation, a failed    *)
(* write or a crash leaves of them, how cold start closes what is open,    *)
(* and what the projections say of the result. A Stage is an attempt of    *)
(* the Run; every Stage has its checkpoint, so Stages are paired strictly. *)
(***************************************************************************)
EXTENDS Naturals, Sequences, FiniteSets, FiniteSetsExt, SequencesExt

CONSTANTS
    TraceCalls,          \* Tool calls of one batch
    MaxTraceTurns,       \* bound: Turns of the Run
    MaxModelCalls,  \* bound: model calls of a Turn
    MaxMessages,    \* progress messages of a Tool call
    MaxShown,       \* Tool calls whose progress a projection keeps
    MaxResumes,     \* bound: resumptions
    MaxLost         \* bound: event writes the store refuses

ASSUME TraceAssumption ==
    /\ IsFiniteSet(TraceCalls)
    /\ {MaxTraceTurns, MaxModelCalls, MaxMessages, MaxResumes, MaxLost} \subseteq Nat
    /\ MaxShown \in Nat \ {0}

VARIABLES
    traceLog,        \* the durable events
    traceRun,        \* the Run's status
    alive,      \* the process that executes the Run
    canceled,   \* the context of the execution
    stage,      \* the open Stage, 0 for none
    traceTurn,       \* the open Turn, 0 for none
    turns,      \* Turns started
    phase,      \* of the Turn: "ready", "model", "tools", "failed"
    models,     \* model calls of the Turn
    tools,      \* [Calls -> "idle", "handling", "returned"]
    sinks,      \* [Calls -> [open, pending, messages]]
    calls,      \* what became of every Tool call: <<turn, call>> -> [status, ended]
    lost, resumes

process == <<canceled, stage, traceTurn, phase, models, tools, sinks>>
traceVars == <<traceLog, traceRun, alive, process, turns, calls, lost, resumes>>

TraceRunning == [status |-> "running", ended |-> FALSE]
NoSink == [open |-> FALSE, pending |-> FALSE, messages |-> 0]

TraceInit ==
    /\ traceLog = <<>> /\ traceRun = "running" /\ alive = TRUE /\ canceled = FALSE
    /\ stage = 0 /\ traceTurn = 0 /\ turns = 0 /\ phase = "ready" /\ models = 0
    /\ tools = [c \in TraceCalls |-> "idle"] /\ sinks = [c \in TraceCalls |-> NoSink]
    /\ calls = <<>> /\ lost = 0 /\ resumes = 0

----------------------------------------------------------------------------
(* Events *)

\* ref is the call id in the payload: a model's start names its call, a model's
\* end does not.
NewRunEvent(kind, role, ref, status) ==
    [kind |-> kind, role |-> role, stage |-> stage, turn |-> traceTurn, ref |-> ref, status |-> status]

\* What a start and its end have in common.
family(e) ==
    CASE e.kind = "stage" -> <<"stage", e.stage>>
      [] e.kind = "tool"  -> <<"tool", e.ref>>
      [] OTHER            -> <<e.kind, e.turn>>

\* The recorder logs a refused write and goes on.
Recorded(e) ==
    \/ traceLog' = Append(traceLog, e) /\ lost' = lost
    \/ lost < MaxLost /\ lost' = lost + 1 /\ traceLog' = traceLog

Unrecorded == UNCHANGED <<traceLog, lost>>

----------------------------------------------------------------------------
(* Lifecycle: the scan, the repair and the diagnostics *)

\* One event; open holds the positions of the starts without an end.
scanEvent(s, es, i) ==
    LET e == es[i]
        same == {j \in s.open : family(es[j]) = family(e)}
    IN  CASE s.code # "ok" -> s
          [] e.role = "started" ->
                IF same # {} THEN [s EXCEPT !.code = "overlap"] ELSE [s EXCEPT !.open = @ \cup {i}]
          [] e.role = "progress" ->
                IF \E j \in same : es[j].turn = e.turn /\ es[j].stage = e.stage THEN s
                ELSE [s EXCEPT !.code = "progress_orphan"]
          [] e.role = "ended" ->
                IF same = {} THEN [s EXCEPT !.code = "terminal_orphan"] ELSE [s EXCEPT !.open = @ \ same]
          [] OTHER -> s

scanLifecycle(es) ==
    FoldLeft(LAMBDA s, i : scanEvent(s, es, i), [code |-> "ok", open |-> {}], [i \in 1..Len(es) |-> i])

ValidateLifecycle(es) == LET s == scanLifecycle(es) IN s.code = "ok" /\ s.open = {}

\* Mutant: model calls are not closed.
RepairedButModels == <<"tool", "turn", "stage">>
\* Inner scopes first, the latest first among equals.
Repaired == <<"tool", "model", "turn", "stage">>

PlanInterruptedLifecycleRepair(es) ==
    LET open == scanLifecycle(es).open
        ends(kind) ==
            [k \in 1..Cardinality({i \in open : es[i].kind = kind}) |->
                [es[SetToSortSeq({i \in open : es[i].kind = kind}, >)[k]] EXCEPT !.role = "ended", !.status = "synthetic"]]
    IN  FoldLeft(LAMBDA acc, kind : acc \o ends(kind), <<>>, Repaired)

plannable(es) ==
    /\ scanLifecycle(es).code = "ok"
    /\ ValidateLifecycle(es \o PlanInterruptedLifecycleRepair(es))

\* The first diagnostic of a stopped Run.
CheckRuntimeInvariants(status, es) ==
    LET s == scanLifecycle(es) IN
    CASE s.code # "ok" -> s.code
      [] status \in {"running", "canceling"} \/ s.open = {} -> "ok"
      [] OTHER -> "terminal_missing"

----------------------------------------------------------------------------
(* Projections *)

\* A set of open scopes after all events: started adds an id, ended removes it.
active(es, kind, id(_)) ==
    FoldLeft(LAMBDA set, e : CASE e.kind # kind -> set
                               [] e.role = "started" -> set \cup {id(e)}
                               [] e.role = "ended" -> set \ {id(e)}
                               [] OTHER -> set,
             {}, es)

\* The call id of the payload, or else the Turn.
modelCallID(e) == IF e.ref # <<>> THEN e.ref ELSE <<e.turn>>

BuildRunProjection(es) ==
    [stages |-> active(es, "stage", LAMBDA e : e.stage),
     turns  |-> active(es, "turn", LAMBDA e : e.turn),
     models |-> active(es, "model", modelCallID),
     tools  |-> active(es, "tool", LAMBDA e : e.ref)]

BuildRunTraceSummary(es) ==
    [llmCalls  |-> Quantify(1..Len(es), LAMBDA i : es[i].kind = "model" /\ es[i].role = "ended" /\ es[i].status = "completed"),
     toolCalls |-> Quantify(1..Len(es), LAMBDA i : es[i].kind = "tool" /\ es[i].role = "ended")]

\* The item of a call: the position of its last event and its status.
shownAs(e) ==
    CASE e.role = "progress" -> "running"
      [] e.status = "completed" -> "completed"
      [] e.status \in {"interrupted", "synthetic"} -> "interrupted"
      [] OTHER -> "failed"

\* A full list forgets the item with the oldest event.
evicted(items, call) ==
    IF call \in DOMAIN items \/ Cardinality(DOMAIN items) < MaxShown THEN items
    ELSE LET oldest == CHOOSE c \in DOMAIN items : \A d \in DOMAIN items : items[c].at <= items[d].at
         IN  [c \in DOMAIN items \ {oldest} |-> items[c]]

progressItems(es) ==
    FoldLeft(LAMBDA items, i :
                LET e == es[i]
                    item == [at |-> i, status |-> shownAs(e)]
                    kept == evicted(items, e.ref)
                IN  CASE e.kind = "tool" /\ e.role = "progress" ->
                            [c \in DOMAIN kept \cup {e.ref} |-> IF c = e.ref THEN item ELSE kept[c]]
                      [] e.kind = "tool" /\ e.role = "ended" /\ e.ref \in DOMAIN items ->
                            [items EXCEPT ![e.ref] = item]
                      [] OTHER -> items,
             <<>>, [i \in 1..Len(es) |-> i])

\* What still runs is interrupted if the Run stopped or was resumed since.
buildToolProgress(status, es) ==
    LET items == progressItems(es)
        resumedAt == Max({0} \cup {i \in 1..Len(es) : es[i].role = "resumed"})
    IN  [c \in DOMAIN items |->
            IF items[c].status = "running" /\ (items[c].at < resumedAt \/ status \notin {"running", "canceling"})
            THEN "interrupted" ELSE items[c].status]

----------------------------------------------------------------------------
(* The execution *)

StageStarted ==
    /\ alive /\ stage = 0 /\ traceRun = "running" /\ ~canceled
    /\ stage' = resumes + 1
    /\ traceLog' = Append(traceLog, [NewRunEvent("stage", "started", <<>>, "") EXCEPT !.stage = resumes + 1])
    /\ UNCHANGED <<traceRun, alive, canceled, traceTurn, phase, models, tools, sinks, turns, calls, lost, resumes>>

\* The engine stops if the event of the Turn's start is refused.
TurnStarted ==
    /\ alive /\ stage # 0 /\ traceTurn = 0 /\ turns < MaxTraceTurns /\ phase = "ready" /\ ~canceled
    /\ turns' = turns + 1
    /\ traceTurn' = turns + 1 /\ models' = 0
    /\ traceLog' = Append(traceLog, [NewRunEvent("turn", "started", <<>>, "") EXCEPT !.turn = turns + 1])
    /\ UNCHANGED <<traceRun, alive, canceled, stage, phase, tools, sinks, calls, lost, resumes>>

\* A model call begins; a canceled context records nothing.
LLMStart ==
    /\ alive /\ traceTurn # 0 /\ phase = "ready" /\ models < MaxModelCalls
    /\ phase' = "model" /\ models' = models + 1
    /\ IF canceled THEN Unrecorded
       ELSE Recorded(NewRunEvent("model", "started", <<traceTurn, models + 1>>, ""))
    /\ UNCHANGED <<traceRun, alive, canceled, stage, traceTurn, tools, sinks, turns, calls, resumes>>

\* The answer is there: it asks for Tools or is the Turn's output. Its event is
\* not written once the context is canceled.
LLMEnd ==
    /\ alive /\ phase = "model"
    /\ phase' \in {"ready", "tools"}
    /\ IF canceled THEN Unrecorded ELSE Recorded(NewRunEvent("model", "ended", <<>>, "completed"))
    /\ UNCHANGED <<traceRun, alive, canceled, stage, traceTurn, models, tools, sinks, turns, calls, resumes>>

\* An error is recorded whatever became of the context.
LLMError ==
    /\ alive /\ phase = "model"
    /\ phase' = "failed"
    /\ Recorded(NewRunEvent("model", "ended", <<>>, "failed"))
    /\ UNCHANGED <<traceRun, alive, canceled, stage, traceTurn, models, tools, sinks, turns, calls, resumes>>

\* StreamAnswer: a stream that ends well but brought no content (only Tool calls
\* nobody offered) is an error after the recorder's turn.
StreamEmpty ==
    /\ alive /\ phase = "model"
    /\ phase' = "failed"
    /\ Unrecorded
    /\ UNCHANGED <<traceRun, alive, canceled, stage, traceTurn, models, tools, sinks, turns, calls, resumes>>

\* Tool events are written without the cancellation of the call's context.
traceContext == TRUE

\* The executor starts a call and its handler.
ToolStarted(c) ==
    /\ alive /\ phase = "tools" /\ tools[c] = "idle" /\ <<traceTurn, c>> \notin DOMAIN calls
    /\ tools' = [tools EXCEPT ![c] = "handling"]
    /\ sinks' = [sinks EXCEPT ![c] = [open |-> TRUE, pending |-> FALSE, messages |-> 0]]
    /\ calls' = [k \in DOMAIN calls \cup {<<traceTurn, c>>} |-> IF k = <<traceTurn, c>> THEN TraceRunning ELSE calls[k]]
    /\ IF traceContext THEN Recorded(NewRunEvent("tool", "started", <<traceTurn, c>>, "")) ELSE Unrecorded
    /\ UNCHANGED <<traceRun, alive, canceled, stage, traceTurn, phase, models, turns, resumes>>

\* A handler reports, even one the executor no longer waits for.
ReportProgress(c) ==
    /\ alive /\ sinks[c].open /\ ~canceled /\ ~sinks[c].pending /\ sinks[c].messages < MaxMessages
    /\ sinks' = [sinks EXCEPT ![c].pending = TRUE]
    /\ UNCHANGED <<traceLog, traceRun, alive, canceled, stage, traceTurn, phase, models, tools, turns, calls, lost, resumes>>

\* ToolProgressUpdated under publish: nothing once the context is done.
publishes(c) == sinks[c].pending /\ ~canceled

PublishProgress(c) ==
    /\ alive /\ tools[c] = "handling" /\ publishes(c)
    /\ sinks' = [sinks EXCEPT ![c].pending = FALSE, ![c].messages = @ + 1]
    /\ Recorded(NewRunEvent("tool", "progress", <<traceTurn, c>>, ""))
    /\ UNCHANGED <<traceRun, alive, canceled, stage, traceTurn, phase, models, tools, turns, calls, resumes>>

\* The handler returns; its last report is published first, and the sink closed.
HandlerReturns(c) ==
    /\ alive /\ tools[c] = "handling"
    /\ tools' = [tools EXCEPT ![c] = "returned"]
    /\ sinks' = [sinks EXCEPT ![c] = NoSink]
    /\ \E status \in IF canceled THEN {"interrupted"} ELSE {"completed", "failed", "interrupted"} :
          calls' = [calls EXCEPT ![<<traceTurn, c>>].status = status]
    /\ IF publishes(c) THEN Recorded(NewRunEvent("tool", "progress", <<traceTurn, c>>, "")) ELSE Unrecorded
    /\ UNCHANGED <<traceRun, alive, canceled, stage, traceTurn, phase, models, turns, resumes>>

\* The deadline or the cancellation ends the wait; the handler may go on.
HandlerAbandoned(c) ==
    /\ alive /\ tools[c] = "handling"
    /\ tools' = [tools EXCEPT ![c] = "returned"]
    /\ sinks' = [sinks EXCEPT ![c] = NoSink]
    /\ calls' = [calls EXCEPT ![<<traceTurn, c>>].status = "interrupted"]
    /\ Unrecorded
    /\ UNCHANGED <<traceRun, alive, canceled, stage, traceTurn, phase, models, turns, resumes>>

\* The batch ends its calls when all have returned.
ToolFinished(c) ==
    /\ alive /\ phase = "tools" /\ tools[c] = "returned"
    /\ \A d \in TraceCalls : tools[d] # "handling"
    /\ tools' = [tools EXCEPT ![c] = "idle"]
    /\ calls' = [calls EXCEPT ![<<traceTurn, c>>].ended = TRUE]
    /\ Recorded(NewRunEvent("tool", "ended", <<traceTurn, c>>, calls[<<traceTurn, c>>].status))
    /\ UNCHANGED <<traceRun, alive, canceled, stage, traceTurn, phase, models, sinks, turns, resumes>>

BatchEnds ==
    /\ alive /\ phase = "tools" /\ \A c \in TraceCalls : tools[c] = "idle"
    /\ phase' = "ready"
    /\ UNCHANGED <<traceLog, traceRun, alive, canceled, stage, traceTurn, models, tools, sinks, turns, calls, lost, resumes>>

\* TurnCompleted or TurnFailed.
TurnEnded ==
    /\ alive /\ traceTurn # 0 /\ models > 0 /\ phase \in {"ready", "failed"}
    /\ traceLog' = Append(traceLog, NewRunEvent("turn", "ended", <<>>, IF phase = "failed" THEN "failed" ELSE "completed"))
    /\ traceTurn' = 0 /\ models' = 0
    /\ UNCHANGED <<traceRun, alive, canceled, stage, phase, tools, sinks, turns, calls, lost, resumes>>

\* The Stage ends with its Turns, and the Run with its Stage.
StageEnded ==
    /\ alive /\ stage # 0 /\ traceTurn = 0
    /\ traceLog' = Append(traceLog, NewRunEvent("stage", "ended", <<>>, IF phase = "failed" THEN "failed" ELSE "completed"))
    /\ stage' = 0
    /\ traceRun' = CASE canceled -> "canceled" [] phase = "failed" -> "failed" [] OTHER -> "completed"
    /\ alive' = FALSE
    /\ UNCHANGED <<canceled, traceTurn, phase, models, tools, sinks, turns, calls, lost, resumes>>

Stop ==
    /\ alive /\ traceRun = "running"
    /\ traceRun' = "canceling" /\ canceled' = TRUE
    /\ UNCHANGED <<traceLog, alive, stage, traceTurn, phase, models, tools, sinks, turns, calls, lost, resumes>>

TraceCrash ==
    /\ alive
    /\ alive' = FALSE
    /\ canceled' = FALSE /\ stage' = 0 /\ traceTurn' = 0 /\ phase' = "ready" /\ models' = 0
    /\ tools' = [c \in TraceCalls |-> "idle"] /\ sinks' = [c \in TraceCalls |-> NoSink]
    /\ UNCHANGED <<traceLog, traceRun, turns, calls, lost, resumes>>

\* Cold start; a log it cannot scan keeps the service from starting.
repairRuns ==
    /\ ~alive /\ traceRun \in {"running", "canceling"} /\ plannable(traceLog)
    /\ traceLog' = traceLog \o PlanInterruptedLifecycleRepair(traceLog)
    /\ traceRun' = IF traceRun = "canceling" THEN "canceled" ELSE "failed_recoverable"
    /\ calls' = [k \in DOMAIN calls |-> IF calls[k].ended THEN calls[k] ELSE [status |-> "interrupted", ended |-> TRUE]]
    /\ UNCHANGED <<alive, process, turns, lost, resumes>>

TraceResume ==
    /\ traceRun = "failed_recoverable" /\ resumes < MaxResumes
    /\ traceRun' = "running" /\ alive' = TRUE /\ resumes' = resumes + 1
    /\ traceLog' = Append(traceLog, NewRunEvent("run", "resumed", <<>>, ""))
    /\ UNCHANGED <<process, turns, calls, lost>>

TraceNext ==
    \/ StageStarted \/ TurnStarted \/ TurnEnded \/ StageEnded
    \/ LLMStart \/ LLMEnd \/ LLMError \/ StreamEmpty \/ BatchEnds
    \/ \E c \in TraceCalls : \/ ToolStarted(c) \/ ReportProgress(c) \/ PublishProgress(c)
                        \/ HandlerReturns(c) \/ HandlerAbandoned(c) \/ ToolFinished(c)
    \/ Stop \/ TraceCrash \/ repairRuns \/ TraceResume

TraceSpec == TraceInit /\ [][TraceNext]_traceVars

----------------------------------------------------------------------------
(* Properties *)

\* As long as the store accepts what is written, parallel calls, late reports,
\* deadlines, cancellations, crashes and repairs leave a log whose Stages, Turns
\* and Tool calls are paired; unless it is canceled its model calls are too, and
\* cold start can repair it.
LogIsPaired ==
    lost = 0 =>
        /\ scanLifecycle(SelectSeq(traceLog, LAMBDA e : e.kind # "model")).code = "ok"
        /\ traceRun \notin {"canceling", "canceled"} => scanLifecycle(traceLog).code = "ok"
        /\ ~alive /\ traceRun = "running" => plannable(traceLog)

\* Whatever the Run went through, its projection shows exactly the scopes that
\* are open and every Tool call as what became of it.
ProjectionTellsTruth ==
    lost = 0 /\ alive =>
        LET p == BuildRunProjection(traceLog)
            shown == buildToolProgress(traceRun, traceLog)
            status(k) == IF calls[k].ended THEN calls[k].status ELSE "running"
        IN  /\ p.stages = {stage} \ {0} /\ p.turns = {traceTurn} \ {0}
            /\ p.tools = {k \in DOMAIN calls : ~calls[k].ended}
            /\ BuildRunTraceSummary(traceLog).toolCalls = Cardinality(DOMAIN calls \ p.tools)
            /\ \A k \in DOMAIN shown : shown[k] = status(k)

\* A Run whose interruption was repaired shows no diagnostic and no open scope.
RepairIsComplete ==
    traceRun = "failed_recoverable" => CheckRuntimeInvariants(traceRun, traceLog) = "ok" /\ ValidateLifecycle(traceLog)

\* The protocol's pairing: a Run that ended by itself has no open scope.
StoppedRunsAreClosed == traceRun \in {"completed", "failed"} => CheckRuntimeInvariants(traceRun, traceLog) = "ok"

\* The projection's active model calls are calls that are under way.
ActiveModelsAreCalling == phase # "model" /\ alive => BuildRunProjection(traceLog).models = {}

\* Every interrupted Run can be repaired, so that the service starts.
InterruptedRunsAreRepairable == ~alive /\ traceRun \in {"running", "canceling"} => plannable(traceLog)

\* The trace of a Run is paired, its projection true and its repair complete: the first three
\* parts above.
TraceSafe == LogIsPaired /\ ProjectionTellsTruth /\ RepairIsComplete
=============================================================================
