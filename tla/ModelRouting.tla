---------------------------- MODULE ModelRouting ----------------------------
(***************************************************************************)
(* Which model serves a Run. The routes a process knows come from its      *)
(* route file. A Run freezes all of them; every Turn rebuilds the catalog  *)
(* from that snapshot with the clients installed now, derives what it      *)
(* needs, and takes the route of the first successful decision recorded in *)
(* the Run's events, or makes that decision. Compaction, Memory and title  *)
(* work use the decided route too. Processes die and come back with other  *)
(* route files.                                                            *)
(***************************************************************************)
EXTENDS Integers, Sequences, FiniteSets, FiniteSetsExt

CONSTANTS
    RouteFiles,    \* sets of route descriptors
    Turns,         \* [role, text, tools, input]: the Turns the Run may take
    MultiAgent,    \* the Run's mode
    RouterAuto,    \* a Multi-Agent Router may use the model
    Strict,        \* the completion contract asks for a strict output schema
    ContextWindow, OutputReserve, SafetyMargin,   \* frozen assembly limits
    SchemaTokens,  \* size of the Tool schemas, and of the output schema
    MaxTurns, MaxRestarts   \* bounds

\* A file lists finitely many routes; `order` is the rank of an identity among all.
ASSUME RoutingAssumption ==
    /\ RouteFiles # {}
    /\ \A f \in RouteFiles :
         /\ f # {} /\ IsFiniteSet(f)
         /\ \A d \in f : {d.priority, d.order, d.window, d.output} \subseteq Int
         /\ \A d, e \in f : d.order = e.order => d.id = e.id
    /\ \A t \in Turns : t.input \in Nat
    /\ {MultiAgent, RouterAuto, Strict} \subseteq BOOLEAN
    /\ {ContextWindow, OutputReserve, SafetyMargin, SchemaTokens, MaxTurns, MaxRestarts} \subseteq Nat

VARIABLES
    installed,  \* the route catalog of this process
    frozen,     \* the Run's snapshot of it; {} before the Run exists
    events,     \* model.route_decided events
    turn,       \* the Turn under way: its needs and the route decided for it
    routingSent,       \* the model requests of the Run: [id, model, credential]
    turns, restarts

routingVars == <<installed, frozen, events, turn, routingSent, turns, restarts>>

NoTurn == [phase |-> "idle"]
NoRoute == [id |-> "", model |-> "", credential |-> ""]

----------------------------------------------------------------------------
(* The catalog *)

\* Limits are positive and ordered, and a structured output format needs the
\* capability.
ValidateDescriptor(d) ==
    /\ d.id # "" /\ d.window > 0 /\ d.output > 0 /\ d.output <= d.window
    /\ d.format # "" => d.structured

\* At least one route, all valid, no identity twice.
NewCatalog(routes) ==
    /\ routes # {} /\ \A d \in routes : ValidateDescriptor(d)
    /\ \A d, e \in routes : d.id = e.id => d = e

Resolve(routes, id) == CHOOSE d \in routes : d.id = id

\* Mutant: the output allowance is left out of the window.
exclusionReasonsInput(d, need) ==
    {x \in {"tool_calling", "structured_output", "format", "streaming", "output_limit", "context_window"} :
        CASE x = "tool_calling" -> need.tools /\ ~d.tools
          [] x = "structured_output" -> need.structured /\ ~d.structured
          [] x = "format" -> need.format # "" /\ d.format # need.format
          [] x = "streaming" -> need.streaming /\ ~d.streaming
          [] x = "output_limit" -> need.output > d.output
          [] x = "context_window" -> need.input > d.window}
\* Every hard requirement the route cannot meet.
exclusionReasons(d, need) ==
    {x \in {"tool_calling", "structured_output", "format", "streaming", "output_limit", "context_window"} :
        CASE x = "tool_calling" -> need.tools /\ ~d.tools
          [] x = "structured_output" -> need.structured /\ ~d.structured
          [] x = "format" -> need.format # "" /\ d.format # need.format
          [] x = "streaming" -> need.streaming /\ ~d.streaming
          [] x = "output_limit" -> need.output > d.output
          [] x = "context_window" -> need.input + need.output > d.window}

\* Highest priority first, then the smallest identity.
precedes(d, e) == d.priority > e.priority \/ (d.priority = e.priority /\ d.order < e.order)

\* Run affinity excludes every other route before capabilities are compared.
selectRoute(routes, id, need) ==
    LET eligible == {d \in routes : exclusionReasons(d, need) = {} /\ (id # "" => d.id = id)}
    IN  IF eligible = {} THEN NoRoute
        ELSE CHOOSE d \in eligible : \A e \in eligible \ {d} : precedes(d, e)

----------------------------------------------------------------------------
(* The Run *)

RoutingInit ==
    /\ installed \in {f \in RouteFiles : NewCatalog(f)}
    /\ frozen = {} /\ events = <<>> /\ turn = NoTurn /\ routingSent = {}
    /\ turns = 0 /\ restarts = 0

captureModelRoutingSnapshot ==
    /\ frozen = {}
    /\ frozen' = installed
    /\ UNCHANGED <<installed, events, turn, routingSent, turns, restarts>>

ids(routes) == {d.id : d \in routes}

\* Every frozen route is installed with the same credential reference.
restoreModelRouteCatalog ==
    /\ frozen # {} /\ NewCatalog(frozen)
    /\ \A d \in frozen : d.id \in ids(installed) /\ Resolve(installed, d.id).credential = d.credential

\* The client is the installed one; what it sends is the frozen identity.
WithRuntimeIdentity(id) ==
    [id |-> id, model |-> Resolve(frozen, id).model, credential |-> Resolve(installed, id).credential]

\* The first event that selected a route.
selectedModelRoute ==
    LET chosen == {i \in DOMAIN events : events[i] # ""}
    IN  IF chosen = {} THEN "" ELSE events[Min(chosen)]

\* What a Turn needs. A Multi-Agent Run asks from its first Turn for what its
\* later Stages need; the estimate is capped by the frozen window.
modelRequirements(t) ==
    LET maxInput == ContextWindow - OutputReserve - SafetyMargin
        estimate == t.input + IF t.tools THEN SchemaTokens ELSE 0
    IN  [tools |-> t.tools,
         structured |-> t.role \in {"router", "decide"} \/ (MultiAgent /\ RouterAuto),
         format |-> "",
         streaming |-> ~t.text \/ MultiAgent,
         input |-> IF maxInput > 0 THEN Min({estimate, maxInput}) ELSE estimate,
         output |-> OutputReserve]

\* A strict contract asks every Turn for the final output's format.
withContract(need) ==
    IF ~Strict THEN need
    ELSE [need EXCEPT !.structured = TRUE, !.format = "json_schema", !.input = @ + SafetyMargin + SchemaTokens]

\* The decision is recorded, a failed one too, before anything is sent; an event
\* that cannot be stored fails the Turn.
selectModelRoute(t) ==
    LET need == withContract(modelRequirements(t))
        route == selectRoute(frozen, selectedModelRoute, need)
    IN  /\ turn = NoTurn /\ turns < MaxTurns /\ restoreModelRouteCatalog
        /\ turns' = turns + 1
        /\ \/ /\ events' = Append(events, route.id)
              /\ turn' = IF route = NoRoute THEN NoTurn ELSE [phase |-> "decided", need |-> need, id |-> route.id]
           \/ UNCHANGED <<events, turn>>
        /\ UNCHANGED <<installed, frozen, routingSent, restarts>>

\* executeText and executeStream: the decided client sends the request.
Execute ==
    /\ turn # NoTurn /\ turn.phase = "decided"
    /\ routingSent' = routingSent \cup {WithRuntimeIdentity(turn.id)}
    /\ turn' \in {NoTurn, [turn EXCEPT !.phase = "overflow"]}
    /\ UNCHANGED <<installed, frozen, events, turns, restarts>>

\* The provider refused the length: the same client compacts the context and the
\* Turn is sent again.
CompactAndRetry ==
    /\ turn # NoTurn /\ turn.phase = "overflow"
    /\ routingSent' = routingSent \cup {WithRuntimeIdentity(turn.id)}
    /\ turn' = NoTurn
    /\ UNCHANGED <<installed, frozen, events, turns, restarts>>

\* Background compaction, Memory extraction and the title, during the Run or
\* after it, in any process.
ModelClientForRun ==
    /\ restoreModelRouteCatalog /\ selectedModelRoute # ""
    /\ routingSent' = routingSent \cup {WithRuntimeIdentity(selectedModelRoute)}
    /\ UNCHANGED <<installed, frozen, events, turn, turns, restarts>>

\* A new process, possibly with another route file; a file that makes no catalog
\* does not start.
Restart ==
    /\ restarts < MaxRestarts
    /\ installed' \in {f \in RouteFiles : NewCatalog(f)}
    /\ turn' = NoTurn /\ restarts' = restarts + 1
    /\ UNCHANGED <<frozen, events, routingSent, turns>>

RoutingNext ==
    \/ captureModelRoutingSnapshot
    \/ \E t \in Turns : selectModelRoute(t)
    \/ Execute \/ CompactAndRetry \/ ModelClientForRun \/ Restart

RoutingSpec == RoutingInit /\ [][RoutingNext]_routingVars

----------------------------------------------------------------------------
(* Properties *)

\* All requests of a Run go to one model: the frozen one of one route, with the
\* credential reference it was frozen with. Failed decisions, restarts, other
\* route files and auxiliary work change nothing.
OneModelPerRun ==
    /\ Cardinality(routingSent) <= 1
    /\ \A s \in routingSent : \E d \in frozen : s.id = d.id /\ s.model = d.model /\ s.credential = d.credential

\* A Turn is sent only to a route that can serve it: capabilities, output limit,
\* and room for the input, the output and the strict schema.
sentTurnsFit ==
    turn # NoTurn /\ turn.phase = "decided" /\ turn' # turn /\ restarts' = restarts =>
        LET d == Resolve(frozen, turn.id)
            n == turn.need
        IN  /\ n.tools => d.tools
            /\ n.streaming => d.streaming
            /\ n.structured => d.structured
            /\ Strict => d.format = "json_schema"
            /\ n.output <= d.output /\ n.input + n.output <= d.window

\* The first decision of a Run takes a route no compatible frozen route outranks.
firstDecisionIsBest ==
    turn = NoTurn /\ turn' # NoTurn /\ (\A i \in DOMAIN events : events[i] = "") =>
        \A d \in frozen :
            d.priority > Resolve(frozen, turn'.id).priority => exclusionReasons(d, turn'.need) # {}

\* A Run is served by one model that can serve it: the three parts above.
RoutingSafe == []OneModelPerRun /\ [][sentTurnsFit /\ firstDecisionIsBest]_routingVars
=============================================================================
