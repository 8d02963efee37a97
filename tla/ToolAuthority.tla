--------------------------- MODULE ToolAuthority ---------------------------
(***************************************************************************)
(* Which Tool calls a Run may make. Four owners decide: the operator's     *)
(* Tool file (service enablement and security rules, reloaded when its     *)
(* modification time changes), the Workspace allowlist, the Agent, and the *)
(* Run's own snapshot, frozen when the Run is created. A Run restores its  *)
(* catalog from the snapshot in every process that executes it, and asks   *)
(* the current owners again before each call. A planning Run is frozen to  *)
(* read-only Tools, and its plan is executed by one separate Run.          *)
(***************************************************************************)
EXTENDS Naturals, FiniteSets

CONSTANTS
    Bindings,      \* the installed Tools
    Harness,       \* those of them the runtime adds to every Agent
    Remote,        \* those of them a Workspace MCP connection supplies
    Security,      \* [Bindings -> capability record]
    Scopes,        \* [Bindings -> the scopes a call's arguments may resolve to]
    Credentials,   \* the credential scopes the service holds
    Configs,       \* the Tool files the operator writes
    ReadTool,      \* file_read
    MaxChanges     \* bound: changes made by operator, owner and MCP discovery

ASSUME AuthorityAssumption ==
    /\ Harness \subseteq Bindings /\ Remote \subseteq Bindings
    /\ ReadTool \in Bindings
    /\ \A c \in Configs : c.enabled \subseteq Bindings
    /\ MaxChanges \in Nat

\* The Run that plans (or just chats) and the Run that executes its plan.
Runs == {"run", "execution"}

VARIABLES
    file,       \* the operator's Tool file: [v |-> modification time, cfg]
    authorityLoaded,     \* what the Manager loaded and the time it recorded for it
    reading,    \* the file content read by a reload that has not finished
    row,        \* workspace_tool_config
    joining,    \* the initial allowlist of a peer that found no row
    owner,      \* [active, archived, tools]: the Workspace and its Agent
    defs,       \* [Bindings -> definition revision; 0 when not installed]
    snap,       \* [Runs -> RuntimeSnapshot]
    authorityReady,      \* [Runs -> the Tools of the catalog in memory, or NoCatalog]
    status,     \* [Runs -> Run status]
    approval,   \* an approval of the plan between its check and the insert
    executions, \* Runs created from the plan
    last,       \* the last call that reached a handler
    changes

authorityVars == <<file, authorityLoaded, reading, row, joining, owner, defs, snap, authorityReady, status, approval, executions, last, changes>>

NoConfig == [enabled |-> {}, rules |-> {}, default |-> "none"]
NoRow == [allowed |-> {}, rev |-> 0]
NoTools == [set |-> FALSE, names |-> {}]
NoSnap == [tools |-> {}, defs |-> [t \in Bindings |-> 0], rules |-> {}, default |-> "deny", plan |-> FALSE, origin |-> FALSE]
NoCatalog == [set |-> FALSE, names |-> {}]
NoCall == [run |-> "none", tool |-> "none", n |-> 0]

----------------------------------------------------------------------------
(* The security policy *)

containsScope(max, req) ==
    /\ max.network = req.network
    /\ req.targets \subseteq max.targets
    /\ req.credentials \subseteq max.credentials
    /\ req.resources \subseteq max.resources

ValidateScope(s) ==
    /\ s.network \in {"none", "internal", "external"}
    /\ (s.network = "none") = (s.targets = {})
    /\ \A x \in s.resources : /\ x.kind \in {"run", "conversation", "workspace", "filesystem", "external"}
                              /\ x.access \in {"read", "write"}

ValidateCapability(cap) ==
    /\ cap.source \in {"local", "remote"}
    /\ cap.sideEffect \in {"none", "internal_write", "external_write", "destructive"}
    /\ cap.reversibility \in {"reversible", "compensatable", "irreversible"}
    /\ cap.approval \in {"none", "ask", "human_only"}
    /\ ValidateScope(cap.scope)

\* A file without a default action denies by default.
NormalizePolicy(c) == IF c.default = "" THEN [c EXCEPT !.default = "deny"] ELSE c

Actions == {"allow", "allow_and_log", "ask", "deny", "human_only"}

\* One rule per Tool, each with a known action and a valid capability.
ValidatePolicy(rules, default) ==
    /\ default \in Actions
    /\ \A u \in rules : u.action \in Actions /\ ValidateCapability(u.capability)
    /\ \A u, w \in rules : u.tool = w.tool => u = w

\* A rule names the maximum authority: every class equal, the scope contained.
capabilityContains(max, req) ==
    /\ \A f \in {"source", "sideEffect", "reversibility", "approval"} : max[f] = req[f]
    /\ containsScope(max.scope, req.scope)

sensitive(cap) ==
    \/ cap.sideEffect # "none" \/ cap.scope.network # "none" \/ cap.scope.credentials # {}
    \/ \E x \in cap.scope.resources : x.access = "write" \/ x.kind \in {"filesystem", "external"}

\* What an action grants: never what needs a human, and an irreversible effect
\* only when it is logged.
decisionForAction(action, cap) ==
    /\ action \in {"allow", "allow_and_log"}
    /\ cap.approval = "none"
    /\ cap.reversibility = "irreversible" => action = "allow_and_log"

\* Fail closed: the first failing check denies, a rule for the Tool decides
\* alone, and without one only local, harmless capabilities reach the default.
Evaluate(rules, default, tool, scope, available) ==
    LET declared == Security[tool]
        requested == [declared EXCEPT !.scope = scope]
        named == {u \in rules : u.tool = tool}
    IN  /\ ValidatePolicy(rules, default)
        /\ ValidateCapability(declared) /\ ValidateScope(scope)
        /\ containsScope(declared.scope, scope)
        /\ scope.credentials \subseteq available
        /\ IF named # {}
           THEN \E u \in named : /\ capabilityContains(u.capability, requested)
                                 /\ decisionForAction(u.action, requested)
           ELSE /\ declared.source # "remote" /\ ~sensitive(requested)
                /\ decisionForAction(default, requested)

AllowsPlanning(tool) ==
    /\ Security[tool].source = "local" /\ Security[tool].sideEffect = "none"
    /\ \A x \in Security[tool].scope.resources : x.access = "read"

TransmitsData(tool, scope) ==
    \/ Security[tool].source = "remote" \/ scope.network # "none"
    \/ \E x \in scope.resources : x.kind = "external"

UsesPrivateResources(tool) ==
    \E x \in Security[tool].scope.resources : x.kind \in {"run", "conversation", "workspace", "filesystem"}

----------------------------------------------------------------------------
(* The Manager: the operator's file *)

fresh == reading = NoConfig /\ authorityLoaded.v = file.v

\* A rename replaces the file.
SaveConfig ==
    /\ changes < MaxChanges
    /\ \E c \in Configs \ {file.cfg} : file' = [v |-> file.v + 1, cfg |-> c]
    /\ changes' = changes + 1
    /\ UNCHANGED <<authorityLoaded, reading, row, joining, owner, defs, snap, authorityReady, status, approval, executions, last>>

\* loadConfigWithModTime reads the file and asks for its time afterwards.
LoadConfig ==
    /\ reading = NoConfig /\ authorityLoaded.v # file.v
    /\ reading' = NormalizePolicy(file.cfg)
    /\ UNCHANGED <<file, authorityLoaded, row, joining, owner, defs, snap, authorityReady, status, approval, executions, last, changes>>

configModTime == file.v

\* An enabled Tool that is not installed, or a broken policy, leaves the Manager
\* as it was, and the request that asked for the catalog fails.
BuildCatalog(c) == ValidatePolicy(c.rules, c.default) /\ \A t \in c.enabled : defs[t] > 0

AuthorityInit ==
    /\ defs = [t \in Bindings |-> 1]
    /\ \E c \in Configs : BuildCatalog(NormalizePolicy(c)) /\ file = [v |-> 1, cfg |-> c]
    /\ authorityLoaded = [file EXCEPT !.cfg = NormalizePolicy(@)] /\ reading = NoConfig
    /\ row = NoRow /\ joining = NoTools
    /\ owner \in [active : {TRUE}, archived : {FALSE}, tools : {Bindings \ Harness}]
    /\ snap = [r \in Runs |-> NoSnap] /\ authorityReady = [r \in Runs |-> NoCatalog]
    /\ status = [r \in Runs |-> "none"]
    /\ approval = FALSE /\ executions = 0 /\ last = NoCall /\ changes = 0

Reload ==
    /\ reading # NoConfig
    /\ authorityLoaded' = IF BuildCatalog(reading) THEN [v |-> configModTime, cfg |-> reading] ELSE authorityLoaded
    /\ reading' = NoConfig
    /\ UNCHANGED <<file, row, joining, owner, defs, snap, authorityReady, status, approval, executions, last, changes>>

\* MCP discovery publishes new definitions; an owner connects or disconnects a
\* server; a deployment changes a definition.
ReplaceBindings ==
    /\ changes < MaxChanges /\ fresh
    /\ \E t \in Bindings \ Harness :
          \/ defs' = [defs EXCEPT ![t] = IF @ = 0 THEN 1 ELSE 2] /\ defs[t] < 2
          \/ t \in Remote /\ defs[t] # 0 /\ defs' = [defs EXCEPT ![t] = 0]
    /\ changes' = changes + 1
    /\ UNCHANGED <<file, authorityLoaded, reading, row, joining, owner, snap, authorityReady, status, approval, executions, last>>

\* Registration enables runtime and Workspace Bindings; the file the others.
enabledNames == {t \in Bindings : defs[t] > 0 /\ (t \in Harness \cup Remote \cup authorityLoaded.cfg.enabled)}

\* A connected Workspace server gets a logged rule of exactly its capability,
\* unless the operator has a rule for that Tool.
WithRules ==
    authorityLoaded.cfg.rules \cup
        {[tool |-> t, action |-> "allow_and_log", capability |-> Security[t]] :
            t \in {x \in Remote : defs[x] > 0 /\ \A u \in authorityLoaded.cfg.rules : u.tool # x}}

\* A Workspace server that is ready brings its own credential scopes.
credentialScopes(names) ==
    Credentials \cup UNION {Security[t].scope.credentials : t \in names \cap Remote}

----------------------------------------------------------------------------
(* Workspace and Agent *)

\* The first use stores the enabled names; an archived Workspace stores nothing.
EnsureWorkspaceToolConfig(r, initial) ==
    IF r = NoRow /\ owner.active THEN [allowed |-> initial, rev |-> 1] ELSE r

\* A peer found no row and inserts later; a row that is there by then wins.
PeerFindsNoRow ==
    /\ row = NoRow /\ owner.active /\ ~joining.set
    /\ \E c \in Configs : BuildCatalog(NormalizePolicy(c)) /\ joining' = [set |-> TRUE, names |-> c.enabled \cup Harness]
    /\ UNCHANGED <<file, authorityLoaded, reading, row, owner, defs, snap, authorityReady, status, approval, executions, last, changes>>

insertedRow == IF row = NoRow THEN [allowed |-> joining.names, rev |-> 1] ELSE row

PeerInserts ==
    /\ joining.set
    /\ row' = insertedRow /\ joining' = NoTools
    /\ UNCHANGED <<file, authorityLoaded, reading, owner, defs, snap, authorityReady, status, approval, executions, last, changes>>

\* Tools that are enabled by the service, allowed by the Workspace and not
\* denied by the policy whatever their arguments.
Resolve(r) ==
    {t \in enabledNames \cap r.allowed :
        Evaluate(WithRules, authorityLoaded.cfg.default, t, Security[t].scope, Security[t].scope.credentials)}

\* PUT /api/tools/{name}: only an installed Tool, and to enable it only one the
\* service has ready.
SetWorkspaceToolEnabled(t, enabled) ==
    LET r == EnsureWorkspaceToolConfig(row, enabledNames) IN
    /\ changes < MaxChanges /\ fresh /\ owner.active
    /\ defs[t] > 0 /\ (enabled => t \in enabledNames)
    /\ r # NoRow
    /\ row' = [allowed |-> IF enabled THEN r.allowed \cup {t} ELSE r.allowed \ {t}, rev |-> r.rev + 1]
    /\ changes' = changes + 1
    /\ UNCHANGED <<file, authorityLoaded, reading, joining, owner, defs, snap, authorityReady, status, approval, executions, last>>

UpdateAgent ==
    LET r == EnsureWorkspaceToolConfig(row, enabledNames) IN
    /\ changes < MaxChanges /\ fresh /\ owner.active /\ ~owner.archived
    /\ \E tools \in SUBSET (Bindings \ Harness) :
          /\ tools # owner.tools /\ tools \subseteq Resolve(r)
          /\ owner' = [owner EXCEPT !.tools = tools]
    /\ row' = r /\ changes' = changes + 1
    /\ UNCHANGED <<file, authorityLoaded, reading, joining, defs, snap, authorityReady, status, approval, executions, last>>

Archive ==
    /\ changes < MaxChanges
    /\ owner' \in {[owner EXCEPT !.archived = TRUE], [owner EXCEPT !.active = FALSE]}
    /\ owner' # owner /\ changes' = changes + 1
    /\ UNCHANGED <<file, authorityLoaded, reading, row, joining, defs, snap, authorityReady, status, approval, executions, last>>

----------------------------------------------------------------------------
(* The Run's own authority *)

withHarnessTools(tools) == tools \cup Harness

\* A planning Run keeps only Tools that can change nothing.
freezeExecutionIntent(tools, plan) == IF plan THEN {t \in tools : AllowsPlanning(t)} ELSE tools

captureRuntimeSnapshot(r, plan, origin) ==
    LET names == withHarnessTools(owner.tools) \cap Resolve(r)
        tools == freezeExecutionIntent(names, plan)
    IN  [tools |-> tools, defs |-> [t \in Bindings |-> IF t \in tools THEN defs[t] ELSE 0],
         rules |-> WithRules, default |-> authorityLoaded.cfg.default, plan |-> plan, origin |-> origin]

\* The checks an owner can withdraw between two calls.
currentRunAgent == owner.active /\ ~owner.archived

PrepareRun(plan) ==
    LET r == EnsureWorkspaceToolConfig(row, enabledNames) IN
    /\ status["run"] = "none" /\ fresh /\ currentRunAgent
    /\ row' = r
    /\ snap' = [snap EXCEPT !["run"] = captureRuntimeSnapshot(r, plan, FALSE)]
    /\ status' = [status EXCEPT !["run"] = "running"]
    /\ UNCHANGED <<file, authorityLoaded, reading, joining, owner, defs, authorityReady, approval, executions, last, changes>>

toolDefinitionMatches(r, t) == defs[t] = snap[r].defs[t]

\* restoreRuntime: every frozen Tool is still installed with its definition; the
\* catalog has the frozen policy and the enablement of this moment.
restorable(r) == currentRunAgent /\ \A t \in snap[r].tools : toolDefinitionMatches(r, t)

RestoreRuntime(r) ==
    LET current == EnsureWorkspaceToolConfig(row, enabledNames) IN
    /\ status[r] \in {"running", "interrupted"} /\ ~authorityReady[r].set /\ fresh
    /\ IF restorable(r)
       THEN /\ authorityReady' = [authorityReady EXCEPT ![r] = [set |-> TRUE, names |-> snap[r].tools \cap Resolve(current)]]
            /\ status' = [status EXCEPT ![r] = "running"]
       ELSE authorityReady' = authorityReady /\ status' = [status EXCEPT ![r] = "failed"]
    /\ row' = current
    /\ UNCHANGED <<file, authorityLoaded, reading, joining, owner, defs, snap, approval, executions, last, changes>>

AuthorityCrash(r) ==
    /\ status[r] = "running"
    /\ status' = [status EXCEPT ![r] = "interrupted"] /\ authorityReady' = [authorityReady EXCEPT ![r] = NoCatalog]
    /\ UNCHANGED <<file, authorityLoaded, reading, row, joining, owner, defs, snap, approval, executions, last, changes>>

\* The executor's own decision, on the frozen policy and restored catalog.
evaluateSecurity(r, t, scope) ==
    /\ t \in authorityReady[r].names
    /\ snap[r].plan => AllowsPlanning(t)
    /\ Evaluate(snap[r].rules, snap[r].default, t, scope, credentialScopes(authorityReady[r].names))
    /\ TransmitsData(t, scope) => ~snap[r].origin /\ ~UsesPrivateResources(t)

\* Mutant: authority is checked when the Run is restored, not at the call.
authorizeToolOnce(r, t, scope) == t \in snap[r].tools
\* Asked of the current owners before every call.
authorizeTool(r, t, scope) ==
    LET current == EnsureWorkspaceToolConfig(row, enabledNames) IN
    /\ t \in snap[r].tools /\ currentRunAgent
    /\ t \in withHarnessTools(owner.tools)
    /\ t \in Resolve(current)
    /\ toolDefinitionMatches(r, t)
    /\ Evaluate(WithRules, authorityLoaded.cfg.default, t, scope, credentialScopes(authorityReady[r].names))

Call(r, t, scope) ==
    /\ status[r] = "running" /\ fresh
    /\ evaluateSecurity(r, t, scope) /\ authorizeTool(r, t, scope)
    /\ last' = [run |-> r, tool |-> t, n |-> 1 - last.n]
    /\ row' = EnsureWorkspaceToolConfig(row, enabledNames)
    /\ UNCHANGED <<file, authorityLoaded, reading, joining, owner, defs, snap, authorityReady, status, approval, executions, changes>>

----------------------------------------------------------------------------
(* Plans *)

\* A planning Run that read a file completes with a recorded plan.
CompletePlan ==
    /\ status["run"] = "running" /\ authorityReady["run"].set /\ snap["run"].plan
    /\ last.run = "run" /\ last.tool = ReadTool
    /\ status' = [status EXCEPT !["run"] = "completed"] /\ authorityReady' = [authorityReady EXCEPT !["run"] = NoCatalog]
    /\ UNCHANGED <<file, authorityLoaded, reading, row, joining, owner, defs, snap, approval, executions, last, changes>>

\* resolvePlan: a completed planning Run, not executed yet, whose sources may
\* still be read.
mayExecutePlan ==
    /\ status["run"] = "completed" /\ snap["run"].plan /\ status["execution"] = "none"
    /\ authorizeTool("run", ReadTool, Security[ReadTool].scope)

ResolvePlan ==
    /\ fresh /\ ~approval /\ mayExecutePlan
    /\ approval' = TRUE
    /\ UNCHANGED <<file, authorityLoaded, reading, row, joining, owner, defs, snap, authorityReady, status, executions, last, changes>>

ExecutionRunID == "execution"

\* The execution Run's identity follows from the plan's: the insert of a second
\* approval, or of one in another process, conflicts.
createExecution == status[ExecutionRunID] = "none"

StartExecution(byPeer) ==
    LET r == EnsureWorkspaceToolConfig(row, enabledNames) IN
    /\ fresh /\ currentRunAgent /\ createExecution
    /\ IF byPeer THEN mayExecutePlan \/ approval ELSE approval
    /\ approval' = IF byPeer THEN approval ELSE FALSE
    /\ executions' = executions + 1
    /\ snap' = [snap EXCEPT !["execution"] = captureRuntimeSnapshot(r, FALSE, TRUE)]
    /\ status' = [status EXCEPT !["execution"] = "running"]
    /\ row' = r
    /\ UNCHANGED <<file, authorityLoaded, reading, joining, owner, defs, authorityReady, last, changes>>

----------------------------------------------------------------------------
AuthorityNext ==
    \/ SaveConfig \/ LoadConfig \/ Reload \/ ReplaceBindings
    \/ PeerFindsNoRow \/ PeerInserts
    \/ \E t \in Bindings, b \in BOOLEAN : SetWorkspaceToolEnabled(t, b)
    \/ UpdateAgent \/ Archive
    \/ \E plan \in BOOLEAN : PrepareRun(plan)
    \/ \E r \in Runs : RestoreRuntime(r) \/ AuthorityCrash(r)
    \/ \E r \in Runs, t \in Bindings : \E s \in Scopes[t] : Call(r, t, s)
    \/ CompletePlan \/ ResolvePlan \/ \E peer \in BOOLEAN : StartExecution(peer)

AuthoritySpec == AuthorityInit /\ [][AuthorityNext]_authorityVars

----------------------------------------------------------------------------
(* Properties *)

\* A call reaches a handler only inside every grant there is: the Run's frozen
\* one (Tools, definition, rules) and, at that moment, the installed definition,
\* the Agent's selection, the live Agent and Workspace, the allowlist and the
\* operator's rules. No reload, restart or re-enablement widens it, and a rule of
\* a Workspace server never outweighs the operator's.
callsStayInsideEveryGrant ==
    last' # last =>
        LET r == last'.run
            t == last'.tool
            Denied(rules) == \E u \in rules : u.tool = t /\ u.action \notin {"allow", "allow_and_log"}
        IN  /\ snap[r].defs[t] > 0 /\ snap[r].defs[t] = defs[t]
            /\ t \in owner.tools \cup Harness /\ owner.active /\ ~owner.archived
            /\ t \in row'.allowed
            /\ ~Denied(snap[r].rules) /\ ~Denied(authorityLoaded.cfg.rules)

\* The allowlist of a Workspace is decided once. After that it changes only by
\* an owner's command, one Tool and one revision at a time, whatever service
\* catalog a process starts with; an empty list stays empty.
allowlistIsDecidedOnce ==
    row # NoRow /\ row' # row =>
        /\ row'.rev = row.rev + 1
        /\ Cardinality((row'.allowed \ row.allowed) \cup (row.allowed \ row'.allowed)) <= 1

\* A planning Run changes nothing, and what it read does not leave with the Run
\* that executes its plan.
plansStayReadOnlyAndPrivate ==
    last' # last =>
        LET s == Security[last'.tool] IN
        /\ snap[last'.run].plan => s.sideEffect = "none" /\ {x \in s.scope.resources : x.access = "write"} = {}
        /\ snap[last'.run].origin => s.source # "remote"

\* However many approvals race, here and in other processes, a plan is executed
\* by one Run.
PlanExecutedOnce == executions <= 1

\* "each request still reloads operator configuration": when no reload is under
\* way and the Manager sees no newer file, what it uses is what the file says.
LoadedConfigIsTheFile == fresh => authorityLoaded.cfg = NormalizePolicy(file.cfg)

\* Authority only narrows: the three step parts above, and a plan is executed once.
AuthorityHolds ==
    /\ []PlanExecutedOnce
    /\ [][callsStayInsideEveryGrant /\ allowlistIsDecidedOnce /\ plansStayReadOnlyAndPrivate]_authorityVars
=============================================================================
