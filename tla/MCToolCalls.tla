---------------------------- MODULE MCToolCalls -----------------------------
(***************************************************************************)
(* The components a Tool call passes through, one at a time: the run picks  *)
(* a part, whose Next then moves while the other parts rest.                *)
(***************************************************************************)
EXTENDS ToolEffect, ToolLoop, ProgressGuard, ToolAuthority, McpConnections, SandboxRunner, TLC

CONSTANT Parts \* which components this run explores
VARIABLE part \* the one that moves

Local(side, rev, resources) ==
    [source |-> "local", sideEffect |-> side, reversibility |-> rev, approval |-> "none",
     scope |-> [network |-> "none", targets |-> {}, credentials |-> {}, resources |-> resources]]

MCBindings == {"file_read", "file_write", "mcp", "task"}

MCSecurity == [t \in MCBindings |->
    CASE t = "file_read" -> Local("none", "reversible", {[kind |-> "filesystem", access |-> "read"]})
      [] t = "file_write" -> Local("internal_write", "compensatable", {[kind |-> "filesystem", access |-> "write"], [kind |-> "filesystem", access |-> "read"]})
      [] t = "task" -> Local("internal_write", "compensatable", {[kind |-> "conversation", access |-> "write"]})
      [] t = "mcp" -> [source |-> "remote", sideEffect |-> "none", reversibility |-> "reversible", approval |-> "none",
                       scope |-> [network |-> "external", targets |-> {"host"}, credentials |-> {"wtoken"},
                                  resources |-> {[kind |-> "external", access |-> "read"]}]]]

\* Arguments may resolve to the declared scope, or to more than declared.
MCScopes == [t \in MCBindings |->
    {MCSecurity[t].scope} \cup
      {[MCSecurity[t].scope EXCEPT !.resources = @ \cup {[kind |-> "workspace", access |-> "write"]}] : x \in {t} \cap {"file_write", "mcp"}}]

Rule(t, a) == [tool |-> t, action |-> a, capability |-> MCSecurity[t]]

Open == [enabled |-> {"file_read", "file_write"}, default |-> "allow",
         rules |-> {Rule("file_read", "allow"), Rule("file_write", "allow_and_log"), Rule("task", "allow_and_log")}]

Closed == [enabled |-> {"file_read", "file_write"}, default |-> "",
           rules |-> {Rule("file_read", "allow"), Rule("file_write", "deny"), Rule("mcp", "ask"), Rule("task", "allow_and_log")}]

\* Two rules for one Tool.
Broken == [enabled |-> {"file_read"}, default |-> "allow", rules |-> {Rule("file_read", "allow"), Rule("file_read", "deny")}]

MCConfigs == {Open, Closed, Broken}

\* Effects: interchangeable calls and commands come in order, and with both calls begun there is
\* one command, or a crash; after a crash a second command was composed for a later version than
\* the first.  Sandbox: its interchangeable calls come in order, the third before any process ends.
\* Tool loop: beyond two rounds, one loaded writer.  Guard: beyond two rounds only reads are
\* begun; a fourth is one read, without new input.  Connections: an edited endpoint or token is
\* explored with an unchanging server.
ToolCallsBounds ==
  /\ part = "effects" =>
       /\ (call["c2"] # "idle" => call["c1"] # "idle") /\ (cmd["m2"] # NoCommand => cmd["m1"] # NoCommand)
       /\ cmd["m2"] # NoCommand /\ boot = 2 => cmd["m2"].expected > cmd["m1"].expected
       /\ call["c2"] # "idle" => cmd["m2"] = NoCommand /\ (boot = 1 \/ cmd["m1"] = NoCommand)
  /\ part = "toolloop" /\ round > 2 /\ batch # <<>> => mode = "lazy" /\ retries = 0 /\ Len(batch) <= 1 /\ discovery.active = {"writer"}
  /\ part = "sandbox" => (sandboxAt["q2"] # "idle" => sandboxAt["q1"] # "idle")
                         /\ (sandboxAt["q3"] # "idle" => sandboxAt["q2"] # "idle" /\ stops = 0)
  /\ part = "guard" => /\ resets > 0 => rounds <= 3
                       /\ rounds > 2 => \A i \in DOMAIN guardBatch : guardBatch[i] = "read"
                       /\ rounds > 3 => Len(guardBatch) <= 1
  /\ part = "mcp" => /\ remote["u2"] = "a"
                     /\ mcpRow.url # "u1" \/ tokens > 0 => mcpChanges = 0 /\ adapters = <<>>

-----------------------------------------------------------------------------
ToolCallsInit ==
  /\ part \in Parts
  /\ Init
  /\ LoopInit
  /\ GuardInit
  /\ AuthorityInit
  /\ McpInit
  /\ SandboxInit
  /\ part # "toolloop" => mode = "lazy" /\ ~bounded /\ ~steering
  /\ part # "authority" => file = [v |-> 1, cfg |-> Open]
  /\ part # "mcp" => mcpRow.url = (CHOOSE u \in Urls : TRUE) /\ remote = [u \in Urls |-> CHOOSE d \in Definitions : TRUE]

ToolCallsNext ==
  \/ part = "effects" /\ Next /\ UNCHANGED <<part, loopVars, guardVars, authorityVars, mcpVars, sandboxVars>>
  \/ part = "toolloop" /\ LoopNext /\ UNCHANGED <<part, vars, guardVars, authorityVars, mcpVars, sandboxVars>>
  \/ part = "guard" /\ GuardNext /\ UNCHANGED <<part, vars, loopVars, authorityVars, mcpVars, sandboxVars>>
  \/ part = "authority" /\ AuthorityNext /\ UNCHANGED <<part, vars, loopVars, guardVars, mcpVars, sandboxVars>>
  \/ part = "mcp" /\ McpNext /\ UNCHANGED <<part, vars, loopVars, guardVars, authorityVars, sandboxVars>>
  \/ part = "sandbox" /\ SandboxNext /\ UNCHANGED <<part, vars, loopVars, guardVars, authorityVars, mcpVars>>

toolCallsVars == <<part, vars, loopVars, guardVars, authorityVars, mcpVars, sandboxVars>>
ToolCallsSpec == ToolCallsInit /\ [][ToolCallsNext]_toolCallsVars

\* The fairness of ToolEffect and of SandboxRunner, each for its own part.
ToolCallsFairSpec ==
  /\ ToolCallsSpec
  /\ \A c \in Calls : WF_vars(part = "effects" /\ Executor(c))
  /\ WF_vars(part = "effects" /\ Restart) /\ WF_vars(part = "effects" /\ RepairInterruptedRun)
  /\ \A c \in SandboxCalls : WF_sandboxVars(part = "sandbox" /\ callStep(c))
  /\ WF_sandboxVars(part = "sandbox" /\ CloseTakes) /\ WF_sandboxVars(part = "sandbox" /\ CloseReleases)

\* Work that was begun comes to an end somebody sees: an attempt of an effect never stays
\* executing, whatever crashes (ToolEffect), and a Close whose deadline does not expire
\* gets every slot of the sandbox runner back, whatever the commands and their cleanups
\* did (SandboxRunner).
CallsComeToAnEnd == AttemptSurfaces /\ CloseFinishes
=============================================================================
