--------------------------- MODULE MCAgentRuntime ---------------------------
(***************************************************************************)
(* The components that turn a Run into model calls, one at a time: the run  *)
(* picks a part, whose Next then moves while the other parts rest.          *)
(***************************************************************************)
EXTENDS ModelStream, ModelRouting, ContextAssembly, ContextCompaction, SkillMethods, AutonomousLoop, WorkerSelection, TLC

CONSTANT Parts \* which components this run explores
VARIABLE part \* the one that moves

chunk == [choices |-> 1, text |-> 0, reasoning |-> 0, call |-> <<>>, finish |-> "missing", refusal |-> FALSE]

toolCall(i, id, whole) == <<[index |-> i, id |-> id, whole |-> whole]>>

MCChunks ==
  {[chunk EXCEPT !.text = 1], [chunk EXCEPT !.reasoning = 1],
   [chunk EXCEPT !.call = toolCall(0, "x", TRUE)], [chunk EXCEPT !.call = toolCall(1, "y", FALSE)],
   [chunk EXCEPT !.call = toolCall(1, "z", TRUE)],
   [chunk EXCEPT !.text = 1, !.call = toolCall(0, "x", TRUE)],
   [chunk EXCEPT !.finish = "stop"],
   [chunk EXCEPT !.finish = "tool_calls"], [chunk EXCEPT !.finish = "length"],
   [chunk EXCEPT !.choices = 2, !.text = 1], [chunk EXCEPT !.refusal = TRUE]}

Descriptor(id, order, prio, tools, structured, format, window) ==
    [id |-> id, order |-> order, model |-> id, credential |-> "KEY", tools |-> tools, structured |-> structured,
     format |-> format, streaming |-> TRUE, window |-> window, output |-> 2, priority |-> prio]

Small == Descriptor("small", 1, 1, TRUE, TRUE, "json_schema", 8)

Large == Descriptor("large", 2, 2, TRUE, FALSE, "", 12)

Plain == [Descriptor("plain", 3, 3, FALSE, FALSE, "", 5) EXCEPT !.streaming = FALSE]

Renewed == [Small EXCEPT !.model = "renewed", !.window = 9]

Rekeyed == [Small EXCEPT !.credential = "OTHER"]

Wrong == [Small EXCEPT !.output = 20]

MCFiles == {{Small, Large, Plain}, {Renewed, Large, Plain}, {Rekeyed, Large, Plain}, {Small}, {Large, Plain}, {Small, Wrong}}

MCTurns == {[role |-> r, text |-> t, tools |-> o, input |-> i] :
               r \in {"answer", "router"}, t \in BOOLEAN, o \in BOOLEAN, i \in {1, 4, 9}}

MCSize == [prompt |-> 0, policy |-> 1, tools |-> 1, metadata |-> 1, call |-> 1, summary |-> 1, task_state |-> 1,
           draft |-> 1, q0 |-> 1, a0 |-> 2, q1 |-> 1, i1 |-> 1, i2 |-> 2, g1 |-> 1, m1 |-> 1, k1 |-> 1, p1 |-> 1, p2 |-> 3]

MCToolSource == [p1 |-> "S2", p2 |-> "S1", q0 |-> "none"]

past == <<[id |-> "h1", role |-> "user", text |-> "q0"], [id |-> "h2", role |-> "assistant", text |-> "a0"]>>

asking == Append(past, [id |-> "h3", role |-> "user", text |-> "q1"])

roomy == [window |-> 24, reserve |-> 2, margin |-> 1, history |-> 4, memory |-> 2, knowledge |-> 2, search |-> 2, result |-> 2]

tight == [roomy EXCEPT !.window = 14, !.reserve = 0]

chat == [path |-> "chat", history |-> asking, input |-> "q1", memories |-> <<[id |-> "m1", text |-> "g1"], [id |-> "m2", text |-> "m1"]>>,
         knowledge |-> <<[id |-> "c1", text |-> "k1", cites |-> "S1"]>>, search |-> <<[id |-> "h1", text |-> "q0"]>>,
         compacted |-> {}, guidance |-> <<"g1">>, skills |-> <<>>, config |-> roomy]

text == [chat EXCEPT !.path = "text", !.history = <<>>, !.search = <<>>, !.knowledge = <<>>]

MCSessions == {chat, [chat EXCEPT !.config = tight], [chat EXCEPT !.compacted = {"h1", "h2"}, !.search = <<>>, !.skills = <<"g1">>],
               [chat EXCEPT !.history = past, !.config = tight, !.guidance = <<>>], text, [text EXCEPT !.config = tight, !.history = asking]}

MCPolicy == [s1 |-> "explicit_only", s2 |-> "automatic"]

MCRequiredTools == [s1 |-> {}, s2 |-> {"t"}]

MCBound == [a |-> {"s1", "s2"}, b |-> {"s1"}]

MCBinding == [a |-> [s1 |-> "automatic", s2 |-> "automatic"], b |-> [s1 |-> "automatic", s2 |-> "automatic"]]

MCResource == <<TRUE, FALSE, TRUE>>

MCInstalled == [s1 |-> 1, s2 |-> 1]

profile(tools, memory, template, c, e, x) ==
  [tools |-> tools, memory |-> memory, template |-> template, capabilities |-> c, examples |-> e, terms |-> 1, exclusions |-> x]

MCProfiles == (1 :> profile({"shell", "web"}, TRUE, FALSE, 1, 0, 0)) @@ (2 :> profile({"web"}, FALSE, FALSE, 1, 0, 0)) @@ (3 :> profile({"shell"}, TRUE, TRUE, 2, 1, 1))

ask(r, p, m, f) == [required |-> r, prohibited |-> p, memory |-> m, preferred |-> f]

MCApprovals == {NoAsk, ask({"web"}, {}, TRUE, FALSE), ask({}, {"shell"}, FALSE, TRUE), ask({"web"}, {"web"}, FALSE, FALSE)}

\* Skills: installers race and die while no Run is followed; then one package is replaced.
\* Compaction: the background job is explored with turns, both roles and little time; the
\* policy of failures, yields and overflows without that job and with user messages.
\* Assembly: a second steering input comes in the first round.  Model calls: what
\* a request holds matters to the captured body, that of a completion, and an answer is retried
\* as Tool calls are.
AgentRuntimeBounds ==
  /\ part = "skills" =>
       /\ staged["i1"].version # 3 /\ staged["i2"].name # "s2" /\ disk["s2"].version # 3
       /\ ready = {} => \A i \in Installers : staged[i].phase = "idle"
       /\ (\E n \in Names : skillFrozen[n] # 0) =>
            /\ disk["s2"].version = 1 /\ disk["s1"].version # 3 /\ staged["i2"].phase = "idle"
            /\ staged["i1"].name # "s2" /\ staged["i1"].phase # "dead"
       /\ page.name # "none" \/ Len(log) > 2 => \A i \in Installers : staged[i].phase = "idle"
  /\ part = "assembly" /\ rounds > 1 => "i2" \notin queued \cup ToSet(applied)
  /\ part = "compaction" =>
       LET soft == job.running \/ job.closed \/ \E i \in DOMAIN compactionEvents : compactionEvents[i].trigger = "soft"
           overflow == lastKey = 2 \/ \E i \in DOMAIN compactionEvents : compactionEvents[i].trigger = "provider_overflow"
       IN  \/ ~overflow /\ now + crashes <= 2 /\ Len(messages) <= 4
           \/ ~overflow /\ ~soft /\ now = 1 /\ crashes = 0
           \/ ~soft /\ \A i \in DOMAIN messages : messages[i] = "user"
  /\ part = "selection" /\ selectionCrashes > 1 => changes = 0
  /\ part = "stream" /\ call.kind # "completion" =>
       /\ call.payload = "plain" /\ (call.kind = "answer" => try = 1) /\ (Len(records) > 1 => records[1].outcome # "")
       /\ (phase = "finished" => \A n \in DOMAIN records : records[n].capture.exact)

-----------------------------------------------------------------------------
AgentRuntimeInit ==
  /\ part \in Parts
  /\ StreamInit
  /\ RoutingInit
  /\ AssemblyInit
  /\ CompactionInit
  /\ SkillInit
  /\ AutoInit
  /\ SelectionInit
  /\ part # "routing" => installed = {Small, Large, Plain}
  /\ part # "assembly" => session = chat
  /\ part # "selection" => selectionReady = {}

AgentRuntimeNext ==
  \/ part = "stream" /\ StreamNext /\ UNCHANGED <<part, routingVars, assemblyVars, compactionVars, skillVars, autoVars, selectionVars>>
  \/ part = "routing" /\ RoutingNext /\ UNCHANGED <<part, streamVars, assemblyVars, compactionVars, skillVars, autoVars, selectionVars>>
  \/ part = "assembly" /\ AssemblyNext /\ UNCHANGED <<part, streamVars, routingVars, compactionVars, skillVars, autoVars, selectionVars>>
  \/ part = "compaction" /\ CompactionNext /\ UNCHANGED <<part, streamVars, routingVars, assemblyVars, skillVars, autoVars, selectionVars>>
  \/ part = "skills" /\ SkillNext /\ UNCHANGED <<part, streamVars, routingVars, assemblyVars, compactionVars, autoVars, selectionVars>>
  \/ part = "autonomous" /\ AutoNext /\ UNCHANGED <<part, streamVars, routingVars, assemblyVars, compactionVars, skillVars, selectionVars>>
  \/ part = "selection" /\ SelectionNext /\ UNCHANGED <<part, streamVars, routingVars, assemblyVars, compactionVars, skillVars, autoVars>>

agentRuntimeVars == <<part, streamVars, routingVars, assemblyVars, compactionVars, skillVars, autoVars, selectionVars>>
AgentRuntimeSpec == AgentRuntimeInit /\ [][AgentRuntimeNext]_agentRuntimeVars
=============================================================================
