--------------------------- MODULE ContextAssembly ---------------------------
(***************************************************************************)
(* How the request of a model call is assembled (contextassembly).  A Turn *)
(* keeps its protocol messages as they were written and assembles them     *)
(* again for every call: conversation history, durable steering, Skill     *)
(* methods, project guidance and platform policy are merged in, required   *)
(* content is counted first, and optional sources are selected while they  *)
(* fit.  What was selected is published as a manifest, from which the      *)
(* citations of the answer are resolved (app/runcompletion/citations.go).  *)
(* A text is an opaque value with a size in tokens; a message that gets a  *)
(* policy appended is one token longer.                                    *)
(***************************************************************************)
EXTENDS Integers, FiniteSets, SequencesExt

CONSTANTS Sessions,   \* sessions a Turn may be given (agent/turn_context.go)
          Size,       \* tokens of each text
          ToolTexts,  \* texts a Tool may return
          ToolSource, \* the Knowledge source a Tool text is a read of, or "none"
          Inputs,     \* durable steering inputs
          Skills,     \* Skills a call may activate; a Skill is named by its instructions
          MaxRounds,  \* bound: Tool rounds of the Run
          MaxAssemblyTurns    \* bound: Turns of the Run

VARIABLES session,   \* what the Turn was given at its start
          raw,       \* its protocol messages, not assembled
          queued,    \* steering inputs that wait
          applied,   \* steering inputs consumed by the Run, in order
          seen,      \* session.seenSteering: inputs a request of this Turn carried
          active,    \* active Skills, in order
          version,   \* revision of the Task State, 0 when there is none
          reads,     \* durable knowledge_read events
          retrieved, \* Knowledge sources of retrieval.completed events
          assemblyTurn, rounds,
          assemblyPhase,     \* "assemble", "model", "answered", "failed" or "done"
          request,   \* entries delivered by the last request
          manifest,  \* last manifest published
          citations  \* Knowledge sources cited by the answer

assemblyVars == <<session, raw, queued, applied, seen, active, version, reads, retrieved, assemblyTurn, rounds,
          assemblyPhase, request, manifest, citations>>

Msg(source, ref, role, text) ==
    [source |-> source, ref |-> ref, role |-> role, text |-> text, policies |-> {}, calls |-> FALSE, cites |-> "none"]

lastIndex(items, Test(_)) == LET at == {i \in DOMAIN items : Test(items[i])}
                             IN  IF at = {} THEN 0 ELSE CHOOSE i \in at : \A k \in at : k <= i
lastUser(items) == lastIndex(items, LAMBDA m : m.role = "user")

-----------------------------------------------------------------------------
(* Protocol messages of a Turn. *)

buildMessagesWithSystemPrompt(history) ==
    <<Msg("system", "system_prompt", "system", "prompt")>>
    \o [i \in DOMAIN history |-> Msg(IF i = lastUser(history) THEN "current_input" ELSE "history",
                                     history[i].id, history[i].role, history[i].text)]

ensureCurrentInput(messages, latest) ==
    LET at == lastIndex(messages, LAMBDA m : m.source = "current_input")
        demoted == IF at = 0 THEN messages ELSE [messages EXCEPT ![at].source = "history"]
    IN  IF at # 0 /\ messages[at].text = latest THEN messages
        ELSE Append(demoted, Msg("current_input", "current_input", "user", latest))

\* A chat is given the history as messages; a text call only its prompt and its input.
PrepareAgentChat(s) == ensureCurrentInput(buildMessagesWithSystemPrompt(s.history), s.input)
PrepareText(s) == <<Msg("system", "system_prompt", "system", "prompt"), Msg("current_input", "current_input", "user", s.input)>>
prepare(s) == IF s.path = "chat" THEN PrepareAgentChat(s) ELSE PrepareText(s)

AssemblyInit ==
    /\ session \in Sessions /\ raw = prepare(session) /\ retrieved = {session.knowledge[i].cites : i \in DOMAIN session.knowledge}
    /\ queued = {} /\ applied = <<>> /\ seen = {} /\ active = <<>> /\ version = 0 /\ reads = <<>>
    /\ assemblyTurn = 1 /\ rounds = 0 /\ assemblyPhase = "assemble" /\ request = <<>> /\ manifest = <<>> /\ citations = {}

-----------------------------------------------------------------------------
(* Merging. *)

excludeCompactedHistory(messages, s) == SelectSeq(messages, LAMBDA m : ~(m.source = "history" /\ m.ref \in s.compacted))

\* Session history is added where the messages carry none, before the first user message.
mergeSessionHistory(messages, s) ==
    LET told == SelectSeq([i \in DOMAIN s.history |-> [m |-> Msg("history", s.history[i].id, s.history[i].role, s.history[i].text),
                                                      current |-> i = lastUser(s.history) /\ s.history[i].text = s.input]],
                          LAMBDA x : ~x.current)
        prior == [i \in DOMAIN told |-> told[i].m]
        users == {i \in DOMAIN messages : messages[i].role = "user"}
        at == IF users = {} THEN Len(messages) + 1 ELSE CHOOSE i \in users : \A k \in users : i <= k
        merged == IF \E i \in DOMAIN messages : messages[i].source = "history" THEN messages
                  ELSE SubSeq(messages, 1, at - 1) \o prior \o SubSeq(messages, at, Len(messages))
    IN  excludeCompactedHistory(merged, s)

\* Messages of the Tool loop carry no source yet.
normalizeMessages(messages) ==
    [i \in DOMAIN messages |-> LET m == messages[i] IN
        IF m.source # "" THEN m
        ELSE [m EXCEPT !.source = IF m.role = "tool" THEN "tool_result" ELSE IF m.calls THEN "tool_call"
                                  ELSE IF i = lastUser(messages) THEN "current_input" ELSE "history"]]

\* An applied input is delivered once, after everything else, whatever copies the messages hold.
withSteering(messages, inputs) ==
    SelectSeq(messages, LAMBDA m : m.ref \notin ToSet(inputs))
    \o [i \in DOMAIN inputs |-> Msg("steering", inputs[i], "user", inputs[i])]

leading(messages) == IF \A i \in DOMAIN messages : messages[i].role = "system" THEN Len(messages)
                     ELSE (CHOOSE i \in DOMAIN messages : messages[i].role # "system"
                                                          /\ \A k \in 1..(i - 1) : messages[k].role = "system") - 1
insertAfterSystem(messages, context) ==
    SubSeq(messages, 1, leading(messages)) \o context \o SubSeq(messages, leading(messages) + 1, Len(messages))
appendPolicy(messages, policy) ==
    LET at == CHOOSE i \in DOMAIN messages : messages[i].role = "system" /\ \A k \in 1..(i - 1) : messages[k].role # "system"
    IN  [messages EXCEPT ![at].policies = @ \union {policy}]

appendSkillContext(messages, s, methods) ==
    IF s.skills = <<>> /\ methods = <<>> THEN messages
    ELSE insertAfterSystem(appendPolicy(messages, "skills"),
             [i \in DOMAIN s.skills |-> Msg("skill_metadata", s.skills[i], "user", "metadata")]
             \o [i \in DOMAIN methods |-> Msg("skill_instructions", methods[i], "user", methods[i])])

appendProjectGuidance(messages, s) ==
    LET methods == {messages[i].text : i \in {k \in DOMAIN messages : messages[k].source = "skill_instructions"}}
        wanted == SelectSeq(s.guidance, LAMBDA text : text \notin methods)
    IN  IF s.guidance = <<>> THEN messages
        ELSE insertAfterSystem(appendPolicy(messages, "guidance"),
                               [i \in DOMAIN wanted |-> Msg("project_guidance", wanted[i], "user", wanted[i])])

applyRetrievedContextTrustPolicy(messages) == appendPolicy(messages, "retrieved")
withPlatformPolicy(messages) == insertAfterSystem(messages, <<Msg("platform_policy", "platform-security-v1", "system", "policy")>>)

-----------------------------------------------------------------------------
(* Candidates and their selection. *)

larger(a, b) == IF a > b THEN a ELSE b
DefaultConfig == [window |-> 128000, reserve |-> 8192, margin |-> 4096, history |-> 64000, memory |-> 8000,
                  knowledge |-> 16000, search |-> 3000, result |-> 2000]
NormalizeConfig(c) ==
    LET d == [k \in DOMAIN c |-> IF c[k] <= 0 THEN DefaultConfig[k] ELSE c[k]]
    IN  IF d.reserve + d.margin >= d.window
        THEN [d EXCEPT !.reserve = larger(1, d.window \div 8), !.margin = larger(1, d.window \div 16)]
        ELSE d
inputBudget(c) == c.window - c.reserve - c.margin

isRequiredSource(source) ==
    source \in {"system", "platform_policy", "current_input", "steering", "tool_call", "tool_result",
                "skill_metadata", "skill_instructions", "project_guidance"}

estimateMessageTokens(m) == Size[m.text] + Cardinality(m.policies)

knowledgeToolCitation(m, transformation) == IF transformation = "original" THEN m.cites ELSE "none"

\* A result above its limit is cut to it.
messageEntry(m, c) ==
    LET cut == m.source = "tool_result" /\ Size[m.text] > c.result
        transformation == IF cut THEN "tool_result_compacted" ELSE "original"
    IN  [source |-> m.source, ref |-> m.ref, text |-> m.text, transformation |-> transformation,
         tokens |-> IF cut THEN c.result ELSE estimateMessageTokens(m),
         cites |-> knowledgeToolCitation(m, transformation), selected |-> isRequiredSource(m.source)]

Candidate(source, ref, text, transformation, cites, selected) ==
    [source |-> source, ref |-> ref, text |-> text, transformation |-> transformation, tokens |-> Size[text],
     cites |-> cites, selected |-> selected]

\* A Memory that says what project guidance says is no candidate.
suppressGuidanceMemoryDuplicates(s) == SelectSeq(s.memories, LAMBDA m : m.text \notin ToSet(s.guidance))
memoryCandidates(s) ==
    LET kept == suppressGuidanceMemoryDuplicates(s)
    IN  [i \in DOMAIN kept |-> Candidate("memory", kept[i].id, kept[i].text, "untrusted_json_wrapped", "none", FALSE)]
knowledgeCandidates(s) ==
    [i \in DOMAIN s.knowledge |-> Candidate("knowledge", s.knowledge[i].id, s.knowledge[i].text, "untrusted_wrapped", s.knowledge[i].cites, FALSE)]

\* Reads of other Turns; this Turn has its own as Tool results.
loadKnowledgeReads == SelectSeq(reads, LAMBDA r : r.turn # assemblyTurn)
knowledgeReadCandidates(items) ==
    [i \in DOMAIN items |-> Candidate("knowledge", items[i].call, items[i].text, "knowledge_read_wrapped", items[i].cites, FALSE)]
historySearchCandidates(s) ==
    [i \in DOMAIN s.search |-> Candidate("history_search", s.search[i].id, s.search[i].text, "retrieved_original", "none", FALSE)]
contextCompactionCandidate(s) ==
    IF s.compacted = {} THEN <<>> ELSE <<Candidate("context_compaction", "summary", "summary", "compacted", "none", TRUE)>>
structuredTaskStateCandidate ==
    IF version = 0 THEN <<>> ELSE <<Candidate("task_state", ToString(version), "task_state", "structured_json", "none", TRUE)>>

total(items) == FoldLeft(LAMBDA sum, e : sum + e.tokens, 0, items)
chosen(items) == SelectSeq(items, LAMBDA e : e.selected)

selectRelevant(items, sourceBudget, remaining) ==
    FoldLeft(LAMBDA acc, e : LET fits == e.tokens > 0 /\ acc.used + e.tokens <= sourceBudget /\ e.tokens <= remaining - acc.used
                             IN  [used |-> IF fits THEN acc.used + e.tokens ELSE acc.used,
                                  items |-> Append(acc.items, IF fits THEN [e EXCEPT !.selected = TRUE] ELSE e)],
             [used |-> 0, items |-> <<>>], items)

suppressRetrievedHistoryDuplicates(entries, found) ==
    [i \in DOMAIN entries |-> IF entries[i].source = "history" /\ \E k \in DOMAIN found : found[k].selected /\ found[k].ref = entries[i].ref
                              THEN [entries[i] EXCEPT !.tokens = 0] ELSE entries[i]]

\* The recent end of the history is selected first.
selectRecentHistory(entries, sourceBudget, remaining) ==
    LET past == Reverse(SelectSeq(entries, LAMBDA e : e.source = "history"))
        picked == selectRelevant(past, sourceBudget, remaining)
        keep == {picked.items[i].ref : i \in {k \in DOMAIN picked.items : picked.items[k].selected}}
    IN  [used |-> picked.used,
         items |-> [i \in DOMAIN entries |-> IF entries[i].source = "history" THEN [entries[i] EXCEPT !.selected = @ \/ entries[i].ref \in keep]
                                             ELSE entries[i]]]

\* The pack of a request: what it requires, what it carries, and what its manifest says it costs.
Pack(messages, s) ==
    LET c == NormalizeConfig(s.config)
        entries == [i \in DOMAIN messages |-> messageEntry(messages[i], c)]
        tools == Candidate("tool_definition", "tools", "tools", "original", "none", TRUE)
        always == structuredTaskStateCandidate \o contextCompactionCandidate(s)
        required == total(chosen(entries)) + tools.tokens + total(always)
        budget == inputBudget(c)
        found == selectRelevant(historySearchCandidates(s), c.search, budget - required)
        past == selectRecentHistory(suppressRetrievedHistoryDuplicates(entries, found.items), c.history, budget - required - found.used)
        memory == selectRelevant(memoryCandidates(s), c.memory, budget - required - found.used - past.used)
        knowledge == selectRelevant(knowledgeCandidates(s) \o knowledgeReadCandidates(loadKnowledgeReads), c.knowledge,
                                    budget - required - found.used - past.used - memory.used)
        sections == always \o chosen(found.items) \o chosen(memory.items) \o chosen(knowledge.items)
        fits == required <= budget
        packed == IF fits THEN chosen(past.items) ELSE chosen(entries)
    IN  [fits |-> fits, tools |-> tools, packed |-> packed, sections |-> IF fits THEN sections ELSE always,
         estimated |-> required + IF fits THEN found.used + past.used + memory.used + knowledge.used ELSE 0]

\* Selected context is written into the current input.
injectSelectedContext(pack) ==
    <<pack.tools>> \o pack.packed
    \o IF \E i \in DOMAIN pack.packed : pack.packed[i].source = "current_input" THEN pack.sections ELSE <<>>

-----------------------------------------------------------------------------
(* Steps of a Turn. *)

ConsumeSteering == applied \o SetToSeq(queued)

\* What the loaders put together, in their order.
assembled(inputs) ==
    LET merged == withSteering(normalizeMessages(mergeSessionHistory(raw, session)), inputs)
    IN  withPlatformPolicy(applyRetrievedContextTrustPolicy(
            appendProjectGuidance(appendSkillContext(merged, session, active), session)))

\* One assembly.  A failure of a later loader does not take back the inputs that were consumed.
Assemble(fault) ==
    assemblyPhase = "assemble" /\
    \E inputs \in {IF fault \in {"guidance", "task_state", "steering"} THEN applied ELSE ConsumeSteering} :
    \E messages \in {assembled(inputs)} : \E pack \in {Pack(messages, session)} :
        /\ (fault = "guidance" => session.guidance # <<>>)
        /\ applied' = inputs /\ queued' = queued \ ToSet(inputs)
        /\ IF fault # "none" THEN assemblyPhase' = "failed" /\ UNCHANGED <<manifest, request, seen>>
           ELSE /\ manifest' = [estimated |-> pack.estimated, entries |-> <<pack.tools>> \o pack.packed \o pack.sections]
                /\ IF ~pack.fits THEN assemblyPhase' = "failed" /\ UNCHANGED <<request, seen>>
                   ELSE /\ assemblyPhase' = "model" /\ request' = injectSelectedContext(pack)
                        /\ seen' = seen \union {messages[i].ref : i \in {k \in DOMAIN messages : messages[k].source = "steering"}}
        /\ UNCHANGED <<session, raw, active, version, reads, retrieved, assemblyTurn, rounds, citations>>

\* A Tool round of a chat.  The call may also revise the Task State or activate a Skill.
ToolRound(text, effect) ==
    LET call == rounds + 1
        name == ToString(call)
        result == [Msg("", name, "tool", text) EXCEPT !.cites = ToolSource[text]]
    IN  /\ assemblyPhase = "model" /\ session.path = "chat" /\ rounds < MaxRounds
        /\ rounds' = call /\ assemblyPhase' = "assemble"
        /\ raw' = raw \o <<[Msg("", ToString(-call), "assistant", "call") EXCEPT !.calls = TRUE], result>>
        /\ reads' = IF ToolSource[text] = "none" THEN reads
                    ELSE Append(reads, [call |-> name, text |-> text, cites |-> ToolSource[text], turn |-> assemblyTurn])
        /\ version' = IF effect = "task_state" THEN version + 1 ELSE version
        /\ active' = IF effect \in Skills /\ effect \notin ToSet(active) THEN Append(active, effect) ELSE active
        /\ UNCHANGED <<session, queued, applied, seen, retrieved, assemblyTurn, request, manifest, citations>>

\* A user steers the Run.
Steer(i) ==
    /\ assemblyPhase \in {"assemble", "model"} /\ i \notin queued \union ToSet(applied)
    /\ queued' = queued \union {i}
    /\ UNCHANGED <<session, raw, applied, seen, active, version, reads, retrieved, assemblyTurn, rounds, assemblyPhase, request, manifest, citations>>

\* Mutant: an input the Run has applied counts as shown.
checkApplied(inputs) == \E i \in DOMAIN inputs : inputs[i] \notin ToSet(inputs)
checkSteering(inputs) == \E i \in DOMAIN inputs : inputs[i] \notin seen

\* The model answers.  A chat looks for steering first, and goes on when an input has not been shown.
Answer ==
    LET inputs == IF session.path = "chat" THEN ConsumeSteering ELSE applied
    IN  /\ assemblyPhase = "model"
        /\ applied' = inputs /\ queued' = queued \ ToSet(inputs)
        /\ IF session.path = "chat" /\ checkSteering(inputs)
           THEN assemblyPhase' = "assemble" /\ raw' = Append(raw, Msg("", ToString(-(100 + Len(raw))), "assistant", "draft"))
           ELSE assemblyPhase' = "answered" /\ UNCHANGED raw
        /\ UNCHANGED <<session, seen, active, version, reads, retrieved, assemblyTurn, rounds, request, manifest, citations>>

\* Another Turn of the Run, with a session of its own.
NextTurn(s) ==
    /\ assemblyPhase \in {"answered", "failed"} /\ assemblyTurn < MaxAssemblyTurns /\ s.path = "text"
    /\ assemblyTurn' = assemblyTurn + 1 /\ session' = s /\ raw' = prepare(s) /\ seen' = {} /\ assemblyPhase' = "assemble" /\ request' = <<>>
    /\ retrieved' = retrieved \union {s.knowledge[i].cites : i \in DOMAIN s.knowledge}
    /\ UNCHANGED <<queued, applied, active, version, reads, rounds, manifest, citations>>

isSelectedKnowledgeRead(e) ==
    e.cites # "none" /\ ((e.source = "tool_result" /\ e.transformation = "original")
                         \/ (e.source = "knowledge" /\ e.transformation = "knowledge_read_wrapped"))
selectedCitationSourceIDs(entries) == {entries[i].cites : i \in DOMAIN entries} \ {"none"}

\* The last manifest of the Run says which sources its answer may cite.
knowledgeEvidenceForRun ==
    LET entries == manifest.entries
        calls == {entries[i].ref : i \in {k \in DOMAIN entries : isSelectedKnowledgeRead(entries[k])}}
        eligible == {reads[i].cites : i \in {k \in DOMAIN reads : reads[k].call \in calls}}
    IN  selectedCitationSourceIDs(entries) \intersect (retrieved \union eligible)

ResolveCitations ==
    /\ assemblyPhase = "answered" /\ assemblyPhase' = "done" /\ citations' = knowledgeEvidenceForRun
    /\ UNCHANGED <<session, raw, queued, applied, seen, active, version, reads, retrieved, assemblyTurn, rounds, request, manifest>>

Faults == {"none", "guidance", "task_state", "steering", "skills", "reads", "sink"}

AssemblyNext ==
    \/ \E fault \in Faults : Assemble(fault)
    \/ \E text \in ToolTexts, effect \in Skills \union {"none", "task_state"} : ToolRound(text, effect)
    \/ \E i \in Inputs : Steer(i)
    \/ Answer
    \/ \E s \in Sessions : NextTurn(s)
    \/ ResolveCitations

AssemblySpec == AssemblyInit /\ [][AssemblyNext]_assemblyVars

-----------------------------------------------------------------------------
(* Properties. *)

\* A request fits: what it delivers is what its manifest estimates, and leaves the window room for the answer.
RequestFits ==
    assemblyPhase = "model" => /\ total(request) = manifest.estimated
                       /\ total(request) <= session.config.window - larger(1, session.config.window \div 8)

\* Nothing is told twice: a message comes as history, as retrieved history, as steering or as the current input,
\* and every project instruction comes exactly once, from guidance or from an active Skill, not from Memory.
DeliveredOnce ==
    assemblyPhase = "model" =>
        /\ \A i, j \in DOMAIN request : (i # j /\ request[i].ref = request[j].ref)
               => ~({request[i].source, request[j].source} \subseteq {"history", "history_search", "current_input", "steering"})
        /\ \A g \in ToSet(session.guidance) : Cardinality({i \in DOMAIN request :
               request[i].text = g /\ request[i].source \in {"project_guidance", "skill_instructions", "memory"}}) = 1

\* Every steering input the Run has taken was in the request its answer was written from, however the input
\* was consumed: by an assembly, by one that failed later or in another Turn, or when the answer was ready.
SteeringReachesTheAnswer ==
    assemblyPhase \in {"answered", "done"} => \A i \in DOMAIN applied : \E k \in DOMAIN request :
        request[k].source = "steering" /\ request[k].ref = applied[i]

\* Calls and results of the Turn are all delivered, in order, each result right after its call.
ToolProtocolIsKept ==
    assemblyPhase = "model" =>
        LET own == SelectSeq(raw, LAMBDA m : m.calls \/ m.role = "tool")
            at(m) == CHOOSE k \in DOMAIN request : request[k].ref = m.ref /\ request[k].source \in {"tool_call", "tool_result"}
        IN  /\ \A i \in DOMAIN own : \E k \in DOMAIN request : request[k].ref = own[i].ref /\ request[k].source \in {"tool_call", "tool_result"}
            /\ \A i \in DOMAIN own : i > 1 => at(own[i]) > at(own[i - 1]) /\ (own[i].role = "tool" => at(own[i]) = at(own[i - 1]) + 1)

\* A cited Knowledge source was in the request of the answer, uncut.
CitedWasDelivered ==
    assemblyPhase = "done" => \A id \in citations : \E k \in DOMAIN request :
        request[k].cites = id /\ request[k].transformation # "tool_result_compacted"

\* What a request holds is whole, told once and within the window: the five parts above.
AssemblySafe ==
    RequestFits /\ DeliveredOnce /\ SteeringReachesTheAnswer /\ ToolProtocolIsKept /\ CitedWasDelivered
=============================================================================
