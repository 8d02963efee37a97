---------------------------- MODULE MCKnowledge -----------------------------
(***************************************************************************)
(* What the Platform remembers and looks up, one component at a time: the   *)
(* run picks a part, whose Next then moves while the other parts rest.      *)
(***************************************************************************)
EXTENDS MemorySync, DocumentIndex, KnowledgeSearch, WebSources, ConversationHistory, TaskState, TLC

CONSTANT Parts \* which components this run explores
VARIABLE part \* the one that moves

Drafts == ("m1" :> "fact") @@ ("m2" :> "adaptive") @@ ("m3" :> "secret")

Saved == "k1" :> "m1"

edit(o, m, a, v) == [op |-> o, mem |-> m, action |-> a, version |-> v]

\* Two corrections of the same version, a deletion of the corrected text, and a deletion of
\* the explicit Memory of the same message; o2 is reused for another edit.
Edits == {edit("o1", "m1", "replace", 1), edit("o2", "m1", "replace", 1),
          edit("o2", "m1", "delete", 2), edit("o3", "k1", "delete", 1)}

MCChunksOf == [content \in {"old", "a", "b"} |-> IF content = "a" THEN 1 ELSE 2]

Ingestion(v, content, label, life) ==
  [source |-> "k", version |-> v, content |-> content, label |-> label, life |-> life]

MCRequests == {Ingestion(1, "a", 0, "none"), Ingestion(0, "old", 0, "none"), Ingestion(1, "b", 0, "active")}

MCWide == MCRequests \cup {Ingestion(2, "b", 1, "withdrawn"), [Ingestion(1, "a", 0, "none") EXCEPT !.source = "m"]}

Passage(parent, hash, tokens, blocked) == [parent |-> parent, hash |-> hash, tokens |-> tokens, blocked |-> blocked]

MCCatalog ==
  [d |-> << <<Passage("s", "a", 1, FALSE), Passage("s", "b", 2, FALSE), Passage("t", "c", 1, TRUE)>>,
            <<Passage("s", "a", 1, FALSE), Passage("u", "e", 1, FALSE)>> >>,
   e |-> << <<Passage("s", "a", 1, FALSE)>> >>]

MCResults == {<<"u1">>, <<"u2", "u1">>, <<"u3", "u2", "u4">>}

change(t, i, v) == [type |-> t, id |-> i, value |-> v]

TaskOperations == {change("upsert_task", "x", "pending"), change("set_task_status", "x", "completed"),
                   change("remove_task", "x", ""), change("upsert_blocker", "x", "open"), change("resolve_blocker", "x", "")}

LogOperations == {change("add_decision", "x", ""), change("add_decision", "y", "x"), change("upsert_constraint", "x", "c")}
AllOperations == TaskOperations \cup LogOperations

\* Documents: two clients race on one source and one embedding space, the second one rebuilding
\* or withdrawing, or one client works with two sources, wide requests and a changing route.
\* Search: one retrieval of both documents while two changes happen, or three steps of a Run
\* with the matches of one document and one change, or two while a page is read.  Task State:
\* users write any patch before a model's call, whose patches are of tasks and blockers.
KnowledgeBounds ==
  /\ part = "documents" =>
       \/ calls["c2"] = NoCall /\ ids <= 8 /\ (docs["m"] # NoDoc => space = "p")
       \/ /\ docs["m"] = NoDoc /\ space = "p" /\ (docs["k"] # NoDoc => docs["k"].version < 2 /\ docs["k"].space = "p")
          /\ \A c \in Clients : "doc" \in DOMAIN calls[c] => calls[c].doc.source = "k" /\ calls[c].doc.version < 2
          /\ calls["c1"].pc # "error" /\ calls["c2"].pc \notin {"error", "conflict"} /\ ids <= 7
          /\ (calls["c1"].pc = "embed" => calls["c1"].doc.content # "old")
          /\ calls["c2"].pc \in {"embed", "create"} => calls["c2"].doc.content = "a"
          /\ calls["c2"].pc = "update" => calls["c2"].doc.life = "withdrawn"
  /\ part = "web" /\ webCalls = 3 => turn = 1 \/ outputs = <<>>
  /\ part = "search" => \/ log = <<>> /\ batch = <<>>
                        \/ /\ index["e"].version = 1
                           /\ \/ searchChanges <= 1 /\ index["d"].space = "p"
                              \/ "match" \in DOMAIN search
                              \/ batch # <<>> /\ Len(log) + Len(batch) = 2
                           /\ "matches" \in DOMAIN search => \A n \in DOMAIN search.matches : n < 2 /\ search.matches[n].doc = "d"
  /\ part = "tasks" /\ journal["c1"] # "none" =>
       \A o \in ToSet(args["c1"].ops) \cup UNION {ToSet(revisions[k].patch) : k \in DOMAIN revisions} : o \in TaskOperations

\* Every citation is a source that was read under that very number or label, and what was
\* selected to be shown is shown: retrieval, the Knowledge Tools and the Web sources together.
CitationsAreReal ==
  /\ [](NumbersAreUnambiguous /\ BlockedNeverShown)
  /\ [][selectedMatchesSurvive /\ readIsCurrent]_searchVars
  /\ [](CitationsWereDelivered /\ LabelsKeepTheirMeaning)
  /\ [][batchFits]_webVars

-----------------------------------------------------------------------------
KnowledgeInit ==
  /\ part \in Parts
  /\ MemoryInit
  /\ IndexInit
  /\ SearchInit
  /\ WebInit
  /\ HistoryInit
  /\ TaskInit
  /\ part # "documents" => space = "p" /\ docs = [s \in Sources |-> NoDoc]

KnowledgeNext ==
  \/ part = "memory" /\ MemoryNext /\ UNCHANGED <<part, indexVars, searchVars, webVars, historyVars, taskVars>>
  \/ part = "documents" /\ IndexNext /\ UNCHANGED <<part, memoryVars, searchVars, webVars, historyVars, taskVars>>
  \/ part = "search" /\ SearchNext /\ UNCHANGED <<part, memoryVars, indexVars, webVars, historyVars, taskVars>>
  \/ part = "web" /\ WebNext /\ UNCHANGED <<part, memoryVars, indexVars, searchVars, historyVars, taskVars>>
  \/ part = "history" /\ HistoryNext /\ UNCHANGED <<part, memoryVars, indexVars, searchVars, webVars, taskVars>>
  \/ part = "tasks" /\ TaskNext /\ UNCHANGED <<part, memoryVars, indexVars, searchVars, webVars, historyVars>>

knowledgeVars == <<part, memoryVars, indexVars, searchVars, webVars, historyVars, taskVars>>
KnowledgeSpec == KnowledgeInit /\ [][KnowledgeNext]_knowledgeVars
=============================================================================
