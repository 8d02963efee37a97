----------------------------- MODULE WebSources -----------------------------
(***************************************************************************)
(* How a source of the web becomes a citation of an answer.  Searches,     *)
(* page reads and reads of stored results are executed in batches with a   *)
(* byte allowance (tool/artifact_governor.go); their durable events are    *)
(* the catalog of [W#] labels of the Run (tool/webcitation); search        *)
(* results are relabeled before the model sees them                        *)
(* (agent/toolloop/loop.go#labelWebSources); and the markers of the final  *)
(* answer are resolved against what the call that wrote it was given in    *)
(* full (app/runcompletion/citations.go).  Bytes are counted in rows: a    *)
(* search result is as long as its rows, a page as long as the model of    *)
(* the web makes it.                                                       *)
(***************************************************************************)
EXTENDS Naturals, FiniteSets, SequencesExt

CONSTANTS Results,             \* row sequences a search may return: sequences of distinct URLs
          PageBytes,           \* lengths a fetched page may have
          MaxResultBytes,      \* ExecutionPolicy.MaxResultBytes
          MaxBatchResultBytes, \* allowance of a batch
          PreviewBytes,        \* ArtifactPreviewBytes
          ToolResultMaxTokens, \* a delivered result above this is compacted
          MaxCalls,            \* bound: Tool calls of the Run
          MaxOutputs,          \* bound: answers the model writes
          MaxTurns             \* bound: Turns of the Run

VARIABLES webEvents,   \* durable tool.completed events, in order
          webCalls,    \* calls made so far; the last one is the id of the latest
          turn,     \* Turn under way
          raw,      \* Tool results of the Turn, as they are kept for the next request
          request,  \* Tool results as the last request delivered them
          outputs,  \* model.completed events: the answer text and the request it was written from
          phase,    \* "assemble", "model", "answered", "done" or "failed"
          citations \* resolved citations of the answer

webVars == <<webEvents, webCalls, turn, raw, request, outputs, phase, citations>>

WebInit ==
    /\ webEvents = <<>> /\ webCalls = 0 /\ turn = 1 /\ raw = <<>> /\ request = <<>> /\ outputs = <<>>
    /\ phase = "assemble" /\ citations = {}

smaller(a, b) == IF a < b THEN a ELSE b

-----------------------------------------------------------------------------
(* The catalog. *)

complete(e) == ~e.failed /\ ~e.truncated

searchedRows(log) == FlattenSeq([i \in DOMAIN log |-> IF log[i].tool = "web_search" /\ complete(log[i]) THEN log[i].rows ELSE <<>>])

\* A URL is numbered where it first appears.
sourceID(log, url) == LET rows == searchedRows(log)
                          first == CHOOSE i \in DOMAIN rows : rows[i] = url /\ \A k \in 1..(i - 1) : rows[k] # url
                      IN  Cardinality({rows[k] : k \in 1..first})

\* The web page a label stands for, as a set of at most one URL.
Lookup(log, label) == {url \in ToSet(searchedRows(log)) : sourceID(log, url) = label}

\* A page is evidence when it was read in full, or in part but from an artifact that was.
addFetchEvidence(log) ==
    {[label |-> log[i].label, url |-> log[i].rows[1], call |-> log[i].call] : i \in {k \in DOMAIN log :
        /\ complete(log[k]) /\ log[k].label # 0
        /\ log[k].tool = "web_fetch" \/ (log[k].tool = "artifact_read" /\ \E j \in 1..(k - 1) :
              log[j].call = log[k].of /\ log[j].tool = "web_fetch" /\ log[j].truncated /\ log[j].stored)
        /\ Lookup(log, log[k].label) = {log[k].rows[1]}}}

FromEvents(log) ==
    UNION {{[label |-> sourceID(log, log[i].rows[n]), url |-> log[i].rows[n], call |-> log[i].call] : n \in DOMAIN log[i].rows} :
             i \in {k \in DOMAIN log : log[k].tool = "web_search" /\ complete(log[k])}}
    \union addFetchEvidence(log)

-----------------------------------------------------------------------------
(* A batch: the executor bounds each result, the batch what is left of its allowance. *)

boundArtifactPreview(preview, left) == smaller(preview, left)

\* A result that is too long is stored, if it can be, and shown as a preview.
govern(q, limit) == [truncated |-> TRUE, shown |-> smaller(q.bytes, smaller(limit, PreviewBytes)), stored |-> q.storable]

executeOne(q) ==
    IF ~q.failed /\ q.bytes > MaxResultBytes /\ q.tool # "artifact_read"
    THEN govern(q, MaxResultBytes)
    ELSE [truncated |-> FALSE, shown |-> IF q.failed THEN 0 ELSE q.bytes, stored |-> FALSE]

finishBatch(batch, q) ==
    LET one == executeOne(q)
        left == IF batch.used < MaxBatchResultBytes THEN MaxBatchResultBytes - batch.used ELSE 0
        over == ~one.truncated /\ one.shown > left
        r == IF over THEN govern(q, left) ELSE one
        shown == IF r.truncated THEN boundArtifactPreview(r.shown, left) ELSE r.shown
        item == [call |-> batch.call + 1, tool |-> q.tool, rows |-> q.rows, label |-> q.label, of |-> q.of,
                 failed |-> q.failed, truncated |-> r.truncated, stored |-> r.stored, bytes |-> q.bytes, turn |-> turn]
    IN  [used |-> batch.used + shown, call |-> batch.call + 1,
         log |-> IF q.lost THEN batch.log ELSE Append(batch.log, item),
         results |-> Append(batch.results, [item |-> item, shown |-> shown])]

\* What the model will read of a result: rows with their labels.  A search numbers its own rows from one.
rowsShown(item, n, labels) ==
    [i \in 1..smaller(n, Len(item.rows)) |-> [label |-> labels[i], url |-> item.rows[i]]]
ownLabels(item) == [i \in DOMAIN item.rows |-> IF item.label = 0 THEN i ELSE item.label]

Relabel(log, item) == IF item.tool = "web_search" /\ complete(item) THEN [i \in DOMAIN item.rows |-> sourceID(log, item.rows[i])]
                      ELSE ownLabels(item)

labelWebSources(log, r) ==
    [call |-> r.item.call, tool |-> r.item.tool, size |-> r.shown, preview |-> r.item.truncated, failed |-> r.item.failed,
     rows |-> IF r.item.failed THEN <<>> ELSE rowsShown(r.item, r.shown, Relabel(log, r.item))]

\* Labels the model can read in the last request.
seen == UNION {{request[i].rows[n].label : n \in DOMAIN request[i].rows} : i \in DOMAIN request}

Outcome == [failed : BOOLEAN, lost : BOOLEAN, storable : BOOLEAN]
Good == [failed |-> FALSE, lost |-> FALSE, storable |-> TRUE]
OneFault == {o \in Outcome : Cardinality({f \in DOMAIN o : o[f] # Good[f]}) <= 1}

WebSearch(rows, o) == [tool |-> "web_search", rows |-> rows, label |-> 0, of |-> 0, bytes |-> Len(rows),
                       failed |-> o.failed, lost |-> o.lost, storable |-> o.storable]

\* A fetch names a source the model has read; it reads the page the catalog has for that label.
WebFetch(label, bytes, o) ==
    LET source == Lookup(webEvents, label)
    IN  [tool |-> "web_fetch", rows |-> SetToSeq(source), label |-> label, of |-> 0, bytes |-> bytes,
         failed |-> o.failed \/ source = {}, lost |-> o.lost, storable |-> o.storable]

\* A stored result is read back as it was stored.
ReadToolArtifact(e, o) == [tool |-> "artifact_read", rows |-> e.rows, label |-> e.label, of |-> e.call, bytes |-> smaller(e.bytes, MaxResultBytes),
                           failed |-> o.failed, lost |-> o.lost, storable |-> o.storable]

WebRequests ==
    {WebSearch(rows, o) : rows \in Results, o \in OneFault}
    \union {WebFetch(label, bytes, o) : label \in seen, bytes \in PageBytes, o \in OneFault}
    \union {ReadToolArtifact(webEvents[i], o) : i \in {k \in DOMAIN webEvents : webEvents[k].stored}, o \in OneFault}

NoBatch(log, call) == [used |-> 0, call |-> call, log |-> log, results |-> <<>>]

ExecuteBatch(batch) ==
    LET done == FoldLeft(finishBatch, NoBatch(webEvents, webCalls), batch)
        unlabeled == {i \in DOMAIN done.results : LET item == done.results[i].item IN
                         item.tool = "web_search" /\ complete(item) /\ \A k \in DOMAIN done.log : done.log[k].call # item.call}
    IN  /\ phase = "model" /\ webCalls + Len(batch) <= MaxCalls
        /\ webEvents' = done.log /\ webCalls' = done.call
        /\ IF unlabeled # {} THEN phase' = "failed" /\ UNCHANGED raw
           ELSE /\ phase' = "assemble"
                /\ raw' = raw \o [i \in DOMAIN done.results |-> labelWebSources(done.log, done.results[i])]
        /\ UNCHANGED <<turn, request, outputs, citations>>

-----------------------------------------------------------------------------
(* The request, the answer and its citations. *)

\* A long result is cut in the middle: its first row is still there.
transformation(m) == IF m.preview THEN "tool_result_artifact_preview"
                     ELSE IF m.size > ToolResultMaxTokens THEN "tool_result_compacted" ELSE "original"
delivered(m) == [call |-> m.call, transformation |-> transformation(m),
                 rows |-> IF transformation(m) = "tool_result_compacted" THEN SubSeq(m.rows, 1, 1) ELSE m.rows]

Assemble ==
    /\ phase = "assemble" /\ phase' = "model"
    /\ request' = [i \in DOMAIN raw |-> delivered(raw[i])]
    /\ UNCHANGED <<webEvents, webCalls, turn, raw, outputs, citations>>

\* The model answers, citing what it has read or anything else.
Answer(text) ==
    /\ phase = "model" /\ Len(outputs) < MaxOutputs
    /\ outputs' = Append(outputs, [text |-> text, request |-> request])
    /\ phase' = "answered"
    /\ UNCHANGED <<webEvents, webCalls, turn, raw, request, citations>>

\* An answer is not final while steering waits; a Turn that stopped is followed by another one, without its results.
Steered == /\ phase = "answered" /\ Len(outputs) < MaxOutputs /\ phase' = "assemble"
           /\ UNCHANGED <<webEvents, webCalls, turn, raw, request, outputs, citations>>
NextTurn == /\ phase \in {"assemble", "model", "answered"} /\ turn < MaxTurns /\ Len(outputs) < MaxOutputs
            /\ turn' = turn + 1 /\ raw' = <<>> /\ request' = <<>> /\ phase' = "assemble"
            /\ UNCHANGED <<webEvents, webCalls, outputs, citations>>

\* The request of the last output that reads like the answer.
manifestOf(text) == LET same == {i \in DOMAIN outputs : outputs[i].text = text}
                    IN  outputs[CHOOSE i \in same : \A k \in same : k <= i].request

selectedCalls(manifest) == {manifest[i].call : i \in {k \in DOMAIN manifest : manifest[k].transformation = "original"}}

\* Of a label delivered more than once, a page that was read, and then the later result, is the evidence.
SelectedSources(log, manifest) ==
    LET found == {c \in FromEvents(log) : c.call \in selectedCalls(manifest)}
        pages == addFetchEvidence(log)
        later(a, b) == (a \in pages /\ b \notin pages) \/ ((a \in pages <=> b \in pages) /\ a.call > b.call)
    IN  {c \in found : \A d \in found : (d.label = c.label /\ d # c) => later(c, d)}

resolveWebCitations ==
    LET text == Last(outputs).text
    IN  /\ phase = "answered" /\ phase' = "done"
        /\ citations' = {c \in SelectedSources(webEvents, manifestOf(text)) : c.label \in text}
        /\ UNCHANGED <<webEvents, webCalls, turn, raw, request, outputs>>

WebNext ==
    \/ Assemble
    \/ phase = "model" /\ \E q \in WebRequests : ExecuteBatch(<<q>>)
    \/ phase = "model" /\ \E a, b \in Results : ExecuteBatch(<<WebSearch(a, Good), WebSearch(b, Good)>>)
    \/ \E text \in SUBSET (seen \union {9}) : Answer(text)
    \/ Steered \/ NextTurn \/ resolveWebCitations

WebSpec == WebInit /\ [][WebNext]_webVars

-----------------------------------------------------------------------------
(* Properties. *)

\* Every citation of an answer is a source that the call which wrote the answer was given in full, under that
\* very label: never a compacted, truncated or earlier result, nor a row of another Turn.
CitationsWereDelivered ==
    phase = "done" => \A c \in citations : \E i \in DOMAIN request :
        /\ request[i].call = c.call /\ request[i].transformation = "original"
        /\ \E n \in DOMAIN request[i].rows : request[i].rows[n] = [label |-> c.label, url |-> c.url]

\* A label of a complete search or page keeps the meaning it had when the model read it: the catalog of the
\* Run gives it the same URL however many searches, Turns and repeated URLs come later.
LabelsKeepTheirMeaning ==
    \A i \in DOMAIN raw : (raw[i].tool # "artifact_read" /\ ~raw[i].preview) =>
        \A n \in DOMAIN raw[i].rows : Lookup(webEvents, raw[i].rows[n].label) = {raw[i].rows[n].url}

\* The results of a batch never take more than its allowance, whatever was cut by the executor, by the batch or not at all.
batchFits ==
    Len(raw') > Len(raw) =>
         FoldLeft(LAMBDA total, m : total + m.size, 0, SubSeq(raw', Len(raw) + 1, Len(raw'))) <= MaxBatchResultBytes

\* docs/tools/web-source-citations.md: "[W#] identifies a web_search source within one Run."
MarkersNameOneSource ==
    \A i, j \in DOMAIN request : \A n \in DOMAIN request[i].rows : \A m \in DOMAIN request[j].rows :
        request[i].rows[n].label = request[j].rows[m].label => request[i].rows[n].url = request[j].rows[m].url
=============================================================================
