---------------------------- MODULE DocumentIndex ----------------------------
(***************************************************************************)
(* The Knowledge index of one Workspace: ingestion (lookup, build, embedding, *)
(* transactional replacement of a source), the conditional metadata and       *)
(* lifecycle update with its concurrency token, inheritance of labels by the  *)
(* Chunks, deletion, and the in-memory store of the tests, which executes the *)
(* same calls in lockstep with the Postgres store.                            *)
(***************************************************************************)
EXTENDS Naturals, Sequences, FiniteSets, SequencesExt

CONSTANTS Clients, Sources,
          Requests,          \* ingest requests: [source, version, content, label, life]
          ChunksOf,          \* the number of Chunks of each content
          Labels, Spaces,    \* values of a custom label, embedding identities
          SameMicrosecond,   \* two writes may read the same clock value
          MaxClock           \* bounds the writes of an execution

VARIABLES docs,     \* the documents table by source, Chunks and embeddings with their owner
          fix,      \* the fixture store: Documents, DocumentChunks and ChunkEmbeddings
          calls,    \* one API call in flight per client
          space,    \* the embedding identity the provider answers with
          clock, ids
indexVars == <<docs, fix, calls, space, clock, ids>>

NoLabel == 0
NoDoc == [id |-> 0]
NoCall == [pc |-> "idle", seen |-> NoDoc]
Chunk(ref, emb, label, own) == [ref |-> ref, emb |-> emb, label |-> label, own |-> own]
\* A row written before ingestion owned the labels: its first Chunk has a label of its own.
legacy(s) ==
  [id |-> 1, source |-> s, version |-> 0, content |-> "old", life |-> "active", label |-> NoLabel,
   space |-> CHOOSE p \in Spaces : TRUE, updated |-> 1,
   chunks |-> <<Chunk(1, CHOOSE p \in Spaces : TRUE, CHOOSE l \in Labels : TRUE, TRUE),
                Chunk(2, CHOOSE p \in Spaces : TRUE, NoLabel, FALSE)>>]

----------------------------------------------------------------------------
\* The fixture store keeps three flat lists.
row(d) == [d EXCEPT !.chunks = <<>>]
flat(d) == [n \in DOMAIN d.chunks |-> [doc |-> d.id] @@ d.chunks[n]]
refsOf(chunks) == {chunks[n].ref : n \in DOMAIN chunks}
fixtureAdd(f, d) ==
  [documents |-> Append(f.documents, row(d)), chunks |-> f.chunks \o flat(d), embeddings |-> f.embeddings \cup refsOf(d.chunks)]
IndexInit ==
  /\ docs \in [Sources -> {NoDoc}] \cup {[s \in Sources |-> IF s = old THEN legacy(s) ELSE NoDoc] : old \in Sources}
  /\ LET old == {s \in Sources : docs[s] # NoDoc} IN
     fix = IF old = {} THEN [documents |-> <<>>, chunks |-> <<>>, embeddings |-> {}]
           ELSE fixtureAdd([documents |-> <<>>, chunks |-> <<>>, embeddings |-> {}], docs[CHOOSE s \in old : TRUE])
  /\ calls = [c \in Clients |-> NoCall] /\ space \in Spaces /\ clock = 1 /\ ids = 3

reads(t) == t \in (IF SameMicrosecond THEN {clock, clock + 1} ELSE {clock + 1}) /\ t <= MaxClock /\ clock' = t
ready(c) == calls[c].pc \in {"idle", "ok", "error", "conflict"}
returns(c, result) == calls' = [calls EXCEPT ![c] = [pc |-> result, seen |-> @.seen]]
\* getDocument, ListDocuments: the client holds a document and its token.
View(c, s) ==
  /\ ready(c) /\ docs[s] # NoDoc /\ calls[c].seen # docs[s]
  /\ calls' = [calls EXCEPT ![c].seen = docs[s]]
  /\ UNCHANGED <<docs, fix, space, clock, ids>>

----------------------------------------------------------------------------
SameDocumentIndexInputs(a, b) == a.version = b.version /\ a.content = b.content
\* BuildDocument: the Chunks inherit the document's labels.
BuildDocument(q, life) ==
  [source |-> q.source, version |-> q.version, content |-> q.content, label |-> q.label, life |-> life]
\* Ingest looks the source up, completes the request from it and chooses between the
\* metadata-only path and a rebuild.
Ingest(c, q, conditional) ==
  /\ ready(c) /\ (conditional => calls[c].seen # NoDoc)
  /\ LET existing == docs[q.source]
         found == existing # NoDoc
         d == BuildDocument(q, IF q.life # "none" THEN q.life ELSE IF found THEN existing.life ELSE "active")
         labels == /\ found /\ SameDocumentIndexInputs(existing, d)
                   /\ conditional \/ existing.label # d.label \/ existing.life # d.life
     IN  \/ /\ labels /\ conditional
            /\ calls' = [calls EXCEPT ![c] = [pc |-> "update", seen |-> @.seen, id |-> existing.id, inputs |-> TRUE, doc |-> d]]
         \/ (labels \/ conditional) /\ ~(labels /\ conditional) /\ returns(c, "conflict")
         \/ /\ ~labels /\ ~conditional
            /\ calls' = [calls EXCEPT ![c] = [pc |-> "embed", seen |-> @.seen, doc |-> d, embs |-> <<>>]]
  /\ UNCHANGED <<docs, fix, space, clock, ids>>
\* persist: one embedding call per Chunk.
EmbedText(c) ==
  /\ calls[c].pc = "embed" /\ Len(calls[c].embs) < ChunksOf[calls[c].doc.content]
  /\ \/ calls' = [calls EXCEPT ![c].embs = Append(@, space)]
     \/ returns(c, "error")
  /\ UNCHANGED <<docs, fix, space, clock, ids>>
uniform(embs) == \A n \in DOMAIN embs : embs[n] = embs[1]
\* PrepareDocumentWrite: stamps the document before the transaction begins.
PrepareDocumentWrite(c, t) ==
  LET call == calls[c] IN
  /\ call.pc = "embed" /\ Len(call.embs) = ChunksOf[call.doc.content] /\ reads(t)
  /\ IF uniform(call.embs)
     THEN calls' = [calls EXCEPT ![c] = [pc |-> "create", seen |-> call.seen,
            doc |-> [id |-> ids, space |-> call.embs[1], updated |-> t,
                     chunks |-> [n \in DOMAIN call.embs |-> Chunk(ids + n, call.embs[n], call.doc.label, FALSE)]] @@ call.doc]]
     ELSE returns(c, "error")
  /\ ids' = ids + 1 + Len(call.embs)
  /\ UNCHANGED <<docs, fix, space>>

\* What CreateDocument decides under the source's lock.
createOutcome(existing, d) ==
  CASE existing = NoDoc -> "insert"
    [] existing.life # d.life -> "conflict"
    [] existing.version = d.version /\ existing.content # d.content -> "conflict"
    [] SameDocumentIndexInputs(existing, d) /\ existing.space = d.space ->
         IF existing.label # d.label THEN "conflict" ELSE "same"
    [] OTHER -> "replace"
BindDocumentID(d, id) == [d EXCEPT !.id = id]
\* Postgres: the row is deleted with its Chunks and embeddings and written again under its ID.
CreateDocument(d) ==
  LET outcome == createOutcome(docs[d.source], d) IN
  [docs EXCEPT ![d.source] = CASE outcome = "insert" -> d
                               [] outcome = "replace" -> BindDocumentID(d, @.id)
                               [] OTHER -> @]
\* Fixture: rows, Chunks and embeddings of the replaced documents are filtered out.
fixtureOf(f, s) == {n \in DOMAIN f.documents : f.documents[n].source = s}
fixtureWithout(f, gone) ==
  LET deleted == {f.chunks[n].ref : n \in {m \in DOMAIN f.chunks : f.chunks[m].doc \in gone}}
  IN  [documents  |-> SelectSeq(f.documents, LAMBDA d : d.id \notin gone),
       chunks     |-> SelectSeq(f.chunks, LAMBDA k : k.doc \notin gone),
       embeddings |-> f.embeddings \ deleted]
fixtureCreate(d) ==
  LET replaced == fixtureOf(fix, d.source)
      existing == IF replaced = {} THEN NoDoc ELSE fix.documents[CHOOSE n \in replaced : TRUE]
      outcome == createOutcome(existing, d)
  IN  CASE outcome = "insert" -> fixtureAdd(fix, d)
        [] outcome = "replace" -> fixtureAdd(fixtureWithout(fix, {existing.id}), BindDocumentID(d, existing.id))
        [] OTHER -> fix
Create(c) ==
  /\ calls[c].pc = "create"
  /\ LET d == calls[c].doc IN
     /\ docs' = CreateDocument(d) /\ fix' = fixtureCreate(d)
     /\ returns(c, IF createOutcome(docs[d.source], d) = "conflict" THEN "conflict" ELSE "ok")
  /\ UNCHANGED <<space, clock, ids>>

----------------------------------------------------------------------------
\* UpdateMetadata: the owner replaces the label and optionally the lifecycle of what it saw.
UpdateMetadata(c, label, life) ==
  /\ ready(c) /\ calls[c].seen # NoDoc
  /\ calls' = [calls EXCEPT ![c] = [pc |-> "update", seen |-> @.seen, id |-> @.seen.id, inputs |-> FALSE,
                                    doc |-> [@.seen EXCEPT !.label = label, !.life = life]]]
  /\ UNCHANGED <<docs, fix, space, clock, ids>>
\* PrepareDocumentMetadataChange: an unchanged document is a no-op, a stale token a conflict.
\* Mutant: the token is not compared.
changeOutcomeNoToken(d, call) ==
  CASE call.inputs /\ ~SameDocumentIndexInputs(d, call.doc) -> "conflict"
    [] d.label = call.doc.label /\ d.life = call.doc.life -> "same"
    [] OTHER -> "change"
changeOutcome(d, call) ==
  CASE call.inputs /\ ~SameDocumentIndexInputs(d, call.doc) -> "conflict"
    [] d.label = call.doc.label /\ d.life = call.doc.life -> "same"
    [] d.updated # call.seen.updated -> "conflict"
    [] OTHER -> "change"
\* ChunkMetadata: a Chunk value equal to the document's previous one is inherited.
ChunkMetadata(k, previous, label) ==
  IF k.label = NoLabel \/ k.label = previous THEN [k EXCEPT !.label = label] ELSE k
changed(d, call, t) ==
  [d EXCEPT !.label = call.doc.label, !.life = call.doc.life, !.updated = IF t > d.updated THEN t ELSE d.updated + 1,
            !.chunks = [n \in DOMAIN d.chunks |-> ChunkMetadata(d.chunks[n], d.label, call.doc.label)]]
owner(id) == {s \in Sources : docs[s].id = id}
fixtureUpdate(call, t) ==
  LET n == CHOOSE m \in DOMAIN fix.documents : fix.documents[m].id = call.id
      d == fix.documents[n]
  IN  [fix EXCEPT !.documents[n] = changed(d, call, t),
                  !.chunks = [m \in DOMAIN fix.chunks |-> IF fix.chunks[m].doc = d.id
                                THEN ChunkMetadata(fix.chunks[m], d.label, call.doc.label) ELSE fix.chunks[m]]]
\* UpdateDocumentMetadata: one transaction under the row lock.
UpdateDocumentMetadata(c, t) ==
  /\ calls[c].pc = "update" /\ reads(t) /\ UNCHANGED <<space, ids>>
  /\ \/ owner(calls[c].id) = {} /\ returns(c, "error") /\ UNCHANGED <<docs, fix>>
     \/ \E s \in owner(calls[c].id) :
          LET outcome == changeOutcome(docs[s], calls[c]) IN
          /\ returns(c, IF outcome = "conflict" THEN "conflict" ELSE "ok")
          /\ IF outcome = "change"
             THEN docs' = [docs EXCEPT ![s] = changed(@, calls[c], t)] /\ fix' = fixtureUpdate(calls[c], t)
             ELSE UNCHANGED <<docs, fix>>
\* DeleteDocument cascades to Chunks and embeddings.
DeleteDocument(s) ==
  /\ docs[s] # NoDoc
  /\ docs' = [docs EXCEPT ![s] = NoDoc] /\ fix' = fixtureWithout(fix, {docs[s].id})
  /\ UNCHANGED <<calls, space, clock, ids>>
\* The operator points the embedding route at another model.
SwitchModel == \E p \in Spaces \ {space} : space' = p /\ UNCHANGED <<docs, fix, calls, clock, ids>>

IndexNext ==
  \/ \E c \in Clients :
       \/ EmbedText(c) \/ Create(c)
       \/ \E s \in Sources : View(c, s)
       \/ \E q \in Requests, conditional \in BOOLEAN : Ingest(c, q, conditional)
       \/ \E t \in 1..MaxClock : PrepareDocumentWrite(c, t) \/ UpdateDocumentMetadata(c, t)
       \/ \E label \in Labels \cup {NoLabel}, life \in {"active", "withdrawn"} : UpdateMetadata(c, label, life)
  \/ \E s \in Sources : DeleteDocument(s)
  \/ SwitchModel
IndexSpec == IndexInit /\ [][IndexNext]_indexVars

-----------------------------------------------------------------------------
(* Properties *)

live(s) == docs[s] # NoDoc

\* "A content rebuild cannot overwrite a concurrent withdrawal": a rebuilt document keeps the
\* lifecycle it had when its rows were replaced, whatever the ingest had read before embedding.
rebuildKeepsLifecycle ==
  \A s \in Sources : live(s) /\ docs'[s].id = docs[s].id /\ refsOf(docs'[s].chunks) # refsOf(docs[s].chunks)
        => docs'[s].life = docs[s].life

\* An acknowledged ingest is stored: the source holds its version, content, label and lifecycle,
\* through a rebuild, an idempotent repeat or the metadata-only shortcut alike.
acknowledgedIsStored ==
  \A c \in Clients : calls[c].pc \in {"create", "update"} /\ calls'[c].pc = "ok" =>
        \E s \in Sources : docs'[s] # NoDoc /\ docs'[s].label = calls[c].doc.label /\ docs'[s].life = calls[c].doc.life
          /\ (calls[c].pc = "create" \/ calls[c].inputs => SameDocumentIndexInputs(docs'[s], calls[c].doc))

\* All Chunks of a document were embedded in the space its index identity names, also when the
\* embedding route changed while they were being embedded.
IndexIsWhole == \A s \in Sources : live(s) => \A n \in DOMAIN docs[s].chunks : docs[s].chunks[n].emb = docs[s].space

\* Chunks without a label of their own carry the document's current one, and a Chunk's own label
\* is not overwritten while it differs, through any sequence of edits and rebuilds.
LabelsAreInherited ==
  \A s \in Sources : live(s) =>
    \A n \in DOMAIN docs[s].chunks :
      docs[s].chunks[n].label = docs[s].label \/ (docs[s].chunks[n].own /\ docs[s].chunks[n].label = CHOOSE l \in Labels : TRUE)

\* The store of the tests and the Postgres store hold the same rows after every call, without
\* orphaned Chunks or embeddings.
FixtureAgrees ==
  LET alive == {s \in Sources : live(s)} IN
  /\ {fix.documents[n] : n \in DOMAIN fix.documents} = {row(docs[s]) : s \in alive}
  /\ Len(fix.documents) = Cardinality(alive)
  /\ \A s \in alive : SelectSeq(fix.chunks, LAMBDA k : k.doc = docs[s].id) = flat(docs[s])
  /\ fix.embeddings = UNION {refsOf(docs[s].chunks) : s \in alive}
  /\ refsOf(fix.chunks) = fix.embeddings

\* metadata-updates.md: "Stale different payload | 409, both Document and Chunks unchanged": an
\* accepted change replaces the revision its token was read from.
staleUpdateConflicts ==
  \A c \in Clients : calls[c].pc = "update" /\ calls'[c].pc = "ok" =>
        \A s \in Sources : docs'[s] # docs[s] => docs[s] = calls[c].seen

\* Racing ingests and edits leave one whole, acknowledged index: the parts above.
IndexSafe ==
  /\ [](IndexIsWhole /\ LabelsAreInherited /\ FixtureAgrees)
  /\ [][rebuildKeepsLifecycle /\ acknowledgedIsStored /\ staleUpdateConflicts]_indexVars
=============================================================================
