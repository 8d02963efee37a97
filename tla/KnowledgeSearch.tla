--------------------------- MODULE KnowledgeSearch ---------------------------
(***************************************************************************)
(* Retrieval from the Knowledge index while it changes: identity check, dense *)
(* and lexical recall, guard, ranking and gate, expansion of every match by   *)
(* its own read, transformation into context items, and the citation IDs of   *)
(* one Run, shared by automatic retrieval and the knowledge_search and        *)
(* knowledge_read Tools.                                                      *)
(***************************************************************************)
EXTENDS Naturals, Sequences, FiniteSets, SequencesExt

CONSTANTS Docs, Catalog,   \* Catalog[d][v]: the Chunks of version v of document d
          SearchSpaces, TopK, MaxTokens,
          Truncates,       \* the executor may truncate a result
          MaxEvents, MaxChanges

VARIABLES index,    \* per document: version (0: absent), life and embedding space
          search,   \* the search in flight of the Run
          context,  \* the context items of the last automatic retrieval
          batch,    \* results of the Tool batch, traced when its handlers have run
          log,      \* retrieval and Tool completion events of the Run
          searchChanges
searchVars == <<index, search, context, batch, log, searchChanges>>

NoSearch == [pc |-> "none"]
RunSpace == CHOOSE p \in SearchSpaces : TRUE     \* the frozen embedding identity
SearchInit ==
  /\ index = [d \in Docs |-> [version |-> 1, life |-> "active", space |-> RunSpace]]
  /\ search = NoSearch /\ context = <<>> /\ batch = <<>> /\ log = <<>> /\ searchChanges = 0

\* A Chunk's ID: every rebuild gives its Chunks new ones.
chunk(d, v, n) == [doc |-> d, version |-> v, n |-> n] @@ Catalog[d][v][n]
id(c) == <<c.doc, c.version, c.n>>
chunksOf(d) ==
  IF index[d].version = 0 THEN {}
  ELSE {[space |-> index[d].space] @@ chunk(d, index[d].version, n) : n \in DOMAIN Catalog[d][index[d].version]}
eligible(d) == index[d].version > 0 /\ index[d].life = "active"

----------------------------------------------------------------------------
\* Withdrawn documents may be of any embedding space.
ValidateIndexCompatibility == \A d \in Docs : eligible(d) => index[d].space = RunSpace
\* A search of the Run starts; `tool` is a knowledge_search call, otherwise retrieveContext.
Search(tool) ==
  /\ search = NoSearch /\ Len(log) + Len(batch) < MaxEvents /\ (~tool => batch = <<>>)
  /\ search' = IF ValidateIndexCompatibility THEN [pc |-> "dense", tool |-> tool] ELSE NoSearch
  /\ batch' = IF tool /\ ~ValidateIndexCompatibility THEN Append(batch, [type |-> "error"]) ELSE batch
  /\ log' = IF ~tool /\ ~ValidateIndexCompatibility THEN Append(log, [type |-> "retrieval", sources |-> <<>>]) ELSE log
  /\ UNCHANGED <<index, context, searchChanges>>
SearchDocumentChunks ==
  /\ search.pc = "dense"
  /\ search' = [pc |-> "lexical", tool |-> search.tool,
                dense |-> UNION {chunksOf(d) : d \in {e \in Docs : eligible(e) /\ index[e].space = RunSpace}}]
  /\ UNCHANGED <<index, context, batch, log, searchChanges>>
GuardPromptInjection(items) == {c \in items : ~c.blocked}
mergeRecallCandidates(dense, lexical) == dense \cup lexical
\* The reranker returns a complete top k, in any order its scores give.
ranked(safe) == UNION {SetToSeqs(top) : top \in {a \in SUBSET safe : Cardinality(a) = (IF Cardinality(safe) < TopK THEN Cardinality(safe) ELSE TopK)}}
\* The gate accepts any of them and keeps their order.
gated(items) == {SelectSeq(items, LAMBDA c : id(c) \in kept) : kept \in SUBSET {id(items[n]) : n \in DOMAIN items}}
\* Lexical recall, guard, reranking and the relevance gate.
SearchDocumentChunksLexical ==
  /\ search.pc = "lexical"
  /\ LET hits == SUBSET UNION {chunksOf(d) : d \in {e \in Docs : eligible(e)}} IN
     \E safe \in {GuardPromptInjection(mergeRecallCandidates(search.dense, lexical)) : lexical \in hits} :
     \E items \in UNION {gated(top) : top \in ranked(safe)} :
        search' = [pc |-> "select", tool |-> search.tool, matches |-> items]
  /\ UNCHANGED <<index, context, batch, log, searchChanges>>

----------------------------------------------------------------------------
chosen(st) == {id(st.items[n]) : n \in DOMAIN st.items}
addContextItem(st, c) ==
  IF id(c) \in chosen(st) \/ st.used + c.tokens > MaxTokens THEN st
  ELSE [items |-> Append(st.items, c), used |-> st.used + c.tokens]
addAll(st, seq) == FoldLeft(addContextItem, st, seq)
\* The matches are selected first, then expanded one by one.
SelectMatches ==
  /\ search.pc = "select" /\ ~search.tool
  /\ search' = [pc |-> "expand", tool |-> FALSE, matches |-> search.matches,
                selected |-> addAll([items |-> <<>>, used |-> 0], search.matches), at |-> 1]
  /\ UNCHANGED <<index, context, batch, log, searchChanges>>
distance(a, b) == IF a.n < b.n THEN b.n - a.n ELSE a.n - b.n
sortByDistance(items, m) ==
  SetToSortSeq(items, LAMBDA a, b : distance(a, m) < distance(b, m) \/ (distance(a, m) = distance(b, m) /\ a.n < b.n))
matchesSelected == SelectSeq(search.matches, LAMBDA m : id(m) \in chosen(search.selected))
ListDocumentContextChunks(m) ==
  IF eligible(m.doc) THEN {c \in chunksOf(m.doc) : c.parent = m.parent \/ distance(c, m) <= 1} ELSE {}
Expand ==
  /\ search.pc = "expand" /\ search.at <= Len(matchesSelected)
  /\ LET m == matchesSelected[search.at]
         fresh == {c \in ListDocumentContextChunks(m) : \A n \in DOMAIN search.matches : id(c) # id(search.matches[n])}
         safe == GuardPromptInjection({c \in fresh : id(c) \notin chosen(search.selected)})
         parents == addAll(search.selected, sortByDistance({c \in safe : c.parent = m.parent}, m))
     IN  search' = [search EXCEPT !.at = @ + 1,
           !.selected = IF parents # @ THEN parents ELSE addAll(@, sortByDistance({c \in safe : distance(c, m) <= 1}, m))]
  /\ UNCHANGED <<index, context, batch, log, searchChanges>>

----------------------------------------------------------------------------
\* TransformContext. An item has a head Chunk, the IDs it was made of and its tokens.
single(c) == [head |-> c, ids |-> <<id(c)>>, tokens |-> c.tokens, last |-> c.n]
appendUnique(s, t) == s \o SelectSeq(t, LAMBDA x : \A n \in DOMAIN s : s[n] # x)
deduplicateContextSources(items) ==
  LET same(a, c) == a.head.doc = c.doc /\ a.head.hash = c.hash
      add(acc, c) == IF \E n \in DOMAIN acc : same(acc[n], c)
                     THEN [n \in DOMAIN acc |-> IF same(acc[n], c) THEN [acc[n] EXCEPT !.ids = appendUnique(@, <<id(c)>>)] ELSE acc[n]]
                     ELSE Append(acc, single(c))
  IN  FoldLeft(add, <<>>, items)
groupContextByDocument(items) ==
  LET seen == FoldLeft(LAMBDA acc, i : appendUnique(acc, <<i.head.doc>>), <<>>, items)
      group(d) == SetToSortSeq({items[n] : n \in {m \in DOMAIN items : items[m].head.doc = d}},
                    LAMBDA a, b : a.head.n < b.head.n \/ (a.head.n = b.head.n /\ a.head.version < b.head.version))
  IN  [g \in DOMAIN seen |-> group(seen[g])]
mergeContextChunkPair(current, next) ==
  [current EXCEPT !.ids = appendUnique(@, next.ids), !.tokens = @ + next.tokens, !.last = next.last]
mergeAdjacentContextChunks(group) ==
  LET step(acc, next) ==
        IF acc # <<>> /\ next.head.n = Last(acc).last + 1
        THEN Append(Front(acc), mergeContextChunkPair(Last(acc), next)) ELSE Append(acc, next)
  IN  FoldLeft(step, <<>>, group)
TransformContext(items) ==
  LET groups == groupContextByDocument(deduplicateContextSources(items))
      merged == FlattenSeq([g \in DOMAIN groups |-> mergeAdjacentContextChunks(groups[g])])
      limit(acc, i) == IF acc.used + i.tokens > MaxTokens THEN acc ELSE [items |-> Append(acc.items, i), used |-> acc.used + i.tokens]
  IN  FoldLeft(limit, [items |-> <<>>, used |-> 0], merged).items

----------------------------------------------------------------------------
\* Citation IDs.
citationFromChunk(number, i) ==
  [number |-> number, doc |-> i.head.doc, version |-> i.head.version, chunk |-> IF i.last = i.head.n THEN <<id(i.head)>> ELSE i.ids]
citationIdentity(s) == <<s.doc, s.version, s.chunk>>
AssignCitationSources(items) == [n \in DOMAIN items |-> citationFromChunk(n, items[n])]
AssignRunCitationSources(items, existing) ==
  LET known(acc, s) == {n \in DOMAIN acc : citationIdentity(acc[n]) = citationIdentity(s)}
      next(acc) == 1 + FoldLeft(LAMBDA m, s : IF s.number > m THEN s.number ELSE m, 0, acc)
      assign(acc, s) == Append(acc, [s EXCEPT !.number = IF known(acc, s) # {} THEN acc[CHOOSE n \in known(acc, s) : TRUE].number ELSE next(acc)])
      all == FoldLeft(assign, existing, AssignCitationSources(items))
  IN  SubSeq(all, Len(existing) + 1, Len(all))
evidence(e) == IF e.type = "retrieval" THEN e.sources ELSE IF e.type = "read" /\ ~e.truncated THEN <<e.source>> ELSE <<>>
\* RunCitationReservations: located Chunks hold a number although they are not evidence.
\* Mutant: numbers are taken from the completed reads only.
RunCitationReservationsRead(events) ==
  FoldLeft(LAMBDA acc, e : acc \o SelectSeq(evidence(e), LAMBDA s : \A n \in DOMAIN acc : citationIdentity(acc[n]) # citationIdentity(s)), <<>>, events)
RunCitationReservations(events) ==
  LET candidates(acc, e) ==
        IF e.type = "search" THEN IF e.truncated THEN <<>> ELSE AssignRunCitationSources([n \in DOMAIN e.items |-> single(e.items[n])], acc)
        ELSE evidence(e)
      add(acc, e) == acc \o SelectSeq(candidates(acc, e), LAMBDA s : \A n \in DOMAIN acc : citationIdentity(acc[n]) # citationIdentity(s))
  IN  FoldLeft(add, <<>>, events)
\* retrieveContext ends: the items reach the model with the numbers of this Run.
Retrieved ==
  /\ search.pc = "expand" /\ search.at > Len(matchesSelected)
  /\ LET items == TransformContext(search.selected.items)
         sources == AssignRunCitationSources(items, RunCitationReservations(log))
     IN  context' = items /\ log' = Append(log, [type |-> "retrieval", sources |-> sources])
  /\ search' = NoSearch /\ UNCHANGED <<index, batch, searchChanges>>
Located ==
  /\ search.pc = "select" /\ search.tool
  /\ batch' = Append(batch, [type |-> "search", items |-> search.matches])
  /\ search' = NoSearch /\ UNCHANGED <<index, context, log, searchChanges>>

----------------------------------------------------------------------------
issued(events) == UNION {{e.items[n] : n \in DOMAIN e.items} : e \in {events[m] : m \in {k \in DOMAIN events : events[k].type = "search" /\ ~events[k].truncated}}}
readable(rows, m) == rows[m.doc].version = m.version /\ rows[m.doc].life = "active" /\ ~m.blocked
\* knowledge_read of a reference some search of the Run located: the events are listed, then the row of the document
\* is read, then its Chunks, each by a query of its own.  Ghost `allowed`: at a moment of the call so far a reader of
\* all three at once would have been given the page.
readTool ==
  /\ search = NoSearch /\ Len(log) + Len(batch) < MaxEvents
  /\ \E m \in issued(log) : search' = [pc |-> "document", match |-> m, events |-> log, allowed |-> readable(index, m)]
  /\ UNCHANGED <<index, context, batch, log, searchChanges>>
readFails == batch' = Append(batch, [type |-> "error"]) /\ search' = NoSearch
GetDocumentInWorkspace ==
  /\ search.pc = "document"
  /\ LET row == index[search.match.doc]
     IN  IF row.version = search.match.version /\ row.space = search.match.space
         THEN search' = [row |-> row] @@ [search EXCEPT !.pc = "chunks"] /\ UNCHANGED batch
         ELSE readFails
  /\ UNCHANGED <<index, context, log, searchChanges>>
\* The lifecycle is that of the row read before.
readChunks ==
  /\ search.pc = "chunks"
  /\ LET m == search.match
     IN  IF id(m) \in {id(c) : c \in chunksOf(m.doc)} /\ search.row.life = "active" /\ ~m.blocked
         THEN /\ batch' = Append(batch, [type |-> "read", source |->
                             AssignRunCitationSources(<<single(m)>>, RunCitationReservations(search.events))[1]])
              /\ search' = NoSearch
         ELSE readFails
  /\ UNCHANGED <<index, context, log, searchChanges>>
\* The executor traces the batch when its handlers have run.
traced(r, truncated) == IF r.type = "error" THEN r ELSE [truncated |-> truncated] @@ r
Trace ==
  /\ batch # <<>> /\ search = NoSearch
  /\ \E cut \in IF Truncates THEN SUBSET DOMAIN batch ELSE {{}} : log' = log \o [n \in DOMAIN batch |-> traced(batch[n], n \in cut)]
  /\ batch' = <<>> /\ UNCHANGED <<index, search, context, searchChanges>>

\* Other clients rebuild, withdraw, restore or delete a document at any time.
Change ==
  /\ searchChanges < MaxChanges /\ searchChanges' = searchChanges + 1
  /\ \E d \in Docs :
       \/ \E p \in SearchSpaces : index[d].version > 0 /\ index[d].version < Len(Catalog[d]) /\ index' = [index EXCEPT ![d].version = @ + 1, ![d].space = p]
       \/ index[d].version > 0 /\ index' = [index EXCEPT ![d].life = IF @ = "active" THEN "withdrawn" ELSE "active"]
       \/ index[d].version > 0 /\ index' = [index EXCEPT ![d].version = 0]
  /\ search' = IF "match" \notin DOMAIN search THEN search
               ELSE [search EXCEPT !.allowed = @ \/ readable(index', search.match)]
  /\ UNCHANGED <<context, batch, log>>

SearchNext ==
  \/ \E tool \in BOOLEAN : Search(tool)
  \/ SearchDocumentChunks \/ SearchDocumentChunksLexical \/ SelectMatches \/ Expand \/ Retrieved
  \/ Located \/ readTool \/ GetDocumentInWorkspace \/ readChunks \/ Trace \/ Change
SearchSpec == SearchInit /\ [][SearchNext]_searchVars

-----------------------------------------------------------------------------
(* Properties *)

\* One namespace per Run: a citation number of its evidence never stands for two sources, and a
\* source keeps its number, whether retrieved automatically or read by a Tool in any batch.
NumbersAreUnambiguous ==
  LET cited == UNION {{evidence(log[n])[k] : k \in DOMAIN evidence(log[n])} : n \in DOMAIN log} IN
  \A a, b \in cited : (a.number = b.number) = (citationIdentity(a) = citationIdentity(b))

\* A match that was selected within the token limit reaches the model: deduplication, grouping and
\* merging with its neighbours never push it over the limit again.
selectedMatchesSurvive ==
  search.pc = "expand" /\ search'.pc = "none" =>
       \A n \in DOMAIN matchesSelected : \E k \in DOMAIN context' : \E j \in DOMAIN context'[k].ids :
          context'[k].ids[j] = id(matchesSelected[n])

\* Nothing the guard blocks reaches the model, as a match or as the neighbour of one.
BlockedNeverShown ==
  \A k \in DOMAIN context : \A j \in DOMAIN context[k].ids : LET i == context[k].ids[j] IN ~chunk(i[1], i[2], i[3]).blocked

\* A page that is read is one that could be read at one moment of the call: of a Chunk in the index of an active
\* document.  The row and the Chunks come from different moments, between which the document may be withdrawn,
\* restored, rebuilt or deleted, and nothing is put together from two versions of it.
readIsCurrent ==
  \A r \in {batch'[n] : n \in DOMAIN batch' \ DOMAIN batch} : r.type = "read" =>
        search.allowed /\ r.source.chunk = <<id(search.match)>>

\* "RAGCitation is trusted source metadata resolved by the server": every Chunk a context item
\* was made of belongs to the document version its citation names.
CitationNamesWhatItShows ==
  \A k \in DOMAIN context : \A j \in DOMAIN context[k].ids : context[k].ids[j][2] = context[k].head.version
=============================================================================
