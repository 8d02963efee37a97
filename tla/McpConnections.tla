--------------------------- MODULE McpConnections ---------------------------
(***************************************************************************)
(* One Workspace connection to a remote MCP server: the owner saves, tests   *)
(* and deletes it, the service caches an adapter per identity, Runs capture  *)
(* Bindings from a Catalog built for them, and each call lists the remote    *)
(* definitions again before it is sent.  One remote Tool stands for the      *)
(* selected ones.  A definition includes schemas, hints and the protocol.    *)
(***************************************************************************)
EXTENDS Naturals, Sequences, FiniteSets

CONSTANTS Urls, Definitions,   \* "write" is a definition with an explicit destructive hint
          McpRuns, Testers,       \* Testers: the shared slots for connection tests
          MaxRevision, MaxTokens, MaxAdapters, MaxRemoteChanges

VARIABLES mcpRow,       \* the mcp_connections row
          active,    \* CheckWorkspaceExecution
          remote,    \* what each server lists, "missing" or "down"
          saving,    \* a Save between its read and its write
          tests,     \* per slot: a Test between its read, the discovery and its write
          evicting,  \* a Delete between the row and the cache
          cache,     \* index of the cached adapter, 0 when there is none
          adapters,  \* every adapter made: [c, closed]
          closed,    \* Service.closed
          listing,   \* per Run: the row its Catalog build has read
          binding,   \* per Run: the adapter of its captured Binding, 0 when there is none
          mcpCall,      \* per Run: idle, entered, listed, authorized
          sent,      \* tools/call requests: [run, frozen, listed]
          tokens, mcpChanges,
          reviewed,  \* definitions a Save selected
          allowed    \* per Run: the row authorized it at some time since the listing
mcpVars == <<mcpRow, active, remote, saving, tests, evicting, cache, adapters, closed, listing, binding, mcpCall, sent,
          tokens, mcpChanges, reviewed, allowed>>

NoDefinition == [def |-> "none", url |-> "none", cipher |-> 0]
\* A ciphertext is the number of its encryption and the endpoint it is bound to.
NoCipher == [n |-> 0, url |-> "none"]
Nothing == [none |-> TRUE]
supported(d) == d # "write"

McpInit ==
  /\ \E u \in Urls : mcpRow = [deleted |-> FALSE, url |-> u, auth |-> "none", cipher |-> NoCipher, enabled |-> FALSE,
                            status |-> "configured", discovery |-> NoDefinition, selected |-> FALSE, revision |-> 1]
  /\ active = TRUE
  /\ remote \in [Urls -> Definitions]
  /\ saving = Nothing /\ tests = [t \in Testers |-> Nothing] /\ evicting = FALSE
  /\ cache = 0 /\ adapters = <<>> /\ closed = FALSE
  /\ listing = [r \in McpRuns |-> Nothing] /\ binding = [r \in McpRuns |-> 0] /\ mcpCall = [r \in McpRuns |-> "idle"]
  /\ sent = {} /\ tokens = 0 /\ mcpChanges = 0 /\ reviewed = {} /\ allowed = [r \in McpRuns |-> FALSE]

\* Service.authorize: the current row against the one a Binding was made from.
authorizes(current, workspace, c) ==
  /\ ~current.deleted /\ current.enabled /\ current.status = "discovered" /\ current.selected
  /\ workspace
  /\ current.url = c.url /\ current.auth = c.auth /\ current.cipher = c.cipher
\* The ghost of a later authorization, for calls between their listing and their dispatch.
noted(current, workspace) ==
  allowed' = [r \in McpRuns |-> allowed[r] \/ (binding[r] > 0 /\ authorizes(current, workspace, adapters[binding[r]].c))]
writesRow(c) == mcpRow' = c /\ noted(c, active)

----------------------------------------------------------------------------
\* Save, from its read of the row: a changed identity drops the discovery, a changed
\* endpoint the credential.  token: "keep" or "new".
identityChanged(c, url, auth, token) == c.url # url \/ c.auth # auth \/ token = "new"
savedCipher(c, url, auth, token) ==
  IF token = "new" THEN [n |-> tokens + 1, url |-> url]
  ELSE IF c.url # url \/ auth = "none" THEN NoCipher ELSE c.cipher
Edited(c, url, auth, token, enabled, selected) ==
  LET changed == identityChanged(c, url, auth, token)
  IN  [c EXCEPT !.url = url, !.auth = auth, !.enabled = enabled, !.selected = selected,
                !.cipher = savedCipher(c, url, auth, token),
                !.discovery = IF changed THEN NoDefinition ELSE @,
                !.status = IF changed THEN "configured" ELSE @]
valid(c) ==
  /\ c.auth = "bearer" => c.cipher # NoCipher
  /\ c.selected => c.discovery # NoDefinition /\ supported(c.discovery.def)
  /\ c.enabled => c.status = "discovered" /\ c.selected
SaveRead(url, auth, token, enabled, selected) ==
  /\ saving = Nothing /\ active /\ ~mcpRow.deleted /\ mcpRow.revision < MaxRevision
  /\ token = "new" => auth = "bearer" /\ tokens < MaxTokens
  /\ valid(Edited(mcpRow, url, auth, token, enabled, selected))
  /\ saving' = Edited(mcpRow, url, auth, token, enabled, selected)
  /\ tokens' = IF token = "new" THEN tokens + 1 ELSE tokens
  /\ UNCHANGED <<mcpRow, active, remote, tests, evicting, cache, adapters, closed, listing, binding, mcpCall, sent, mcpChanges, reviewed, allowed>>

\* SaveMCPConnection: UPDATE ... WHERE revision = the one read AND deleted_at IS NULL.
\* Mutant: the revision is not compared.
sameRevisionAny(c) == ~mcpRow.deleted
sameRevision(c) == ~mcpRow.deleted /\ mcpRow.revision = c.revision
bumped(c) == [c EXCEPT !.revision = mcpRow.revision + 1]
SaveWrite ==
  /\ saving # Nothing /\ sameRevision(saving)
  /\ writesRow(bumped(saving)) /\ saving' = Nothing
  /\ reviewed' = IF saving.selected THEN reviewed \cup {saving.discovery.def} ELSE reviewed
  /\ UNCHANGED <<active, remote, tests, evicting, cache, adapters, closed, listing, binding, mcpCall, sent, tokens, mcpChanges>>
SaveConflict ==
  /\ saving # Nothing /\ ~sameRevision(saving)
  /\ saving' = Nothing
  /\ UNCHANGED <<mcpRow, active, remote, tests, evicting, cache, adapters, closed, listing, binding, mcpCall, sent, tokens, mcpChanges, reviewed, allowed>>

\* Test: read, discover on the network, write.  A failed one keeps the owner's selection.
decrypts(c) == c.cipher = NoCipher \/ c.cipher.url = c.url
TestRead(t) ==
  /\ tests[t] = Nothing /\ active /\ ~mcpRow.deleted /\ mcpRow.revision < MaxRevision /\ decrypts(mcpRow)
  /\ tests' = [tests EXCEPT ![t] = [c |-> mcpRow, at |-> "read"]]
  /\ UNCHANGED <<mcpRow, active, remote, saving, evicting, cache, adapters, closed, listing, binding, mcpCall, sent, tokens, mcpChanges, reviewed, allowed>>
discovered(c) ==
  CASE remote[c.url] = "down"    -> [c EXCEPT !.discovery = NoDefinition, !.status = "mcp_connection_failed"]
    [] remote[c.url] = "missing" -> [c EXCEPT !.discovery = NoDefinition, !.status = "discovered"]
    [] OTHER -> [c EXCEPT !.discovery = [def |-> remote[c.url], url |-> c.url, cipher |-> c.cipher.n], !.status = "discovered"]
DiscoverDefinitions(t) ==
  /\ tests[t] # Nothing /\ tests[t].at = "read"
  /\ tests' = [tests EXCEPT ![t] = [c |-> discovered(tests[t].c), at |-> "discovered"]]
  /\ UNCHANGED <<mcpRow, active, remote, saving, evicting, cache, adapters, closed, listing, binding, mcpCall, sent, tokens, mcpChanges, reviewed, allowed>>
TestWrite(t) ==
  /\ tests[t] # Nothing /\ tests[t].at = "discovered" /\ sameRevision(tests[t].c)
  /\ writesRow(bumped(tests[t].c)) /\ tests' = [tests EXCEPT ![t] = Nothing]
  /\ UNCHANGED <<active, remote, saving, evicting, cache, adapters, closed, listing, binding, mcpCall, sent, tokens, mcpChanges, reviewed>>
TestConflict(t) ==
  /\ tests[t] # Nothing /\ tests[t].at = "discovered" /\ ~sameRevision(tests[t].c)
  /\ tests' = [tests EXCEPT ![t] = Nothing]
  /\ UNCHANGED <<mcpRow, active, remote, saving, evicting, cache, adapters, closed, listing, binding, mcpCall, sent, tokens, mcpChanges, reviewed, allowed>>

shut(list, i) == IF i = 0 THEN list ELSE [list EXCEPT ![i].closed = TRUE]
DeleteRow ==
  /\ active /\ ~mcpRow.deleted /\ ~evicting
  /\ writesRow([mcpRow EXCEPT !.deleted = TRUE, !.enabled = FALSE, !.cipher = NoCipher, !.discovery = NoDefinition])
  /\ evicting' = TRUE
  /\ UNCHANGED <<active, remote, saving, tests, cache, adapters, closed, listing, binding, mcpCall, sent, tokens, mcpChanges, reviewed>>
Evict ==
  /\ evicting
  /\ evicting' = FALSE /\ cache' = 0 /\ adapters' = shut(adapters, cache)
  /\ UNCHANGED <<mcpRow, active, remote, saving, tests, closed, listing, binding, mcpCall, sent, tokens, mcpChanges, reviewed, allowed>>

----------------------------------------------------------------------------
\* Service.Catalog for a Run: list the rows, then bind each enabled one under the lock.
CatalogRead(r) ==
  /\ listing[r] = Nothing /\ binding[r] = 0 /\ mcpCall[r] = "idle"
  /\ ~mcpRow.deleted /\ mcpRow.enabled /\ mcpRow.status = "discovered"
  /\ listing' = [listing EXCEPT ![r] = mcpRow]
  /\ UNCHANGED <<mcpRow, active, remote, saving, tests, evicting, cache, adapters, closed, binding, mcpCall, sent, tokens, mcpChanges, reviewed, allowed>>
\* The cached identity leaves out the revision and the switches.
fingerprint(c) == <<c.url, c.auth, c.cipher, c.selected, c.discovery>>
CatalogCached(r) ==
  /\ listing[r] # Nothing /\ ~closed /\ cache > 0
  /\ fingerprint(adapters[cache].c) = fingerprint(listing[r])
  /\ binding' = [binding EXCEPT ![r] = cache] /\ listing' = [listing EXCEPT ![r] = Nothing]
  /\ UNCHANGED <<mcpRow, active, remote, saving, tests, evicting, cache, adapters, closed, mcpCall, sent, tokens, mcpChanges, reviewed, allowed>>
replaced(c) == Append(shut(adapters, cache), [c |-> c, closed |-> FALSE])
CatalogBind(r) ==
  /\ listing[r] # Nothing /\ ~closed /\ Len(adapters) < MaxAdapters
  /\ cache > 0 => fingerprint(adapters[cache].c) # fingerprint(listing[r])
  /\ adapters' = replaced(listing[r]) /\ cache' = Len(adapters) + 1
  /\ binding' = [binding EXCEPT ![r] = Len(adapters) + 1] /\ listing' = [listing EXCEPT ![r] = Nothing]
  /\ UNCHANGED <<mcpRow, active, remote, saving, tests, evicting, closed, mcpCall, sent, tokens, mcpChanges, reviewed, allowed>>
CatalogClosed(r) ==
  /\ listing[r] # Nothing /\ closed
  /\ listing' = [listing EXCEPT ![r] = Nothing]
  /\ UNCHANGED <<mcpRow, active, remote, saving, tests, evicting, cache, adapters, closed, binding, mcpCall, sent, tokens, mcpChanges, reviewed, allowed>>
RunEnds(r) ==
  /\ binding[r] > 0 /\ mcpCall[r] = "idle"
  /\ binding' = [binding EXCEPT ![r] = 0]
  /\ UNCHANGED <<mcpRow, active, remote, saving, tests, evicting, cache, adapters, closed, listing, mcpCall, sent, tokens, mcpChanges, reviewed, allowed>>

----------------------------------------------------------------------------
\* The Binding's Handler.  ready: not closed, and the restored definition can be called.
frozen(r) == adapters[binding[r]].c
bindable(c) == decrypts(c) /\ c.discovery # NoDefinition /\ supported(c.discovery.def)
mcpReady(r) == ~adapters[binding[r]].closed /\ bindable(frozen(r))
Enter(r) ==
  /\ binding[r] > 0 /\ mcpCall[r] = "idle" /\ mcpReady(r) /\ authorizes(mcpRow, active, frozen(r))
  /\ mcpCall' = [mcpCall EXCEPT ![r] = "entered"]
  /\ UNCHANGED <<mcpRow, active, remote, saving, tests, evicting, cache, adapters, closed, listing, binding, sent, tokens, mcpChanges, reviewed, allowed>>
\* The fingerprint of what the server lists now, under this adapter's configuration.
sameDefinition(c) == remote[c.url] = c.discovery.def
Relist(r) ==
  /\ mcpCall[r] = "entered" /\ ~adapters[binding[r]].closed /\ sameDefinition(frozen(r))
  /\ mcpCall' = [mcpCall EXCEPT ![r] = "listed"]
  /\ sent' = sent \cup {[run |-> r, frozen |-> frozen(r).discovery.def, listed |-> remote[frozen(r).url], dispatched |-> FALSE]}
  /\ allowed' = [allowed EXCEPT ![r] = authorizes(mcpRow, active, frozen(r))]
  /\ UNCHANGED <<mcpRow, active, remote, saving, tests, evicting, cache, adapters, closed, listing, binding, tokens, mcpChanges, reviewed>>
\* SetCallAuthorization: once more, at the tools/call boundary.
authorized(r) == authorizes(mcpRow, active, frozen(r))
Authorize(r) ==
  /\ mcpCall[r] = "listed" /\ authorized(r)
  /\ mcpCall' = [mcpCall EXCEPT ![r] = "authorized"]
  /\ UNCHANGED <<mcpRow, active, remote, saving, tests, evicting, cache, adapters, closed, listing, binding, sent, tokens, mcpChanges, reviewed, allowed>>
CallTool(r) ==
  /\ mcpCall[r] = "authorized" /\ ~adapters[binding[r]].closed
  /\ sent' = {[s EXCEPT !.dispatched = (@ \/ s.run = r)] : s \in sent}
  /\ mcpCall' = [mcpCall EXCEPT ![r] = "idle"]
  /\ UNCHANGED <<mcpRow, active, remote, saving, tests, evicting, cache, adapters, closed, listing, binding, tokens, mcpChanges, reviewed, allowed>>
\* A connection error, a timeout, a changed definition or a refused authorization.
CallFails(r) ==
  /\ mcpCall[r] # "idle"
  /\ mcpCall' = [mcpCall EXCEPT ![r] = "idle"] /\ sent' = {s \in sent : s.run # r \/ s.dispatched}
  /\ UNCHANGED <<mcpRow, active, remote, saving, tests, evicting, cache, adapters, closed, listing, binding, tokens, mcpChanges, reviewed, allowed>>

----------------------------------------------------------------------------
\* The remote server, the Workspace's status, shutdown.
RemoteChanges(u, d) ==
  /\ mcpChanges < MaxRemoteChanges /\ remote[u] # d
  /\ remote' = [remote EXCEPT ![u] = d] /\ mcpChanges' = mcpChanges + 1
  /\ UNCHANGED <<mcpRow, active, saving, tests, evicting, cache, adapters, closed, listing, binding, mcpCall, sent, tokens, reviewed, allowed>>
Deactivate ==
  /\ active /\ active' = FALSE
  /\ UNCHANGED <<mcpRow, remote, saving, tests, evicting, cache, adapters, closed, listing, binding, mcpCall, sent, tokens, mcpChanges, reviewed, allowed>>
Close ==
  /\ ~closed
  /\ closed' = TRUE /\ adapters' = shut(adapters, cache) /\ cache' = 0
  /\ UNCHANGED <<mcpRow, active, remote, saving, tests, evicting, listing, binding, mcpCall, sent, tokens, mcpChanges, reviewed, allowed>>

McpNext ==
  \/ \E u \in Urls, a \in {"none", "bearer"}, t \in {"keep", "new"}, e, s \in BOOLEAN : SaveRead(u, a, t, e, s)
  \/ SaveWrite \/ SaveConflict \/ DeleteRow \/ Evict \/ Deactivate \/ Close
  \/ \E t \in Testers : TestRead(t) \/ DiscoverDefinitions(t) \/ TestWrite(t) \/ TestConflict(t)
  \/ \E r \in McpRuns : CatalogRead(r) \/ CatalogCached(r) \/ CatalogBind(r) \/ CatalogClosed(r) \/ RunEnds(r)
                     \/ Enter(r) \/ Relist(r) \/ Authorize(r) \/ CallTool(r) \/ CallFails(r)
  \/ \E u \in Urls, d \in Definitions \cup {"missing", "down"} : RemoteChanges(u, d)
McpSpec == McpInit /\ [][McpNext]_mcpVars

-----------------------------------------------------------------------------
(* Properties *)

requests == {s \in sent : s.dispatched}

\* A Run calls the definition it captured: what the server listed in that very call is what
\* the Run froze, whatever the server, a Test or another Run's Catalog changed since
\* ("frozen Run/Resume definitions cannot silently upgrade").
FrozenDefinitionsOnly == \A s \in requests : s.listed = s.frozen

\* A withdrawal (disabled, deleted, deselected, another endpoint or token, an inactive
\* Workspace) that stands when the server's listing arrives stops the call, also one that
\* had passed the Binding's own check before.
withdrawalStopsCall ==
  \A r \in McpRuns : mcpCall[r] = "authorized" /\ requests' # requests /\ mcpCall'[r] = "idle" => allowed[r]

\* The stored discovery is of the endpoint and with the credential that are stored, after
\* any sequence of edits and tests.
DiscoveryFitsEndpoint ==
  mcpRow.discovery # NoDefinition => mcpRow.discovery.url = mcpRow.url /\ mcpRow.discovery.cipher = mcpRow.cipher.n

\* A Test that was on the network while the owner edited, disabled or rotated the connection
\* does not undo the edit ("stale edits or discovery responses return 409").
testsNeverUndoEdits ==
  tests' # tests => /\ mcpRow'.url = mcpRow.url /\ mcpRow'.auth = mcpRow.auth /\ mcpRow'.cipher = mcpRow.cipher
                       /\ mcpRow'.enabled = mcpRow.enabled /\ mcpRow'.selected = mcpRow.selected

\* Every open adapter is the cached one: rotation, deletion, a Catalog built from a stale
\* list and shutdown leave none behind with its credential.
OpenAdaptersAreCached == \A i \in DOMAIN adapters : ~adapters[i].closed => i = cache

\* "Testing never grants tools": whatever is called was selected by a Save that showed it.
TestingNeverGrants == \A s \in requests : s.frozen \in reviewed

\* Edits, Tests, Catalogs, calls and the server's own changes, in any order, leave no call,
\* listing or client that belongs to an earlier connection: the five parts above.
ConnectionsSafe ==
  /\ [](FrozenDefinitionsOnly /\ OpenAdaptersAreCached /\ DiscoveryFitsEndpoint)
  /\ [][withdrawalStopsCall /\ testsNeverUndoEdits]_mcpVars
=============================================================================
