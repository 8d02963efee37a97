# AgentFlow Platform: TLA+ models and proofs

AgentFlow runs language-model agents as durable *Runs*. A Run is a row and an
append-only event stream in PostgreSQL; a worker goroutine executes it; users,
operators, deadlines, crashes and the next process all write to it. The promise
that matters is that these writers cannot corrupt each other: a Run reaches
one outcome, an external side effect happens at most once, a Conversation has one
writer, a call stays inside its grants, and what readers are shown is what is
stored. This directory models the code behind that promise, checks it with TLC
on small instances and proves the main results with TLAPS for all sizes.

Paths are relative to `src/apps/api/` unless they begin with `src/`.
`PROJECT.json` maps every definition to the lines it models and lists hazards,
runs, mutants and theorems.

    tlc -config MCControl.cfg MCControl      # a run
    tlapm ControlProofs.tla                  # the proofs of a module

## 1. The system

### Components, their state and their operations

| Component | State | Operations | Module |
|---|---|---|---|
| Run lifecycle (`internal/store/run_lifecycle.go`, `postgres_run_transition.go`, `internal/agent/run_lifecycle.go`) | `runs` row, `run_events` stream | conditional transition, `settleRun`, `CancelRun` | `RunLifecycle`, abstract `RunStatus` |
| Run commands (`app/runcommands`) | the writer they hold | Start, Resume, Continue, Stop, Reverify | `RunLifecycle`, `RunAdmission` |
| Run completion, verification engine (`app/runcompletion`, `internal/verification`) | candidate, receipts, evidence | bind, verify, gate, settle | `VerificationGate` |
| Cold-start repair (`internal/recovery`, `store/postgres_recovery.go`) | startup instant, recheck | list, plan, conditional repair | `RunLifecycle`, `ToolEffect`, `ExecutionTrace` |
| Event protocol check (`internal/event/invariant.go`) | none | a scan of the stream | `RunLifecycle`, `ExecutionTrace` |
| Clarifications (`store/postgres_clarifications.go`, `internal/agent/clarification_*.go`) | question, receipts, claim | suspend, answer, claim, withdraw | `Clarification` |
| Durable inputs and follow-ups (`store/postgres_inbox.go`, `postgres_followup.go`) | receipts | enqueue, consume, dispatch, expire | `DurableInput` |
| Stage checkpoints and restore (`internal/checkpoint`) | checkpoints, restore plan | record, validate, restore, compensate | `StageCheckpoint` |
| Tool effects: executor, journal, reconciliation, undo (`internal/tool`, `store/postgres_effect_*.go`) | `tool_effects` row, goroutines | begin, commit, mark, claim, settle | `ToolEffect`, abstract `EffectJournal` |
| Tool loop (`internal/agent/toolloop`) | round, slots, loaded Tools | batch, discovery, suspend, retry | `ToolLoop` |
| Progress guard (`internal/tool/progress`) | history of results | decide, record, restore | `ProgressGuard` |
| Tool catalog, policy, planning (`internal/tool`, `internal/agent/workspace_authorization.go`) | file, allowlist, snapshots | reload, freeze, authorise | `ToolAuthority` |
| MCP connections (`internal/mcpconnection`) | row, adapters, bindings | save, test, delete, call | `McpConnections` |
| Sandbox runner (`internal/sandbox`) | slots, ownership records, VMs | run, cleanup, close, recover | `SandboxRunner` |
| Admission and drain (`internal/concurrency/run_controller.go`, `app/application.go`) | two channels, a WaitGroup, the writer map | Reserve, Start, release, Close | `RunAdmission` |
| Budget ledger (`internal/budget`) | usage entries | reserve, settle, charge | `UsageLedger` |
| Model request limiter (`internal/concurrency/model_request_limiter.go`) | owner slots, buckets, permits | acquire, release, close | `ModelRequestLimiter` |
| Workspace lifecycle (`store/postgres_workspaces.go`) | rows and their locks | create, update, delete, write | `WorkspaceLifecycle` |
| Model calls (`internal/inference/openai`) | attempts, records, pieces | stream, retry, capture, settle | `ModelStream` |
| Model routing (`internal/inference/routing`, `internal/agent/model_routes.go`) | catalog, decisions | freeze, decide, send | `ModelRouting` |
| Context assembly (`internal/contextassembly`) | protocol messages, manifest | merge, select, publish | `ContextAssembly` |
| Context compaction (`internal/contextcompaction`) | summaries, cooldowns | plan, attempt, commit | `ContextCompaction` |
| Skills (`internal/skill`) | packages, activations | install, freeze, load, read | `SkillMethods` |
| Autonomous loop (`internal/agent/autonomous*.go`) | iterations, Stages | iterate, decide, resume | `AutonomousLoop` |
| Multi-Agent orchestration and selection (`internal/agent/orchestrator*.go`) | approval, Router step | rank, decide, recover | `WorkerSelection` |
| Memory (`internal/memory`) | Candidates, Memories, queue | propose, judge, mutate, forget | `MemorySync` |
| Knowledge documents (`internal/knowledge`, `store/document_index.go`) | documents, Chunks | ingest, rebuild, update, delete | `DocumentIndex` |
| Retrieval and citations (`internal/rag`) | matches, citation numbers | recall, expand, cite | `KnowledgeSearch` |
| Web sources (`internal/tool/webcitation`) | labels, stored results | search, read, resolve | `WebSources` |
| Conversations and history search (`internal/sessionhistory`) | messages, events, title | append, search, title | `ConversationHistory` |
| Task state (`internal/taskstate`) | revisions | patch, conflict, event | `TaskState` |
| Event hub (`internal/event/hub.go`) | subscribers | publish, observe, reconnect | `EventStream` |
| Headless client (`internal/runclient`) | cursor, outcome, evidence file | submit, observe, report | `HeadlessClient` |
| Output checkpoints (`internal/event/output_checkpoint.go`) | pending text | add, tick, flush | `OutputCheckpoint` |
| Recorder, tracer, projections (`internal/event`, `internal/projection`) | open scopes | record, repair, fold | `ExecutionTrace` |
| Replay and attention (`internal/projection`, `internal/httpapi/run_attention.go`) | none | reads without a transaction | `RunReplay` |
| Web chat session (`src/apps/web/components/chat`) | leases, streams | send, observe, stop, navigate | `RunSession` |

Not modelled: chunking, scoring and reranking (numeric); plan text and
project guidance (rendering); identity, credentials, redaction and egress (filters
of requests and text; the grants they decide are choices where they are
read); HTTP encoding and contracts; schema and migrations; evaluation, telemetry,
configuration and command-line plumbing; the rest of the web application.

### How the parts interact

1. A command **reserves** a place, waits to be the **writer** of its
   Conversation, then for an active **slot** (`RunAdmission`), in a **Workspace**
   whose rows its business writes lock (`WorkspaceLifecycle`).
2. Holding the writer it moves the Run to `running` and drives a worker, which
   appends events and at last **settles** the Run (`RunLifecycle`).
   A question **suspends** it (`Clarification`), inputs queued meanwhile are taken
   in order (`DurableInput`), and a contract makes completion depend on
   **evidence** (`VerificationGate`).
3. A Turn **assembles** its context (`ContextAssembly`, `ContextCompaction`,
   `SkillMethods`, `KnowledgeSearch`, `MemorySync`), takes the Run's **route**
   (`ModelRouting`), reserves **budget** (`UsageLedger`), acquires **permits**
   (`ModelRequestLimiter`) and streams the answer (`ModelStream`).
4. Its Tool calls go round the **loop** (`ToolLoop`, `ProgressGuard`), are
   **authorised** (`ToolAuthority`, `McpConnections`), journalled (`ToolEffect`)
   and some run in a VM (`SandboxRunner`).
5. **Stop** holds neither a reservation nor the writer: it commits
   `running -> canceling` and cancels the worker's context.
6. A **crash** keeps the database and the outside world. The next process repairs
   the Runs whose heartbeat is stale, rechecks the others once, closes open scopes
   (`ExecutionTrace`) and makes abandoned effects uncertain; **Resume** restores
   Stages from their checkpoints (`StageCheckpoint`).
7. An **operator** reconciles uncertain effects; **observers** follow the stream
   (`EventStream`, `HeadlessClient`, `RunSession`) or read projections (`RunReplay`).
8. **Shutdown** closes admission and drains, then closes the Store.

### What is hard

Decisions taken on a status another writer has since changed; retry loops of
fixed length; a repair planned from a stale read; goroutines that outlive the
request that waits for them; a journal write that fails between an external
write and its record; a map entry deleted while others wait on it; several
durable writes that a crash may separate; events published out of commit order;
a reader that joins several queries without a transaction; grants that are revoked
between the check and the call. `PROJECT.json` lists them as hazards,
each at its line with the property that would catch it going wrong.

## 2. The modules

One module per component (table above): its state as VARIABLES, one action per
operation or durable step. A store call is one action where the code runs one
transaction and several where it runs several. Definitions keep the names of the code.
In `PROJECT.json` the map names, for each piece of code, the definition that stands for it;
a helper or constant whose lines lie inside, or next to, those of the definition that uses
it is not listed separately. Definitions marked `Mutant:` are plausible bugs; substituted for the definition
they are named after, they make the property listed beside them fail.

Two are abstract specifications, implemented by a module through a refinement
mapping: `RunStatus` (what the status of a Run promises its readers) by
`RunLifecycle`, and `EffectJournal` (what a journal record promises, whoever writes
it) by `ToolEffect`.

Six modules put components side by side for TLC. Each has a variable `part`: the
initial state picks a component, whose Next then moves while the others rest,
so a run explores the disjoint union of its components and not their product.

| Module | Components (`part`) |
|---|---|
| `MCControl` | lifecycle, clarification, inputs, checkpoints, verification |
| `MCToolCalls` | effects, toolloop, guard, authority, mcp, sandbox |
| `MCCapacity` | admission, ledger, limiter, workspaces |
| `MCAgentRuntime` | stream, routing, assembly, compaction, skills, autonomous, selection |
| `MCKnowledge` | memory, documents, search, web, history, tasks |
| `MCObservation` | events, client, output, trace, replay, session |

The theorems are in `ControlProofs`, `ToolCallProofs`, `CapacityProofs` and
`MemoryAndClientProofs`.

How the larger modules correspond to the code:

* **RunLifecycle**: `run` is the row, `events` the stream, `exec` the command that holds
  the writer (its `pc` includes the two halves of one attempt of `settleRun`),
  `stop[s]` a Stop request between load, commit, signal and close, `cold` the recheck
  between list, plan and repair. Reads and commits are separate steps, so every
  decision can be stale. A heartbeat is the number of the boot that wrote it,
  which is what `ListStaleRunningRuns` compares, because it caps its cutoff at
  the startup instant.
* **ToolEffect**: `effect` is one row, `applied` says whether the effect is in force in
  the world, `hand` and `cb` are the goroutines that write there, `call`, `req` and `cmd`
  executor calls, deliveries of operator commands, and the commands. `starts`,
  `confirmed` and `overlap` are history variables. With `Faults = {TRUE}` every
  journal write may also fail.
* **RunAdmission**, **ModelRequestLimiter**: a channel used as a semaphore is
  the set of its holders, or the count of its tokens where a release too many would
  take somebody else's.
* **StageCheckpoint**, **VerificationGate**: every durable write is a step of its own; a
  crash or a failing write may come between any two.
* **EventStream**: `log` is what is committed, `unsent` what was not yet handed to the
  hub, `sub` the hub's subscriber, `wire` the frames written and not yet read,
  `client` the cursor of the observer. The events that compaction and the repair of an
  interrupted Run append are committed and never published.
* **UsageLedger**: what an attempt reports is any member of `Reports`, larger or smaller than
  what was reserved, as `SettleModelCall` takes it; the runtime budget may run out at
  any moment.
* **SandboxRunner**: a `sbx create` that is cut off, by its context or with its process, may
  still make the VM at any later moment, before or after recovery has looked for it. `cutOff`
  (a history variable) remembers which.
* **OutputCheckpoint**: `speech` is the stream adapter's attempt (what it has sent, whether
  a Tool call was seen, whether it retracted or ended), `adapter` whether it sends display
  copies (`openai`) or none (the local fallback). A word is a letter or a credential of two
  letters, so a fragment can end inside one.
* **KnowledgeSearch**: a read is three steps, of the events, the document's row and its Chunks;
  the documents may change between any two.
* **RunSession**: the server's side is what it has admitted (`pending`, `admitted`) and its
  Runs; the conversation frame precedes the Run, which may then be refused or not be made. The
  page's command, requests it has let go of (`adrift`), loads, Stops and the
  observation each hold a lease that navigation and new commands end; `strays` are Runs put on display by
  an observation heard once more after the page turned to a new conversation.
* **RunReplay**: a reader holds the results of the queries it has made so far, while
  the writers go on.

## 3. Runs

| Run | Shows | States |
|---|---|---|
| `control` | crashes, restarts and competing writers around one Run: no settlement is lost and every commit is a step of `RunStatus` (`LifecycleSafe`, `ImplementsRunStatus`), the program's own diagnostic rejects only one kind of stream (`DiagnosticsCleanButStoppedRecovery`), an answered question can be claimed and no write is redone (`ClarificationSafe`), restore repeats no Stage and no write (`RestoreSafe`), completion is verified within one attempt budget (`VerificationSafe`), an input takes effect once (`InputsTakeEffectOnce`) | 1,489,255 |
| `tools` | one execution per idempotency key (`EffectsOnce`), a journal that does not lie (`JournalIsTruthful`), no VM lost whose create was answered (`SandboxSafe`), private data that stays and identities that mean one write (`ToolLoopSafe`), a guard that halts repetition (`ProgressIsForced`), calls inside their grants (`AuthorityHolds`, `ConnectionsSafe`) | 1,300,416 |
| `capacity` | one writer per Conversation and a final drain (`AdmissionSafe`), exact accounts and an overrun that ends the work (`BudgetHolds`), permits neither lost nor issued twice (`LimiterSafe`), closed Workspaces that are quiet (`WorkspacesSafe`) | 576,184 |
| `agent` | model calls, assembly, selection, routing, compaction, Skills and iterations over retries, restarts and changed configuration (`ModelCallSafe`, `AssemblySafe`, `SelectionSafe`, `RoutingSafe`, `CompactionSafe`, `SkillsSafe`, `IterationsSafe`) | 837,974 |
| `knowledge` | nothing withdrawn returns, no update is lost, a citation names what was delivered (`HistorySafe`, `TaskStateSafe`, `MemorySafe`, `IndexSafe`, `CitationsAreReal`) | 950,757 |
| `observation` | an observer misses nothing and is told nothing false (`FeedIsExact`, `ClientSafe`, `OutputSafe`, `TraceSafe`, `ReadsAreTruthful`, `SessionSafe`) | 1,128,948 |
| `lifecycle_live` | `RunsSettle`: a stopped Run settles and an orphaned Run does not stay running, unless a repair gives up | 12,501 |
| `tools_live` | `CallsComeToAnEnd`: a begun effect surfaces (`AttemptSurfaces`), a sandbox shutdown finishes (`CloseFinishes`) | 16,708 |
| `capacity_live` | `WaitsEnd`: accepted commands leave, the drain completes, Close ends every wait, Workspace requests get their locks | 50,238 |
| `observation_live` | `ShownInTheEnd`: a connected observer learns every end that is published, safe text becomes durable, the page shows the stop of a Run it follows | 281,242 |
| `lifecycle_stranded` | violated: `StopAlwaysSettles` (section 5) | |
| `event_stream_compaction` | violated: `ObserverLearnsTheEnd` when the context is compacted (section 5) | |

A property that combines parts names them in its definition; each part has its
own comment. Each property of a passing run has a mutant of the code that breaks it.

### Bounds, and why they are enough

Every counter that could grow has a constant named `Max...` in a guard. The
CONSTRAINT of each run (`OneDisturbance`, `ToolCallsBounds`, `CapacityBounds`,
`AgentRuntimeBounds`, `KnowledgeBounds`, `ObservationBounds`) limits which disturbances are
combined, and the comment above it says how. The choices that matter:

* **Lifecycle**: three boots, so a Run may be orphaned, repaired or resumed, and
  orphaned again; two Stops, so one can lose to the other and retry; streams of
  four events, which suffice for start, work, crash, repair, resume and Stop; three
  foreign appends, which can void both plans of a repair.
* **Inputs**: two receipts with a crash, a failure, a withdrawal or an expiry; three Runs
  with one. **Clarification**: two receipts and two write effects.
  **Checkpoints**: two roles, two crashes, one effect. **Verification**: two verifiers, two
  candidates, a fault and a changed document.
* **Effects**: two calls with one key or two commands with a crash; faults at every
  journal write. Deliveries are proved about for any number.
* **Progress guard**: four rounds with batches of two, so both calls of a batch may ask before either has
  answered, and answer in either order; a crash may lose the answers not yet recorded.
* **Tool loop**: five rounds with batches of two, one retry; beyond two rounds only
  the loaded writer, which is what identities depend on.
* **Capacity**: three commands on two Conversations with one slot and one queue place:
  a full queue, two waiters for one entry, an entry deleted and created again. Integers
  of the ledger are scaled down (`Million`, `MaxInt64`) so that saturation occurs. `Reports` holds
  reports below, at and above what any call reserves. In `capacity_live` a command may hold
  the token of one Conversation while another holds the only slot, and wait behind a
  third in the queue.
* **Agent runtime, knowledge, observation**: two of everything that races (installers,
  clients, sources, Turns, Runs) and one disturbance of each kind. The chat view: two conversations,
  two Runs, three actions of the user (a third without a fault and with one Run), one fault,
  and observations that give up after two attempts (four in `src/apps/web/lib/run-stream.ts:64`, which only
  makes them give up later); `observation_live` has one Run and two actions. Conversations are
  interchangeable, so the page begins with a fixed one.
* Symmetry is used in `control` only (jobs, Stops and commands; keys), where the
  specifications do not tell the elements apart.
* Deadlock is not checked: every component may come to rest (a settled Run, a
  closed application, a page nobody looks at).

### Fairness

Liveness is checked under what the code's scheduling gives and no more:

* *Run*: weak fairness of a command's own steps, of the end of its work (the runtime
  budget and provider timeouts bound a worker), of a Stop request that has begun,
  and of the restart and its recheck. Nobody has to Resume, Reverify or Stop.
* *Effects*: weak fairness of the executor (its timer fires), the restart and the repair.
  *Sandbox*: weak fairness of a call's steps and of Close. Handlers, callbacks and operators
  owe nothing.
* *Admission*: strong fairness for a waiter's send to a token or slot channel, because a
  Go channel serves blocked senders in order; weak fairness for the rest. *Limiter*: weak
  fairness of the wake-up and of a call's steps. *Workspaces*: strong fairness for the
  owner's row lock, which PostgreSQL grants in order, weak fairness for the rest.
  No deadline has to expire.
* *Observation*: weak fairness of a goroutine that has committed and must publish, of the
  endpoint and of the reader; of the ticker of the output recorder; of the page's callbacks
  and of the Run the page shows. The network may break.

## 4. What is proved

Theorems hold for every value of the constants that satisfies the module's
ASSUME. The assumptions say what the code fixes by its types or validates when it
starts: bounds are naturals, capacities are positive, `None`-like values are outside
the sets they extend, an operator's command names a Memory that can exist, a contract
lists a verifier once (`internal/verification/contract.go:58`), a patch is made of the
operation types the code has, a routing file has finitely
many routes with numeric fields and `order` ranks identities by name, the modes of a
Tool loop and its limits are naturals. All theorems are about the specification as TLC runs it.

Each proof has the same shape. An inductive invariant is written as a conjunction of
named parts, TLC has checked it as an invariant of the component, one lemma per
action proves that the action preserves it, and the theorem combines the lemmas
with PTL. What follows says which strengthening each needs and why.

### ControlProofs

* **Lifecycle** (`TypeCorrect`, `ControlCorrect`, `WorkerOwnsRunCorrect`,
  `SegmentCorrect`, `SettlementCorrect`, `ProjectionCorrect`, `LifecycleCorrect`). `settleRun` tries three
  times and loses one attempt to every commit in between. The measure behind `Control` is that
  the attempts it has used, plus what the others can still move, never exceed three:
  `Rank` says how often a Stop or a repair can still move the row, `LoadRank` and `CommitRank`
  count it against the attempts used, and `Owner` that a worker's Run is active and its
  heartbeat is of this boot. The projection part adds `ActiveOpen` (an active row has
  an open segment in its stream), `PlanCurrent` (a plan of the recheck is about the stream it
  was read from, or the commit will refuse it) and `Streamed`.
* `FactsCorrect`: no commit removes or changes an event that is there.
* `RunStatusImplemented`: every step of `RunLifecycle` is a step of the abstract `RunStatus`
  or leaves its variables alone, under the refinement mapping that TLC checks.
* **Clarification** (`ClarificationCorrect`). What a Resume planned may be stale when it
  claims; what protects a write is `Questioned`: while the latest question is not applied
  nothing executes and every write is older than it. `Executed`, `Planned` and `Older` (a write
  carries the number of questions there were) support it.
* **Inputs** (`InputsCorrect`). One job holds the writer (`Holders`); a started follow-up is
  consumed for good and no older one still waits (`Started`); a message is a consumed
  receipt, once (`Sent`); before a Run is settled every steer applied to it has been in a
  request (`Shown`). First-come-first-served is about the oldest receipt that waits;
  `Smallest` finds it by `WFMin` on the naturals, the library's induction theorems being
  out of reach.
* **Verification** (`VerificationCorrect`). `Numbered` (attempts are consecutive and the
  one under way is the newest), `SingleResult` (one result of a verifier and one subject in an
  attempt), `Handled` (which verifiers of the attempt have reported), `CandidateBound` (what is
  about to be checked is the bound candidate), `Decided` (a completed Run was approved by the
  newest attempt's evidence about the candidate that is bound).

* **Checkpoints** (`RestoreCorrect`). A Stage's writes are batches that wait in `todo`.
  `CheckpointRows` (what a checkpoint's status says of its step, events and effects),
  `CompletionIsReal`, `WritesAccepted` (the Store accepts each write when its turn comes, whatever
  order the batches of other Stages take), `OneRunning`, `CompletedOnce`, `Phases` and
  `KnownSettled` (what validation saw is settled and stays so until the tail runs). A restore is
  a sequence of batches ranked by checkpoint; `RestoreOrder` shows that each rank is one Stage's,
  so the plan has every Stage to restore once.

### ToolCallProofs

* **Effects** (`HandlerAtMostOnceCorrect`, `EvidenceRetainedCorrect`, `CallbackExclusiveCorrect`,
  `EffectsOnceCorrect`, `JournalTruthCorrect`). `JInv` says what the record and each delivery may
  write next, and on what evidence (`Recorded`, `Delivered`). `Exclusive` says two
  callbacks never overlap. For the journal's truth, `Worked` is what the row knows of the world
  until an operator's word is taken, `Settled` what a committed, compensated or
  claimed row says of it, `Meant` that what a request at the row's version will
  write is true when it writes it, `Backing` that only a claimed row is written by a callback's
  request. The number of calls, deliveries and commands is arbitrary.
* `JournalImplemented`: `ToolEffect` implements the abstract `EffectJournal`.
* **Sandbox** (`SandboxCorrect`). `SandboxInv` is `Tracked` (each VM has a record or its create
  was cut off, and a working call has a record) and `Phased` (only a process that is up has calls,
  and Close gives back the lock early only when it holds every slot). A create that was cut
  off may leave a VM nobody owns (section 5); the theorem says that no other VM is lost.
* **MCP** (`ConnectionsCorrect`). For the row, `Fit` (a discovery is of its own
  configuration) and `Current` (a Test whose revision still stands read what the row still
  says); for a call `Open`, `Bound`, `Permitted` (a call that is authorized, or would be, noted a row
  that authorizes it) and `Honest` (what is dispatched is the frozen definition).
* **Authority** (`AuthorityCorrect`). `Counted` (the execution Run is counted once)
  and the lemma that a Tool which the rules grant is not also denied by them.
* **Tool loop** (`ToolLoopCorrect`). `Protected` (what was read protects the rest of the
  batch, of the Turn and of the Run), `SearchesSaved` (searches that ran are those of the
  newest discovery event), and for identities a numbering argument: `Identified` (an identity lies
  within the counters of its round), `WritesNumbered` (a writer's slot counts the writes
  that ran and those that wait) and `JournalNumbered`. That is why one identity means one
  write across rounds, retries and suspensions.

### CapacityProofs

* **Admission** (`AdmissionTypeCorrect`, `OneWriterCorrect`, `WritersTrackedCorrect`,
  `DrainIsFinalCorrect`, `AdmissionCorrect`). `Writing` (who waits for or holds a token
  does so on the map's current entry, and references are exactly those who do),
  `Draining` (a reservation is counted until it has left; after the wait nobody is),
  `Channels`.
* **Limiter** (`LimiterCorrect`). `Accounts` (every channel's and counter's value is the
  number of attempts that hold it), `Unreleased`, `Limited` and `Metered` (what was consumed
  since the last refill is what a bucket lacks).
* **Workspaces** (`WorkspacesCorrect`). `Alone` (who holds which row lock), `Decided` (what a
  session has checked still holds), `Admitted` (a write that passed the trigger keeps its
  Workspace active) and `Kept`.
* **Routing** (`RoutingCorrect`). `DecidedOnce`, `Serving` (a Turn's route meets its
  needs in a process that has the credential) and `SentFrozen`. The choice of a
  route is a CHOOSE of a first element; `BestRoute` proves that a finite set of comparable routes
  has one, by a least counterexample.
* **Autonomous loop** (`IterationsCorrect`). `Recounted` (only completed Stages have
  output), `Underway` (the Stage in flight or suspended is the last one, and an open Act is the
  next of the newest iteration) and `Progressing` (which Stages of its iteration the loop has
  passed; its output counter covers exactly the completed ones and, at most twice, the questions,
  answers and notes). The counter is a fold over a set of Stages; `WrittenCounts` proves
  by a least counterexample that it is the number of Stages with output.
* **Budget** (`BudgetCorrect`). The ledger is a fold over the entries that count. `AmountOrder`
  shows by a least counterexample that the fold is a sum whatever order it takes, `CostIsCapped`
  that the saturated cost is that sum, capped, and `CountedMore` and `CountedSettled` what one
  more entry changes. Prices need `PriceOfAffordable` (what an allowance pays for costs no more
  than what was left).
  `LedgerInv` is `accounts`, `Reserved`, `CountedIn` and `Sequential`: while calls follow each
  other, the limits leave room for all that the call under way was let go with. What the provider
  reports is arbitrary, and so are calls, tools, limits, prices and attempts. That the cost limit
  is below the largest integer is the one assumption nothing validates: a
  Run limited to exactly that many microdollars could saturate its ledger at the limit.

### MemoryAndClientProofs

* **Headless client** (`ClientCorrect`). `Requested` (the request and the Run it may create),
  `Followed` (the step the client is at and what it may still do), `Read` (a completed report
  stays true of the Run).
* **Memory** (`MemoryCorrect`). `Audited` (one change per version after the first, the
  newest of which gives the row's text) and `WithdrawnCandidatesScrubbed`.
* **Event feed** (`FeedCorrect`). `Known` (only what is committed is known), `Behind` (what the
  subscriber was sent is where the client still finds it), `Buffered` and `Closed` (between the
  client's cursor and any frame nothing is missing).
* **Web chat** (`SessionCorrect`). `Displayed`, `Held`, `Loading`, `Stopping` and
  `Observing`: everything that may still arrive is of the conversation that is open, or has
  lost its lease. `Linked` ties a command of the page to the request the server admits, through
  the number of the action that made it, also when the page let go of the request before it arrived.
  `Credited` says that what the page believes of an admission is true and that a finished command
  that was not admitted has taken its drafts back. Runs are only added and keep their
  conversation, and an admission is for good (`Grows`).
* **Task State** (`TaskStateCorrect`). `RevisionsApply` (a revision is its patch applied to
  the state before it, which its author had seen), `ReadsAreVersions` (what a client or a call
  holds is the state of the version it names) and `CallsWriteOnce` (the revisions a call
  can have at each point of its journal). A patch is folded over its operations; `FoldExists`
  shows by a least counterexample that the fold has a state after every operation,
  `LeavesStep` that an operation has the last word on the entity it names, `PatchApplies`
  carries both over the whole patch.
* **Model call** (`ModelCallCorrect`). `Seen` (what the consumer saw is of the attempt in flight,
  which it bars from a retry), `Drafted` (the draft is the text received until a Tool call
  is seen, and empty from then on), `Confirmed`, `AttemptsClosed`, `RecordsTruthful` (only the
  write that failed left a record without its event, and it ended the call) and
  `ReservationHeld` (which attempt settles). `AttemptEnded` is what the end of any attempt
  leaves, `EndKeeps` its deferred functions, `DraftAppended` and `ShownNotes` what an event does
  to the draft. Kinds, payloads, capture modes, events, retries and sizes are arbitrary; an
  event carries at most one piece of text, which is what a piece is.

### What is only model-checked, and why

* The four liveness properties (`RunsSettle`, `CallsComeToAnEnd`, `WaitsEnd`, `ShownInTheEnd`):
  liveness under fairness and ENABLED are beyond the prover.
* Properties of what a recursive definition computes, for every input: the flushed output (`OutputSafe`), the diagnostic scan
  (`DiagnosticsCleanButStoppedRecovery`, `TraceSafe`) and the guard's count of a repetition
  (`ProgressIsForced`) are folds or filters over sequences. `SelectSeq` has no definition
  the prover can open and the library's induction theorems take an operator; where a fold is
  proved about (a patch, the loop's output, the budget), the induction is written out for that fold.
* Sequences built by CHOOSE from sets (`SelectionSafe`, `AssemblySafe`, `ReadsAreTruthful`):
  facts about them need the same induction.
* `CompactionSafe`, `SkillsSafe`, `HistorySafe`, `IndexSafe` and `CitationsAreReal` have no
  theorem yet; parts of them rest on filters of sequences, the rest is within reach.
* Reaching a bug is not proved either: that the mutants break the properties and that the
  disagreements below exist is shown by TLC's counterexamples.

## 5. Disagreements between the code and what is said of it

Two are runs, with the counterexample TLC finds:

* `lifecycle_stranded`, `StopAlwaysSettles`: the resume of an answered clarification that loses
  its transition to a Stop is treated as a failure that need not be settled, because the Run is
  `canceling` and was never `running` (`app/runcommands/clarification.go:83`); nobody settles
  it until the next restart. `src/docs/runtime/durable-recovery.md:21-23`: "If Stop wins,
  successful completion or acknowledged cancellation settles `canceling` as `canceled`."
* `event_stream_compaction`, `ObserverLearnsTheEnd`: `CommitContextCompaction` appends an event in
  its own transaction and `internal/contextcompaction/compact.go:205` drops it, so the hub has a
  gap and a connected subscriber waits behind it. `app/observable_clarifications.go:10`: "All
  committed sequence slots must reach the Hub, including atomic Store operations that do not
  pass through CreateRunEvent".

A third is part of a passing run: stopping a recoverable Run appends `run.canceled` after
`run.failed` (`internal/agent/run_lifecycle.go:122`), and the program's diagnostic then reports
`run_terminal_duplicate`. `DiagnosticsCleanButStoppedRecovery` says the diagnostic is clean for
every other stream. (Without the exception a committed Stop may leave a stream that
`CheckRuntimeInvariants` rejects, which the lifecycle test forbids.)

The other definitions below are stated in their modules, each with the sentence of the
documentation it formalises; the behaviour described is what the module, and so the code,
does. They are in no run.

| Definition | Where | What the code does |
|---|---|---|
| `AttemptSurfaces` with a failing journal (`ToolEffect`) | `internal/tool/executor_effects.go:81` | the error of marking an effect uncertain is dropped; the effect stays executing and can be neither reconciled nor repaired once its Run has settled |
| `StoreOutlivesWork` (`RunAdmission`) | `app/runcommands/start.go:124` | the read for a queued follow-up happens after the reservation is released, so the Store may be closed under it |
| `UnhealthyAdmitsNothing` (`SandboxRunner`) | `internal/sandbox/runner.go:155` | health is read before the slot is taken and not again |
| `VmsAreOwned` without `cutOff` (`SandboxRunner`) | `internal/sandbox/cli.go:47` | a create that is cut off is killed without its children and without the daemon's work; the VM it still makes after its name was looked for has no record, and nobody removes it |
| `FinishedStageIsReused` (`Clarification`) | `internal/store/postgres_clarifications.go:228` | a claim is refused for newer effects even when the Stage is complete |
| `FollowupNotStranded` (`DurableInput`) | `app/runcommands/start.go:123` | a dispatch whose receipt is withdrawn while it waits does not dispatch the next |
| `ReusedStageIsCommitted`, `ResumeOfferIsHonoured`, `RefusalKeepsRecoverable` (`StageCheckpoint`) | `internal/agent/orchestrator_stages.go:19`, `internal/checkpoint/provider.go:297`, `internal/agent/orchestrator_recovery.go:80` | a compensated Stage is reused by its step row; a settled failed effect blocks every Resume that is offered; a late refusal settles the Run as failed |
| `FreshEvidenceExists` (`VerificationGate`) | `internal/verification/invariant.go:36` | a verification blocked before its first evidence is reported as an invariant failure |
| `EveryLowYieldPairSuspends` (`ContextCompaction`) | `internal/contextcompaction/policy.go:48` | an expired cooldown is read again and resets the count |
| `ResetSurvivesRestart`, `EndlessRepetitionHalts` (`ProgressGuard`) | `internal/agent/tool_progress.go:48`, `internal/tool/progress/guard.go:62` | a reset is in memory only; with `BlockAfter` above the history's length plus one nothing halts |
| `TestingNeverGrants` (`McpConnections`) | `internal/mcpconnection/connections.go:264` | a Test makes a changed remote definition callable without a Save |
| `LoadedConfigIsTheFile` (`ToolAuthority`) | `internal/tool/manager.go:111` | the modification time is taken after the read |
| `AcceptedFactsAreAccounted` (`MemorySync`) | `internal/memory/provider_sync.go:126` | a retried insert whose first try committed is taken for a duplicate |
| `ToolRoundShowsNoAnswer` (`ModelStream`) | `internal/inference/openai/stream_transport.go:174` | text of a Tool round may become the durable display copy |
| `AnswerIsObserved`, `FinalOnce` (`AutonomousLoop`) | `internal/agent/autonomous.go:280`, `internal/agent/autonomous_recovery.go:80` | an answer to the last iteration's question is not observed; a committed final Stage is run again |
| `WorkerMeetsRequirements`, `WorkerHasSelectionEvent` (`WorkerSelection`) | `internal/agent/orchestrator_recovery.go:67`, `internal/agent/orchestrator.go:282` | recovery does not apply the approved requirements; a crash may separate the step from its event |
| `CitationNamesWhatItShows` (`KnowledgeSearch`) | `internal/rag/context_transformation_merge.go:20` | Chunks of two versions may be merged under one citation |
| `MarkersNameOneSource` (`WebSources`) | `internal/agent/toolloop/loop.go:283` | a truncated result keeps its own numbering |
| `staleUpdateConflicts` with `SameMicrosecond` (`DocumentIndex`) | `internal/store/document_index.go:78` | a rebuild may carry the token of the revision it replaces |
| `HardLimitsApply` (`ConversationHistory`) | `internal/sessionhistory/search.go:294` | the truncation marker itself exceeds a small remainder |
| `InterruptedRunsAreRepairable`, `StoppedRunsAreClosed`, `ActiveModelsAreCalling` (`ExecutionTrace`) | `internal/event/recorder.go:79`, `internal/inference/openai/chat_calls.go:137`, `internal/projection/run.go:194` | a model end without a start, a start without an end, and a projection that never removes a call |
| `ActiveRunsAreQuiet` (`RunReplay`) | `internal/projection/recovery.go:74` | a running Run whose verification failed once gets a recovery summary |

Two more are visible in the code and have no definition, because they are about one read and
one write of a single function: a title the user gave while the model was writing one is lost
(`app/runcompletion/titles.go:40`), and a planner that loses to a Stop settles
the Run as failed (`internal/agent/orchestrator.go:167`).

Two are margins of the properties. The ledger takes what the provider reports
(`internal/budget/budget.go:160`, `src/docs/runtime/run-budget.md:160`), so a call may settle
above what it reserved, by any amount in tokens, and in cost alone by the microdollar that
rounding cached and uncached input each for itself adds (`internal/budget/pricing.go:62`).
`SequentialWithinBudget` allows the overrun of the last call and no more (`beyond`), and `overrunStopsWork`
says that nothing is admitted after it. And the repair of an interrupted Run appends its events in its own
transaction (`internal/store/postgres_recovery.go:14`) and `internal/recovery/recovery.go:68` does
not publish them, as with compaction: an observer that was connected when the recheck repairs its
Run waits behind the end. `ObserverLearnsTheEnd` excepts exactly that (`behindRepair`), as
`StopIsShown` does for the page (`unfollowed`). A page also gives up after four attempts
(`src/apps/web/lib/run-stream.ts:64`) and observes again only when what it shows changes, and
`startNewConversation` (`src/apps/web/components/ChatShell.tsx:202`) ends the observation of the page that stays open when the
creation fails; there too nothing is promised.

## 6. What is left out

* Store failures are modelled where the code has a path of its own for them: the effect
  journal, checkpoints, verification, memory and capture writes. Elsewhere a failing write is a
  failing command.
* Content: prompts, answers, file contents, embeddings and scores are members of small
  sets; what the code decides on (equality, presence, length against a limit) is kept.
* The repair of a Run's row and of its effects is one transaction in the code and is split
  between `RunLifecycle` and `ToolEffect`; neither relies on the other half having happened.
* Time is a choice: a deadline or cooldown may or may not have passed.
* Components not modelled are listed in section 1 and, with the reason, in `PROJECT.json`.
* A crash loses the answers of a guard's batch that were not recorded, and a batch answered out
  of order is read back in call order, so that a restored guard may forget a pattern:
  `ProgressIsForced` allows for both (`unrecorded`, `forgotten`).
* Compaction's `concurrent_commit` outcome (`internal/contextcompaction/compact.go:209`), which reads
  the summary another process has committed, and the status `blocked` of a verification in
  `RunReplay`, which is read like `failed`.
* In the chat view: deletion of the open conversation, view switches, the inbox of Runs, the first message of
  a page without a conversation and the loading of a clarification before it may be
  answered.

## 7. What a continuation would prove

In this order: `IndexSafe` and `HistorySafe` (their parts that do not rest on filters),
`SkillsSafe` and `CompactionSafe`.
