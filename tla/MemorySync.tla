------------------------------ MODULE MemorySync ------------------------------
(***************************************************************************)
(* The Memory provider of one Workspace: a bounded queue of user turns, one  *)
(* background worker that extracts, judges and commits a fact per turn, the  *)
(* explicit commits and versioned mutations of users, Close, and restarts.   *)
(* A Memory is written by the worker under its message's name or by a user.  *)
(***************************************************************************)
EXTENDS Naturals, Sequences, FiniteSets

CONSTANTS Messages,     \* user messages, each delivered by SyncMemoryTurn
          Draft,        \* per message: what its text is: "fact", "secret", "adaptive", "noop"
          AdaptiveMode, \* "off", "shadow", "auto"
          Explicit,     \* Memories saved through POST /api/memories: ID -> its source message
          Commands,     \* mutation commands: [op, mem, action, version]
          QueueSize, MaxAttempts,
          AckLoss,      \* a transaction may commit and still return an error
          MaxCrashes    \* bounds the exploration

ASSUME MemoryAssumption == \A c \in Commands : c.mem \in Messages \cup DOMAIN Explicit

Memories == Messages \cup DOMAIN Explicit  \* mem_curated_<candidate> and explicit IDs
source(id) == IF id \in Messages THEN id ELSE Explicit[id]
None == "none"
NoMemory == [version |-> 0, live |-> FALSE, text |-> ""]

VARIABLES state,      \* created, running, closing, closed
          canceled,   \* the provider's context
          jobs, inflight,
          job,        \* the worker: [pc, msg, attempt]
          candidates, \* memory_candidates: per message none, accepted, rejected, withdrawn
          memories,   \* rows of memories: NoMemory or [version, live, text]
          changes,    \* memory_changes: the applied commands
          editing,    \* per command: idle, embedding, or writing
          events,     \* per message: the types of its Run Events
          crashes
store == <<candidates, memories, changes>>
queue == <<state, canceled, jobs, inflight>>
memoryVars == <<queue, job, store, editing, events, crashes>>

Idle == [pc |-> "idle", msg |-> None, attempt |-> 1]
MemoryInit ==
  /\ state = "created" /\ canceled = FALSE /\ jobs = <<>> /\ inflight = {} /\ job = Idle
  /\ candidates = [m \in Messages |-> None] /\ memories = [id \in Memories |-> NoMemory]
  /\ changes = {} /\ editing = [c \in Commands |-> "idle"]
  /\ events = [m \in Messages |-> {}] /\ crashes = 0

publish(m, types) == events' = [events EXCEPT ![m] = @ \cup types]
goto(pc) == job' = [job EXCEPT !.pc = pc, !.attempt = 1]

----------------------------------------------------------------------------
\* The lifecycle and the queue.
Initialize ==
  /\ state = "created" /\ state' = "running"
  /\ UNCHANGED <<canceled, jobs, inflight, job, store, editing, events, crashes>>

\* A duplicate in flight is dropped; a full queue is refused with an event.
SyncTurn(m) ==
  /\ state = "running" /\ m \notin inflight
  /\ IF Len(jobs) < QueueSize
     THEN jobs' = Append(jobs, m) /\ inflight' = inflight \cup {m} /\ UNCHANGED events
     ELSE publish(m, {"sync_rejected"}) /\ UNCHANGED <<jobs, inflight>>
  /\ UNCHANGED <<state, canceled, job, store, editing, crashes>>

Close ==
  /\ \/ state = "created" /\ state' = "closed" /\ canceled' = TRUE
     \/ state = "running" /\ state' = "closing" /\ UNCHANGED canceled
  /\ UNCHANGED <<jobs, inflight, job, store, editing, events, crashes>>
\* The deadline of a waiting Close cancels the work in progress.
CloseTimeout ==
  /\ state = "closing" /\ canceled' = TRUE
  /\ UNCHANGED <<state, jobs, inflight, job, store, editing, events, crashes>>

\* runSyncWorker receives from the channel until it is closed and empty.
Receive ==
  /\ state \in {"running", "closing"} /\ job.pc = "idle" /\ jobs # <<>>
  /\ job' = [pc |-> "extract", msg |-> Head(jobs), attempt |-> 1] /\ jobs' = Tail(jobs)
  /\ UNCHANGED <<state, canceled, inflight, store, editing, events, crashes>>
Settle ==
  /\ job.pc = "settle" /\ inflight' = inflight \ {job.msg} /\ job' = Idle
  /\ UNCHANGED <<state, canceled, jobs, store, editing, events, crashes>>
WorkerExit ==
  /\ state = "closing" /\ job.pc = "idle" /\ jobs = <<>>
  /\ state' = "closed" /\ canceled' = TRUE
  /\ UNCHANGED <<jobs, inflight, job, store, editing, events, crashes>>

----------------------------------------------------------------------------
\* The extractors and the policy: whether a proposal exists and is accepted.
Extract(m) == Draft[m] \in {"fact", "secret"} \/ (Draft[m] = "adaptive" /\ AdaptiveMode # "off")
Evaluate(m) == Draft[m] = "fact" \/ (Draft[m] = "adaptive" /\ AdaptiveMode = "auto")

\* propose up to its store call.  Only the adaptive extractor asks a model, which may fail.
Propose ==
  /\ job.pc = "extract"
  /\ \/ ~Extract(job.msg) /\ goto("settle") /\ UNCHANGED events
     \/ Extract(job.msg) /\ (Draft[job.msg] = "adaptive" => ~canceled) /\ goto("candidate") /\ UNCHANGED events
     \/ Extract(job.msg) /\ Draft[job.msg] = "adaptive" /\ goto("settle") /\ publish(job.msg, {"candidate_failed"})
  /\ UNCHANGED <<queue, store, editing, crashes>>

\* The fence: a mutation of any Memory of the message withdraws the message.
withdrawn(m) == \E c \in changes : source(c.mem) = m
\* CreateMemoryCandidate's row: suppressed when the message is withdrawn.
verdict(m) == IF withdrawn(m) THEN "withdrawn" ELSE IF Evaluate(m) THEN "accepted" ELSE "rejected"

\* retryStore after an error: again, or give up with the event of the failure.
retryStore(failed) ==
  IF job.attempt < MaxAttempts /\ ~canceled
  THEN job' = [job EXCEPT !.attempt = @ + 1] /\ UNCHANGED events
  ELSE goto("settle") /\ publish(job.msg, {failed})

\* CreateMemoryCandidate and the rest of propose: an existing row is a duplicate, which is
\* answered and never committed.
CreateMemoryCandidate ==
  LET m == job.msg  created == candidates[m] = None  v == verdict(m) IN
  /\ job.pc = "candidate"
  /\ \/ retryStore("candidate_failed") /\ UNCHANGED candidates
     \/ AckLoss /\ created /\ candidates' = [candidates EXCEPT ![m] = v] /\ retryStore("candidate_failed")
     \/ ~created /\ goto("settle") /\ UNCHANGED <<candidates, events>>
     \/ /\ created /\ candidates' = [candidates EXCEPT ![m] = v]
        /\ IF v = "accepted"
           THEN goto("embed") /\ publish(m, {"proposed", "accepted", "sync_requested"})
           ELSE goto("settle") /\ publish(m, {"proposed", "rejected"})
  /\ UNCHANGED <<queue, memories, changes, editing, crashes>>

\* commitCandidate: embed once, then CreateMemory under mem_curated_<candidate>.
Embed ==
  /\ job.pc = "embed"
  /\ \/ ~canceled /\ goto("memory") /\ UNCHANGED events
     \/ goto("settle") /\ publish(job.msg, {"sync_failed"})
  /\ UNCHANGED <<queue, store, editing, crashes>>

NewMemory == [version |-> 1, live |-> TRUE, text |-> "original"]
\* Mutant: CreateMemory checks the row and not the fence.
conflictsRowOnly(id) == memories[id] # NoMemory /\ memories[id] # NewMemory
\* CreateMemory is insert-only: a withdrawn source conflicts, and so does a row that is not
\* (SameMemoryCreate) the one being created.
conflicts(id) == withdrawn(source(id)) \/ (memories[id] # NoMemory /\ memories[id] # NewMemory)
insert(id) == memories' = [memories EXCEPT ![id] = NewMemory]

CreateMemory ==
  LET m == job.msg IN
  /\ job.pc = "memory"
  /\ \/ retryStore("sync_failed") /\ UNCHANGED memories
     \/ AckLoss /\ ~conflicts(m) /\ insert(m) /\ retryStore("sync_failed")
     \/ conflicts(m) /\ goto("settle") /\ publish(m, {"sync_failed"}) /\ UNCHANGED memories
     \/ ~conflicts(m) /\ insert(m) /\ goto("settle") /\ publish(m, {"sync_completed"})
  /\ UNCHANGED <<queue, candidates, changes, editing, crashes>>

----------------------------------------------------------------------------
\* POST /api/memories: Commit of an authorized source.  Embedding precedes the transaction
\* and takes no lock, so only the transaction is a step.
Commit(id) ==
  /\ state = "running" /\ ~conflicts(id) /\ insert(id)
  /\ UNCHANGED <<queue, job, candidates, changes, editing, events, crashes>>

\* MutateMemory: a committed or deleting command goes to the store at once; a replacement
\* first reads the row and embeds its text.
BeginMutation(c) ==
  /\ state = "running" /\ editing[c] = "idle"
  /\ IF (\E d \in changes : d.op = c.op) \/ c.action = "delete"
     THEN editing' = [editing EXCEPT ![c] = "writing"]
     ELSE /\ memories[c.mem] # NoMemory /\ memories[c.mem].version = c.version /\ memories[c.mem].live
          /\ editing' = [editing EXCEPT ![c] = "embedding"]
  /\ UNCHANGED <<queue, job, store, events, crashes>>
EmbedMutation(c) ==
  /\ editing[c] = "embedding"
  /\ \E next \in {"writing", "idle"} : editing' = [editing EXCEPT ![c] = next]
  /\ UNCHANGED <<queue, job, store, events, crashes>>

\* The transaction's checks: the row exists, the operation ID is new, and the expected version
\* is the current one.  A repeated operation ID answers the old change or conflicts.
applies(c) ==
  /\ memories[c.mem] # NoMemory /\ ~\E d \in changes : d.op = c.op
  /\ memories[c.mem].version = c.version /\ memories[c.mem].live
PrepareMemoryMutation(c) ==
  [version |-> memories[c.mem].version + 1, live |-> c.action # "delete",
   text |-> IF c.action = "delete" THEN "" ELSE c.op]
MutateMemory(c) ==
  /\ editing[c] = "writing" /\ editing' = [editing EXCEPT ![c] = "idle"]
  /\ \/ /\ applies(c)
        /\ memories' = [memories EXCEPT ![c.mem] = PrepareMemoryMutation(c)]
        /\ candidates' = [candidates EXCEPT ![source(c.mem)] = IF @ = None THEN @ ELSE "withdrawn"]
        /\ changes' = changes \cup {c}
     \/ UNCHANGED store   \* a refusal, an old change or a rolled-back transaction
  /\ UNCHANGED <<queue, job, events, crashes>>

\* SearchMemories and Recall: the rows that are not deleted.
SearchMemories == {id \in Memories : memories[id] # NoMemory /\ memories[id].live}

\* The process dies and the provider is built again; a commit in progress may have happened.
Crash ==
  /\ crashes < MaxCrashes /\ crashes' = crashes + 1 /\ state # "closed"
  /\ state' = "created" /\ canceled' = FALSE /\ jobs' = <<>> /\ inflight' = {} /\ job' = Idle
  /\ editing' = [c \in Commands |-> "idle"] /\ UNCHANGED <<store, events>>

Work == Receive \/ Propose \/ CreateMemoryCandidate \/ Embed \/ CreateMemory \/ Settle \/ WorkerExit
MemoryNext ==
  \/ Initialize \/ Close \/ CloseTimeout \/ Work \/ Crash
  \/ \E m \in Messages : SyncTurn(m)
  \/ \E id \in DOMAIN Explicit : Commit(id)
  \/ \E c \in Commands : BeginMutation(c) \/ EmbedMutation(c) \/ MutateMemory(c)

MemorySpec == MemoryInit /\ [][MemoryNext]_memoryVars

-----------------------------------------------------------------------------
(* Properties *)

\* Once a message is withdrawn no Memory of it is created, not by a worker that already holds
\* the accepted Candidate, not after a restart, and not under another ID ("new
\* materializations from that source in the same Workspace are rejected").
withdrawnNeverReturns ==
  \A id \in Memories : memories[id] = NoMemory /\ memories'[id] # NoMemory => ~withdrawn(source(id))

\* A Memory is its audited history: its version counts its changes, one per earlier version,
\* and its text is the newest change's, whoever raced through the embedding.
TextIsNewestAuditedChange ==
  \A id \in Memories : LET cs == {c \in changes : c.mem = id} IN
    IF memories[id] = NoMemory THEN cs = {}
    ELSE /\ Cardinality(cs) = memories[id].version - 1
         /\ {c.version : c \in cs} = 1..(memories[id].version - 1)
         /\ \A c \in cs : c.version = memories[id].version - 1 =>
              memories[id].live = (c.action # "delete") /\ (memories[id].live => memories[id].text = c.op)

\* The Candidate of a withdrawn message is scrubbed, also one proposed after the withdrawal.
WithdrawnCandidatesScrubbed == \A m \in Messages : withdrawn(m) => candidates[m] \in {None, "withdrawn"}

\* When the worker has left a turn, an accepted Candidate has its Memory or the event of the
\* failure ("Extraction, embedding, queue, Candidate, or Memory failures are observable").
AcceptedFactsAreAccounted ==
  \A m \in Messages : candidates[m] = "accepted" /\ job.msg # m =>
    memories[m] # NoMemory \/ "sync_failed" \in events[m]

\* Every Memory is explained by the turns, corrections and withdrawals that made it, through
\* lost acknowledgements and restarts: the first three parts above.
MemorySafe ==
  /\ [](TextIsNewestAuditedChange /\ WithdrawnCandidatesScrubbed)
  /\ [][withdrawnNeverReturns]_memoryVars
=============================================================================
