----------------------- MODULE MemoryAndClientProofs -----------------------
(***************************************************************************)
(* Proofs about four readers of the record: the headless client, which       *)
(* reports the outcome of a Run it may have lost sight of (HeadlessClient),  *)
(* the Memory provider, which must forget what the user withdraws            *)
(* (MemorySync), the observer of a Run's events (EventStream) and the chat   *)
(* view of the web application (RunSession); about a record itself, the      *)
(* Task State of a Conversation (TaskState); and about one model call, whose *)
(* consumer reads a stream that may fail and be retried (ModelStream).       *)
(***************************************************************************)
EXTENDS HeadlessClient, MemorySync, EventStream, RunSession, TaskState, ModelStream, FiniteSetTheorems, SequenceTheorems, WellFoundedInduction, TLAPS

----------------------------------------------------------------------------
(* The headless client.  Three processes move: the client, the server and   *)
(* the Run.  Requested says what the server can still do for a request the  *)
(* client has not heard of, Followed what the client knows at each step,    *)
(* Read that a completed report stays true of the Run.                      *)

before == {"begin", "submit"}
following == {"observe", "result", "save", "exit"}

RunView ==
  [status : statuses \cup {"none"}, verification : {"none", "pending", "passed", "failed", "blocked", "not_required"},
   value : BOOLEAN]

\* The request and the Run it may create.
Requested ==
  /\ run \in RunView /\ (run.status = "none" => run = NoRun)
  /\ stream = "run" \/ known => run.status # "none"
  /\ command = "start" /\ request \in {"none", "queued", "refused"} => run = NoRun
  /\ at \in before => request = "none"
  /\ command # "start" => request = "none" /\ known
  /\ command = "start" /\ at \in following => known

\* The step the client is at, and what it may still do.
Followed ==
  /\ at \in before \cup following \cup {"submitted", "cancel", "end"}
  /\ command \in {"start", "observe", "result", "cancel"}
  /\ exit # Running => at = "end"
  /\ at = "submit" => command = "start"
  /\ at = "cancel" => command = "cancel"
  /\ at = "submitted" => command = "start"
  /\ options.exists => at \in {"begin", "end"} /\ file # "complete"
  /\ at \in {"save", "exit"} => report.status # "none"
  /\ at = "exit" /\ options.output => file = "complete"

\* The report and the evidence file.
Read ==
  /\ report.status = "completed" => run = report
  /\ file \in {"absent", "foreign", "complete"}
  /\ file = "complete" => report.status # "none"

ClientInv == Requested /\ Followed /\ Read /\ OnlyUnknownMayHaveRun /\ ZeroIsVerifiedSuccess

\* The server and the Run move, whatever the client does.
LEMMA ServerKeeps ==
  ASSUME ClientInv,
         \/ \E class \in {"auth", "overload", "invalid", "unavailable"} : Refuse(class)
         \/ StreamConversation \/ CreateRun \/ StreamRun \/ PreparationFails \/ Lose
  PROVE  ClientInv'
<1> USE DEF ClientInv, Requested, Followed, Read, OnlyUnknownMayHaveRun, ZeroIsVerifiedSuccess, before, following,
            NoRun, Running
<1>1. ASSUME NEW class, Refuse(class) PROVE ClientInv'
  BY <1>1 DEF Refuse
<1>2. CASE StreamConversation
  BY <1>2 DEF StreamConversation
<1>3. CASE CreateRun
  <2>1. run' \in RunView /\ run'.status = "running"
    BY <1>3 DEF CreateRun, RunView, statuses
  <2> QED
    BY <1>3, <2>1 DEF CreateRun
<1>4. CASE StreamRun
  BY <1>4 DEF StreamRun
<1>5. CASE PreparationFails
  BY <1>5 DEF PreparationFails
<1>6. CASE Lose
  BY <1>6 DEF Lose
<1> QED
  BY <1>1, <1>2, <1>3, <1>4, <1>5, <1>6

LEMMA AdvanceKeeps == ASSUME ClientInv, Advance PROVE ClientInv'
<1>1. PICK s \in statuses, v \in {"pending", "passed", "failed", "blocked", "not_required"}, value \in BOOLEAN :
        run' = [status |-> s, verification |-> v, value |-> value]
  BY DEF Advance
<1>2. /\ run # NoRun /\ run.status \notin {"completed", "canceled"} /\ run'.status # "none" /\ run' \in RunView
      /\ UNCHANGED <<command, options, request, refusal, stream, known, at, report, file, exit>>
  BY <1>1 DEF Advance, statuses, RunView
<1>3. report.status # "completed"
  BY <1>2 DEF ClientInv, Read
<1>4. Requested'
  BY <1>2 DEF ClientInv, Requested
<1>5. Followed' /\ Read'
  BY <1>2, <1>3 DEF ClientInv, Followed, Read
<1>6. OnlyUnknownMayHaveRun'
  BY <1>2 DEF ClientInv, OnlyUnknownMayHaveRun
<1>7. ZeroIsVerifiedSuccess'
  BY <1>2 DEF ClientInv, ZeroIsVerifiedSuccess
<1> QED
  BY <1>4, <1>5, <1>6, <1>7 DEF ClientInv

\* The client's own steps.
LEMMA ClientKeeps ==
  ASSUME ClientInv,
         \/ Begin \/ Interrupted \/ Submit \/ Acknowledge \/ StartFails \/ Observe \/ Result
         \/ saveReport \/ ForeignFile \/ Exit \/ Cancel
  PROVE  ClientInv'
<1> USE DEF ClientInv, Requested, Followed, Read, OnlyUnknownMayHaveRun, ZeroIsVerifiedSuccess, before, following,
            Running, ends, server
<1>1. CASE Begin
  BY <1>1 DEF Begin
<1>2. CASE Interrupted
  BY <1>2 DEF Interrupted
<1>3. CASE Submit
  BY <1>3 DEF Submit
<1>4. CASE Acknowledge
  BY <1>4 DEF Acknowledge
<1>5. CASE StartFails
  BY <1>5 DEF StartFails, definite, exitCode, submissionUnknown
<1>6. CASE Observe
  BY <1>6 DEF Observe
<1>7. CASE Result
  BY <1>7 DEF Result
<1>8. CASE saveReport
  BY <1>8 DEF saveReport, removedOnFailure
<1>9. CASE ForeignFile
  BY <1>9 DEF ForeignFile
<1>10. CASE Exit
  BY <1>10 DEF Exit, resultExit
<1>11. CASE Cancel
  <2>1. /\ at = "cancel" /\ command = "cancel" /\ at' = "end"
        /\ UNCHANGED <<command, options, request, refusal, stream, known, report, file, steps>>
    BY <1>11 DEF Cancel
  <2>2. CASE UNCHANGED run
    BY <2>1, <2>2
  <2>3. CASE run.status \notin {"completed", "canceled"} /\ run' = [run EXCEPT !.status = "canceled"]
    <3>1. run' \in RunView /\ run'.status = "canceled"
      BY <2>3 DEF RunView, statuses
    <3> QED
      BY <2>1, <2>3, <3>1
  <2> QED
    BY <1>11, <2>2, <2>3 DEF Cancel
<1> QED
  BY <1>1, <1>2, <1>3, <1>4, <1>5, <1>6, <1>7, <1>8, <1>9, <1>10, <1>11

\* A script may trust the exit code and the evidence file, whatever the server, the
\* connection, the Run and another program do in between: only exit 7 leaves a Run
\* that may exist unnamed, exit 0 is a verified success now, and the file is the whole
\* report or somebody else's (Execute, Start, saveReport, resultExit).
THEOREM ClientCorrect == ClientSpec => []ClientSafe
<1>1. ClientInit => ClientInv
  <2> SUFFICES ASSUME ClientInit PROVE ClientInv
    OBVIOUS
  <2>1. known <=> command # "start"
    BY DEF ClientInit
  <2>2. /\ run \in RunView /\ (command = "start" => run = NoRun) /\ (command # "start" => run.status = "running")
        /\ (run.status = "none" => run = NoRun)
    BY DEF ClientInit, RunView, NoRun, statuses
  <2>3. /\ command \in {"start", "observe", "result", "cancel"} /\ request = "none" /\ stream = "nothing"
        /\ at = "begin" /\ report.status = "none" /\ exit = Running /\ file \in {"absent", "foreign"}
    BY DEF ClientInit, NoRun
  <2>4. Requested
    BY <2>1, <2>2, <2>3 DEF Requested, before, following
  <2>5. Followed /\ Read
    BY <2>3 DEF Followed, Read, before
  <2> QED
    BY <2>3, <2>4, <2>5 DEF ClientInv, OnlyUnknownMayHaveRun, ZeroIsVerifiedSuccess, Running
<1>2. ClientInv /\ [ClientNext]_clientVars => ClientInv'
  <2> SUFFICES ASSUME ClientInv, [ClientNext]_clientVars PROVE ClientInv'
    OBVIOUS
  <2>1. CASE UNCHANGED clientVars
    BY <2>1 DEF clientVars, ClientInv, Requested, Followed, Read, OnlyUnknownMayHaveRun, ZeroIsVerifiedSuccess
  <2> QED
    BY <2>1, ServerKeeps, AdvanceKeeps, ClientKeeps DEF ClientNext
<1>3. ClientInv => ClientSafe
  BY DEF ClientInv, ClientSafe, EvidenceIsWholeOrForeign, Read, Followed, NoRun
<1> QED
  BY <1>1, <1>2, <1>3, PTL DEF ClientSpec

----------------------------------------------------------------------------
(* The Memory provider.  A version is one audited change (Audited), and the *)
(* fence of a withdrawn message is the audit itself, so every transaction   *)
(* that could bring the message back reads it (Scrubbed).                   *)

Text == {"original", ""} \cup {c.op : c \in Commands}
MemoryRow == {NoMemory} \cup [version : Nat \ {0}, live : BOOLEAN, text : Text]

MemoryTypes ==
  /\ memories \in [Memories -> MemoryRow]
  /\ candidates \in [Messages -> {None, "accepted", "rejected", "withdrawn"}]
  /\ changes \subseteq Commands /\ IsFiniteSet(changes)

changesOf(id) == {c \in changes : c.mem = id}

\* The audit of one Memory: one change per version after the first.
audited(id) ==
  IF memories[id] = NoMemory THEN changesOf(id) = {}
  ELSE /\ Cardinality(changesOf(id)) = memories[id].version - 1
       /\ {c.version : c \in changesOf(id)} = 1..(memories[id].version - 1)
       /\ \A c \in changesOf(id) : c.version = memories[id].version - 1 =>
            memories[id].live = (c.action # "delete") /\ (memories[id].live => memories[id].text = c.op)

Audited == \A id \in Memories : audited(id)

MemoryInv == MemoryTypes /\ Audited /\ WithdrawnCandidatesScrubbed

LEMMA RowFacts ==
  /\ NoMemory \in MemoryRow /\ NewMemory \in MemoryRow /\ NewMemory # NoMemory
  /\ NewMemory.version = 1 /\ NewMemory.live = TRUE /\ NewMemory.text = "original"
<1>1. NewMemory \in [version : Nat \ {0}, live : BOOLEAN, text : Text]
  BY DEF NewMemory, Text
<1>2. NewMemory.version = 1 /\ NewMemory.live = TRUE /\ NewMemory.text = "original" /\ NoMemory.version = 0
  BY DEF NewMemory, NoMemory
<1> QED
  BY <1>1, <1>2 DEF MemoryRow

\* A creation: the row was missing, or was this very creation.
LEMMA InsertKeeps ==
  ASSUME MemoryInv, NEW id \in Memories, ~conflicts(id), insert(id), UNCHANGED <<candidates, changes>>
  PROVE  MemoryInv'
<1>1. memories' = [memories EXCEPT ![id] = NewMemory] /\ (memories[id] = NoMemory \/ memories[id] = NewMemory)
  BY DEF insert, conflicts
<1>2. MemoryTypes'
  BY <1>1, RowFacts DEF MemoryInv, MemoryTypes
<1>3. \A i \in Memories : memories'[i] = IF i = id THEN NewMemory ELSE memories[i]
  BY <1>1 DEF MemoryInv, MemoryTypes
<1>4. ASSUME NEW i \in Memories PROVE audited(i)'
  <2>1. changesOf(i)' = changesOf(i) /\ audited(i)
    BY DEF changesOf, MemoryInv, Audited
  <2>2. CASE memories'[i] = memories[i]
    BY <2>1, <2>2 DEF audited
  <2>3. CASE i = id /\ memories[id] = NoMemory
    <3>1. changesOf(i)' = {} /\ memories'[i] = NewMemory
      BY <1>3, <2>1, <2>3 DEF audited
    <3>2. Cardinality({}) = 0 /\ {c.version : c \in {}} = {} /\ 1..0 = {}
      BY FS_EmptySet
    <3> QED
      BY <3>1, <3>2, RowFacts DEF audited
  <2> QED
    BY <1>1, <1>3, <2>2, <2>3
<1>5. WithdrawnCandidatesScrubbed'
  BY DEF MemoryInv, WithdrawnCandidatesScrubbed, withdrawn
<1> QED
  BY <1>2, <1>4, <1>5 DEF MemoryInv, Audited

\* A Candidate row: a withdrawn message gets a scrubbed one.
LEMMA CandidateKeeps ==
  ASSUME MemoryInv, NEW m \in Messages, candidates' = [candidates EXCEPT ![m] = verdict(m)], UNCHANGED <<memories, changes>>
  PROVE  MemoryInv'
<1>1. verdict(m) \in {None, "accepted", "rejected", "withdrawn"} /\ (withdrawn(m) => verdict(m) = "withdrawn")
  BY DEF verdict
<1>2. MemoryTypes' /\ \A k \in Messages : candidates'[k] = IF k = m THEN verdict(m) ELSE candidates[k]
  BY <1>1 DEF MemoryInv, MemoryTypes
<1>3. Audited'
  BY DEF MemoryInv, Audited, audited, changesOf
<1>4. WithdrawnCandidatesScrubbed'
  BY <1>1, <1>2 DEF MemoryInv, WithdrawnCandidatesScrubbed, withdrawn
<1> QED
  BY <1>2, <1>3, <1>4 DEF MemoryInv

\* A mutation: one version, one change, and the message withdrawn.
LEMMA MutationKeeps ==
  ASSUME MemoryInv, NEW c \in Commands, applies(c),
         memories' = [memories EXCEPT ![c.mem] = PrepareMemoryMutation(c)],
         candidates' = [candidates EXCEPT ![source(c.mem)] = IF @ = None THEN @ ELSE "withdrawn"],
         changes' = changes \cup {c}
  PROVE  MemoryInv'
<1> DEFINE v == memories[c.mem].version
           new == PrepareMemoryMutation(c)
<1>1. c.mem \in Memories /\ v \in Nat \ {0} /\ c \notin changes /\ c.version = v /\ memories[c.mem] # NoMemory
  BY MemoryAssumption DEF Memories, applies, MemoryInv, MemoryTypes, MemoryRow
<1>2. /\ new \in MemoryRow /\ new # NoMemory /\ new.version = v + 1
      /\ new.live = (c.action # "delete") /\ (new.live => new.text = c.op)
  <2> HIDE DEF v
  <2>1. "" \in Text /\ c.op \in Text
    BY DEF Text
  <2>2. NoMemory.version = 0
    BY DEF NoMemory
  <2>3. ASSUME NEW b \in BOOLEAN, NEW t \in Text, new = [version |-> v + 1, live |-> b, text |-> t]
        PROVE  new \in MemoryRow /\ new # NoMemory /\ new.version = v + 1 /\ new.live = b /\ new.text = t
    <3> HIDE DEF new
    <3>1. v + 1 \in Nat \ {0}
      BY <1>1
    <3>2. new \in [version : Nat \ {0}, live : BOOLEAN, text : Text] /\ new.version = v + 1
      BY <2>3, <3>1
    <3> QED
      BY <2>2, <2>3, <3>1, <3>2 DEF MemoryRow
  <2>4. CASE c.action = "delete"
    <3>1. new = [version |-> v + 1, live |-> FALSE, text |-> ""]
      BY <2>4 DEF PrepareMemoryMutation, v
    <3> HIDE DEF new
    <3> QED
      BY <2>1, <2>3, <2>4, <3>1
  <2>5. CASE c.action # "delete"
    <3>1. new = [version |-> v + 1, live |-> TRUE, text |-> c.op]
      BY <2>5 DEF PrepareMemoryMutation, v
    <3> HIDE DEF new
    <3> QED
      BY <2>1, <2>3, <2>5, <3>1
  <2> QED
    BY <2>4, <2>5
<1> HIDE DEF new
<1>3. memories' \in [Memories -> MemoryRow] /\ \A i \in Memories : memories'[i] = IF i = c.mem THEN new ELSE memories[i]
  BY <1>1, <1>2 DEF MemoryInv, MemoryTypes, new
<1>4. changes' \subseteq Commands /\ IsFiniteSet(changes')
  BY FS_AddElement DEF MemoryInv, MemoryTypes
<1>5. MemoryTypes'
  BY <1>3, <1>4 DEF MemoryInv, MemoryTypes
<1>6. ASSUME NEW i \in Memories PROVE audited(i)'
  <2>1. CASE i # c.mem
    <3>1. changesOf(i)' = changesOf(i) /\ memories'[i] = memories[i]
      BY <1>3, <2>1 DEF changesOf
    <3> QED
      BY <3>1 DEF audited, MemoryInv, Audited
  <2>2. CASE i = c.mem
    <3> DEFINE cs == changesOf(i)
    <3>1. changesOf(i)' = cs \cup {c} /\ c \notin cs /\ memories'[i] = new
      BY <1>1, <1>3, <2>2 DEF changesOf
    <3>2. IsFiniteSet(cs)
      BY FS_Subset DEF changesOf, MemoryInv, MemoryTypes
    <3>3. Cardinality(cs) = v - 1 /\ {d.version : d \in cs} = 1..(v - 1)
      BY <1>1, <2>2 DEF MemoryInv, Audited, audited
    <3> HIDE DEF cs
    <3>4. Cardinality(cs \cup {c}) = v
      <4>1. Cardinality(cs \cup {c}) = Cardinality(cs) + 1
        BY <3>1, <3>2, FS_AddElement
      <4> QED
        BY <1>1, <3>3, <4>1
    <3>5. {d.version : d \in cs \cup {c}} = 1..v
      <4>1. {d.version : d \in cs \cup {c}} = {d.version : d \in cs} \cup {v}
        BY <1>1
      <4> QED
        BY <1>1, <3>3, <4>1
    <3>6. \A d \in cs \cup {c} : d.version = v => d = c
      <4>1. \A d \in cs : d.version \in 1..(v - 1)
        BY <3>3
      <4> QED
        BY <1>1, <4>1
    <3> QED
      BY <1>1, <1>2, <3>1, <3>4, <3>5, <3>6 DEF audited
  <2> QED
    BY <2>1, <2>2
<1>7. WithdrawnCandidatesScrubbed'
  <2>1. \A m \in Messages : candidates'[m] = IF m = source(c.mem) /\ candidates[m] # None THEN "withdrawn" ELSE candidates[m]
    BY DEF MemoryInv, MemoryTypes
  <2>2. \A m \in Messages : withdrawn(m)' => withdrawn(m) \/ m = source(c.mem)
    BY DEF withdrawn
  <2> QED
    BY <2>1, <2>2 DEF MemoryInv, WithdrawnCandidatesScrubbed
<1> QED
  BY <1>5, <1>6, <1>7 DEF MemoryInv, Audited

\* The worker works on a message.
Working ==
  /\ job \in [pc : {"idle", "extract", "candidate", "embed", "memory", "settle"}, msg : Messages \cup {None}, attempt : Nat]
  /\ job.pc # "idle" => job.msg \in Messages
MemoryQueue == jobs \in Seq(Messages) /\ Working

LEMMA QueueInductive == MemoryQueue /\ [MemoryNext]_memoryVars => MemoryQueue'
<1> SUFFICES ASSUME MemoryQueue, [MemoryNext]_memoryVars PROVE MemoryQueue'
  OBVIOUS
<1>0. jobs \in Seq(Messages) /\ Working
  BY DEF MemoryQueue
<1>1. CASE Initialize \/ Close \/ CloseTimeout \/ WorkerExit \/ UNCHANGED memoryVars
  BY <1>0, <1>1 DEF Initialize, Close, CloseTimeout, WorkerExit, memoryVars, queue, MemoryQueue, Working
<1>2. ASSUME NEW m \in Messages, SyncTurn(m) PROVE MemoryQueue'
  BY <1>0, <1>2 DEF SyncTurn, MemoryQueue, Working
<1>3. CASE Receive
  <2>1. Head(jobs) \in Messages /\ Tail(jobs) \in Seq(Messages)
    BY <1>0, <1>3 DEF Receive
  <2> QED
    BY <1>3, <2>1 DEF Receive, MemoryQueue, Working
<1>4. CASE Settle \/ Crash
  <2>1. job' = Idle /\ (jobs' = jobs \/ jobs' = <<>>)
    BY <1>4 DEF Settle, Crash
  <2>2. Idle.pc = "idle" /\ Idle \in [pc : {"idle", "extract", "candidate", "embed", "memory", "settle"}, msg : Messages \cup {None}, attempt : Nat]
    BY DEF Idle
  <2>3. job'.pc = "idle" /\ job' \in [pc : {"idle", "extract", "candidate", "embed", "memory", "settle"}, msg : Messages \cup {None}, attempt : Nat]
    BY <2>1, <2>2
  <2>4. jobs' \in Seq(Messages)
    <3>1. <<>> \in Seq(Messages)
      OBVIOUS
    <3> QED
      BY <1>0, <2>1, <3>1, Zenon
  <2> QED
    BY <2>3, <2>4 DEF MemoryQueue, Working
<1>5. CASE Propose \/ CreateMemoryCandidate \/ Embed \/ CreateMemory
  <2>1. job.msg \in Messages /\ jobs' = jobs /\ job.pc # "idle"
    BY <1>0, <1>5 DEF Working, Propose, CreateMemoryCandidate, Embed, CreateMemory, queue
  <2>2. job' = job \/ (\E pc \in {"candidate", "embed", "memory", "settle"} : goto(pc)) \/ job' = [job EXCEPT !.attempt = @ + 1]
    BY <1>5 DEF Propose, CreateMemoryCandidate, Embed, CreateMemory, retryStore
  <2>3. CASE job' = job
    BY <1>0, <2>1, <2>3 DEF MemoryQueue, Working
  <2>4. ASSUME NEW pc \in {"candidate", "embed", "memory", "settle"}, goto(pc) PROVE MemoryQueue'
    BY <1>0, <2>1, <2>4 DEF goto, MemoryQueue, Working
  <2>5. CASE job' = [job EXCEPT !.attempt = @ + 1]
    BY <1>0, <2>1, <2>5 DEF MemoryQueue, Working
  <2> QED
    BY <2>2, <2>3, <2>4, <2>5
<1>6. ASSUME NEW id, Commit(id) PROVE MemoryQueue'
  BY <1>0, <1>6 DEF Commit, queue, MemoryQueue, Working
<1>7. ASSUME NEW c, BeginMutation(c) \/ EmbedMutation(c) \/ MutateMemory(c) PROVE MemoryQueue'
  BY <1>0, <1>7 DEF BeginMutation, EmbedMutation, MutateMemory, queue, MemoryQueue, Working
<1> QED
  BY <1>1, <1>2, <1>3, <1>4, <1>5, <1>6, <1>7 DEF MemoryNext, Work

\* The rest of a step: nothing is stored, or one of the three transactions commits.
storeMoves ==
  \/ UNCHANGED store
  \/ \E id \in Memories : ~conflicts(id) /\ insert(id) /\ UNCHANGED <<candidates, changes>>
  \/ \E m \in Messages : candidates' = [candidates EXCEPT ![m] = verdict(m)] /\ UNCHANGED <<memories, changes>>
  \/ \E c \in Commands :
       /\ applies(c) /\ memories' = [memories EXCEPT ![c.mem] = PrepareMemoryMutation(c)]
       /\ candidates' = [candidates EXCEPT ![source(c.mem)] = IF @ = None THEN @ ELSE "withdrawn"]
       /\ changes' = changes \cup {c}

LEMMA StoreMoves == MemoryQueue /\ [MemoryNext]_memoryVars => storeMoves
<1> SUFFICES ASSUME MemoryQueue, [MemoryNext]_memoryVars PROVE storeMoves
  OBVIOUS
<1>1. CASE CreateMemory
  <2>1. job.msg \in Memories
    BY <1>1 DEF CreateMemory, MemoryQueue, Working, Memories
  <2> QED
    BY <1>1, <2>1 DEF CreateMemory, storeMoves, store
<1>2. CASE CreateMemoryCandidate
  <2>1. job.msg \in Messages
    BY <1>2 DEF CreateMemoryCandidate, MemoryQueue, Working
  <2> QED
    BY <1>2, <2>1 DEF CreateMemoryCandidate, storeMoves, store
<1>3. ASSUME NEW id \in DOMAIN Explicit, Commit(id) PROVE storeMoves
  BY <1>3 DEF Commit, storeMoves, Memories
<1>4. ASSUME NEW c \in Commands, MutateMemory(c) PROVE storeMoves
  BY <1>4 DEF MutateMemory, storeMoves
<1>5. ASSUME NEW c \in Commands, BeginMutation(c) \/ EmbedMutation(c) PROVE storeMoves
  BY <1>5 DEF BeginMutation, EmbedMutation, storeMoves
<1>6. CASE (\E m \in Messages : SyncTurn(m)) \/ Initialize \/ Close \/ CloseTimeout \/ Receive \/ Propose \/ Embed \/ Settle
            \/ WorkerExit \/ Crash \/ UNCHANGED memoryVars
  BY <1>6 DEF SyncTurn, Initialize, Close, CloseTimeout, Receive, Propose, Embed, Settle, WorkerExit, Crash, memoryVars, storeMoves
<1> QED
  BY <1>1, <1>2, <1>3, <1>4, <1>5, <1>6 DEF MemoryNext, Work

\* However turns, corrections, deletions, lost acknowledgements and restarts interleave, a
\* Memory is its audited history, and nothing of a withdrawn message returns
\* (CreateMemoryCandidate, CreateMemory, MutateMemory).
THEOREM MemoryCorrect == MemorySpec => MemorySafe
<1>1. MemoryInit => MemoryQueue /\ MemoryInv
  <2> SUFFICES ASSUME MemoryInit PROVE MemoryQueue /\ MemoryInv
    OBVIOUS
  <2>1. MemoryQueue
    BY DEF MemoryInit, MemoryQueue, Working, Idle
  <2>2. MemoryTypes
    BY RowFacts, FS_EmptySet DEF MemoryInit, MemoryTypes
  <2> QED
    BY <2>1, <2>2 DEF MemoryInit, MemoryInv, Audited, audited, changesOf, WithdrawnCandidatesScrubbed, withdrawn
<1>2. MemoryQueue /\ MemoryInv /\ [MemoryNext]_memoryVars => MemoryInv'
  <2> SUFFICES ASSUME MemoryQueue, MemoryInv, [MemoryNext]_memoryVars PROVE MemoryInv'
    OBVIOUS
  <2>1. storeMoves
    BY StoreMoves
  <2>2. CASE UNCHANGED store
    BY <2>2 DEF store, MemoryInv, MemoryTypes, Audited, audited, changesOf, WithdrawnCandidatesScrubbed, withdrawn
  <2> QED
    BY <2>1, <2>2, InsertKeeps, CandidateKeeps, MutationKeeps DEF storeMoves
<1>3. MemoryQueue /\ MemoryInv /\ [MemoryNext]_memoryVars => [withdrawnNeverReturns]_memoryVars
  <2> SUFFICES ASSUME MemoryQueue, MemoryInv, [MemoryNext]_memoryVars PROVE withdrawnNeverReturns
    OBVIOUS
  <2>1. storeMoves /\ memories \in [Memories -> MemoryRow]
    BY StoreMoves DEF MemoryInv, MemoryTypes
  <2>2. CASE UNCHANGED memories
    BY <2>2 DEF withdrawnNeverReturns
  <2>3. ASSUME NEW i \in Memories, ~conflicts(i), insert(i) PROVE withdrawnNeverReturns
    BY <2>1, <2>3 DEF insert, conflicts, withdrawnNeverReturns
  <2>4. ASSUME NEW c \in Commands, applies(c), memories' = [memories EXCEPT ![c.mem] = PrepareMemoryMutation(c)]
        PROVE  withdrawnNeverReturns
    BY <2>1, <2>4 DEF applies, withdrawnNeverReturns
  <2> QED
    BY <2>1, <2>2, <2>3, <2>4 DEF storeMoves, store
<1>4. MemoryInv => TextIsNewestAuditedChange /\ WithdrawnCandidatesScrubbed
  BY DEF MemoryInv, Audited, audited, changesOf, TextIsNewestAuditedChange
<1> QED
  BY <1>1, <1>2, <1>3, <1>4, QueueInductive, PTL DEF MemorySpec, MemorySafe

----------------------------------------------------------------------------
(* The feed.  Whatever the Hub still owes a subscriber is on the wire or in *)
(* its buffer, in order and behind nothing that is missing (Behind,         *)
(* Buffered), and a snapshot ends a replay of exactly what is new (Closed). *)

Items == {Event(n) : n \in Nat}
Frames == Items \cup {Snapshot(n, b) : n \in Nat, b \in BOOLEAN} \cup {ErrorFrame}

SubscriberType == [on : BOOLEAN, after : Nat, pending : SUBSET Nat, events : Seq(Items), lagged : BOOLEAN]

FeedTypes ==
  /\ log \in Seq({"fact", "compaction", "completed", "waiting", "repaired", "resumed"})
  /\ unsent \subseteq 1..Len(log)
  /\ sub \in SubscriberType
  /\ Len(sub.events) <= BufferSize
  /\ wire \in Seq(Frames)
  /\ client \in [after : Nat, attempt : Nat,
                 at : {"connect", "read", "stopped", "observation_lost", "protocol_error"}]

\* Nothing is known of an event before it is committed.
Known ==
  /\ sub.after <= Len(log) /\ \A n \in sub.pending : n <= Len(log)
  /\ \A k \in 1..Len(sub.events) : sub.events[k].sequence <= Len(log)
  /\ \A k \in 1..Len(wire) : wire[k].sequence <= Len(log)

onWire(n) == \E h \in 1..Len(wire) : wire[h].frame = "event" /\ wire[h].sequence = n
buffered(n, k) == \E h \in 1..k : sub.events[h].sequence = n

\* What the subscriber was sent is where the client still finds it.
Behind == \A n \in (client.after + 1)..sub.after : onWire(n) \/ buffered(n, Len(sub.events))

Buffered ==
  \A k \in 1..Len(sub.events) : \A n \in (client.after + 1)..(sub.events[k].sequence - 1) :
    onWire(n) \/ buffered(n, k - 1)

\* Before a snapshot the wire holds the events from the client's cursor up to it.
Closed ==
  \A k \in 1..Len(wire) : wire[k].frame = "run.snapshot" =>
    /\ wire[k].sequence = client.after + k - 1
    /\ \A h \in 1..(k - 1) : wire[h] = Event(client.after + h)

FeedInv == FeedTypes /\ Known /\ Behind /\ Buffered /\ Closed /\ FeedIsExact

earlier == {p \in Nat \X Nat : p[1] < p[2]}

\* A set of naturals with an upper bound has a greatest element.
LEMMA Greatest ==
  ASSUME NEW N \in Nat, NEW S \in SUBSET (0..N), S # {}
  PROVE  Max(S) \in S /\ \A k \in S : k <= Max(S)
<1> DEFINE T == {n \in Nat : \E x \in S : n = N - x}
<1>1. T \in SUBSET Nat /\ T # {}
  <2>1. PICK x \in S : TRUE
    OBVIOUS
  <2>2. N - x \in T
    BY <2>1, SMT
  <2> QED
    BY <2>2
<1>2. IsWellFoundedOn(earlier, Nat)
  BY NatLessThanWellFounded DEF OpToRel, earlier
<1> HIDE DEF T
<1>3. PICK t \in T : \A y \in T : ~(<<y, t>> \in earlier)
  BY <1>1, <1>2, WFMin
<1>4. \A y \in T : ~(y < t)
  BY <1>1, <1>3 DEF earlier
<1>5. PICK x \in S : t = N - x
  BY DEF T
<1>6. \A y \in S : N - y \in T
  BY SMT DEF T
<1>7. \A y \in S : x >= y
  BY <1>4, <1>5, <1>6, SMT
<1>8. \E m \in S : \A y \in S : m >= y
  BY <1>7
<1>9. Max(S) \in S /\ \A y \in S : Max(S) >= y
  BY <1>8 DEF Max
<1> QED
  BY <1>9

\* What the Hub delivers: the events after the last one it delivered, without a gap.
LEMMA Delivered ==
  ASSUME NEW s \in SubscriberType, Len(log) \in Nat, s.after <= Len(log), Len(s.events) <= BufferSize
  PROVE  \E upTo \in s.after..Len(log) :
           /\ deliver(s).after = upTo
           /\ deliver(s).events = s.events \o [k \in 1..(upTo - s.after) |-> Event(s.after + k)]
           /\ deliver(s).pending \subseteq s.pending
           /\ upTo - s.after <= BufferSize - Len(s.events)
           /\ deliver(s) \in SubscriberType
<1> USE FeedAssumption
<1> DEFINE due == consecutive(s)
           upTo == Min({due, s.after + BufferSize - Len(s.events)})
           more == [k \in 1..(upTo - s.after) |-> Event(s.after + k)]
<1>1. s.after \in Nat /\ s.pending \in SUBSET Nat /\ s.events \in Seq(Items) /\ Len(s.events) \in Nat
  BY DEF SubscriberType
<1>2. due \in s.after..Len(log)
  <2> DEFINE S == {n \in s.after..Len(log) : \A k \in (s.after + 1)..n : k \in s.pending}
  <2>1. s.after \in S /\ S \in SUBSET (0..Len(log))
    BY <1>1
  <2>2. Max(S) \in S
    BY <2>1, Greatest
  <2> QED
    BY <2>2 DEF consecutive
<1>3. upTo \in s.after..Len(log) /\ upTo - s.after <= BufferSize - Len(s.events)
  <2> HIDE DEF due
  <2> DEFINE room == s.after + BufferSize - Len(s.events)
  <2>1. room \in Int /\ room >= s.after
    BY <1>1
  <2>2. \E m \in {due, room} : \A y \in {due, room} : m =< y
    BY <1>1, <1>2, <2>1
  <2> HIDE DEF room
  <2>3. Min({due, room}) \in {due, room} /\ \A y \in {due, room} : Min({due, room}) =< y
    BY <2>2 DEF Min
  <2>4. s.after <= Min({due, room}) /\ Min({due, room}) <= Len(log) /\ Min({due, room}) <= room
    BY <1>1, <1>2, <2>1, <2>3
  <2> QED
    BY <1>1, <1>2, <2>1, <2>3, <2>4 DEF room
<1> HIDE DEF due, upTo
<1>4. more \in Seq(Items)
  <2>1. upTo - s.after \in Nat
    BY <1>1, <1>3
  <2>2. \A k \in 1..(upTo - s.after) : Event(s.after + k) \in Items
    BY <1>1, <2>1 DEF Items
  <2> QED
    BY <2>1, <2>2
<1> HIDE DEF more
<1>5. deliver(s) = [s EXCEPT !.events = s.events \o more, !.pending = {n \in s.pending : n > upTo}, !.after = upTo,
                             !.on = upTo = due, !.lagged = upTo < due]
  BY DEF deliver, due, upTo, more
<1>6. deliver(s) = [on |-> (upTo = due), after |-> upTo, pending |-> {n \in s.pending : n > upTo},
                    events |-> s.events \o more, lagged |-> (upTo < due)]
  BY <1>5 DEF SubscriberType
<1>7. s.events \o more \in Seq(Items)
  BY <1>1, <1>4
<1>8. upTo \in Nat /\ {n \in s.pending : n > upTo} \in SUBSET Nat
  BY <1>1, <1>3
<1>9. deliver(s) \in SubscriberType
  BY <1>6, <1>7, <1>8 DEF SubscriberType
<1>10. /\ deliver(s).after = upTo /\ deliver(s).events = s.events \o more
       /\ deliver(s).pending \subseteq s.pending
  BY <1>6
<1> QED
  BY <1>3, <1>9, <1>10 DEF more

\* A connection that closes takes what was in flight with it.
LEMMA Closing ==
  ASSUME FeedInv, NEW c, closesAs(c), c \in [after : Nat, attempt : Nat,
           at : {"connect", "read", "stopped", "observation_lost", "protocol_error"}],
         c.at # "protocol_error", c.after <= Len(log), UNCHANGED <<log, unsent>>,
         printed' = [k \in 1..c.after |-> k]
  PROVE  FeedInv'
<1>1. sub' = NoSub /\ wire' = <<>> /\ client' = c /\ log' = log /\ unsent' = unsent
  BY DEF closesAs
<1>2. NoSub \in SubscriberType /\ NoSub.events = <<>> /\ NoSub.after = 0 /\ NoSub.pending = {}
  BY DEF NoSub, SubscriberType
<1>3. FeedTypes'
  BY <1>1, <1>2, FeedAssumption DEF FeedInv, FeedTypes
<1>4. Len(log) \in Nat
  BY DEF FeedInv, FeedTypes
<1>5. Known'
  BY <1>1, <1>2, <1>4 DEF Known
<1>6. Behind' /\ Buffered' /\ Closed' /\ StreamHasNoGap'
  BY <1>1, <1>2, SMT DEF Behind, Buffered, Closed, StreamHasNoGap
<1>7. FeedIsExact'
  BY <1>1, <1>6 DEF FeedIsExact, PrintsEveryEventOnce, SnapshotMeetsCursor
<1> QED
  BY <1>3, <1>5, <1>6, <1>7 DEF FeedInv

\* A commit adds to what may be delivered and changes nothing that was.
LEMMA Committing ==
  ASSUME FeedInv, NEW type \in {"fact", "compaction", "completed", "waiting", "repaired", "resumed"}, CommitEvent(type)
  PROVE  FeedInv'
<1>1. log' = Append(log, type) /\ UNCHANGED <<sub, wire, conn, client, printed>>
  BY DEF CommitEvent
<1>2. log' \in Seq({"fact", "compaction", "completed", "waiting", "repaired", "resumed"}) /\ Len(log') = Len(log) + 1
  BY <1>1 DEF FeedInv, FeedTypes
<1>3. Len(log) \in Nat
  BY DEF FeedInv, FeedTypes
<1>4. unsent' \subseteq 1..Len(log')
  <2>1. unsent' \subseteq unsent \cup {Len(log) + 1} /\ unsent \subseteq 1..Len(log)
    BY DEF CommitEvent, FeedInv, FeedTypes
  <2> QED
    BY <1>2, <1>3, <2>1
<1>5. FeedTypes'
  BY <1>1, <1>2, <1>4 DEF FeedInv, FeedTypes
<1>6. Known'
  <2>1. sub.after \in Nat /\ sub.pending \in SUBSET Nat /\ sub.events \in Seq(Items)
    BY DEF FeedInv, FeedTypes, SubscriberType
  <2>2. \A k \in 1..Len(sub.events) : sub.events[k].sequence \in Nat
    BY <2>1 DEF Items, Event
  <2>3. \A k \in 1..Len(wire) : wire[k].sequence \in Nat
    BY DEF FeedInv, FeedTypes, Frames, Items, Event, Snapshot, ErrorFrame
  <2>4. sub.after <= Len(log) + 1 /\ \A n \in sub.pending : n <= Len(log) + 1
    BY <1>3, <2>1 DEF FeedInv, Known
  <2>5. \A k \in 1..Len(sub.events) : sub.events[k].sequence <= Len(log) + 1
    BY <1>3, <2>2 DEF FeedInv, Known
  <2>6. \A k \in 1..Len(wire) : wire[k].sequence <= Len(log) + 1
    BY <1>3, <2>3 DEF FeedInv, Known
  <2> QED
    BY <1>1, <1>2, <2>4, <2>5, <2>6 DEF Known
<1>7. Behind' /\ Buffered' /\ Closed'
  <2>1. sub' = sub /\ wire' = wire /\ client' = client
    BY <1>1
  <2>2. Behind'
    BY <2>1 DEF FeedInv, Behind, onWire, buffered
  <2>3. Buffered'
    BY <2>1 DEF FeedInv, Buffered, onWire, buffered
  <2>4. Closed'
    BY <2>1 DEF FeedInv, Closed
  <2> QED
    BY <2>2, <2>3, <2>4
<1>8. FeedIsExact'
  <2>1. client.after \in Nat
    BY DEF FeedInv, FeedTypes
  <2>2. sub' = sub /\ wire' = wire /\ client' = client /\ printed' = printed
    BY <1>1
  <2>3. client.after <= Len(log)'
    BY <1>2, <1>3, <2>1 DEF FeedInv, FeedIsExact, SnapshotMeetsCursor
  <2>4. PrintsEveryEventOnce' /\ StreamHasNoGap'
    BY <2>2 DEF FeedInv, FeedIsExact, PrintsEveryEventOnce, StreamHasNoGap
  <2>5. SnapshotMeetsCursor'
    BY <2>2, <2>3 DEF FeedInv, FeedIsExact, SnapshotMeetsCursor
  <2> QED
    BY <2>4, <2>5 DEF FeedIsExact
<1> QED
  BY <1>5, <1>6, <1>7, <1>8 DEF FeedInv

\* Places counted from the last event delivered.
LEMMA Offset ==
  /\ \A a, m \in Nat : \A n \in (a + 1)..(a + m) : n - a \in 1..m /\ n \in Nat
  /\ \A b, d, l \in Nat : d >= 1 /\ l >= b + d => b + d \in 1..l
OBVIOUS

LEMMA Farther ==
  ASSUME NEW a \in Nat, NEW b \in Nat, NEW m \in Nat, NEW k \in Nat, NEW n \in Nat,
         k - b <= m, n > a, n <= a + (k - b) - 1
  PROVE  n \in (a + 1)..(a + m) /\ k - 1 >= b + (n - a)
OBVIOUS

\* The buffer grows at its end: by what is next after the last one delivered, or by nothing
\* that has a place in the order.
LEMMA Extending ==
  ASSUME FeedInv, NEW m \in Nat, NEW more \in Seq(Items),
         sub' \in SubscriberType, sub'.events = sub.events \o more, sub'.after = sub.after + m,
         sub'.after <= Len(log), \A n \in sub'.pending : n <= Len(log),
         Len(more) <= BufferSize - Len(sub.events),
         \/ Len(more) = m /\ \A k \in 1..m : more[k] = Event(sub.after + k)
         \/ m = 0 /\ \A k \in 1..Len(more) : more[k] = Event(0),
         unsent' \subseteq unsent, UNCHANGED <<log, wire, client, printed>>
  PROVE  FeedInv'
<1> USE FeedAssumption
<1>1. /\ sub.events \in Seq(Items) /\ Len(sub.events) \in Nat /\ sub.after \in Nat /\ client.after \in Nat
      /\ Len(more) \in Nat /\ Len(log) \in Nat
  BY DEF FeedInv, FeedTypes, SubscriberType
<1>2. /\ Len(sub'.events) = Len(sub.events) + Len(more)
      /\ \A k \in 1..Len(sub.events) : sub'.events[k] = sub.events[k]
      /\ \A k \in 1..Len(more) : sub'.events[Len(sub.events) + k] = more[k]
  BY <1>1
<1>3. FeedTypes'
  BY <1>1, <1>2 DEF FeedInv, FeedTypes
<1>4. \A k \in 1..Len(sub'.events) :
        \/ k \in 1..Len(sub.events) /\ sub'.events[k] = sub.events[k]
        \/ k - Len(sub.events) \in 1..Len(more) /\ sub'.events[k] = more[k - Len(sub.events)]
  BY <1>1, <1>2
<1> DEFINE later(n, k) == \E h \in 1..k : sub'.events[h].sequence = n
           written(n) == \E h \in 1..Len(wire) : wire[h].frame = "event" /\ wire[h].sequence = n
<1>5. \A k \in 1..Len(more) : /\ more[k].sequence = 0 \/ (Len(more) = m /\ more[k].sequence = sub.after + k)
                             /\ more[k].sequence <= Len(log)
  <2> SUFFICES ASSUME NEW k \in 1..Len(more)
               PROVE  /\ more[k].sequence = 0 \/ (Len(more) = m /\ more[k].sequence = sub.after + k)
                      /\ more[k].sequence <= Len(log)
    OBVIOUS
  <2>1. CASE Len(more) = m /\ more[k] = Event(sub.after + k)
    BY <1>1, <2>1 DEF Event
  <2>2. CASE more[k] = Event(0)
    BY <1>1, <2>2 DEF Event
  <2> QED
    BY <1>1, <2>1, <2>2
<1>6. Known'
  <2>1. \A k \in 1..Len(sub'.events) : sub'.events[k].sequence <= Len(log)
    BY <1>4, <1>5 DEF FeedInv, Known
  <2> QED
    BY <2>1 DEF FeedInv, Known
<1>7. \A n \in Nat, k \in Nat : buffered(n, k) /\ k <= Len(sub.events) => later(n, k)
  BY <1>1, <1>2 DEF buffered
<1>8. \A n \in Nat, k \in Nat, l \in Nat : later(n, k) /\ k <= l => later(n, l)
  <2> SUFFICES ASSUME NEW n \in Nat, NEW k \in Nat, NEW l \in Nat, later(n, k), k <= l
               PROVE  later(n, l)
    OBVIOUS
  <2>1. PICK h \in 1..k : sub'.events[h].sequence = n
    OBVIOUS
  <2>2. h \in 1..l
    BY SMT
  <2> QED
    BY <2>1, <2>2
<1>9. \A n \in (sub.after + 1)..(sub.after + m), l \in Nat :
        Len(more) = m /\ l >= Len(sub.events) + (n - sub.after) => later(n, l)
  <2> SUFFICES ASSUME NEW n \in (sub.after + 1)..(sub.after + m), NEW l \in Nat, Len(more) = m,
                      l >= Len(sub.events) + (n - sub.after)
               PROVE  later(n, l)
    OBVIOUS
  <2>1. n - sub.after \in 1..m /\ n \in Nat
    BY <1>1, Offset
  <2>2. more[n - sub.after].sequence = n
    <3>1. m > 0
      BY <2>1
    <3>2. more[n - sub.after] = Event(sub.after + (n - sub.after))
      BY <2>1, <3>1
    <3> QED
      BY <1>1, <2>1, <3>2 DEF Event
  <2>3. Len(sub.events) + (n - sub.after) \in 1..l
    <3>1. n - sub.after \in Nat /\ n - sub.after >= 1
      BY <2>1
    <3> QED
      BY <1>1, <3>1, Offset
  <2>4. sub'.events[Len(sub.events) + (n - sub.after)].sequence = n
    BY <1>2, <2>1, <2>2
  <2> QED
    BY <2>3, <2>4
<1> HIDE DEF later
<1>10. \A n \in (client.after + 1)..sub.after : written(n) \/ later(n, Len(sub.events))
  BY <1>1, <1>7 DEF FeedInv, Behind, onWire
<1>11. Behind'
  <2> SUFFICES ASSUME NEW n \in (client.after + 1)..(sub.after + m)
               PROVE  written(n) \/ later(n, Len(sub'.events))
    BY DEF Behind, onWire, buffered, later
  <2>1. n \in Nat
    BY <1>1
  <2>2. CASE n <= sub.after
    <3>1. n \in (client.after + 1)..sub.after
      BY <1>1, <2>1, <2>2
    <3>2. Len(sub'.events) \in Nat /\ Len(sub.events) <= Len(sub'.events)
      BY <1>1, <1>2
    <3> QED
      BY <1>1, <1>8, <1>10, <2>1, <3>1, <3>2
  <2>3. CASE n > sub.after
    <3>1. Len(more) = m
      BY <1>1, <2>3
    <3>2. n \in (sub.after + 1)..(sub.after + m) /\ Len(sub'.events) >= Len(sub.events) + (n - sub.after)
      BY <1>1, <1>2, <2>3, <3>1
    <3> QED
      BY <1>1, <1>2, <1>9, <3>1, <3>2
  <2> QED
    BY <1>1, <2>2, <2>3
<1>12. Buffered'
  <2> SUFFICES ASSUME NEW k \in 1..Len(sub'.events), NEW n \in (client.after + 1)..(sub'.events[k].sequence - 1)
               PROVE  written(n) \/ later(n, k - 1)
    BY DEF Buffered, onWire, buffered, later
  <2>1. CASE k \in 1..Len(sub.events) /\ sub'.events[k] = sub.events[k]
    <3>1. written(n) \/ buffered(n, k - 1)
      BY <2>1 DEF FeedInv, Buffered, onWire
    <3>2. n \in Nat /\ k - 1 \in Nat /\ k - 1 <= Len(sub.events)
      BY <1>1, <2>1
    <3> QED
      BY <1>7, <3>1, <3>2
  <2>2. CASE k - Len(sub.events) \in 1..Len(more) /\ sub'.events[k] = more[k - Len(sub.events)]
    <3>1. Len(more) = m /\ sub'.events[k].sequence = sub.after + (k - Len(sub.events))
      <4>1. n >= 1 /\ n \in Int
        BY <1>1
      <4>2. sub'.events[k].sequence # 0
        BY <4>1
      <4> QED
        BY <1>5, <2>2, <4>2
    <3>2. n <= sub.after + (k - Len(sub.events)) - 1 /\ n \in Nat /\ n >= client.after + 1
      <4>1. PICK a \in Nat, b \in Nat, c \in Nat : a = sub.after /\ b = Len(sub.events) /\ c = client.after
        BY <1>1
      <4>2. n \in (c + 1)..(a + (k - b) - 1)
        BY <3>1, <4>1
      <4>3. n <= a + (k - b) - 1 /\ n \in Nat /\ n >= c + 1
        BY <4>2
      <4> QED
        BY <4>1, <4>3
    <3>3. k - 1 \in Nat /\ k - 1 >= Len(sub.events)
      BY <1>1, <1>2, <2>2
    <3>4. CASE n <= sub.after
      <4>1. n \in (client.after + 1)..sub.after
        BY <1>1, <3>2, <3>4
      <4> QED
        BY <1>1, <1>8, <1>10, <3>2, <3>3, <4>1
    <3>5. CASE n > sub.after
      <4>1. n \in (sub.after + 1)..(sub.after + m) /\ k - 1 >= Len(sub.events) + (n - sub.after)
        <5>1. PICK a \in Nat, b \in Nat : a = sub.after /\ b = Len(sub.events)
          BY <1>1
        <5>2. k \in Nat /\ k - b <= m /\ n \in Nat /\ n > a /\ n <= a + (k - b) - 1
          BY <2>2, <3>1, <3>2, <3>5, <5>1
        <5>3. n \in (a + 1)..(a + m) /\ k - 1 >= b + (n - a)
          BY <5>2, Farther
        <5> QED
          BY <5>1, <5>3
      <4> QED
        BY <1>9, <3>1, <3>3, <4>1
    <3> QED
      BY <1>1, <3>2, <3>4, <3>5
  <2> QED
    BY <1>4, <2>1, <2>2
<1>13. Closed' /\ FeedIsExact'
  BY DEF FeedInv, Closed, FeedIsExact, PrintsEveryEventOnce, SnapshotMeetsCursor, StreamHasNoGap
<1> QED
  BY <1>3, <1>6, <1>11, <1>12, <1>13 DEF FeedInv

\* The Hub delivers in order whatever the order of the publications.
LEMMA Publishing ==
  ASSUME FeedInv, NEW n \in Nat, PublishCommitted(n)
  PROVE  FeedInv'
<1>1. /\ sub \in SubscriberType /\ Len(log) \in Nat /\ n <= Len(log) /\ Len(sub.events) <= BufferSize
      /\ sub.after <= Len(log) /\ sub.after \in Nat /\ \A k \in sub.pending : k <= Len(log)
      /\ sub.pending \in SUBSET Nat /\ sub.events \in Seq(Items)
  BY DEF FeedInv, FeedTypes, Known, PublishCommitted, SubscriberType
<1>2. unsent' \subseteq unsent /\ UNCHANGED <<log, wire, client, printed>> /\ sub' = hubPublish(n)
  BY DEF PublishCommitted
<1> DEFINE s == [sub EXCEPT !.pending = @ \cup {n}]
<1>3. /\ s \in SubscriberType /\ s.after = sub.after /\ s.events = sub.events
      /\ \A k \in s.pending : k <= Len(log)
  BY <1>1 DEF SubscriberType
<1>4. /\ sub.events = sub.events \o <<>> /\ <<>> \in Seq(Items) /\ Len(<<>>) = 0
      /\ sub.after = sub.after + 0 /\ Len(<<>>) <= BufferSize - Len(sub.events) /\ 0 \in Nat
      /\ \A k \in 1..Len(<<>>) : <<>>[k] = Event(0)
  BY <1>1, FeedAssumption
<1>5. UNCHANGED <<log, wire, client, printed>> /\ unsent' \subseteq unsent
  BY <1>2
<1> HIDE DEF s
<1>6. CASE sub' = sub
  BY <1>1, <1>2, <1>4, <1>5, <1>6, Extending
<1>7. CASE sub' = [s EXCEPT !.on = FALSE, !.lagged = TRUE]
  <2>1. /\ sub' \in SubscriberType /\ sub'.after = sub.after /\ sub'.events = sub.events
        /\ sub'.pending = s.pending
    BY <1>3, <1>7 DEF SubscriberType
  <2> QED
    BY <1>1, <1>2, <1>3, <1>4, <1>5, <2>1, Extending
<1>8. CASE sub' = deliver(s)
  <2>1. PICK upTo \in s.after..Len(log) :
           /\ deliver(s).after = upTo
           /\ deliver(s).events = s.events \o [k \in 1..(upTo - s.after) |-> Event(s.after + k)]
           /\ deliver(s).pending \subseteq s.pending
           /\ upTo - s.after <= BufferSize - Len(s.events)
           /\ deliver(s) \in SubscriberType
    BY <1>1, <1>3, Delivered
  <2> DEFINE m == upTo - sub.after
             more == [k \in 1..m |-> Event(sub.after + k)]
  <2>2. m \in Nat /\ m <= BufferSize - Len(sub.events) /\ sub'.after = sub.after + m /\ upTo <= Len(log)
    BY <1>1, <1>3, <1>8, <2>1
  <2>3. more \in Seq(Items) /\ Len(more) = m /\ \A k \in 1..m : more[k] = Event(sub.after + k)
    <3> HIDE DEF m
    <3>1. \A k \in 1..m : Event(sub.after + k) \in Items
      BY <1>1, <2>2 DEF Items
    <3> QED
      BY <2>2, <3>1
  <2>4. sub'.events = sub.events \o more /\ sub' \in SubscriberType /\ \A k \in sub'.pending : k <= Len(log)
    BY <1>3, <1>8, <2>1
  <2> HIDE DEF more, m
  <2>5. sub'.after <= Len(log)
    BY <1>8, <2>1, <2>2
  <2> QED
    BY <1>2, <2>2, <2>3, <2>4, <2>5, Extending
<1> QED
  BY <1>2, <1>6, <1>7, <1>8 DEF hubPublish, s

\* A live event has no place in the order.
LEMMA Live ==
  ASSUME FeedInv, PublishLive
  PROVE  FeedInv'
<1>1. /\ sub \in SubscriberType /\ Len(log) \in Nat /\ Len(sub.events) <= BufferSize
      /\ sub.after <= Len(log) /\ sub.after \in Nat /\ \A k \in sub.pending : k <= Len(log)
      /\ sub.events \in Seq(Items) /\ Len(sub.events) \in Nat /\ BufferSize \in Nat
  BY FeedAssumption DEF FeedInv, FeedTypes, Known, SubscriberType
<1>2. unsent' \subseteq unsent /\ UNCHANGED <<log, wire, client, printed>>
  BY DEF PublishLive
<1>3. /\ sub.events = sub.events \o <<>> /\ <<>> \in Seq(Items) /\ Len(<<>>) = 0
      /\ sub.after = sub.after + 0 /\ Len(<<>>) <= BufferSize - Len(sub.events) /\ 0 \in Nat
      /\ \A k \in 1..Len(<<>>) : <<>>[k] = Event(0)
  BY <1>1
<1>4. CASE sub' = sub
  BY <1>1, <1>2, <1>3, <1>4, Extending
<1>5. CASE sub' = [sub EXCEPT !.on = FALSE, !.lagged = TRUE]
  <2>1. /\ sub' \in SubscriberType /\ sub'.after = sub.after /\ sub'.events = sub.events
        /\ sub'.pending = sub.pending
    BY <1>1, <1>5 DEF SubscriberType
  <2> QED
    BY <1>1, <1>2, <1>3, <2>1, Extending
<1>6. CASE Len(sub.events) < BufferSize /\ sub' = [sub EXCEPT !.events = Append(@, Event(0))]
  <2>1. Event(0) \in Items
    BY DEF Items
  <2>2. <<Event(0)>> \in Seq(Items) /\ Len(<<Event(0)>>) = 1 /\ <<Event(0)>>[1] = Event(0)
    BY <2>1
  <2>3. sub'.events = Append(sub.events, Event(0)) /\ sub'.after = sub.after /\ sub'.pending = sub.pending
    BY <1>1, <1>6 DEF SubscriberType
  <2>4. sub'.events = sub.events \o <<Event(0)>> /\ sub'.events \in Seq(Items)
    BY <1>1, <2>1, <2>3
  <2>5. sub' \in SubscriberType
    BY <1>1, <1>6, <2>3, <2>4 DEF SubscriberType
  <2>6. \A k \in 1..Len(<<Event(0)>>) : <<Event(0)>>[k] = Event(0)
    BY <2>2
  <2>7. Len(<<Event(0)>>) <= BufferSize - Len(sub.events)
    BY <1>1, <1>6, <2>2
  <2> QED
    BY <1>1, <1>2, <1>3, <2>2, <2>3, <2>4, <2>5, <2>6, <2>7, Extending
<1> QED
  BY <1>4, <1>5, <1>6 DEF PublishLive

\* A connection begins with exactly what the client lacks, closed by the snapshot.
LEMMA Connecting ==
  ASSUME FeedInv, observeRunEvents
  PROVE  FeedInv'
<1>1. /\ UNCHANGED <<log, unsent, printed>> /\ client' = [client EXCEPT !.at = "read", !.attempt = @ + 1]
      /\ sub' \in {NoSub, subscriber}
      /\ wire' = Append(replayFrom(client.after), Snapshot(Len(log), runObservationStopped(lastType)))
  BY DEF observeRunEvents
<1>2. PICK last \in Nat, after \in Nat : last = Len(log) /\ after = client.after /\ after <= last
  BY DEF FeedInv, FeedTypes, FeedIsExact, SnapshotMeetsCursor
<1> DEFINE size == last - after
<1>3. size \in Nat
  BY <1>2
<1>4. client' \in [after : Nat, attempt : Nat,
                 at : {"connect", "read", "stopped", "observation_lost", "protocol_error"}]
      /\ client'.after = after /\ client'.at # "protocol_error"
  <2>1. client \in [after : Nat, attempt : Nat,
                 at : {"connect", "read", "stopped", "observation_lost", "protocol_error"}]
    BY DEF FeedInv, FeedTypes
  <2>2. client' = [after |-> client.after, attempt |-> client.attempt + 1, at |-> "read"]
    BY <1>1, <2>1
  <2> QED
    BY <1>2, <2>1, <2>2
<1>5. /\ sub' \in SubscriberType /\ sub'.events = <<>> /\ sub'.pending = {}
      /\ sub'.after \in {0, last}
  <2>1. CASE sub' = NoSub
    BY <2>1 DEF NoSub, SubscriberType
  <2>2. CASE sub' = subscriber
    <3>1. subscriber = [on |-> TRUE, after |-> last, pending |-> {}, events |-> <<>>, lagged |-> FALSE]
      <4>1. subscriber = [NoSub EXCEPT !.on = TRUE, !.after = last]
        BY <1>2 DEF subscriber
      <4> QED
        BY <4>1 DEF NoSub
    <3>2. <<>> \in Seq(Items) /\ {} \in SUBSET Nat
      OBVIOUS
    <3> QED
      BY <2>2, <3>1, <3>2 DEF SubscriberType
  <2> QED
    BY <1>1, <2>1, <2>2
<1>6. PICK stopped \in BOOLEAN : stopped = runObservationStopped(lastType)
  <2>1. CASE lastType \in {"completed", "waiting", "repaired"}
    <3>1. TRUE = runObservationStopped(lastType)
      BY <2>1 DEF runObservationStopped
    <3> QED
      BY <3>1
  <2>2. CASE lastType \notin {"completed", "waiting", "repaired"}
    <3>1. FALSE = runObservationStopped(lastType)
      BY <2>2 DEF runObservationStopped
    <3> QED
      BY <3>1
  <2> QED
    BY <2>1, <2>2
<1>7. /\ wire' \in Seq(Frames) /\ Len(wire') = size + 1
      /\ wire'[size + 1] = Snapshot(last, stopped)
      /\ \A k \in 1..size : wire'[k] = Event(after + k)
  <2> DEFINE replay == [k \in 1..size |-> Event(after + k)]
  <2>1. replay = replayFrom(client.after)
    BY <1>2 DEF replayFrom
  <2>2. \A k \in 1..size : Event(after + k) \in Frames
    BY <1>2, <1>3 DEF Frames, Items
  <2>3. Snapshot(last, stopped) \in Frames
    BY <1>2 DEF Frames
  <2> HIDE DEF size
  <2>4. replay \in Seq(Frames) /\ Len(replay) = size /\ \A k \in 1..size : replay[k] = Event(after + k)
    BY <1>3, <2>2
  <2>5. wire' = Append(replay, Snapshot(last, stopped))
    BY <1>1, <1>2, <1>6, <2>1
  <2> HIDE DEF replay
  <2> QED
    BY <1>3, <2>3, <2>4, <2>5
<1>8. FeedTypes'
  BY <1>1, <1>4, <1>5, <1>7, FeedAssumption DEF FeedInv, FeedTypes
<1>9. \A k \in 1..(size + 1) :
        \/ k \in 1..size /\ wire'[k] = Event(after + k)
        \/ k = size + 1 /\ wire'[k] = Snapshot(last, stopped)
  BY <1>3, <1>7
<1>10. \A n \in (after + 1)..last : n - after \in 1..size /\ wire'[n - after] = Event(n)
  <2> SUFFICES ASSUME NEW n \in (after + 1)..last
               PROVE  n - after \in 1..size /\ wire'[n - after] = Event(n)
    OBVIOUS
  <2>1. n - after \in 1..size /\ after + (n - after) = n
    BY <1>2
  <2> HIDE DEF size
  <2> QED
    BY <1>7, <2>1
<1> HIDE DEF size
<1>11. Known'
  <2>1. \A k \in 1..size : after + k <= last
    BY <1>2, <1>3 DEF size
  <2>2. \A k \in 1..Len(wire') : wire'[k].sequence <= last
    BY <1>2, <1>3, <1>7, <1>9, <2>1 DEF Event, Snapshot
  <2> QED
    BY <1>1, <1>2, <1>5, <2>2 DEF Known
<1>12. Behind'
  <2> SUFFICES ASSUME NEW n \in (after + 1)..sub'.after
               PROVE  \E h \in 1..Len(wire') : wire'[h].frame = "event" /\ wire'[h].sequence = n
    BY <1>4 DEF Behind, onWire
  <2>1. n \in (after + 1)..last
    BY <1>2, <1>5
  <2>2. n - after \in 1..Len(wire') /\ wire'[n - after] = Event(n)
    BY <1>3, <1>7, <1>10, <2>1
  <2>3. Event(n).frame = "event" /\ Event(n).sequence = n
    BY DEF Event
  <2>4. wire'[n - after].frame = "event" /\ wire'[n - after].sequence = n
    BY <2>2, <2>3
  <2> QED
    BY <2>2, <2>4
<1>13. Buffered'
  BY <1>5 DEF Buffered
<1>14. Closed'
  <2> SUFFICES ASSUME NEW k \in 1..(size + 1), wire'[k].frame = "run.snapshot"
               PROVE  /\ wire'[k].sequence = after + k - 1
                      /\ \A h \in 1..(k - 1) : wire'[h] = Event(after + h)
    BY <1>4, <1>7 DEF Closed
  <2>1. k = size + 1 /\ wire'[k] = Snapshot(last, stopped)
    <3>1. CASE k \in 1..size /\ wire'[k] = Event(after + k)
      BY <3>1 DEF Event
    <3> QED
      BY <1>9, <3>1
  <2>2. after + k - 1 = last
    BY <1>2, <2>1 DEF size
  <2>3. k - 1 = size
    BY <1>3, <2>1
  <2> QED
    BY <1>7, <2>1, <2>2, <2>3 DEF Snapshot
<1>15. StreamHasNoGap'
  <2> SUFFICES ASSUME NEW k \in 1..(size + 1), wire'[k].frame = "event",
                      NEW n \in (after + 1)..(wire'[k].sequence - 1)
               PROVE  \E h \in 1..(k - 1) : wire'[h].frame = "event" /\ wire'[h].sequence = n
    BY <1>4, <1>7 DEF StreamHasNoGap
  <2>1. k \in 1..size /\ wire'[k] = Event(after + k)
    BY <1>9 DEF Snapshot
  <2>2. wire'[k].sequence = after + k
    BY <2>1 DEF Event
  <2>3. n - after \in 1..(k - 1) /\ n - after \in 1..size /\ after + (n - after) = n
    BY <1>2, <1>3, <2>1, <2>2
  <2>4. wire'[n - after] = Event(n)
    BY <1>7, <2>3
  <2> QED
    BY <2>3, <2>4 DEF Event
<1>16. FeedIsExact'
  BY <1>1, <1>2, <1>4, <1>15 DEF FeedInv, FeedIsExact, PrintsEveryEventOnce, SnapshotMeetsCursor
<1> QED
  BY <1>8, <1>11, <1>12, <1>13, <1>14, <1>16 DEF FeedInv

\* A frame written is the head of the buffer, behind everything before it; or it is no event.
LEMMA Writing ==
  ASSUME FeedInv, NEW item \in Frames, wire' = Append(wire, item), item.sequence <= Len(log),
         item.frame # "run.snapshot",
         \/ sub.events # <<>> /\ item = Head(sub.events) /\ sub' = [sub EXCEPT !.events = Tail(@)]
         \/ sub.events # <<>> /\ item = Head(sub.events) /\ sub' = NoSub
         \/ item = ErrorFrame /\ sub' = NoSub,
         UNCHANGED <<log, unsent, client, printed>>
  PROVE  FeedInv'
<1>1. /\ wire \in Seq(Frames) /\ Len(wire) \in Nat /\ Len(log) \in Nat /\ client.after \in Nat
      /\ sub \in SubscriberType /\ sub.events \in Seq(Items) /\ Len(sub.events) \in Nat /\ sub.after \in Nat
  BY DEF FeedInv, FeedTypes, SubscriberType
<1>2. /\ wire' \in Seq(Frames) /\ Len(wire') = Len(wire) + 1 /\ wire'[Len(wire) + 1] = item
      /\ \A k \in 1..Len(wire) : wire'[k] = wire[k]
  BY <1>1
<1> DEFINE rest == Tail(sub.events)
<1>3. sub.events # <<>> => /\ rest \in Seq(Items) /\ Len(rest) = Len(sub.events) - 1
                           /\ \A k \in 1..Len(rest) : rest[k] = sub.events[k + 1]
                           /\ Head(sub.events) = sub.events[1]
  BY <1>1
<1>4. NoSub \in SubscriberType /\ NoSub.events = <<>> /\ NoSub.after = 0 /\ NoSub.pending = {}
  BY DEF NoSub, SubscriberType
<1>5. /\ sub' \in SubscriberType /\ Len(sub'.events) <= BufferSize
      /\ \/ sub' = NoSub
         \/ /\ sub.events # <<>> /\ sub'.events = rest /\ sub'.after = sub.after /\ sub'.pending = sub.pending
            /\ item = sub.events[1] /\ item.frame = "event"
  <2>1. CASE sub' = NoSub
    BY <1>4, <2>1, FeedAssumption
  <2>2. CASE sub.events # <<>> /\ item = Head(sub.events) /\ sub' = [sub EXCEPT !.events = Tail(@)]
    <3>1. sub'.events = rest /\ sub'.after = sub.after /\ sub'.pending = sub.pending
      BY <1>1, <2>2 DEF SubscriberType
    <3> HIDE DEF rest
    <3>2. sub' \in SubscriberType
      BY <1>1, <1>3, <2>2, <3>1 DEF SubscriberType
    <3>3. Len(sub'.events) <= BufferSize
      BY <1>1, <1>3, <2>2, <3>1, FeedAssumption DEF FeedInv, FeedTypes
    <3>4. item = sub.events[1] /\ sub.events[1] \in Items
      BY <1>1, <1>3, <2>2
    <3> QED
      BY <2>2, <3>1, <3>2, <3>3, <3>4 DEF Items, Event
  <2> QED
    BY <2>1, <2>2
<1> HIDE DEF rest
<1>6. FeedTypes'
  BY <1>2, <1>5 DEF FeedInv, FeedTypes
<1>7. \A k \in 1..Len(wire') : (k \in 1..Len(wire) /\ wire'[k] = wire[k]) \/ (k = Len(wire) + 1 /\ wire'[k] = item)
  BY <1>1, <1>2
<1>8. Known'
  <2>1. \A k \in 1..Len(wire') : wire'[k].sequence <= Len(log)
    BY <1>7 DEF FeedInv, Known
  <2>2. sub'.after <= Len(log) /\ \A n \in sub'.pending : n <= Len(log)
    BY <1>1, <1>4, <1>5 DEF FeedInv, Known
  <2>3. \A k \in 1..Len(sub'.events) : sub'.events[k].sequence <= Len(log)
    <3>1. CASE sub' = NoSub
      BY <1>4, <3>1
    <3>2. CASE sub' # NoSub
      <4>1. \A k \in 1..Len(rest) : k + 1 \in 1..Len(sub.events)
        BY <1>1, <1>3, <1>5, <3>2
      <4> QED
        BY <1>3, <1>5, <3>2, <4>1 DEF FeedInv, Known
    <3> QED
      BY <3>1, <3>2
  <2> QED
    BY <2>1, <2>2, <2>3 DEF Known
<1> DEFINE shown(n) == \E h \in 1..Len(wire') : wire'[h].frame = "event" /\ wire'[h].sequence = n
           kept(n, k) == \E h \in 1..k : sub'.events[h].sequence = n
<1>9. \A n \in Nat : onWire(n) => shown(n)
  BY <1>1, <1>2 DEF onWire
<1>10. ASSUME sub' # NoSub, NEW n \in Nat, NEW k \in Nat, k <= Len(sub.events), buffered(n, k)
       PROVE  shown(n) \/ (k > 0 /\ kept(n, k - 1))
  <2>1. PICK h \in 1..k : sub.events[h].sequence = n
    BY <1>10 DEF buffered
  <2>2. CASE h = 1
    <3>1. wire'[Len(wire) + 1].frame = "event" /\ wire'[Len(wire) + 1].sequence = n
      BY <1>2, <1>5, <1>10, <2>1, <2>2
    <3>2. Len(wire) + 1 \in 1..Len(wire')
      BY <1>1, <1>2
    <3> QED
      BY <3>1, <3>2
  <2>3. CASE h # 1
    <3>1. h - 1 \in 1..(k - 1) /\ k > 0 /\ h - 1 \in 1..(Len(sub.events) - 1) /\ (h - 1) + 1 = h
      BY <1>1, <1>10, <2>3
    <3>2. sub'.events[h - 1].sequence = n
      BY <1>3, <1>5, <1>10, <2>1, <3>1
    <3> QED
      BY <3>1, <3>2
  <2> QED
    BY <2>2, <2>3
<1> HIDE DEF shown, kept
<1>11. Behind'
  <2> SUFFICES ASSUME NEW n \in (client.after + 1)..sub'.after
               PROVE  shown(n) \/ kept(n, Len(sub'.events))
    BY DEF Behind, onWire, buffered, shown, kept
  <2>1. sub' # NoSub /\ n \in (client.after + 1)..sub.after /\ n \in Nat
    BY <1>1, <1>4, <1>5
  <2>2. onWire(n) \/ buffered(n, Len(sub.events))
    BY <2>1 DEF FeedInv, Behind
  <2>3. Len(sub.events) - 1 = Len(sub'.events)
    BY <1>3, <1>5, <2>1
  <2>4. buffered(n, Len(sub.events)) => shown(n) \/ kept(n, Len(sub.events) - 1)
    <3>1. Len(sub.events) \in Nat /\ Len(sub.events) <= Len(sub.events)
      BY <1>1
    <3> QED
      BY <1>10, <2>1, <3>1
  <2> QED
    BY <1>9, <2>1, <2>2, <2>3, <2>4
<1>12. Buffered'
  <2> SUFFICES ASSUME NEW k \in 1..Len(sub'.events), NEW n \in (client.after + 1)..(sub'.events[k].sequence - 1)
               PROVE  shown(n) \/ kept(n, k - 1)
    BY DEF Buffered, onWire, buffered, shown, kept
  <2>1. sub' # NoSub
    BY <1>4
  <2>2. Len(sub.events) - 1 = Len(sub'.events) /\ sub'.events[k] = sub.events[k + 1]
    BY <1>3, <1>5, <2>1
  <2>3. k + 1 \in 1..Len(sub.events) /\ k \in Nat /\ k <= Len(sub.events) /\ (k + 1) - 1 = k
    <3>1. PICK m \in Nat : m = Len(sub.events)
      BY <1>1
    <3>2. k \in 1..(m - 1)
      BY <2>2, <3>1
    <3>3. k + 1 \in 1..m /\ k \in Nat /\ k <= m /\ (k + 1) - 1 = k
      BY <3>2
    <3> QED
      BY <3>1, <3>3
  <2>4. n \in Nat /\ n \in (client.after + 1)..(sub.events[k + 1].sequence - 1)
    <3>1. PICK c \in Nat : c = client.after
      BY <1>1
    <3>2. n \in (c + 1)..(sub.events[k + 1].sequence - 1)
      BY <2>2, <3>1
    <3>3. n \in Nat
      BY <3>2
    <3> QED
      BY <3>1, <3>2, <3>3
  <2>5. onWire(n) \/ buffered(n, k)
    BY <2>3, <2>4 DEF FeedInv, Buffered
  <2> QED
    BY <1>9, <1>10, <2>1, <2>3, <2>4, <2>5
<1>13. Closed'
  <2> SUFFICES ASSUME NEW k \in 1..Len(wire'), wire'[k].frame = "run.snapshot"
               PROVE  /\ wire'[k].sequence = client.after + k - 1
                      /\ \A h \in 1..(k - 1) : wire'[h] = Event(client.after + h)
    BY DEF Closed
  <2>1. k \in 1..Len(wire) /\ wire'[k] = wire[k]
    BY <1>7
  <2>2. \A h \in 1..(k - 1) : h \in 1..Len(wire)
    BY <1>1, <2>1
  <2> QED
    BY <1>2, <2>1, <2>2 DEF FeedInv, Closed
<1>14. StreamHasNoGap'
  <2> SUFFICES ASSUME NEW k \in 1..Len(wire'), wire'[k].frame = "event", wire'[k].sequence > 0,
                      NEW n \in (client.after + 1)..(wire'[k].sequence - 1)
               PROVE  \E h \in 1..(k - 1) : wire'[h].frame = "event" /\ wire'[h].sequence = n
    BY DEF StreamHasNoGap
  <2>1. CASE k \in 1..Len(wire) /\ wire'[k] = wire[k]
    <3>1. PICK h \in 1..(k - 1) : wire[h].frame = "event" /\ wire[h].sequence = n
      BY <2>1 DEF FeedInv, FeedIsExact, StreamHasNoGap
    <3>2. h \in 1..Len(wire)
      BY <1>1, <2>1
    <3> QED
      BY <1>2, <3>1, <3>2
  <2>2. CASE k = Len(wire) + 1 /\ wire'[k] = item
    <3>1. item # ErrorFrame
      BY <2>2 DEF ErrorFrame
    <3>2. item = sub.events[1] /\ 1 \in 1..Len(sub.events) /\ n \in Nat
      BY <1>1, <1>3, <3>1
    <3>3. onWire(n) \/ buffered(n, 1 - 1)
      BY <2>2, <3>2 DEF FeedInv, Buffered
    <3>4. ~ buffered(n, 1 - 1)
      BY DEF buffered
    <3>5. PICK h \in 1..Len(wire) : wire[h].frame = "event" /\ wire[h].sequence = n
      BY <3>3, <3>4 DEF onWire
    <3>6. h \in 1..(k - 1)
      BY <1>1, <2>2
    <3> QED
      BY <1>2, <3>5, <3>6
  <2> QED
    BY <1>7, <2>1, <2>2
<1>15. FeedIsExact'
  BY <1>14 DEF FeedInv, FeedIsExact, PrintsEveryEventOnce, SnapshotMeetsCursor
<1> QED
  BY <1>6, <1>8, <1>11, <1>12, <1>13, <1>15 DEF FeedInv

LEMMA Nearer ==
  ASSUME NEW c \in Nat, NEW m \in Nat, NEW j \in 1..(m - 1), NEW h \in 1..(j - 1)
  PROVE  h + 1 \in 1..j /\ h \in 1..(m - 1) /\ c + (h + 1) = (c + 1) + h
OBVIOUS

LEMMA Numbered == \A f \in Frames : f.sequence \in Int
BY DEF Frames, Items, Event, Snapshot, ErrorFrame

\* A frame read: an event that is next, one that says nothing new, or a snapshot.
LEMMA Reading ==
  ASSUME FeedInv, NEW a \in Nat, wire # <<>>, wire' = Tail(wire), client'.after = a,
         \/ Head(wire).frame = "event" /\ Head(wire).sequence <= client.after /\ a = client.after
         \/ Head(wire).frame = "event" /\ Head(wire).sequence = client.after + 1 /\ a = client.after + 1
         \/ Head(wire).frame = "run.snapshot" /\ a = client.after,
         client' \in [after : Nat, attempt : Nat,
           at : {"connect", "read", "stopped", "observation_lost", "protocol_error"}],
         client'.at # "protocol_error", a <= Len(log), printed' = [k \in 1..a |-> k],
         UNCHANGED <<log, unsent, sub>>
  PROVE  FeedInv'
<1>1. PICK c \in Nat, m \in Nat : c = client.after /\ m = Len(wire) /\ m > 0
  BY DEF FeedInv, FeedTypes
<1>2. /\ wire \in Seq(Frames) /\ wire' \in Seq(Frames) /\ Len(wire') = m - 1 /\ Head(wire) = wire[1]
      /\ \A k \in 1..(m - 1) : wire'[k] = wire[k + 1]
  BY <1>1 DEF FeedInv, FeedTypes
<1>3. \/ wire[1].frame = "event" /\ wire[1].sequence <= c /\ a = c
      \/ wire[1].frame = "event" /\ wire[1].sequence = c + 1 /\ a = c + 1
      \/ wire[1].frame = "run.snapshot" /\ a = c
  BY <1>1, <1>2
<1>4. a >= c /\ (wire[1].frame = "event" => wire[1].sequence <= a)
  BY <1>1, <1>3
<1>5. \A k \in 1..(m - 1) : k + 1 \in 1..m /\ (k + 1) - 1 = k
  BY <1>1
<1>6. FeedTypes'
  BY <1>2 DEF FeedInv, FeedTypes
<1>7. Known'
  BY <1>1, <1>2, <1>5 DEF FeedInv, Known
\* What the client has not reached is found where it was, one place nearer.
<1> DEFINE was(n, k) == \E h \in 1..k : wire[h].frame = "event" /\ wire[h].sequence = n
           is(n, k) == \E h \in 1..k : wire'[h].frame = "event" /\ wire'[h].sequence = n
<1>8. \A n \in Int : n > a => \A k \in 1..m : was(n, k) => is(n, k - 1)
  <2> SUFFICES ASSUME NEW n \in Int, n > a, NEW k \in 1..m,
                      \E h \in 1..k : wire[h].frame = "event" /\ wire[h].sequence = n
               PROVE  \E h \in 1..(k - 1) : wire'[h].frame = "event" /\ wire'[h].sequence = n
    OBVIOUS
  <2>1. PICK h \in 1..k : wire[h].frame = "event" /\ wire[h].sequence = n
    OBVIOUS
  <2>2. h # 1
    BY <1>4, <2>1
  <2>3. h - 1 \in 1..(k - 1) /\ h - 1 \in 1..(m - 1) /\ (h - 1) + 1 = h
    BY <1>1, <2>2
  <2>4. wire'[h - 1] = wire[h]
    BY <1>2, <2>3
  <2> QED
    BY <2>1, <2>3, <2>4
<1>9. \A n \in Int : n > a /\ onWire(n) => \E h \in 1..(m - 1) : wire'[h].frame = "event" /\ wire'[h].sequence = n
  <2> SUFFICES ASSUME NEW n \in Int, n > a, onWire(n)
               PROVE  \E h \in 1..(m - 1) : wire'[h].frame = "event" /\ wire'[h].sequence = n
    OBVIOUS
  <2>1. \E h \in 1..m : wire[h].frame = "event" /\ wire[h].sequence = n
    BY <1>1 DEF onWire
  <2>2. m \in 1..m
    BY <1>1
  <2> QED
    BY <1>8, <2>1, <2>2
<1>10. sub.after \in Int
  BY DEF FeedInv, FeedTypes, SubscriberType
<1>11. Behind'
  <2> SUFFICES ASSUME NEW n \in (a + 1)..sub.after
               PROVE  \/ \E h \in 1..(m - 1) : wire'[h].frame = "event" /\ wire'[h].sequence = n
                      \/ buffered(n, Len(sub.events))
    BY <1>2 DEF Behind, onWire, buffered
  <2>1. n \in Int /\ n > a /\ n \in (c + 1)..sub.after
    BY <1>4, <1>10
  <2>2. onWire(n) \/ buffered(n, Len(sub.events))
    BY <1>1, <2>1 DEF FeedInv, Behind
  <2> QED
    BY <1>9, <2>1, <2>2
<1>12. Buffered'
  <2> SUFFICES ASSUME NEW k \in 1..Len(sub'.events),
                      NEW n \in (client'.after + 1)..(sub'.events[k].sequence - 1)
               PROVE  \/ \E h \in 1..Len(wire') : wire'[h].frame = "event" /\ wire'[h].sequence = n
                      \/ \E h \in 1..(k - 1) : sub'.events[h].sequence = n
    BY DEF Buffered, onWire, buffered
  <2>0. sub' = sub /\ k \in 1..Len(sub.events)
    OBVIOUS
  <2>1. PICK q \in Int : q = sub.events[k].sequence
    <3>1. sub.events[k] \in Items
      BY <2>0 DEF FeedInv, FeedTypes, SubscriberType
    <3> QED
      BY <3>1 DEF Items, Event
  <2>2. n \in (a + 1)..(q - 1)
    BY <2>0, <2>1
  <2>3. n \in Int /\ n > a /\ n \in (c + 1)..(q - 1)
    BY <1>4, <2>2
  <2>4. onWire(n) \/ buffered(n, k - 1)
    BY <1>1, <2>0, <2>1, <2>3 DEF FeedInv, Buffered
  <2>5. CASE onWire(n)
    BY <1>2, <1>9, <2>3, <2>5
  <2>6. CASE buffered(n, k - 1)
    BY <2>0, <2>6 DEF buffered
  <2> QED
    BY <2>4, <2>5, <2>6
<1>13. Closed'
  <2> SUFFICES ASSUME NEW k \in 1..(m - 1), wire'[k].frame = "run.snapshot"
               PROVE  /\ wire'[k].sequence = a + k - 1
                      /\ \A h \in 1..(k - 1) : wire'[h] = Event(a + h)
    BY <1>2 DEF Closed
  <2>1. k + 1 \in 1..m /\ wire[k + 1].frame = "run.snapshot" /\ (k + 1) - 1 = k /\ k \in Nat /\ 1 \in 1..k
    BY <1>1, <1>2, <1>5
  <2>2. wire[k + 1].sequence = c + (k + 1) - 1 /\ \A h \in 1..k : wire[h] = Event(c + h)
    BY <1>1, <2>1 DEF FeedInv, Closed
  <2>3. wire[1] = Event(c + 1)
    BY <2>1, <2>2
  <2>4. a = c + 1
    BY <1>1, <1>3, <2>3 DEF Event
  <2>5. wire'[k].sequence = a + k - 1
    <3>1. c + (k + 1) - 1 = a + k - 1
      BY <1>1, <2>1, <2>4
    <3>2. wire'[k] = wire[k + 1]
      BY <1>2
    <3> QED
      BY <2>2, <3>1, <3>2
  <2>6. \A h \in 1..(k - 1) : h + 1 \in 1..k /\ h \in 1..(m - 1) /\ c + (h + 1) = (c + 1) + h
    <3> SUFFICES ASSUME NEW h \in 1..(k - 1)
                 PROVE  h + 1 \in 1..k /\ h \in 1..(m - 1) /\ c + (h + 1) = (c + 1) + h
      OBVIOUS
    <3> QED
      BY Nearer
  <2>7. ASSUME NEW h \in 1..(k - 1)
        PROVE  wire'[h] = Event(a + h)
    <3>1. wire'[h] = wire[h + 1] /\ wire[h + 1] = Event(c + (h + 1))
      BY <1>2, <2>2, <2>6
    <3> QED
      BY <2>4, <2>6, <3>1
  <2> QED
    BY <2>5, <2>7
<1>14. StreamHasNoGap'
  <2> SUFFICES ASSUME NEW k \in 1..Len(wire'), wire'[k].frame = "event",
                      NEW n \in (client'.after + 1)..(wire'[k].sequence - 1)
               PROVE  \E h \in 1..(k - 1) : wire'[h].frame = "event" /\ wire'[h].sequence = n
    BY DEF StreamHasNoGap
  <2>1. k \in 1..(m - 1) /\ k + 1 \in 1..m /\ wire'[k] = wire[k + 1] /\ (k + 1) - 1 = k /\ k \in 1..m
    BY <1>1, <1>2, <1>5
  <2>2. PICK q \in Int : q = wire[k + 1].sequence
    <3>1. wire[k + 1] \in Frames
      BY <1>1, <1>2, <2>1
    <3> QED
      BY <3>1, Numbered
  <2>3. n \in (a + 1)..(q - 1)
    BY <2>1, <2>2
  <2>4. n \in Int /\ n > a /\ n \in (c + 1)..(q - 1) /\ q > 0
    BY <1>4, <2>3
  <2>5. \E h \in 1..k : wire[h].frame = "event" /\ wire[h].sequence = n
    <3>1. wire[k + 1].frame = "event" /\ wire[k + 1].sequence > 0
      BY <2>1, <2>2, <2>4
    <3>2. n \in (client.after + 1)..(wire[k + 1].sequence - 1)
      BY <1>1, <2>2, <2>4
    <3>3. k + 1 \in 1..Len(wire)
      BY <1>1, <2>1
    <3>4. \E h \in 1..((k + 1) - 1) : wire[h].frame = "event" /\ wire[h].sequence = n
      BY <3>1, <3>2, <3>3 DEF FeedInv, FeedIsExact, StreamHasNoGap
    <3> QED
      BY <2>1, <3>4
  <2> QED
    <3>1. k \in 1..m
      BY <2>1
    <3>2. n \in Int /\ n > a
      BY <2>4
    <3>3. was(n, k)
      BY <2>5
    <3> HIDE DEF was, is
    <3>4. is(n, k - 1)
      BY <1>8, <3>1, <3>2, <3>3
    <3> QED
      BY <3>4 DEF is
<1>15. FeedIsExact'
  BY <1>14 DEF FeedIsExact, PrintsEveryEventOnce, SnapshotMeetsCursor
<1> QED
  BY <1>6, <1>7, <1>11, <1>12, <1>13, <1>15 DEF FeedInv

LEMMA FeedBegins == FeedInit => FeedInv
<1> SUFFICES ASSUME FeedInit
             PROVE  FeedInv
  OBVIOUS
<1>1. NoSub \in SubscriberType /\ NoSub.events = <<>> /\ NoSub.after = 0 /\ NoSub.pending = {}
  BY DEF NoSub, SubscriberType
<1>2. FeedTypes
  BY <1>1, FeedAssumption DEF FeedInit, FeedTypes
<1>3. Known /\ Behind /\ Buffered /\ Closed
  BY <1>1, SMT DEF FeedInit, Known, Behind, Buffered, Closed
<1>4. FeedIsExact
  BY SMT DEF FeedInit, FeedIsExact, PrintsEveryEventOnce, SnapshotMeetsCursor, StreamHasNoGap
<1> QED
  BY <1>2, <1>3, <1>4 DEF FeedInv

LEMMA FeedGoesOn == FeedInv /\ [FeedNext]_feedVars => FeedInv'
<1> SUFFICES ASSUME FeedInv, [FeedNext]_feedVars
             PROVE  FeedInv'
  OBVIOUS
<1> DEFINE Observers == [after : Nat, attempt : Nat,
                at : {"connect", "read", "stopped", "observation_lost", "protocol_error"}]
<1>1. /\ client \in Observers /\ client.after \in Nat /\ Len(log) \in Nat /\ client.after <= Len(log)
      /\ printed = [k \in 1..client.after |-> k] /\ client.at # "protocol_error"
      /\ \A k \in 1..Len(sub.events) : sub.events[k].sequence <= Len(log)
      /\ \A k \in 1..Len(wire) : wire[k].sequence <= Len(log)
  BY DEF FeedInv, FeedTypes, Known, FeedIsExact, PrintsEveryEventOnce, SnapshotMeetsCursor
<1>2. ASSUME NEW n \in 1..MaxEvents, PublishCommitted(n)
      PROVE  FeedInv'
  <2>1. n \in Nat
    BY <1>2 DEF FeedInv, FeedTypes, PublishCommitted
  <2> QED
    BY <1>2, <2>1, Publishing
<1>3. CASE WriteEvent
  <2>1. sub.events \in Seq(Items) /\ sub.events # <<>>
    BY <1>3 DEF FeedInv, FeedTypes, SubscriberType, WriteEvent
  <2>2. PICK item \in Items : item = Head(sub.events) /\ item = sub.events[1] /\ 1 \in 1..Len(sub.events)
    BY <2>1
  <2>3. item \in Frames /\ item.frame = "event" /\ item.sequence <= Len(log)
    BY <1>1, <2>2 DEF Frames, Items, Event
  <2>4. /\ wire' = Append(wire, item) /\ UNCHANGED <<log, unsent, client, printed>>
        /\ sub' = NoSub \/ sub' = [sub EXCEPT !.events = Tail(@)]
    BY <1>3, <2>2 DEF WriteEvent
  <2> QED
    BY <2>1, <2>2, <2>3, <2>4, Writing DEF Event
<1>4. CASE WriteLagged
  <2>1. ErrorFrame \in Frames /\ ErrorFrame.sequence <= Len(log) /\ ErrorFrame.frame # "run.snapshot"
    BY <1>1 DEF ErrorFrame, Frames
  <2>2. UNCHANGED <<log, unsent, client, printed>> /\ sub' = NoSub
    BY <1>4 DEF WriteLagged
  <2>3. CASE wire' = Append(wire, ErrorFrame)
    BY <2>1, <2>2, <2>3, Writing
  <2>4. CASE UNCHANGED wire
    <3>1. NoSub \in SubscriberType /\ NoSub.events = <<>> /\ NoSub.after = 0 /\ NoSub.pending = {}
      BY DEF NoSub, SubscriberType
    <3>2. FeedTypes' /\ Known'
      BY <1>1, <2>2, <2>4, <3>1, FeedAssumption DEF FeedInv, FeedTypes, Known
    <3>3. Behind' /\ Buffered'
      BY <1>1, <2>2, <2>4, <3>1 DEF Behind, Buffered
    <3>4. Closed' /\ FeedIsExact'
      BY <2>2, <2>4
      DEF FeedInv, Closed, FeedIsExact, PrintsEveryEventOnce, SnapshotMeetsCursor, StreamHasNoGap
    <3> QED
      BY <3>2, <3>3, <3>4 DEF FeedInv
  <2> QED
    BY <1>4, <2>3, <2>4 DEF WriteLagged
<1>5. ASSUME NEW c, closesAs(c), c \in Observers, c.after = client.after, c.at # "protocol_error",
             UNCHANGED <<log, unsent, printed>>
      PROVE  FeedInv'
  BY <1>1, <1>5, Closing
<1>6. reconnects(client) \in Observers /\ reconnects(client).after = client.after /\ reconnects(client).at # "protocol_error"
  <2>1. CASE client.attempt < MaxConnections
    <3>1. reconnects(client) = [after |-> client.after, attempt |-> client.attempt, at |-> "connect"]
      BY <1>1, <2>1 DEF reconnects
    <3> QED
      BY <1>1, <3>1
  <2>2. CASE ~ client.attempt < MaxConnections
    <3>1. reconnects(client) = [after |-> client.after, attempt |-> client.attempt, at |-> "observation_lost"]
      BY <1>1, <2>2 DEF reconnects
    <3> QED
      BY <1>1, <3>1
  <2> QED
    BY <2>1, <2>2
<1>7. CASE Break
  <2>1. UNCHANGED <<log, unsent, client, printed>> /\ wire' = <<>> /\ sub' = NoSub
    BY <1>7 DEF Break
  <2>2. NoSub \in SubscriberType /\ NoSub.events = <<>> /\ NoSub.after = 0 /\ NoSub.pending = {}
    BY DEF NoSub, SubscriberType
  <2>3. FeedTypes' /\ Known'
    BY <1>1, <2>1, <2>2, FeedAssumption DEF FeedInv, FeedTypes, Known
  <2>4. Behind' /\ Buffered' /\ Closed' /\ StreamHasNoGap'
    BY <1>1, <2>1, <2>2 DEF Behind, Buffered, Closed, StreamHasNoGap
  <2>5. FeedIsExact'
    BY <2>1, <2>4 DEF FeedInv, FeedIsExact, PrintsEveryEventOnce, SnapshotMeetsCursor
  <2> QED
    BY <2>3, <2>4, <2>5 DEF FeedInv
<1>8. wire # <<>> => wire \in Seq(Frames) /\ 1 \in 1..Len(wire) /\ Head(wire) = wire[1]
  BY DEF FeedInv, FeedTypes
<1>9. CASE ReadEvent
  <2>1. wire # <<>> /\ Head(wire) = wire[1] /\ 1 \in 1..Len(wire) /\ wire[1].frame = "event" /\ UNCHANGED <<log, unsent>>
    BY <1>8, <1>9 DEF ReadEvent
  <2>2. PICK n \in Nat : n = wire[1].sequence /\ n <= Len(log)
    <3>1. wire[1] \in Frames
      BY <1>8, <2>1
    <3>2. wire[1].sequence \in Nat
      BY <3>1 DEF Frames, Items, Event, Snapshot, ErrorFrame
    <3> QED
      BY <1>1, <2>1, <3>2
  <2>3. \/ wire' = Tail(wire) /\ n <= client.after /\ UNCHANGED <<client, sub, printed>>
        \/ closesAs(reconnects(client)) /\ UNCHANGED printed
        \/ n = 0 /\ UNCHANGED <<client, sub, printed>> /\ wire' = Tail(wire)
        \/ /\ n = client.after + 1 /\ printed' = Append(printed, n)
           /\ \/ closesAs([client EXCEPT !.after = n, !.at = "stopped"])
              \/ wire' = Tail(wire) /\ UNCHANGED sub /\ client' = [client EXCEPT !.after = n]
    <3>1. CASE n > 0 /\ alreadyPrinted(n) /\ wire' = Tail(wire) /\ UNCHANGED <<client, conn, sub, printed>>
      BY <3>1 DEF alreadyPrinted
    <3>2. CASE closesAs(reconnects(client)) /\ UNCHANGED printed
      BY <3>2
    <3>3. CASE n = 0 /\ printed' = printed /\ wire' = Tail(wire) /\ UNCHANGED <<conn, sub>> /\ client' = client
      BY <3>3
    <3>4. CASE /\ n # 0 /\ ~ alreadyPrinted(n) /\ n <= client.after + 1 /\ printed' = Append(printed, n)
               /\ \/ closesAs([client EXCEPT !.after = n, !.at = "stopped"])
                  \/ wire' = Tail(wire) /\ UNCHANGED <<conn, sub>> /\ client' = [client EXCEPT !.after = n]
      <4>1. n = client.after + 1
        BY <1>1, <2>2, <3>4 DEF alreadyPrinted
      <4> QED
        BY <3>4, <4>1
    <3> QED
      <4>1. \/ n > 0 /\ alreadyPrinted(n) /\ wire' = Tail(wire) /\ UNCHANGED <<client, conn, sub, printed>>
            \/ closesAs(reconnects(client)) /\ UNCHANGED printed
            \/ /\ n = 0 \/ (~ alreadyPrinted(n) /\ n <= client.after + 1)
               /\ printed' = IF n = 0 THEN printed ELSE Append(printed, n)
               /\ IF n > 0 /\ log[n] \in {"completed", "waiting", "repaired"}
                  THEN closesAs([client EXCEPT !.after = n, !.at = "stopped"])
                  ELSE /\ wire' = Tail(wire) /\ UNCHANGED <<conn, sub>>
                       /\ client' = IF n = 0 THEN client ELSE [client EXCEPT !.after = n]
        BY <1>9, <2>1, <2>2 DEF ReadEvent, runEventStopsObservation
      <4> QED
        BY <2>2, <3>1, <3>2, <3>3, <3>4, <4>1
  <2>4. CASE n <= client.after /\ wire' = Tail(wire) /\ UNCHANGED <<client, sub, printed>>
    BY <1>1, <2>1, <2>2, <2>4, Reading
  <2>5. CASE closesAs(reconnects(client)) /\ UNCHANGED printed
    BY <1>5, <1>6, <2>1, <2>5
  <2>6. CASE n = client.after + 1 /\ printed' = Append(printed, n)
    <3>1. printed' = [k \in 1..n |-> k]
      BY <1>1, <2>6
    <3>2. CASE closesAs([client EXCEPT !.after = n, !.at = "stopped"])
      <4>1. PICK c : c = [after |-> n, attempt |-> client.attempt, at |-> "stopped"]
        OBVIOUS
      <4>2. c = [client EXCEPT !.after = n, !.at = "stopped"]
        <5>1. PICK d : d = [client EXCEPT !.after = n]
          OBVIOUS
        <5>2. d = [after |-> n, attempt |-> client.attempt, at |-> client.at]
          BY <1>1, <5>1
        <5>3. [d EXCEPT !.at = "stopped"] = c
          BY <4>1, <5>2
        <5>4. [client EXCEPT !.after = n, !.at = "stopped"] = [d EXCEPT !.at = "stopped"]
          BY <5>1, Zenon
        <5> QED
          BY <5>3, <5>4
      <4>3. c \in Observers
        BY <1>1, <4>1
      <4> QED
        BY <2>1, <2>2, <3>1, <3>2, <4>1, <4>2, <4>3, Closing
    <3>3. CASE wire' = Tail(wire) /\ UNCHANGED sub /\ client' = [client EXCEPT !.after = n]
      <4>1. client' \in Observers /\ client'.after = n /\ client'.at # "protocol_error"
        BY <1>1, <3>3
      <4> QED
        BY <1>1, <2>1, <2>2, <2>6, <3>1, <3>3, <4>1, Reading
    <3> QED
      BY <2>3, <2>6, <3>2, <3>3
  <2> QED
    BY <1>1, <2>2, <2>3, <2>4, <2>5, <2>6
<1>10. CASE ReadSnapshot
  <2>1. /\ wire # <<>> /\ Head(wire) = wire[1] /\ 1 \in 1..Len(wire) /\ wire[1].frame = "run.snapshot"
        /\ UNCHANGED <<log, unsent, printed>>
    BY <1>8, <1>10 DEF ReadSnapshot
  <2>2. wire[1].sequence = client.after
    BY <1>1, <2>1 DEF FeedInv, Closed
  <2>3. CASE closesAs([client EXCEPT !.at = "stopped"])
    <3>1. PICK c : c = [after |-> client.after, attempt |-> client.attempt, at |-> "stopped"]
      OBVIOUS
    <3>2. c = [client EXCEPT !.at = "stopped"] /\ c \in Observers
      BY <1>1, <3>1
    <3> QED
      BY <1>5, <2>1, <2>3, <3>1, <3>2
  <2>4. CASE wire' = Tail(wire) /\ UNCHANGED <<client, conn, sub>>
    BY <1>1, <2>1, <2>4, Reading
  <2> QED
    BY <1>10, <2>1, <2>2, <2>3, <2>4 DEF ReadSnapshot
<1>11. CASE ReadEnd
  BY <1>5, <1>6, <1>11 DEF ReadEnd
<1>12. CASE UNCHANGED feedVars
  BY <1>12
  DEF feedVars, FeedInv, FeedTypes, Known, Behind, Buffered, Closed, onWire, buffered,
      FeedIsExact, PrintsEveryEventOnce, SnapshotMeetsCursor, StreamHasNoGap
<1> QED
  BY <1>2, <1>3, <1>4, <1>7, <1>9, <1>10, <1>11, <1>12, Committing, Live, Connecting
  DEF FeedNext, Writers, Delivery

(* What a client is shown of a Run is its durable history: every event once, in sequence, up *)
(* to its cursor, whatever order the commits are published in, wherever connections break     *)
(* and however often the Hub cuts the client off (hub.go publish, SnapshotAndSubscribe,       *)
(* runclient/events.go Observe).                                                              *)
THEOREM FeedCorrect == FeedSpec => []FeedIsExact
<1>1. FeedInv => FeedIsExact
  BY DEF FeedInv
<1> QED
  BY <1>1, FeedBegins, FeedGoesOn, PTL DEF FeedSpec

----------------------------------------------------------------------------
(* The web session.  Everything that may still arrive is of the open         *)
(* conversation or has lost its lease, and a draft is that of the command    *)
(* in flight until the server has admitted the command: Held, Credited and   *)
(* Linked say so of the command, Loading of the loads.                       *)
SessionEvents == {"output", "running", "waiting_for_user", "completed", "failed_recoverable", "canceling", "canceled",
                  "repaired", "repaired_canceled"}
SessionKinds == {"submitting", "continuing", "resuming"}
Logs == Seq(SessionEvents)
RunRecord == [conv : Convs, log : Logs]
Begun == runs \in Seq(RunRecord)

\* A Run the page may show.
mayShow(r) == r \in DOMAIN runs /\ (runs[r].conv = sessionActive \/ r \in strays)
isRun(v) == v = [id |-> v.id, status |-> v.status] /\ (v # SessionNoRun => mayShow(v.id))

Displayed ==
  /\ sessionActive \in Convs /\ isRun(sessionRun)
  /\ msgs = [conv |-> sessionActive, upto |-> msgs.upto, drafts |-> msgs.drafts]

isCommand(c) ==
  /\ c = [pc |-> c.pc, id |-> c.id, kind |-> c.kind, conv |-> c.conv, run |-> c.run, pos |-> c.pos, status |-> c.status,
          feed |-> c.feed, accepted |-> c.accepted, prev |-> c.prev]
  /\ c.kind \in SessionKinds

\* The command is of the conversation and the activity on display, and so is the Run it would show.
commandShows == sessionCommand.kind # "submitting" \/ sessionCommand.feed = "events"
Held ==
  sessionCommand # NoCommand =>
    /\ isCommand(sessionCommand)
    /\ activity = sessionCommand.kind /\ sessionCommand.conv = sessionActive
    /\ isRun(sessionCommand.prev.run)
    /\ commandShows => mayShow(sessionCommand.run)

\* What the page knows of the command's admission is true, and once the command is over its
\* drafts are gone or it was admitted.
owns(d) == d[1] = sessionCommand.id
Credited ==
  sessionCommand # NoCommand =>
    /\ sessionCommand.pc \in {"opened", "stream", "done"} \/ sessionCommand.accepted => sessionCommand.id \in admitted
    /\ \A d \in msgs.drafts : owns(d) => d \in draftsOf(sessionCommand.id, sessionCommand.kind) \/ sessionCommand.id \in admitted
    /\ sessionCommand.pc \in {"reload", "end"} => sessionCommand.id \in admitted \/ \A d \in msgs.drafts : ~owns(d)

\* A request is numbered by the action that made it; only the command's own is admitted for it.
isRequest(q) == q.id \in Nat /\ q.id < acts /\ q.conv \in Convs /\ (q.kind # "submitting" => q.run \in DOMAIN runs)
isOwn(a) == a.kind = sessionCommand.kind /\ a.conv = sessionCommand.conv /\ (a.kind # "submitting" => a.run = sessionCommand.run)
Linked ==
  /\ acts \in Nat /\ \A q \in pending \cup adrift : isRequest(q)
  /\ sessionCommand # NoCommand =>
       /\ sessionCommand.id \in Nat /\ sessionCommand.id < acts
       /\ \A q \in adrift : q.id # sessionCommand.id
       /\ \A a \in pending : a.id = sessionCommand.id => isOwn(a)

loadFits(l) ==
  /\ \/ l = [conv |-> l.conv, by |-> l.by, pc |-> "fetch", live |-> l.live]
     \/ /\ l = [conv |-> l.conv, by |-> l.by, pc |-> l.pc, live |-> l.live, upto |-> l.upto, run |-> l.run, status |-> l.status, at |-> l.at]
        /\ l.pc \in {"projection", "apply"} /\ (l.run = 0 \/ (l.run \in DOMAIN runs /\ runs[l.run].conv = l.conv))
  /\ l.live \in BOOLEAN /\ l.conv \in Convs

\* One load has its lease; only an observation's asks for another conversation than the open one.
loadCounts(l) ==
  l.live => /\ l.pc # "fetch" \/ l.by # "observed" => l.conv = sessionActive
            /\ l.by = "command" => sessionCommand.pc = "reload"
            /\ l.by = "create" => sessionCommand = NoCommand
Loading ==
  /\ \A l \in loads : loadFits(l) /\ loadCounts(l)
  /\ \A l, k \in loads : l.live /\ k.live => l = k

Stopping == \A x \in cancels : x = [run |-> x.run, live |-> x.live, status |-> x.status] /\ x.run \in DOMAIN runs

isObs(o) ==
  /\ o = [live |-> o.live, key |-> o.key, run |-> o.run, conv |-> o.conv, idle |-> o.idle, pc |-> o.pc,
          pos |-> o.pos, refreshed |-> o.refreshed, attempt |-> o.attempt]
  /\ o.conv \in Convs
Observing == obs.live => isObs(obs) /\ obs.run \in DOMAIN runs

SessionInv == Begun /\ Displayed /\ DraftsAreOwned /\ Held /\ Credited /\ Linked /\ Loading /\ Stopping /\ Observing

\* Runs are only added, and keep their conversation; so do the admitted commands and the strays.
Grows == /\ Begun' /\ \A r \in DOMAIN runs : r \in DOMAIN runs' /\ runs'[r].conv = runs[r].conv
         /\ strays \subseteq strays' /\ admitted \subseteq admitted'

LEMMA RunFields ==
  ASSUME Begun, NEW q \in DOMAIN runs
  PROVE  /\ runs[q] = [conv |-> runs[q].conv, log |-> runs[q].log] /\ runs[q] \in RunRecord
         /\ runs[q].conv \in Convs /\ runs[q].log \in Logs
<1>1. runs[q] \in RunRecord
  BY DEF Begun
<1> QED BY <1>1 DEF RunRecord

LEMMA AppendGrows ==
  ASSUME Begun, NEW r \in DOMAIN runs, NEW e \in SessionEvents, runs' = appended(r, e),
         strays \subseteq strays', admitted \subseteq admitted'
  PROVE  Grows
<1> DEFINE new == [conv |-> runs[r].conv, log |-> Append(runs[r].log, e)]
<1>1. new \in RunRecord
  <2>1. runs[r].log \in Seq(SessionEvents) /\ runs[r].conv \in Convs
    BY RunFields DEF Logs
  <2>2. Append(runs[r].log, e) \in Seq(SessionEvents)
    BY <2>1
  <2> QED BY <2>1, <2>2 DEF RunRecord, Logs
<1>2. runs' = [runs EXCEPT ![r] = new]
  <2>1. runs[r] = [conv |-> runs[r].conv, log |-> runs[r].log]
    BY RunFields
  <2>2. [runs[r] EXCEPT !.log = Append(@, e)] = new
    BY <2>1
  <2> QED BY <2>2 DEF appended
<1>3. new.conv = runs[r].conv
  OBVIOUS
<1> HIDE DEF new
<1>4. runs' \in Seq(RunRecord) /\ DOMAIN runs' = DOMAIN runs
  BY <1>1, <1>2 DEF Begun
<1>5. \A q \in DOMAIN runs : runs'[q] = IF q = r THEN new ELSE runs[q]
  BY <1>2
<1> QED BY <1>3, <1>4, <1>5 DEF Grows, Begun

LEMMA FirstLog == <<"running">> \in Logs
<1>1. \A S, x : x \in S => <<x>> \in Seq(S)
  OBVIOUS
<1>2. "running" \in SessionEvents
  BY DEF SessionEvents
<1> QED BY <1>1, <1>2 DEF Logs

LEMMA StartGrows ==
  ASSUME Begun, NEW c \in Convs, runs' = Append(runs, [conv |-> c, log |-> <<"running">>]),
         strays \subseteq strays', admitted \subseteq admitted'
  PROVE  Grows /\ Len(runs) + 1 \in DOMAIN runs' /\ runs'[Len(runs) + 1].conv = c
<1> DEFINE new == [conv |-> c, log |-> <<"running">>]
<1>1. new \in RunRecord /\ new.conv = c
  BY FirstLog DEF RunRecord
<1> HIDE DEF new
<1>2. runs \in Seq(RunRecord) /\ runs' = Append(runs, new)
  BY DEF Begun, new
<1>3. runs' \in Seq(RunRecord)
  BY <1>1, <1>2
<1>4. \A q \in DOMAIN runs : q \in DOMAIN runs' /\ runs'[q] = runs[q]
  BY <1>1, <1>2
<1>5. runs'[Len(runs) + 1] = new /\ Len(runs) + 1 \in DOMAIN runs'
  BY <1>1, <1>2
<1> QED BY <1>1, <1>3, <1>4, <1>5 DEF Grows, Begun

LEMMA SameGrows == ASSUME Begun, UNCHANGED runs, strays \subseteq strays', admitted \subseteq admitted' PROVE Grows
  BY DEF Begun, Grows

LEMMA RunsCounted == ASSUME Begun PROVE SessionNoRun.id = 0 /\ 0 \notin DOMAIN runs
  BY DEF Begun, SessionNoRun

\* What may be shown stays so while the conversation does.
LEMMA ShownKept ==
  ASSUME Grows, UNCHANGED sessionActive
  PROVE  /\ \A r : mayShow(r) => mayShow(r)'
         /\ \A v : isRun(v) => isRun(v)'
BY DEF Grows, mayShow, isRun

\* The Run on display leaves it: nothing is said of an ended one.
LEMMA GoneIsNotChanged ==
  ASSUME Begun, Displayed, sessionRun' = SessionNoRun
  PROVE  endedStaysEnded
  BY RunsCounted DEF endedStaysEnded, Displayed, isRun, mayShow

LEMMA EndedUnlessStopped ==
  ASSUME UNCHANGED cancels \/ UNCHANGED sessionRun
  PROVE  endedStaysEnded
  BY DEF endedStaysEnded

\* One field of the command changes.
SameCommand(c, d) == d.id = c.id /\ d.kind = c.kind /\ d.conv = c.conv /\ d.prev = c.prev
turnsInto(c, d, pc, itsRun, feed, accepted) ==
  isCommand(d) /\ SameCommand(c, d) /\ d.pc = pc /\ d.run = itsRun /\ d.feed = feed /\ d.accepted = accepted
commandWith(c, pc, itsRun, pos, status, feed, accepted) ==
  [pc |-> pc, id |-> c.id, kind |-> c.kind, conv |-> c.conv, run |-> itsRun, pos |-> pos, status |-> status,
   feed |-> feed, accepted |-> accepted, prev |-> c.prev]

LEMMA WithFollows ==
  ASSUME NEW c, c.kind \in SessionKinds, NEW pc, NEW itsRun, NEW pos, NEW status, NEW feed, NEW accepted
  PROVE  turnsInto(c, commandWith(c, pc, itsRun, pos, status, feed, accepted), pc, itsRun, feed, accepted)
<1> DEFINE d == commandWith(c, pc, itsRun, pos, status, feed, accepted)
<1>1. /\ d.pc = pc /\ d.run = itsRun /\ d.pos = pos /\ d.status = status /\ d.feed = feed /\ d.accepted = accepted
      /\ d.id = c.id /\ d.kind = c.kind /\ d.conv = c.conv /\ d.prev = c.prev
  BY DEF commandWith
<1>2. d = [pc |-> d.pc, id |-> d.id, kind |-> d.kind, conv |-> d.conv, run |-> d.run, pos |-> d.pos, status |-> d.status,
           feed |-> d.feed, accepted |-> d.accepted, prev |-> d.prev]
  BY <1>1 DEF commandWith
<1> HIDE DEF d
<1>3. isCommand(d) /\ SameCommand(c, d)
  BY <1>1, <1>2 DEF isCommand, SameCommand
<1>4. turnsInto(c, d, pc, itsRun, feed, accepted)
  BY <1>1, <1>3 DEF turnsInto
<1> QED BY <1>4 DEF d

LEMMA CommandFields ==
  ASSUME NEW c, isCommand(c), NEW v
  PROVE  /\ turnsInto(c, [c EXCEPT !.pc = v], v, c.run, c.feed, c.accepted)
         /\ turnsInto(c, [c EXCEPT !.run = v], c.pc, v, c.feed, c.accepted)
         /\ turnsInto(c, [c EXCEPT !.pos = v], c.pc, c.run, c.feed, c.accepted)
         /\ turnsInto(c, [c EXCEPT !.status = v], c.pc, c.run, c.feed, c.accepted)
         /\ turnsInto(c, [c EXCEPT !.feed = v], c.pc, c.run, v, c.accepted)
         /\ turnsInto(c, [c EXCEPT !.accepted = v], c.pc, c.run, c.feed, v)
<1>0. c.kind \in SessionKinds
  BY DEF isCommand
<1>1. [c EXCEPT !.pc = v] = commandWith(c, v, c.run, c.pos, c.status, c.feed, c.accepted)
  BY DEF isCommand, commandWith
<1>2. [c EXCEPT !.run = v] = commandWith(c, c.pc, v, c.pos, c.status, c.feed, c.accepted)
  BY DEF isCommand, commandWith
<1>3. [c EXCEPT !.pos = v] = commandWith(c, c.pc, c.run, v, c.status, c.feed, c.accepted)
  BY DEF isCommand, commandWith
<1>4. [c EXCEPT !.status = v] = commandWith(c, c.pc, c.run, c.pos, v, c.feed, c.accepted)
  BY DEF isCommand, commandWith
<1>5. [c EXCEPT !.feed = v] = commandWith(c, c.pc, c.run, c.pos, c.status, v, c.accepted)
  BY DEF isCommand, commandWith
<1>6. [c EXCEPT !.accepted = v] = commandWith(c, c.pc, c.run, c.pos, c.status, c.feed, v)
  BY DEF isCommand, commandWith
<1> QED BY <1>0, <1>1, <1>2, <1>3, <1>4, <1>5, <1>6, WithFollows

LEMMA CommandThere == ASSUME NEW c, isCommand(c), c.pc # "none" PROVE c # NoCommand
  BY DEF isCommand, NoCommand

\* What a step leaves of each part when the page shows what it did.
LEMMA DisplayedKept ==
  ASSUME Displayed, Grows, UNCHANGED <<sessionActive, sessionRun, msgs>>
  PROVE  Displayed'
<1>1. isRun(sessionRun)'
  BY ShownKept DEF Displayed, isRun
<1> QED BY <1>1 DEF Displayed

LEMMA OwnedKept ==
  ASSUME DraftsAreOwned, admitted \subseteq admitted', msgs'.drafts \subseteq msgs.drafts,
         sessionCommand # NoCommand => sessionCommand' # NoCommand /\ sessionCommand'.id = sessionCommand.id
  PROVE  DraftsAreOwned'
  BY DEF DraftsAreOwned

LEMMA HeldKept ==
  ASSUME Held, Grows, UNCHANGED <<sessionActive, activity>>, sessionCommand # NoCommand,
         isCommand(sessionCommand'), SameCommand(sessionCommand, sessionCommand'),
         commandShows' => mayShow(sessionCommand.run)' \/ (commandShows /\ sessionCommand'.run = sessionCommand.run)
  PROVE  Held'
<1>1. isRun(sessionCommand.prev.run)
  BY DEF Held
<1>2. isRun(sessionCommand.prev.run)'
  <2>1. \A v : isRun(v) => isRun(v)'
    BY ShownKept
  <2>2. sessionCommand'.prev.run = sessionCommand.prev.run
    BY DEF SameCommand
  <2> QED BY <1>1, <2>1, <2>2 DEF isRun
<1>3. commandShows' => mayShow(sessionCommand.run)'
  <2>1. \A r : mayShow(r) => mayShow(r)'
    BY ShownKept
  <2> QED BY <2>1 DEF Held, mayShow
<1> QED BY <1>2, <1>3 DEF Held, SameCommand

LEMMA CreditedKept ==
  ASSUME Credited, admitted \subseteq admitted', msgs'.drafts \subseteq msgs.drafts, sessionCommand # NoCommand,
         SameCommand(sessionCommand, sessionCommand'),
         sessionCommand'.pc \in {"opened", "stream", "done"} \/ sessionCommand'.accepted => sessionCommand.id \in admitted',
         sessionCommand'.pc \in {"reload", "end"} =>
           sessionCommand.pc \in {"reload", "end"} \/ sessionCommand.id \in admitted' \/ \A d \in msgs'.drafts : ~owns(d)
  PROVE  Credited'
  BY DEF Credited, SameCommand, owns, draftsOf

LEMMA LinkedKept ==
  ASSUME Linked, Grows, acts' = acts \/ acts' = acts + 1, adrift' \subseteq adrift, pending' \subseteq pending,
         sessionCommand' # NoCommand =>
           /\ sessionCommand # NoCommand /\ SameCommand(sessionCommand, sessionCommand')
           /\ sessionCommand.kind # "submitting" => sessionCommand'.run = sessionCommand.run
  PROVE  Linked'
<1>1. acts' \in Nat /\ acts <= acts'
  BY DEF Linked
<1>2. \A q \in pending' \cup adrift' : isRequest(q)'
  BY <1>1 DEF Linked, isRequest, Grows
<1>3. ASSUME sessionCommand' # NoCommand
      PROVE  /\ sessionCommand'.id \in Nat /\ sessionCommand'.id < acts'
             /\ \A q \in adrift' : q.id # sessionCommand'.id
             /\ \A a \in pending' : a.id = sessionCommand'.id => isOwn(a)'
  BY <1>1, <1>3 DEF Linked, isOwn, SameCommand
<1> QED BY <1>1, <1>2, <1>3 DEF Linked

LEMMA LoadingKept ==
  ASSUME Loading, Grows, UNCHANGED sessionActive, loads' \subseteq loads,
         sessionCommand.pc = "reload" => sessionCommand'.pc = "reload" \/ \A l \in loads' : l.live => l.by # "command",
         sessionCommand = NoCommand => sessionCommand' = NoCommand
  PROVE  Loading'
<1>1. ASSUME NEW l \in loads' PROVE loadFits(l)'
  BY DEF Loading, loadFits, Grows
<1>2. ASSUME NEW l \in loads' PROVE loadCounts(l)'
  BY DEF Loading, loadCounts
<1> QED BY <1>1, <1>2 DEF Loading

LEMMA StoppingKept ==
  ASSUME Stopping, Grows, cancels' \subseteq cancels
  PROVE  Stopping'
  BY DEF Stopping, Grows

LEMMA ObservingKept ==
  ASSUME Observing, Grows, UNCHANGED obs
  PROVE  Observing'
  BY DEF Observing, Grows, isObs

LEMMA CommandKept ==
  ASSUME DraftsAreOwned, Held, Credited, Linked, Grows, acts' = acts \/ acts' = acts + 1,
         UNCHANGED <<sessionActive, activity, sessionCommand>>, msgs'.drafts \subseteq msgs.drafts,
         adrift' \subseteq adrift, pending' \subseteq pending
  PROVE  DraftsAreOwned' /\ Held' /\ Credited' /\ Linked'
<1>1. SameCommand(sessionCommand, sessionCommand') /\ admitted \subseteq admitted'
  BY DEF SameCommand, Grows
<1>2. DraftsAreOwned' /\ Linked'
  BY <1>1, OwnedKept, LinkedKept
<1>3. CASE sessionCommand = NoCommand
  BY <1>2, <1>3 DEF Held, Credited
<1>4. CASE sessionCommand # NoCommand
  <2>1. Held'
    BY <1>1, <1>4, HeldKept DEF Held, commandShows
  <2>2. Credited'
    BY <1>1, <1>4, CreditedKept DEF Credited
  <2> QED BY <1>2, <2>1, <2>2
<1> QED BY <1>3, <1>4

LEMMA StaleLoads ==
  ASSUME Loading, Grows
  PROVE  \A l \in stale(loads) : ~l.live /\ loadFits(l)'
<1>1. SUFFICES ASSUME NEW k \in loads, NEW l, l = [k EXCEPT !.live = FALSE] PROVE ~l.live /\ loadFits(l)'
  BY DEF stale
<1>2. loadFits(k)
  BY DEF Loading
<1>3. CASE k = [conv |-> k.conv, by |-> k.by, pc |-> "fetch", live |-> k.live]
  <2>1. k = [conv |-> k.conv, by |-> k.by, pc |-> k.pc, live |-> k.live] /\ k.pc = "fetch"
    BY <1>3
  <2>2. l = [conv |-> k.conv, by |-> k.by, pc |-> "fetch", live |-> FALSE]
    BY <1>1, <2>1
  <2> QED BY <1>2, <2>2 DEF loadFits
<1>4. CASE k # [conv |-> k.conv, by |-> k.by, pc |-> "fetch", live |-> k.live]
  <2>1. /\ k = [conv |-> k.conv, by |-> k.by, pc |-> k.pc, live |-> k.live, upto |-> k.upto, run |-> k.run, status |-> k.status, at |-> k.at]
        /\ k.pc \in {"projection", "apply"} /\ (k.run = 0 \/ (k.run \in DOMAIN runs /\ runs[k.run].conv = k.conv))
    BY <1>2, <1>4 DEF loadFits
  <2>2. l = [conv |-> k.conv, by |-> k.by, pc |-> k.pc, live |-> FALSE, upto |-> k.upto, run |-> k.run, status |-> k.status, at |-> k.at]
    BY <1>1, <2>1
  <2>3. k.run = 0 \/ (k.run \in DOMAIN runs' /\ runs'[k.run].conv = k.conv)
    BY <2>1 DEF Grows
  <2> QED BY <1>2, <2>1, <2>2, <2>3 DEF loadFits
<1> QED BY <1>3, <1>4

\* A new load takes the lease from the others.
LEMMA NewLoads ==
  ASSUME Loading, Grows, NEW by, NEW c \in Convs, by # "observed" => sessionActive' = c,
         by = "command" => sessionCommand'.pc = "reload", by = "create" => sessionCommand' = NoCommand,
         loads' = stale(loads) \cup {newLoad(c, by)}
  PROVE  Loading'
<1> DEFINE new == newLoad(c, by)
<1>1. new = [conv |-> new.conv, by |-> new.by, pc |-> "fetch", live |-> new.live] /\ new.conv = c /\ new.by = by /\ new.live = TRUE /\ new.pc = "fetch"
  BY DEF newLoad
<1> HIDE DEF new
<1>2. loadFits(new)' /\ loadCounts(new)'
  BY <1>1 DEF loadFits, loadCounts
<1>3. \A l \in stale(loads) : ~l.live /\ loadFits(l)' /\ loadCounts(l)'
  BY StaleLoads DEF loadCounts
<1>4. loads' = stale(loads) \cup {new}
  BY DEF new
<1> QED BY <1>2, <1>3, <1>4 DEF Loading

LEMMA AllStale ==
  ASSUME Loading, Grows, loads' = stale(loads)
  PROVE  Loading' /\ \A l \in loads' : ~l.live
<1>1. \A l \in stale(loads) : ~l.live /\ loadFits(l)' /\ loadCounts(l)'
  BY StaleLoads DEF loadCounts
<1> QED BY <1>1 DEF Loading

LEMMA StaleCancels ==
  ASSUME Stopping, Grows
  PROVE  \A x \in stale(cancels) : x = [run |-> x.run, live |-> x.live, status |-> x.status] /\ x.run \in DOMAIN runs'
<1>1. SUFFICES ASSUME NEW y \in cancels, NEW x, x = [y EXCEPT !.live = FALSE]
               PROVE  x = [run |-> x.run, live |-> x.live, status |-> x.status] /\ x.run \in DOMAIN runs'
  BY DEF stale
<1>2. y = [run |-> y.run, live |-> y.live, status |-> y.status] /\ y.run \in DOMAIN runs
  BY DEF Stopping
<1>3. x = [run |-> y.run, live |-> FALSE, status |-> y.status]
  BY <1>1, <1>2
<1> QED BY <1>2, <1>3 DEF Grows

\* A step that leaves the page alone, but for what it forgets.
LEMMA QuietStep ==
  ASSUME SessionInv, Grows, UNCHANGED <<view, activity, sessionCommand, obs>>, acts' = acts \/ acts' = acts + 1,
         loads' \subseteq loads, cancels' \subseteq cancels, pending' \subseteq pending, adrift' \subseteq adrift
  PROVE  SessionInv' /\ endedStaysEnded
<1>0. UNCHANGED <<sessionActive, sessionRun, msgs>>
  BY DEF view
<1>1. Displayed' /\ Loading' /\ Stopping' /\ Observing'
  BY <1>0, DisplayedKept, LoadingKept, StoppingKept, ObservingKept DEF SessionInv
<1>2. DraftsAreOwned' /\ Held' /\ Credited' /\ Linked'
  BY <1>0, CommandKept DEF SessionInv
<1> QED BY <1>0, <1>1, <1>2, EndedUnlessStopped DEF SessionInv, Grows

\* A Run comes on display, or stays there.
LEMMA RunShown ==
  ASSUME NEW r, NEW s, mayShow(r)', sessionRun' = [id |-> r, status |-> s]
  PROVE  isRun(sessionRun)'
<1>1. sessionRun'.id = r /\ sessionRun'.status = s
  OBVIOUS
<1> QED BY <1>1 DEF isRun

LEMMA RunStays ==
  ASSUME SessionInv, Grows, UNCHANGED <<sessionActive, sessionRun>>
  PROVE  isRun(sessionRun)'
  BY ShownKept DEF SessionInv, Displayed, isRun

LEMMA RunComesOn ==
  ASSUME SessionInv, UNCHANGED sessionActive, msgs' = msgs \/ \E ds : msgs' = without(ds), isRun(sessionRun)'
  PROVE  Displayed' /\ msgs'.drafts \subseteq msgs.drafts
<1>2. msgs = [conv |-> sessionActive, upto |-> msgs.upto, drafts |-> msgs.drafts]
  BY DEF SessionInv, Displayed
<1>3. \E ds \in SUBSET msgs.drafts : msgs' = [conv |-> sessionActive, upto |-> msgs.upto, drafts |-> ds]
  <2>1. CASE msgs' = msgs
    BY <1>2, <2>1
  <2>2. CASE \E ds : msgs' = without(ds)
    <3>1. PICK ds : msgs' = [msgs EXCEPT !.drafts = @ \ ds]
      BY <2>2 DEF without
    <3>2. msgs' = [conv |-> sessionActive, upto |-> msgs.upto, drafts |-> msgs.drafts \ ds]
      BY <1>2, <3>1
    <3> QED BY <3>2
  <2> QED BY <2>1, <2>2
<1>4. msgs' = [conv |-> sessionActive', upto |-> msgs'.upto, drafts |-> msgs'.drafts] /\ msgs'.drafts \subseteq msgs.drafts
  BY <1>3
<1> QED BY <1>4 DEF SessionInv, Displayed

\* The command moves on.
LEMMA CommandMoves ==
  ASSUME SessionInv, Grows, UNCHANGED <<sessionActive, activity, adrift, acts>>, pending' \subseteq pending,
         msgs'.drafts \subseteq msgs.drafts, sessionCommand # NoCommand,
         NEW pc, NEW accepted, pc # "none", turnsInto(sessionCommand, sessionCommand', pc, sessionCommand.run, sessionCommand.feed, accepted),
         pc \in {"opened", "stream", "done"} \/ accepted => sessionCommand.id \in admitted',
         pc \in {"reload", "end"} =>
           sessionCommand.pc \in {"reload", "end"} \/ sessionCommand.id \in admitted' \/ \A d \in msgs'.drafts : ~owns(d)
  PROVE  DraftsAreOwned' /\ Held' /\ Credited' /\ Linked' /\ sessionCommand'.pc = pc /\ sessionCommand' # NoCommand
<1>1. /\ isCommand(sessionCommand') /\ SameCommand(sessionCommand, sessionCommand') /\ sessionCommand'.pc = pc
      /\ sessionCommand'.run = sessionCommand.run /\ sessionCommand'.feed = sessionCommand.feed /\ sessionCommand'.accepted = accepted
  BY DEF turnsInto
<1>2. sessionCommand' # NoCommand
  BY <1>1, CommandThere
<1>3. Linked'
  BY <1>1, LinkedKept DEF SessionInv
<1>4. DraftsAreOwned'
  BY <1>1, <1>2, OwnedKept DEF SessionInv, SameCommand, Grows
<1>5. Held'
  <2>1. commandShows' => commandShows
    BY <1>1 DEF commandShows, SameCommand
  <2> QED BY <1>1, <2>1, HeldKept DEF SessionInv
<1>6. Credited'
  BY <1>1, CreditedKept DEF SessionInv, Grows
<1> QED BY <1>1, <1>2, <1>3, <1>4, <1>5, <1>6

LEMMA CommandStands ==
  ASSUME SessionInv, sessionCommand.pc # "none"
  PROVE  sessionCommand # NoCommand /\ isCommand(sessionCommand) /\ sessionCommand.conv = sessionActive /\ activity = sessionCommand.kind
<1>1. sessionCommand # NoCommand
  BY DEF NoCommand
<1> QED BY <1>1 DEF SessionInv, Held

----------------------------------------------------------------------------
LEMMA RunStepSafe == ASSUME SessionInv, RunStep PROVE SessionInv' /\ endedStaysEnded
<1>1. PICK r \in DOMAIN runs, e \in {"output", "waiting_for_user", "completed", "failed_recoverable", "canceled"} : runs' = appended(r, e)
  BY DEF RunStep
<1>2. UNCHANGED <<pending, admitted, view, strays, activity, sessionCommand, adrift, loads, cancels, obs, acts>>
  BY DEF RunStep, view
<1>3. Grows
  BY <1>1, <1>2, AppendGrows DEF SessionInv, SessionEvents
<1> QED BY <1>2, <1>3, QuietStep

LEMMA RepairSafe == ASSUME SessionInv, Repair PROVE SessionInv' /\ endedStaysEnded
<1>1. PICK r \in DOMAIN runs, e \in Unpublished : runs' = appended(r, e)
  BY DEF Repair, Unpublished
<1>2. UNCHANGED <<pending, admitted, view, strays, activity, sessionCommand, adrift, loads, cancels, obs, acts>>
  BY DEF Repair, view
<1>3. Grows
  BY <1>1, <1>2, AppendGrows DEF SessionInv, SessionEvents, Unpublished
<1> QED BY <1>2, <1>3, QuietStep

LEMMA OtherClientSafe == ASSUME SessionInv, OtherClient PROVE SessionInv' /\ endedStaysEnded
<1>1. UNCHANGED <<pending, admitted, view, strays, activity, sessionCommand, adrift, loads, cancels, obs>> /\ acts' = acts + 1
  BY DEF OtherClient, view, userActs
<1>2. Grows
  BY <1>1, StartGrows DEF OtherClient, SessionInv
<1> QED BY <1>1, <1>2, QuietStep

\* The stream of the command learns what became of it.
LEMMA FeedsSafe ==
  ASSUME SessionInv, Grows, NEW a \in pending, pending' \subseteq pending, NEW itsRun, NEW pos, NEW feed, feeds(a, itsRun, pos, feed),
         UNCHANGED <<view, activity, adrift, loads, cancels, obs, acts>>,
         a.kind # "submitting" => itsRun = a.run,
         a.kind = "submitting" /\ feed = "events" => itsRun \in DOMAIN runs' /\ runs'[itsRun].conv = a.conv
  PROVE  SessionInv' /\ endedStaysEnded
<1>1. CASE sessionCommand' = sessionCommand
  BY <1>1, QuietStep
<1>2. CASE /\ sessionCommand.pc \in {"opened", "stream"} /\ sessionCommand.id = a.id
           /\ sessionCommand' = [sessionCommand EXCEPT !.run = itsRun, !.pos = pos, !.feed = feed]
  <2>1. sessionCommand # NoCommand /\ isCommand(sessionCommand) /\ sessionCommand.conv = sessionActive
    BY <1>2, CommandStands
  <2>2. isOwn(a)
    BY <1>2, <2>1 DEF SessionInv, Linked
  <2>3. turnsInto(sessionCommand, sessionCommand', sessionCommand.pc, itsRun, feed, sessionCommand.accepted)
    <3> DEFINE one == [sessionCommand EXCEPT !.run = itsRun]
               two == [one EXCEPT !.pos = pos]
    <3>1. sessionCommand' = [two EXCEPT !.feed = feed]
      BY <1>2
    <3>2. turnsInto(sessionCommand, one, sessionCommand.pc, itsRun, sessionCommand.feed, sessionCommand.accepted)
      BY <2>1, CommandFields
    <3> HIDE DEF one
    <3>3. turnsInto(one, two, one.pc, one.run, one.feed, one.accepted)
      <4>1. isCommand(one)
        BY <3>2 DEF turnsInto
      <4> QED BY <4>1, CommandFields
    <3> HIDE DEF two
    <3>4. turnsInto(two, [two EXCEPT !.feed = feed], two.pc, two.run, feed, two.accepted)
      <4>1. isCommand(two)
        BY <3>3 DEF turnsInto
      <4> QED BY <4>1, CommandFields
    <3> QED BY <3>1, <3>2, <3>3, <3>4 DEF turnsInto, SameCommand
  <2>4. /\ isCommand(sessionCommand') /\ SameCommand(sessionCommand, sessionCommand') /\ sessionCommand'.pc = sessionCommand.pc
        /\ sessionCommand'.run = itsRun /\ sessionCommand'.feed = feed /\ sessionCommand'.accepted = sessionCommand.accepted
    BY <2>3 DEF turnsInto
  <2>5. UNCHANGED <<sessionActive, sessionRun, msgs>> /\ admitted \subseteq admitted'
    BY DEF view, Grows
  <2>6. sessionCommand' # NoCommand
    BY <1>2, <2>4, CommandThere
  <2>7. Displayed' /\ Loading' /\ Stopping' /\ Observing' /\ endedStaysEnded
    <3>1. sessionCommand.pc # "reload" /\ sessionCommand # NoCommand
      BY <1>2, <2>1
    <3> QED BY <2>5, <3>1, DisplayedKept, LoadingKept, StoppingKept, ObservingKept, EndedUnlessStopped DEF SessionInv
  <2>8. sessionCommand.kind # "submitting" => itsRun = sessionCommand.run
    BY <2>2 DEF isOwn
  <2>9. Linked'
    BY <2>1, <2>4, <2>8, LinkedKept DEF SessionInv
  <2>10. Held'
    <3>1. commandShows' => mayShow(sessionCommand.run)' \/ (commandShows /\ sessionCommand'.run = sessionCommand.run)
      <4>1. CASE sessionCommand.kind # "submitting"
        BY <2>4, <2>8, <4>1 DEF commandShows
      <4>2. CASE sessionCommand.kind = "submitting" /\ feed = "events"
        <5>1. itsRun \in DOMAIN runs' /\ runs'[itsRun].conv = sessionActive'
          BY <2>1, <2>2, <2>5, <4>2 DEF isOwn
        <5> QED BY <2>4, <5>1 DEF mayShow
      <4> QED BY <2>4, <4>1, <4>2 DEF commandShows, SameCommand
    <3> QED BY <2>1, <2>4, <2>5, <3>1, HeldKept DEF SessionInv
  <2>11. Credited'
    BY <2>1, <2>4, <2>5, CreditedKept DEF SessionInv, Credited
  <2>12. DraftsAreOwned'
    BY <2>4, <2>5, <2>6, OwnedKept DEF SessionInv, SameCommand
  <2> QED BY <2>7, <2>9, <2>10, <2>11, <2>12 DEF SessionInv, Grows
<1> QED BY <1>1, <1>2 DEF feeds

LEMMA PrepareSafe == ASSUME SessionInv, NEW a \in pending, PrepareRun(a) PROVE SessionInv' /\ endedStaysEnded
<1>1. pending' \subseteq pending /\ UNCHANGED <<admitted, strays, view, activity, adrift, loads, cancels, obs, acts>>
  BY DEF PrepareRun, view
<1>2. isRequest(a)
  BY DEF SessionInv, Linked
<1>3. CASE a.kind = "submitting" /\ feeds(a, Len(runs) + 1, 0, "events") /\ runs' = Append(runs, [conv |-> a.conv, log |-> <<"running">>])
  <2>1. Grows /\ Len(runs) + 1 \in DOMAIN runs' /\ runs'[Len(runs) + 1].conv = a.conv
    BY <1>1, <1>2, <1>3, StartGrows DEF isRequest, SessionInv
  <2> QED BY <1>1, <1>3, <2>1, FeedsSafe
<1>4. CASE a.kind # "submitting" /\ runs' = appended(a.run, "running") /\ feeds(a, a.run, Len(runs[a.run].log), "events")
  <2>1. Grows
    BY <1>1, <1>2, <1>4, AppendGrows DEF isRequest, SessionInv, SessionEvents
  <2> QED BY <1>1, <1>4, <2>1, FeedsSafe
<1>5. CASE a.kind # "submitting" /\ feeds(a, a.run, 0, "refused") /\ UNCHANGED runs
  BY <1>1, <1>5, SameGrows, FeedsSafe DEF SessionInv
<1>6. CASE a.kind = "submitting" /\ (\E feed \in {"missing", "refused"} : feeds(a, 0, 0, feed)) /\ UNCHANGED runs
  BY <1>1, <1>6, SameGrows, FeedsSafe DEF SessionInv
<1> QED BY <1>3, <1>4, <1>5, <1>6 DEF PrepareRun

\* The page turns: what it held of another conversation is gone.
LEMMA TurnsDisplayed ==
  ASSUME Begun, Displayed, Stopping, Grows, NEW c \in Convs, turnsTo(c)
  PROVE  Displayed' /\ Stopping' /\ endedStaysEnded /\ msgs'.drafts = {}
<1>1. sessionActive' = c /\ sessionRun' = SessionNoRun /\ msgs' = [conv |-> c, upto |-> 0, drafts |-> {}] /\ cancels' = stale(cancels)
  BY DEF turnsTo
<1>2. isRun(sessionRun)'
  BY <1>1 DEF isRun, SessionNoRun
<1>3. msgs' = [conv |-> sessionActive', upto |-> msgs'.upto, drafts |-> msgs'.drafts] /\ msgs'.drafts = {}
  BY <1>1
<1>4. Stopping'
  BY <1>1, StaleCancels DEF Stopping
<1> QED BY <1>1, <1>2, <1>3, <1>4, GoneIsNotChanged DEF Displayed

LEMMA ActivatesSafe ==
  ASSUME SessionInv, NEW c \in Convs, activates(c), UNCHANGED sessionServer, acts' = acts \/ acts' = acts + 1, Loading'
  PROVE  SessionInv' /\ endedStaysEnded
<1>1. turnsTo(c) /\ streamsCancel /\ obs' = NoObs /\ UNCHANGED <<runs, pending, admitted, strays>> /\ sessionCommand' = NoCommand
  BY DEF activates, turnsTo, sessionServer, streamsCancel
<1>2. Grows
  BY <1>1, SameGrows DEF SessionInv
<1>3. Displayed' /\ Stopping' /\ endedStaysEnded /\ msgs'.drafts = {}
  BY <1>1, <1>2, TurnsDisplayed DEF SessionInv
<1>4. DraftsAreOwned' /\ Held' /\ Credited' /\ Observing'
  BY <1>1, <1>3 DEF DraftsAreOwned, Held, Credited, Observing, NoObs
<1>5. Linked'
  <2>1. ASSUME NEW q \in adrift' PROVE isRequest(q)
    <3>1. CASE q \in adrift
      BY <3>1 DEF SessionInv, Linked
    <3>2. CASE /\ sessionCommand.pc = "request"
               /\ q = [id |-> sessionCommand.id, kind |-> sessionCommand.kind, conv |-> sessionCommand.conv, run |-> sessionCommand.run]
      <4>1. sessionCommand # NoCommand /\ sessionCommand.conv \in Convs
        BY <3>2, CommandStands DEF SessionInv, Displayed
      <4>2. q.id = sessionCommand.id /\ q.kind = sessionCommand.kind /\ q.conv = sessionCommand.conv /\ q.run = sessionCommand.run
        BY <3>2
      <4>3. sessionCommand.kind # "submitting" => sessionCommand.run \in DOMAIN runs
        BY <4>1 DEF SessionInv, Held, commandShows, mayShow
      <4> QED BY <4>1, <4>2, <4>3 DEF SessionInv, Linked, isRequest
    <3> QED BY <1>1, <2>1, <3>1, <3>2 DEF streamsCancel
  <2>2. acts \in Nat /\ acts' \in Nat /\ acts <= acts'
    BY DEF SessionInv, Linked
  <2>3. \A q \in pending' \cup adrift' : isRequest(q)'
    BY <1>1, <2>1, <2>2 DEF SessionInv, Linked, isRequest
  <2> QED BY <1>1, <2>2, <2>3 DEF Linked
<1> QED BY <1>2, <1>3, <1>4, <1>5 DEF SessionInv, Grows

LEMMA OpenSafe == ASSUME SessionInv, NEW c \in Convs, openConversation(c) PROVE SessionInv' /\ endedStaysEnded
<1>1. /\ activates(c) /\ UNCHANGED sessionServer /\ acts' = acts + 1 /\ loads' = stale(loads) \cup {newLoad(c, "nav")}
      /\ sessionActive' = c /\ UNCHANGED <<runs, admitted, strays>>
  BY DEF openConversation, userActs, activates, turnsTo, sessionServer
<1>2. Grows
  BY <1>1, SameGrows DEF SessionInv
<1>3. Loading'
  BY <1>1, <1>2, NewLoads DEF SessionInv
<1> QED BY <1>1, <1>3, ActivatesSafe

\* No command is in flight while the page is idle.
LEMMA IdleHasNoCommand == ASSUME SessionInv, activity = "idle" PROVE sessionCommand = NoCommand
  BY DEF SessionInv, Held, isCommand, SessionKinds

LEMMA StartNewSafe == ASSUME SessionInv, startNewConversation PROVE SessionInv' /\ endedStaysEnded
<1>1. /\ activity = "idle" /\ cancels' = stale(cancels) /\ obs' = [live |-> FALSE, key |-> obs.key]
      /\ loads' = stale(loads) \cup {newLoad(sessionActive, "create")} /\ acts' = acts + 1
      /\ UNCHANGED <<runs, pending, admitted, strays, sessionActive, sessionRun, msgs, activity, sessionCommand, adrift>>
  BY DEF startNewConversation, userActs, sessionServer
<1>2. Grows
  BY <1>1, SameGrows DEF SessionInv
<1>3. Displayed' /\ DraftsAreOwned' /\ Held' /\ Credited' /\ Linked' /\ endedStaysEnded
  BY <1>1, <1>2, DisplayedKept, CommandKept, EndedUnlessStopped DEF SessionInv
<1>4. Loading'
  BY <1>1, <1>2, NewLoads, IdleHasNoCommand DEF SessionInv, Displayed
<1>5. Stopping'
  BY <1>1, <1>2, StaleCancels DEF SessionInv, Stopping
<1>6. Observing'
  BY <1>1 DEF Observing
<1> QED BY <1>2, <1>3, <1>4, <1>5, <1>6 DEF SessionInv, Grows

LEMMA CreateSafe == ASSUME SessionInv, NEW l \in loads, CreateConversation(l) PROVE SessionInv' /\ endedStaysEnded
<1>1. /\ loads' = loads \ {l} /\ l.by = "create" /\ loads' \subseteq loads
      /\ UNCHANGED <<runs, pending, admitted, strays, activity, sessionCommand, adrift, obs, acts>>
  BY DEF CreateConversation, sessionServer, view, turnsTo
<1>2. Grows
  BY <1>1, SameGrows DEF SessionInv
<1>3. CASE UNCHANGED <<view, cancels>>
  BY <1>1, <1>2, <1>3, QuietStep
<1>4. CASE isCurrent(l) /\ \E c \in Convs : turnsTo(c)
  <2>1. l.live
    BY <1>4 DEF isCurrent
  <2>2. Displayed' /\ Stopping' /\ endedStaysEnded /\ msgs'.drafts = {}
    BY <1>2, <1>4, TurnsDisplayed DEF SessionInv
  <2>3. sessionCommand = NoCommand
    BY <1>1, <2>1 DEF SessionInv, Loading, loadCounts
  <2>4. \A k \in loads' : ~k.live /\ loadFits(k)
    BY <1>1, <2>1 DEF SessionInv, Loading, loadFits
  <2>5. Loading'
    BY <1>1, <2>4 DEF Loading, loadFits, loadCounts
  <2>6. DraftsAreOwned' /\ Held' /\ Credited' /\ Observing'
    BY <1>1, <1>2, <2>2, <2>3, ObservingKept DEF DraftsAreOwned, Held, Credited, SessionInv
  <2>7. Linked'
    BY <1>1, <1>2, LinkedKept DEF SessionInv, SameCommand
  <2> QED BY <1>2, <2>2, <2>5, <2>6, <2>7 DEF SessionInv, Grows
<1> QED BY <1>3, <1>4 DEF CreateConversation

----------------------------------------------------------------------------
\* A step of a load changes no lease.
LEMMA PutLoads ==
  ASSUME Loading, Grows, UNCHANGED <<sessionCommand, sessionActive>>, NEW old \in loads, NEW new, put(old, new), loadFits(new)',
         new.live = old.live, new.by = old.by, new.conv = old.conv,
         new.live => new.pc = "fetch" \/ new.conv = sessionActive
  PROVE  Loading'
<1>1. loadCounts(new)'
  BY DEF Loading, loadCounts
<1>2. \A l \in loads : loadFits(l)' /\ loadCounts(l)'
  BY DEF Loading, loadFits, loadCounts, Grows
<1>3. \A l, k \in loads' : l.live /\ k.live => l = k
  BY DEF Loading, put
<1> QED BY <1>1, <1>2, <1>3 DEF Loading, put

\* The newest Run of a conversation is one of its Runs.
LEMMA NewestRun ==
  ASSUME Begun, NEW mine \in SUBSET DOMAIN runs, mine # {}
  PROVE  (CHOOSE r \in mine : \A q \in mine : q <= r) \in mine
<1>1. Len(runs) \in Nat /\ mine \in SUBSET (0..Len(runs))
  BY DEF Begun
<1>2. \E r \in mine : \A q \in mine : q <= r
  BY <1>1, Greatest
<1> QED BY <1>2

LEMMA TraceFits ==
  ASSUME Begun, NEW l, loadFits(l)
  PROVE  LET new == readRunTrace(l) IN
         loadFits(new) /\ new.conv = l.conv /\ new.by = l.by /\ new.live = l.live /\ new.pc \in {"projection", "apply"}
<1> DEFINE mine == {r \in DOMAIN runs : runs[r].conv = l.conv}
           newest == IF mine = {} THEN 0 ELSE CHOOSE r \in mine : \A q \in mine : q <= r
           said == IF newest = 0 THEN "none" ELSE statusOf(newest)
           new == [conv |-> l.conv, by |-> l.by, pc |-> IF newest = 0 THEN "apply" ELSE "projection", live |-> l.live,
                   upto |-> stored[l.conv], run |-> newest, status |-> said, at |-> 0]
<1>1. readRunTrace(l) = new
  BY DEF readRunTrace
<1>2. newest = 0 \/ (newest \in DOMAIN runs /\ runs[newest].conv = l.conv)
  <2>1. mine \in SUBSET DOMAIN runs
    OBVIOUS
  <2>2. mine # {} => newest \in mine
    BY <2>1, NewestRun
  <2> QED BY <2>2
<1> HIDE DEF newest, said
<1>3. new = [conv |-> new.conv, by |-> new.by, pc |-> new.pc, live |-> new.live, upto |-> new.upto, run |-> new.run, status |-> new.status, at |-> new.at]
  OBVIOUS
<1>4. new.conv = l.conv /\ new.by = l.by /\ new.live = l.live /\ new.run = newest /\ new.pc \in {"projection", "apply"}
  OBVIOUS
<1> HIDE DEF new
<1>5. loadFits(new)
  BY <1>2, <1>3, <1>4 DEF loadFits
<1> QED BY <1>1, <1>4, <1>5

LEMMA LoadFetchSafe == ASSUME SessionInv, NEW l \in loads, LoadFetch(l) PROVE SessionInv' /\ endedStaysEnded
<1>0. PICK new : new = readRunTrace(l)
  OBVIOUS
<1>1. put(l, new) /\ UNCHANGED <<sessionServer, acts>> /\ UNCHANGED <<runs, pending, admitted, strays>>
  BY <1>0 DEF LoadFetch, sessionServer, view, activates, turnsTo
<1>2. loadFits(l) /\ loadCounts(l)
  BY DEF SessionInv, Loading
<1>3. loadFits(new) /\ new.conv = l.conv /\ new.by = l.by /\ new.live = l.live /\ new.pc \in {"projection", "apply"}
  BY <1>0, <1>2, TraceFits DEF SessionInv
<1>4. Grows
  BY <1>1, SameGrows DEF SessionInv
<1>5. loadFits(new)'
  BY <1>1, <1>3 DEF loadFits
<1>6. CASE l.live /\ l.conv # sessionActive /\ activates(l.conv)
  <2>1. l.conv \in Convs /\ l.by = "observed" /\ sessionActive' = l.conv
    BY <1>2, <1>6 DEF loadFits, loadCounts, activates, turnsTo
  <2>2. \A k \in loads \ {l} : ~k.live /\ loadFits(k)'
    BY <1>1, <1>6 DEF SessionInv, Loading, loadFits
  <2>3. loadCounts(new)'
    BY <1>3, <2>1 DEF loadCounts
  <2>4. Loading'
    BY <1>1, <1>5, <2>2, <2>3 DEF Loading, put, loadCounts
  <2> QED BY <1>1, <1>6, <2>1, <2>4, ActivatesSafe
<1>7. CASE /\ UNCHANGED <<view, activity, sessionCommand, adrift, cancels, obs>>
           /\ l.live => l.conv = sessionActive
  <2>1. UNCHANGED <<sessionActive, sessionRun, msgs>>
    BY <1>7 DEF view
  <2>2. Loading'
    BY <1>1, <1>3, <1>4, <1>5, <1>7, <2>1, PutLoads DEF SessionInv
  <2>3. Displayed' /\ Stopping' /\ Observing' /\ DraftsAreOwned' /\ Held' /\ Credited' /\ Linked' /\ endedStaysEnded
    BY <1>1, <1>4, <1>7, <2>1, DisplayedKept, StoppingKept, ObservingKept, CommandKept, EndedUnlessStopped DEF SessionInv
  <2> QED BY <1>4, <2>2, <2>3 DEF SessionInv, Grows
<1> QED BY <1>2, <1>6, <1>7 DEF LoadFetch, isCurrent, loadFits

LEMMA LoadProjectionSafe == ASSUME SessionInv, NEW l \in loads, LoadProjection(l) PROVE SessionInv' /\ endedStaysEnded
<1>1. loadFits(l) /\ loadCounts(l) /\ l.pc = "projection"
  BY DEF SessionInv, Loading, LoadProjection
<1>2. /\ l = [conv |-> l.conv, by |-> l.by, pc |-> l.pc, live |-> l.live, upto |-> l.upto, run |-> l.run, status |-> l.status, at |-> l.at]
      /\ l.run = 0 \/ (l.run \in DOMAIN runs /\ runs[l.run].conv = l.conv)
  BY <1>1 DEF loadFits
<1>3. UNCHANGED <<runs, pending, admitted, strays, sessionActive, sessionRun, msgs, activity, sessionCommand, adrift, cancels, obs, acts>>
  BY DEF LoadProjection, sessionServer, view
<1>4. PICK a : put(l, [l EXCEPT !.pc = "apply", !.at = a])
  <2>1. [l EXCEPT !.pc = "apply"] = [l EXCEPT !.pc = "apply", !.at = l.at]
    BY <1>2
  <2> QED BY <2>1 DEF LoadProjection
<1> DEFINE new == [conv |-> l.conv, by |-> l.by, pc |-> "apply", live |-> l.live, upto |-> l.upto, run |-> l.run, status |-> l.status, at |-> a]
<1>5. [l EXCEPT !.pc = "apply", !.at = a] = new
  <2> DEFINE half == [conv |-> l.conv, by |-> l.by, pc |-> "apply", live |-> l.live, upto |-> l.upto, run |-> l.run, status |-> l.status, at |-> l.at]
  <2>1. [l EXCEPT !.pc = "apply"] = half
    BY <1>2
  <2>2. [half EXCEPT !.at = a] = new
    OBVIOUS
  <2>3. [l EXCEPT !.pc = "apply", !.at = a] = [[l EXCEPT !.pc = "apply"] EXCEPT !.at = a]
    OBVIOUS
  <2> QED BY <2>1, <2>2, <2>3
<1>6. loadFits(new)'
  BY <1>1, <1>2, <1>3 DEF loadFits
<1>7. new.live = l.live /\ new.by = l.by /\ new.conv = l.conv /\ (l.live => l.conv = sessionActive)
  BY <1>1 DEF loadCounts
<1> HIDE DEF new
<1>8. Grows
  BY <1>3, SameGrows DEF SessionInv
<1>9. Loading'
  BY <1>3, <1>4, <1>5, <1>6, <1>7, <1>8, PutLoads DEF SessionInv
<1>10. Displayed' /\ Stopping' /\ Observing' /\ DraftsAreOwned' /\ Held' /\ Credited' /\ Linked' /\ endedStaysEnded
  BY <1>3, <1>8, DisplayedKept, StoppingKept, ObservingKept, CommandKept, EndedUnlessStopped DEF SessionInv
<1> QED BY <1>8, <1>9, <1>10 DEF SessionInv, Grows

\* The command that waits for a load goes on when it returns; the others do not notice.
LEMMA ReturnSafe ==
  ASSUME SessionInv, Grows, UNCHANGED <<sessionActive, activity, adrift, acts, pending>>, msgs'.drafts \subseteq msgs.drafts,
         NEW l \in loads, sessionCommand' = returned(l), loads' = loads \ {l}
  PROVE  DraftsAreOwned' /\ Held' /\ Credited' /\ Linked' /\ Loading'
<1>1. CASE l.by = "command" /\ l.live
  <2>1. sessionCommand.pc = "reload" /\ sessionCommand' = [sessionCommand EXCEPT !.pc = "end"]
    BY <1>1 DEF SessionInv, Loading, loadCounts, returned, isCurrent
  <2>2. sessionCommand # NoCommand /\ isCommand(sessionCommand)
    BY <2>1, CommandStands
  <2>3. turnsInto(sessionCommand, sessionCommand', "end", sessionCommand.run, sessionCommand.feed, sessionCommand.accepted)
    BY <2>1, <2>2, CommandFields
  <2>4. sessionCommand.accepted => sessionCommand.id \in admitted'
    BY <2>2 DEF SessionInv, Credited, Grows
  <2>5. DraftsAreOwned' /\ Held' /\ Credited' /\ Linked'
    BY <2>1, <2>2, <2>3, <2>4, CommandMoves
  <2>6. \A k \in loads' : ~k.live
    BY <1>1 DEF SessionInv, Loading, loadFits
  <2>7. Loading'
    BY <2>2, <2>6, LoadingKept DEF SessionInv
  <2> QED BY <2>5, <2>7
<1>2. CASE ~(l.by = "command" /\ l.live)
  <2>1. sessionCommand' = sessionCommand
    BY <1>2 DEF returned, isCurrent
  <2>2. DraftsAreOwned' /\ Held' /\ Credited' /\ Linked'
    BY <2>1, CommandKept DEF SessionInv
  <2>3. Loading'
    BY <2>1, LoadingKept DEF SessionInv
  <2> QED BY <2>2, <2>3
<1> QED BY <1>1, <1>2

LEMMA LoadApplySafe == ASSUME SessionInv, NEW l \in loads, LoadApply(l) PROVE SessionInv' /\ endedStaysEnded
<1>1. /\ l.pc = "apply" /\ loads' = loads \ {l} /\ sessionCommand' = returned(l)
      /\ UNCHANGED <<runs, pending, admitted, strays, sessionActive, activity, adrift, obs, acts>>
  BY DEF LoadApply, sessionServer
<1>2. Grows
  BY <1>1, SameGrows DEF SessionInv
<1>3. Observing'
  BY <1>1, <1>2, ObservingKept DEF SessionInv
<1>4. loadFits(l) /\ loadCounts(l)
  BY DEF SessionInv, Loading
<1>5. l.run = 0 \/ (l.run \in DOMAIN runs /\ runs[l.run].conv = l.conv)
  BY <1>1, <1>4 DEF loadFits
<1>6. CASE ~l.live
  <2>1. UNCHANGED <<msgs, sessionRun, cancels>>
    BY <1>6 DEF LoadApply, isCurrent
  <2>2. Displayed' /\ Stopping'
    BY <1>1, <1>2, <2>1, DisplayedKept, StoppingKept DEF SessionInv
  <2>3. DraftsAreOwned' /\ Held' /\ Credited' /\ Linked' /\ Loading'
    BY <1>1, <1>2, <2>1, ReturnSafe
  <2> QED BY <1>2, <1>3, <2>1, <2>2, <2>3, EndedUnlessStopped DEF SessionInv, Grows
<1>7. CASE l.live
  <2>1. l.conv = sessionActive
    BY <1>1, <1>4, <1>7 DEF loadCounts
  <2>2. /\ msgs' = [conv |-> l.conv, upto |-> l.upto, drafts |-> {}]
        /\ sessionRun' = IF l.run = 0 THEN SessionNoRun ELSE [id |-> l.run, status |-> l.status]
        /\ cancels' = IF l.run = 0 THEN stale(cancels) ELSE cancels
    BY <1>7 DEF LoadApply, isCurrent, setRunState
  <2>3. msgs'.drafts = {} /\ msgs' = [conv |-> sessionActive', upto |-> msgs'.upto, drafts |-> msgs'.drafts]
    BY <1>1, <2>1, <2>2
  <2>4. isRun(sessionRun)'
    <3>1. CASE l.run = 0
      BY <2>2, <3>1 DEF isRun, SessionNoRun
    <3>2. CASE l.run # 0
      <4>1. mayShow(l.run)'
        BY <1>1, <1>5, <2>1, <3>2 DEF mayShow
      <4>2. sessionRun' = [id |-> l.run, status |-> l.status] /\ sessionRun'.id = l.run /\ sessionRun'.status = l.status
        BY <2>2, <3>2
      <4> QED BY <4>1, <4>2 DEF isRun
    <3> QED BY <3>1, <3>2
  <2>5. Displayed'
    BY <1>1, <2>3, <2>4 DEF Displayed, SessionInv
  <2>6. Stopping'
    <3>1. CASE l.run = 0
      BY <1>2, <2>2, <3>1, StaleCancels DEF SessionInv, Stopping
    <3>2. CASE l.run # 0
      BY <1>2, <2>2, <3>2, StoppingKept DEF SessionInv
    <3> QED BY <3>1, <3>2
  <2>7. DraftsAreOwned' /\ Held' /\ Credited' /\ Linked' /\ Loading'
    <3>1. msgs'.drafts \subseteq msgs.drafts
      BY <2>3
    <3> QED BY <1>1, <1>2, <3>1, ReturnSafe
  <2>8. endedStaysEnded
    BY <2>2, GoneIsNotChanged, EndedUnlessStopped DEF SessionInv
  <2> QED BY <1>2, <1>3, <2>5, <2>6, <2>7, <2>8 DEF SessionInv, Grows
<1> QED BY <1>4, <1>6, <1>7 DEF loadFits

LEMMA LoadFailSafe == ASSUME SessionInv, NEW l \in loads, LoadFail(l) PROVE SessionInv' /\ endedStaysEnded
<1>1. /\ loads' = loads \ {l} /\ sessionCommand' = returned(l)
      /\ UNCHANGED <<runs, pending, admitted, strays, sessionActive, sessionRun, msgs, activity, adrift, cancels, obs, acts>>
  BY DEF LoadFail, sessionServer, view
<1>2. Grows
  BY <1>1, SameGrows DEF SessionInv
<1>3. Displayed' /\ Stopping' /\ Observing'
  BY <1>1, <1>2, DisplayedKept, StoppingKept, ObservingKept DEF SessionInv
<1>4. DraftsAreOwned' /\ Held' /\ Credited' /\ Linked' /\ Loading'
  BY <1>1, <1>2, ReturnSafe
<1> QED BY <1>1, <1>2, <1>3, <1>4, EndedUnlessStopped DEF SessionInv, Grows

----------------------------------------------------------------------------
LEMMA ExecuteSafe == ASSUME SessionInv, NEW kind \in SessionKinds, execute(kind) PROVE SessionInv' /\ endedStaysEnded
<1>1. PICK new : new = [pc |-> "request", id |-> acts, kind |-> kind, conv |-> sessionActive, run |-> sessionRun.id, pos |-> 0, status |-> "none",
                 feed |-> "none", accepted |-> FALSE, prev |-> [run |-> sessionRun, outs |-> outs]]
  OBVIOUS
<1>2. /\ activity = "idle" /\ activity' = kind /\ obs' = NoObs /\ loads' = stale(loads) /\ sessionCommand' = new /\ acts' = acts + 1
      /\ msgs' = [msgs EXCEPT !.drafts = @ \cup draftsOf(acts, kind)]
      /\ UNCHANGED <<runs, pending, admitted, strays, sessionActive, adrift>>
  BY <1>1 DEF execute, userActs, sessionServer
<1>3. /\ new.pc = "request" /\ new.id = acts /\ new.kind = kind /\ new.conv = sessionActive /\ new.run = sessionRun.id
      /\ new.feed = "none" /\ new.accepted = FALSE /\ new.prev.run = sessionRun
  BY <1>1
<1>4. isCommand(new)
  <2>1. new = [pc |-> new.pc, id |-> new.id, kind |-> new.kind, conv |-> new.conv, run |-> new.run, pos |-> new.pos, status |-> new.status,
               feed |-> new.feed, accepted |-> new.accepted, prev |-> new.prev]
    BY <1>1
  <2> QED BY <1>3, <2>1 DEF isCommand
<1>5. new # NoCommand /\ sessionCommand = NoCommand
  BY <1>2, <1>3, <1>4, CommandThere, IdleHasNoCommand
<1>6. Grows
  BY <1>2, SameGrows DEF SessionInv
<1>7. isRun(sessionRun) /\ sessionActive \in Convs
  BY DEF SessionInv, Displayed
<1>8. kind # "submitting" => mayShow(sessionRun.id) /\ sessionRun # SessionNoRun
  BY <1>7 DEF execute, mayExecute, isRun, SessionNoRun, SessionKinds
<1>9. \/ cancels' = stale(cancels) /\ sessionRun' = SessionNoRun
      \/ cancels' = cancels /\ (sessionRun' = sessionRun \/ (kind # "submitting" /\ sessionRun' = [sessionRun EXCEPT !.status = "running"]))
  <2>1. CASE setRunState(SessionNoRun) /\ cancels' = stale(cancels)
    BY <2>1 DEF setRunState
  <2>2. CASE UNCHANGED <<sessionRun, cancels>>
    BY <2>2
  <2>3. CASE kind = "resuming" /\ setRunState([sessionRun EXCEPT !.status = "running"]) /\ UNCHANGED cancels
    BY <2>3 DEF setRunState
  <2> QED BY <2>1, <2>2, <2>3 DEF execute
<1>10. isRun(sessionRun)'
  <2>1. CASE sessionRun' = SessionNoRun
    BY <2>1 DEF isRun, SessionNoRun
  <2>2. CASE sessionRun' = sessionRun
    BY <1>6, <1>7, <1>2, <2>2, ShownKept DEF isRun
  <2>3. CASE kind # "submitting" /\ sessionRun' = [sessionRun EXCEPT !.status = "running"]
    <3>1. sessionRun = [id |-> sessionRun.id, status |-> sessionRun.status]
      BY <1>7 DEF isRun
    <3>2. sessionRun' = [id |-> sessionRun.id, status |-> "running"]
      BY <2>3, <3>1
    <3>3. sessionRun'.id = sessionRun.id /\ sessionRun'.status = "running"
      BY <3>2
    <3>4. mayShow(sessionRun.id)
      BY <1>8, <2>3
    <3> QED BY <1>2, <3>2, <3>3, <3>4 DEF isRun, mayShow
  <2> QED BY <1>9, <2>1, <2>2, <2>3
<1>11. msgs' = [conv |-> sessionActive, upto |-> msgs.upto, drafts |-> msgs.drafts \cup draftsOf(acts, kind)]
  <2>1. msgs = [conv |-> sessionActive, upto |-> msgs.upto, drafts |-> msgs.drafts]
    BY DEF SessionInv, Displayed
  <2> QED BY <1>2, <2>1
<1>12. Displayed'
  <2>1. msgs' = [conv |-> sessionActive', upto |-> msgs'.upto, drafts |-> msgs'.drafts]
    BY <1>2, <1>11
  <2> QED BY <1>2, <1>7, <1>10, <2>1 DEF Displayed
<1>13. msgs'.drafts = msgs.drafts \cup draftsOf(acts, kind)
  BY <1>11
<1>14. \A d \in msgs.drafts : d[1] \in admitted
  BY <1>5 DEF SessionInv, DraftsAreOwned
<1>15. \A d \in draftsOf(acts, kind) : d[1] = acts
  BY DEF draftsOf
<1>16. DraftsAreOwned'
  BY <1>2, <1>3, <1>5, <1>13, <1>14, <1>15 DEF DraftsAreOwned
<1>17. Credited'
  BY <1>2, <1>3, <1>5, <1>13, <1>14 DEF Credited, owns
<1>18. Held'
  <2>1. isRun(sessionRun) => isRun(sessionCommand'.prev.run)
    BY <1>2, <1>3
  <2>2. isRun(sessionCommand.prev.run)'
    BY <1>2, <1>6, <1>7, <2>1, ShownKept DEF isRun
  <2>3. commandShows' => mayShow(sessionCommand.run)'
    BY <1>2, <1>3, <1>8 DEF commandShows, mayShow
  <2> QED BY <1>2, <1>3, <1>4, <2>2, <2>3 DEF Held
<1>19. Linked'
  <2>1. acts \in Nat /\ acts' \in Nat /\ acts < acts'
    BY <1>2 DEF SessionInv, Linked
  <2>2. \A q \in pending' \cup adrift' : isRequest(q)' /\ q.id # acts
    BY <1>2, <2>1 DEF SessionInv, Linked, isRequest
  <2> QED BY <1>2, <1>3, <2>1, <2>2 DEF Linked
<1>20. Loading' /\ Observing'
  BY <1>2, <1>6, AllStale DEF SessionInv, Observing, NoObs
<1>21. Stopping'
  <2>1. CASE cancels' = stale(cancels)
    BY <1>6, <2>1, StaleCancels DEF SessionInv, Stopping
  <2>2. CASE cancels' = cancels
    BY <1>6, <2>2, StoppingKept DEF SessionInv
  <2> QED BY <1>9, <2>1, <2>2
<1>22. endedStaysEnded
  BY <1>9, GoneIsNotChanged, EndedUnlessStopped DEF SessionInv
<1> QED BY <1>6, <1>12, <1>16, <1>17, <1>18, <1>19, <1>20, <1>21, <1>22 DEF SessionInv, Grows

\* A request is admitted, or nothing happens to it.
LEMMA AdmitsSafe ==
  ASSUME SessionInv, NEW q, isRequest(q), admits(q), UNCHANGED strays
  PROVE  /\ Grows /\ pending' = pending \cup {[id |-> q.id, kind |-> q.kind, conv |-> q.conv, run |-> q.run]}
         /\ q.id \in admitted'
<1>1. UNCHANGED runs /\ admitted' = admitted \cup {q.id}
  BY DEF admits
<1>2. Grows
  BY <1>1, SameGrows DEF SessionInv
<1> QED BY <1>1, <1>2 DEF admits

LEMMA AdriftSafe == ASSUME SessionInv, NEW q \in adrift, ReceiveAdrift(q) PROVE SessionInv' /\ endedStaysEnded
<1>1. /\ adrift' = adrift \ {q} /\ adrift' \subseteq adrift
      /\ UNCHANGED <<view, strays, activity, sessionCommand, loads, cancels, obs, acts>>
  BY DEF ReceiveAdrift, view
<1>2. CASE UNCHANGED sessionServer
  <2>1. UNCHANGED <<runs, pending, admitted>>
    BY <1>2 DEF sessionServer
  <2> QED BY <1>1, <2>1, SameGrows, QuietStep DEF SessionInv
<1>3. CASE admits(q)
  <2>1. isRequest(q)
    BY DEF SessionInv, Linked
  <2>2. PICK a : a = [id |-> q.id, kind |-> q.kind, conv |-> q.conv, run |-> q.run]
    OBVIOUS
  <2>3. a.id = q.id /\ a.kind = q.kind /\ a.conv = q.conv /\ a.run = q.run
    BY <2>2
  <2>4. Grows /\ pending' = pending \cup {a} /\ UNCHANGED <<sessionActive, sessionRun, msgs>>
    BY <1>1, <1>3, <2>1, <2>2, AdmitsSafe DEF view
  <2>5. Displayed' /\ Loading' /\ Stopping' /\ Observing' /\ endedStaysEnded
    BY <1>1, <2>4, DisplayedKept, LoadingKept, StoppingKept, ObservingKept, EndedUnlessStopped DEF SessionInv
  <2>6. DraftsAreOwned' /\ admitted \subseteq admitted'
    BY <1>1, <2>4, OwnedKept DEF SessionInv, Grows
  <2>7. Held' /\ Credited'
    <3>1. CASE sessionCommand = NoCommand
      BY <1>1, <3>1 DEF Held, Credited
    <3>2. CASE sessionCommand # NoCommand
      <4>1. SameCommand(sessionCommand, sessionCommand') /\ isCommand(sessionCommand')
        BY <1>1, <3>2 DEF SameCommand, SessionInv, Held, isCommand
      <4>2. Held'
        BY <1>1, <2>4, <3>2, <4>1, HeldKept DEF SessionInv, commandShows
      <4>3. Credited'
        BY <1>1, <2>4, <2>6, <3>2, <4>1, CreditedKept DEF SessionInv, Credited
      <4> QED BY <4>2, <4>3
    <3> QED BY <3>1, <3>2
  <2>8. Linked'
    <3>1. \A b \in pending' \cup adrift' : isRequest(b)'
      BY <1>1, <2>1, <2>3, <2>4 DEF SessionInv, Linked, isRequest, Grows
    <3>2. sessionCommand # NoCommand => a.id # sessionCommand.id
      BY <2>3 DEF SessionInv, Linked
    <3> QED BY <1>1, <2>4, <3>1, <3>2 DEF SessionInv, Linked, isOwn
  <2> QED BY <2>4, <2>5, <2>6, <2>7, <2>8 DEF SessionInv, Grows
<1> QED BY <1>2, <1>3 DEF ReceiveAdrift

\* A step of the command that asks for no load.
LEMMA CommandOnly ==
  ASSUME SessionInv, Grows, UNCHANGED <<sessionActive, activity, adrift, loads, cancels, obs, acts>>, pending' \subseteq pending,
         msgs' = msgs \/ \E ds : msgs' = without(ds), isRun(sessionRun)',
         sessionCommand.pc # "none", sessionCommand.pc # "reload",
         NEW pc, NEW accepted, pc # "none", turnsInto(sessionCommand, sessionCommand', pc, sessionCommand.run, sessionCommand.feed, accepted),
         pc \in {"opened", "stream", "done"} \/ accepted => sessionCommand.id \in admitted',
         pc \in {"reload", "end"} => sessionCommand.id \in admitted'
  PROVE  SessionInv' /\ endedStaysEnded
<1>1. sessionCommand # NoCommand
  BY CommandStands
<1>2. Displayed' /\ msgs'.drafts \subseteq msgs.drafts
  BY RunComesOn
<1>3. DraftsAreOwned' /\ Held' /\ Credited' /\ Linked' /\ sessionCommand' # NoCommand
  BY <1>1, <1>2, CommandMoves
<1>4. Loading' /\ Stopping' /\ Observing'
  BY <1>1, LoadingKept, StoppingKept, ObservingKept DEF SessionInv
<1> QED BY <1>2, <1>3, <1>4, EndedUnlessStopped DEF SessionInv, Grows

\* A command that fails: nothing is said of its admission.
LEMMA FailsSafe ==
  ASSUME SessionInv, Grows, UNCHANGED <<view, activity, adrift, loads, cancels, obs, acts>>, pending' \subseteq pending,
         sessionCommand.pc \in {"request", "opened", "stream"}, sessionCommand' = [sessionCommand EXCEPT !.pc = "error"]
  PROVE  SessionInv' /\ endedStaysEnded
<1>1. sessionCommand # NoCommand /\ isCommand(sessionCommand)
  BY CommandStands
<1>2. turnsInto(sessionCommand, sessionCommand', "error", sessionCommand.run, sessionCommand.feed, sessionCommand.accepted)
  BY <1>1, CommandFields
<1>3. sessionCommand.accepted => sessionCommand.id \in admitted'
  BY <1>1 DEF SessionInv, Credited, Grows
<1>4. UNCHANGED <<sessionActive, sessionRun, msgs>>
  BY DEF view
<1> QED BY <1>2, <1>3, <1>4, RunStays, CommandOnly

LEMMA ReceiveSafe == ASSUME SessionInv, ReceiveCommand PROVE SessionInv' /\ endedStaysEnded
<1>1. /\ sessionCommand.pc = "request"
      /\ UNCHANGED <<view, strays, sessionActive, sessionRun, msgs, activity, adrift, loads, cancels, obs, acts>>
  BY DEF ReceiveCommand, view
<1>2. sessionCommand # NoCommand /\ isCommand(sessionCommand) /\ sessionCommand.conv = sessionActive
  BY <1>1, CommandStands
<1>3. CASE UNCHANGED sessionServer /\ sessionCommand' = [sessionCommand EXCEPT !.pc = "error"]
  <2>1. UNCHANGED <<runs, pending, admitted>>
    BY <1>3 DEF sessionServer
  <2> QED BY <1>1, <1>3, <2>1, SameGrows, FailsSafe DEF SessionInv
<1>4. CASE /\ admits(sessionCommand)
           /\ \/ \E s : sessionCommand' = [sessionCommand EXCEPT !.pc = "opened", !.status = s]
              \/ sessionCommand' = [sessionCommand EXCEPT !.pc = "error"]
  <2>1. isRequest(sessionCommand)
    <3>1. sessionCommand.conv \in Convs
      BY <1>2 DEF SessionInv, Displayed
    <3>2. sessionCommand.kind # "submitting" => sessionCommand.run \in DOMAIN runs
      BY <1>2 DEF SessionInv, Held, commandShows, mayShow
    <3> QED BY <1>2, <3>1, <3>2 DEF SessionInv, Linked, isRequest
  <2>2. PICK a : a = [id |-> sessionCommand.id, kind |-> sessionCommand.kind, conv |-> sessionCommand.conv, run |-> sessionCommand.run]
    OBVIOUS
  <2>3. a.id = sessionCommand.id /\ a.kind = sessionCommand.kind /\ a.conv = sessionCommand.conv /\ a.run = sessionCommand.run
    BY <2>2
  <2>4. Grows /\ pending' = pending \cup {a} /\ sessionCommand.id \in admitted'
    BY <1>1, <1>4, <2>1, <2>2, AdmitsSafe
  <2>5. PICK pc \in {"opened", "error"} : turnsInto(sessionCommand, sessionCommand', pc, sessionCommand.run, sessionCommand.feed, sessionCommand.accepted)
    <3>1. CASE sessionCommand' = [sessionCommand EXCEPT !.pc = "error"]
      BY <1>2, <3>1, CommandFields
    <3>2. CASE \E s : sessionCommand' = [sessionCommand EXCEPT !.pc = "opened", !.status = s]
      <4>1. PICK s : sessionCommand' = [sessionCommand EXCEPT !.pc = "opened", !.status = s]
        BY <3>2
      <4>2. PICK one : one = [sessionCommand EXCEPT !.pc = "opened"] /\ sessionCommand' = [one EXCEPT !.status = s]
        BY <4>1
      <4>3. turnsInto(sessionCommand, one, "opened", sessionCommand.run, sessionCommand.feed, sessionCommand.accepted)
        BY <1>2, <4>2, CommandFields
      <4>4. isCommand(one)
        BY <4>3 DEF turnsInto
      <4>5. turnsInto(one, sessionCommand', one.pc, one.run, one.feed, one.accepted)
        BY <4>2, <4>4, CommandFields
      <4>6. turnsInto(sessionCommand, sessionCommand', "opened", sessionCommand.run, sessionCommand.feed, sessionCommand.accepted)
        BY <4>3, <4>5 DEF turnsInto, SameCommand
      <4> QED BY <4>6
    <3> QED BY <1>4, <3>1, <3>2
  <2>6. /\ isCommand(sessionCommand') /\ SameCommand(sessionCommand, sessionCommand') /\ sessionCommand'.pc = pc
        /\ sessionCommand'.run = sessionCommand.run /\ sessionCommand'.feed = sessionCommand.feed
        /\ sessionCommand'.accepted = sessionCommand.accepted
    BY <2>5 DEF turnsInto
  <2>7. sessionCommand' # NoCommand
    BY <2>6, CommandThere
  <2>8. Displayed' /\ Loading' /\ Stopping' /\ Observing' /\ endedStaysEnded
    BY <1>1, <1>2, <2>4, DisplayedKept, LoadingKept, StoppingKept, ObservingKept, EndedUnlessStopped DEF SessionInv
  <2>9. DraftsAreOwned'
    BY <1>1, <2>4, <2>6, <2>7, OwnedKept DEF SessionInv, SameCommand, Grows
  <2>10. Held'
    <3>1. commandShows' => commandShows
      BY <2>6 DEF commandShows, SameCommand
    <3> QED BY <1>1, <1>2, <2>4, <2>6, <3>1, HeldKept DEF SessionInv
  <2>11. Credited'
    BY <1>1, <1>2, <2>4, <2>6, CreditedKept DEF SessionInv, Grows
  <2>12. Linked'
    <3>1. \A b \in pending' \cup adrift' : isRequest(b)'
      BY <1>1, <2>1, <2>3, <2>4 DEF SessionInv, Linked, isRequest, Grows
    <3>2. isOwn(a)' /\ \A b \in pending : b.id = sessionCommand.id => isOwn(b)'
      BY <1>2, <2>3, <2>6 DEF SessionInv, Linked, isOwn, SameCommand
    <3> QED BY <1>1, <1>2, <2>4, <2>6, <3>1, <3>2 DEF SessionInv, Linked, SameCommand
  <2> QED BY <2>4, <2>8, <2>9, <2>10, <2>11, <2>12 DEF SessionInv, Grows
<1> QED BY <1>1, <1>3, <1>4 DEF ReceiveCommand

LEMMA FirstFrameSafe == ASSUME SessionInv, FirstFrame PROVE SessionInv' /\ endedStaysEnded
<1>1. /\ sessionCommand.pc = "opened" /\ sessionCommand' = [sessionCommand EXCEPT !.pc = "stream", !.accepted = TRUE]
      /\ UNCHANGED <<runs, pending, admitted, strays, sessionActive, msgs, activity, adrift, loads, cancels, obs, acts>>
  BY DEF FirstFrame, sessionServer
<1>2. sessionCommand # NoCommand /\ isCommand(sessionCommand)
  BY <1>1, CommandStands
<1>3. Grows
  BY <1>1, SameGrows DEF SessionInv
<1>4. turnsInto(sessionCommand, sessionCommand', "stream", sessionCommand.run, sessionCommand.feed, TRUE)
  <2>1. PICK one : one = [sessionCommand EXCEPT !.pc = "stream"] /\ sessionCommand' = [one EXCEPT !.accepted = TRUE]
    BY <1>1
  <2>2. turnsInto(sessionCommand, one, "stream", sessionCommand.run, sessionCommand.feed, sessionCommand.accepted)
    BY <1>2, <2>1, CommandFields
  <2>3. isCommand(one)
    BY <2>2 DEF turnsInto
  <2>4. turnsInto(one, sessionCommand', one.pc, one.run, one.feed, TRUE)
    BY <2>1, <2>3, CommandFields
  <2> QED BY <2>2, <2>4 DEF turnsInto, SameCommand
<1>5. sessionCommand.id \in admitted'
  BY <1>1, <1>2 DEF SessionInv, Credited
<1>6. isRun(sessionRun)'
  <2>1. CASE UNCHANGED sessionRun
    BY <1>1, <1>3, <2>1, RunStays
  <2>2. CASE sessionCommand.kind # "submitting" /\ setRunState([id |-> sessionCommand.run, status |-> sessionCommand.status])
    <3>1. mayShow(sessionCommand.run)
      BY <1>2, <2>2 DEF SessionInv, Held, commandShows
    <3>2. mayShow(sessionCommand.run)
          /\ sessionRun' = [id |-> sessionCommand.run, status |-> sessionCommand.status]
      BY <2>2, <3>1 DEF setRunState
    <3>3. PICK r, s : r = sessionCommand.run /\ s = sessionCommand.status
      OBVIOUS
    <3>4. mayShow(r)'
      BY <1>1, <3>2, <3>3 DEF mayShow
    <3> QED BY <3>2, <3>3, <3>4, RunShown
  <2> QED BY <2>1, <2>2 DEF FirstFrame
<1> QED BY <1>1, <1>3, <1>4, <1>5, <1>6, CommandOnly

LEMMA FrameSafe == ASSUME SessionInv, Frame PROVE SessionInv' /\ endedStaysEnded
<1>1. /\ sessionCommand.pc = "stream" /\ sessionCommand.feed = "events"
      /\ UNCHANGED <<runs, pending, admitted, strays, sessionActive, msgs, activity, adrift, loads, cancels, obs, acts>>
  BY DEF Frame, sessionServer
<1>2. sessionCommand # NoCommand /\ isCommand(sessionCommand)
  BY <1>1, CommandStands
<1>3. Grows
  BY <1>1, SameGrows DEF SessionInv
<1>4. PICK p, e, pc :
        /\ pc \in {"stream", "done"}
        /\ sessionCommand' = [sessionCommand EXCEPT !.pos = p, !.pc = pc]
        /\ setRunState([id |-> sessionCommand.run, status |-> e]) \/ UNCHANGED sessionRun
  <2>1. PICK p, e :
          /\ sessionCommand' = [sessionCommand EXCEPT !.pos = p, !.pc = IF isStoppedRunStatus(e) THEN "done" ELSE @]
          /\ setRunState([id |-> sessionCommand.run, status |-> e]) \/ UNCHANGED sessionRun
    BY DEF Frame
  <2>2. PICK pc : pc = IF isStoppedRunStatus(e) THEN "done" ELSE "stream"
    OBVIOUS
  <2>3. [sessionCommand EXCEPT !.pos = p].pc = "stream"
    BY <1>1, <1>2 DEF isCommand
  <2>4. sessionCommand' = [sessionCommand EXCEPT !.pos = p, !.pc = pc]
    BY <1>1, <2>1, <2>2, <2>3
  <2>5. pc \in {"stream", "done"}
    BY <2>2
  <2>6. setRunState([id |-> sessionCommand.run, status |-> e]) \/ UNCHANGED sessionRun
    BY <2>1
  <2> QED BY <2>4, <2>5, <2>6
<1>5. turnsInto(sessionCommand, sessionCommand', pc, sessionCommand.run, sessionCommand.feed, sessionCommand.accepted)
  <2>1. PICK one : one = [sessionCommand EXCEPT !.pos = p] /\ sessionCommand' = [one EXCEPT !.pc = pc]
    BY <1>4
  <2>2. turnsInto(sessionCommand, one, sessionCommand.pc, sessionCommand.run, sessionCommand.feed, sessionCommand.accepted)
    BY <1>2, <2>1, CommandFields
  <2>3. isCommand(one)
    BY <2>2 DEF turnsInto
  <2>4. turnsInto(one, sessionCommand', pc, one.run, one.feed, one.accepted)
    BY <2>1, <2>3, CommandFields
  <2> QED BY <2>2, <2>4 DEF turnsInto, SameCommand
<1>6. sessionCommand.id \in admitted'
  BY <1>1, <1>2 DEF SessionInv, Credited
<1>7. isRun(sessionRun)'
  <2>1. CASE UNCHANGED sessionRun
    BY <1>1, <1>3, <2>1, RunStays
  <2>2. CASE setRunState([id |-> sessionCommand.run, status |-> e])
    <3>1. mayShow(sessionCommand.run)
      BY <1>1, <1>2 DEF SessionInv, Held, commandShows
    <3>2. PICK r : r = sessionCommand.run
      OBVIOUS
    <3>3. mayShow(r)' /\ sessionRun' = [id |-> r, status |-> e]
      BY <1>1, <2>2, <3>1, <3>2 DEF mayShow, setRunState
    <3> QED BY <3>3, RunShown
  <2> QED BY <1>4, <2>1, <2>2
<1>8. pc \in {"stream", "done"}
  BY <1>4
<1> QED BY <1>1, <1>3, <1>5, <1>6, <1>7, <1>8, CommandOnly

LEMMA RefusalSafe == ASSUME SessionInv, RefusalFrame PROVE SessionInv' /\ endedStaysEnded
<1>1. /\ sessionCommand.pc = "stream"
      /\ UNCHANGED <<runs, pending, admitted, strays, view, sessionActive, sessionRun, msgs, activity, adrift, loads, cancels, obs, acts>>
      /\ \/ sessionCommand' = [sessionCommand EXCEPT !.pc = "error"]
         \/ sessionCommand' = [sessionCommand EXCEPT !.pc = "done"]
  BY DEF RefusalFrame, sessionServer, view
<1>2. sessionCommand # NoCommand /\ isCommand(sessionCommand)
  BY <1>1, CommandStands
<1>3. Grows
  BY <1>1, SameGrows DEF SessionInv
<1>4. CASE sessionCommand' = [sessionCommand EXCEPT !.pc = "error"]
  BY <1>1, <1>3, <1>4, FailsSafe
<1>5. CASE sessionCommand' = [sessionCommand EXCEPT !.pc = "done"]
  <2>1. turnsInto(sessionCommand, sessionCommand', "done", sessionCommand.run, sessionCommand.feed, sessionCommand.accepted)
    BY <1>2, <1>5, CommandFields
  <2>2. sessionCommand.id \in admitted'
    BY <1>1, <1>2 DEF SessionInv, Credited
  <2> QED BY <1>1, <1>3, <2>1, <2>2, RunStays, CommandOnly
<1> QED BY <1>1, <1>4, <1>5

LEMMA BreaksSafe == ASSUME SessionInv, StreamBreaks PROVE SessionInv' /\ endedStaysEnded
<1>1. /\ sessionCommand.pc \in {"opened", "stream"} /\ sessionCommand' = [sessionCommand EXCEPT !.pc = "error"]
      /\ UNCHANGED <<runs, pending, admitted, strays, view, activity, adrift, loads, cancels, obs, acts>>
  BY DEF StreamBreaks, sessionServer, view
<1> QED BY <1>1, SameGrows, FailsSafe DEF SessionInv

\* A command that is over reloads its conversation.
LEMMA ReloadSafe ==
  ASSUME SessionInv, Grows, UNCHANGED <<sessionActive, activity, adrift, cancels, obs, acts, pending>>,
         sessionCommand.pc \in {"done", "error"}, reload,
         msgs' = msgs \/ \E ds : msgs' = without(ds), isRun(sessionRun)',
         sessionCommand.id \in admitted \/ \A d \in msgs'.drafts : ~owns(d)
  PROVE  SessionInv' /\ endedStaysEnded
<1>1. sessionCommand # NoCommand /\ isCommand(sessionCommand) /\ sessionCommand.conv = sessionActive
  BY CommandStands
<1>2. turnsInto(sessionCommand, sessionCommand', "reload", sessionCommand.run, sessionCommand.feed, sessionCommand.accepted)
  BY <1>1, CommandFields DEF reload
<1>3. Displayed' /\ msgs'.drafts \subseteq msgs.drafts
  BY RunComesOn
<1>4. sessionCommand.accepted => sessionCommand.id \in admitted'
  BY <1>1 DEF SessionInv, Credited, Grows
<1>5. DraftsAreOwned' /\ Held' /\ Credited' /\ Linked' /\ sessionCommand'.pc = "reload"
  BY <1>1, <1>2, <1>3, <1>4, CommandMoves DEF Grows
<1>6. Loading'
  BY <1>1, <1>5, NewLoads DEF reload, SessionInv, Displayed
<1>7. Stopping' /\ Observing'
  BY StoppingKept, ObservingKept DEF SessionInv
<1> QED BY <1>3, <1>5, <1>6, <1>7, EndedUnlessStopped DEF SessionInv, Grows

LEMMA FinishSafe == ASSUME SessionInv, Finish PROVE SessionInv' /\ endedStaysEnded
<1>1. /\ sessionCommand.pc = "done" /\ reload
      /\ UNCHANGED <<runs, pending, admitted, strays, sessionActive, sessionRun, msgs, activity, adrift, cancels, obs, acts>>
  BY DEF Finish, sessionServer, view
<1>2. sessionCommand.id \in admitted
  BY <1>1, CommandStands DEF SessionInv, Credited
<1>3. Grows
  BY <1>1, SameGrows DEF SessionInv
<1> QED BY <1>1, <1>2, <1>3, RunStays, ReloadSafe

LEMMA RollBackSafe == ASSUME SessionInv, RollBack PROVE SessionInv' /\ endedStaysEnded
<1>1. /\ sessionCommand.pc = "error" /\ reload /\ msgs' = without(draftsOf(sessionCommand.id, sessionCommand.kind))
      /\ UNCHANGED <<runs, pending, admitted, strays, sessionActive, activity, adrift, cancels, obs, acts>>
      /\ UNCHANGED sessionRun \/ sessionRun' = sessionCommand.prev.run
  BY DEF RollBack, sessionServer, setRunState
<1>2. sessionCommand # NoCommand
  BY <1>1, CommandStands
<1>3. Grows
  BY <1>1, SameGrows DEF SessionInv
<1>4. sessionCommand.id \in admitted \/ \A d \in msgs'.drafts : ~owns(d)
  <2>1. msgs'.drafts = msgs.drafts \ draftsOf(sessionCommand.id, sessionCommand.kind)
    BY <1>1 DEF without, SessionInv, Displayed
  <2>2. \A d \in msgs.drafts : owns(d) => d \in draftsOf(sessionCommand.id, sessionCommand.kind) \/ sessionCommand.id \in admitted
    BY <1>2 DEF SessionInv, Credited
  <2> QED BY <2>1, <2>2
<1>5. isRun(sessionRun)'
  <2>1. isRun(sessionCommand.prev.run)
    BY <1>2 DEF SessionInv, Held
  <2> QED BY <1>1, <1>3, <2>1, RunStays, ShownKept DEF isRun
<1> QED BY <1>1, <1>3, <1>4, <1>5, ReloadSafe

LEMMA RecoverSafe == ASSUME SessionInv, Recover PROVE SessionInv' /\ endedStaysEnded
<1>1. /\ sessionCommand.pc = "error" /\ sessionCommand.accepted /\ sessionCommand' = [sessionCommand EXCEPT !.pc = "end"]
      /\ UNCHANGED <<runs, pending, admitted, strays, sessionActive, sessionRun, activity, adrift, loads, cancels, obs, acts>>
      /\ msgs' = msgs \/ \E ds : msgs' = without(ds)
  BY DEF Recover, sessionServer
<1>2. sessionCommand # NoCommand /\ isCommand(sessionCommand)
  BY <1>1, CommandStands
<1>3. Grows
  BY <1>1, SameGrows DEF SessionInv
<1>4. turnsInto(sessionCommand, sessionCommand', "end", sessionCommand.run, sessionCommand.feed, sessionCommand.accepted)
  BY <1>1, <1>2, CommandFields
<1>5. sessionCommand.id \in admitted'
  BY <1>1, <1>2 DEF SessionInv, Credited
<1> QED BY <1>1, <1>3, <1>4, <1>5, RunStays, CommandOnly

LEMMA CommandEndsSafe == ASSUME SessionInv, CommandEnds PROVE SessionInv' /\ endedStaysEnded
<1>1. /\ sessionCommand.pc = "end" /\ sessionCommand' = NoCommand
      /\ UNCHANGED <<runs, pending, admitted, strays, sessionActive, sessionRun, msgs, adrift, loads, cancels, obs, acts>>
  BY DEF CommandEnds, sessionServer, view
<1>2. sessionCommand # NoCommand
  BY <1>1, CommandStands
<1>3. Grows
  BY <1>1, SameGrows DEF SessionInv
<1>4. Displayed' /\ Stopping' /\ Observing' /\ endedStaysEnded
  BY <1>1, <1>3, DisplayedKept, StoppingKept, ObservingKept, EndedUnlessStopped DEF SessionInv
<1>5. Held' /\ Credited'
  BY <1>1 DEF Held, Credited
<1>6. Linked'
  BY <1>1, <1>3, LinkedKept DEF SessionInv
<1>7. Loading'
  BY <1>1, <1>2, <1>3, LoadingKept DEF SessionInv
<1>8. DraftsAreOwned'
  <2>1. sessionCommand.id \in admitted \/ \A d \in msgs.drafts : ~owns(d)
    BY <1>1, <1>2 DEF SessionInv, Credited
  <2> QED BY <1>1, <2>1 DEF SessionInv, DraftsAreOwned, owns
<1> QED BY <1>3, <1>4, <1>5, <1>6, <1>7, <1>8 DEF SessionInv, Grows

----------------------------------------------------------------------------
\* Stop, and the answer to it.
LEMMA CancelSafe == ASSUME SessionInv, cancel PROVE SessionInv' /\ endedStaysEnded
<1>1. /\ sessionRun # SessionNoRun /\ cancels' = stale(cancels) \cup {[run |-> sessionRun.id, live |-> TRUE, status |-> "none"]}
      /\ UNCHANGED <<runs, pending, admitted, strays, sessionActive, sessionRun, msgs, activity, sessionCommand, adrift, loads, obs>>
      /\ acts' = acts + 1
  BY DEF cancel, sessionServer, view, userActs
<1>2. Grows
  BY <1>1, SameGrows DEF SessionInv
<1>3. Displayed' /\ Loading' /\ Observing' /\ DraftsAreOwned' /\ Held' /\ Credited' /\ Linked' /\ endedStaysEnded
  BY <1>1, <1>2, DisplayedKept, LoadingKept, ObservingKept, CommandKept, EndedUnlessStopped DEF SessionInv
<1>4. sessionRun.id \in DOMAIN runs
  BY <1>1 DEF SessionInv, Displayed, isRun, mayShow
<1>5. Stopping'
  BY <1>1, <1>2, <1>4, StaleCancels DEF SessionInv, Stopping
<1> QED BY <1>2, <1>3, <1>5 DEF SessionInv, Grows

LEMMA CancelRunSafe == ASSUME SessionInv, NEW x \in cancels, CancelRun(x) PROVE SessionInv' /\ endedStaysEnded
<1> DEFINE s == IF isTerminalRunStatus(statusOf(x.run)) THEN statusOf(x.run)
                ELSE IF statusOf(x.run) = "waiting_for_user" THEN "canceled" ELSE "canceling"
<1>1. /\ runs' = IF s = statusOf(x.run) THEN runs ELSE appended(x.run, s)
      /\ cancels' = (cancels \ {x}) \cup {[x EXCEPT !.status = s]}
      /\ UNCHANGED <<pending, admitted, strays, sessionActive, sessionRun, msgs, activity, sessionCommand, adrift, loads, obs, acts>>
  BY DEF CancelRun, view
<1>2. x = [run |-> x.run, live |-> x.live, status |-> x.status] /\ x.run \in DOMAIN runs
  BY DEF SessionInv, Stopping
<1>3. Grows
  <2>1. CASE s = statusOf(x.run)
    BY <1>1, <2>1, SameGrows DEF SessionInv
  <2>2. CASE s # statusOf(x.run)
    <3>1. s \in SessionEvents
      BY <2>2 DEF SessionEvents
    <3> QED BY <1>1, <1>2, <2>2, <3>1, AppendGrows DEF SessionInv
  <2> QED BY <2>1, <2>2
<1> HIDE DEF s
<1>4. Displayed' /\ Loading' /\ Observing' /\ DraftsAreOwned' /\ Held' /\ Credited' /\ Linked' /\ endedStaysEnded
  BY <1>1, <1>3, DisplayedKept, LoadingKept, ObservingKept, CommandKept, EndedUnlessStopped DEF SessionInv
<1>5. [x EXCEPT !.status = s] = [run |-> x.run, live |-> x.live, status |-> s]
  BY <1>2
<1>6. Stopping'
  BY <1>1, <1>2, <1>3, <1>5 DEF SessionInv, Stopping, Grows
<1> QED BY <1>3, <1>4, <1>6 DEF SessionInv, Grows

\* The Run on display says another status, or another Run is shown; nothing else moves.
LEMMA RunMoves ==
  ASSUME SessionInv, Grows, isRun(sessionRun)',
         UNCHANGED <<pending, sessionActive, msgs, activity, sessionCommand, adrift, acts>>
  PROVE  Displayed' /\ DraftsAreOwned' /\ Held' /\ Credited' /\ Linked'
<1>1. Displayed'
  BY RunComesOn
<1>2. DraftsAreOwned' /\ Held' /\ Credited' /\ Linked'
  BY CommandKept DEF SessionInv
<1> QED BY <1>1, <1>2

LEMMA CancelAnswerSafe == ASSUME SessionInv, NEW x \in cancels, CancelAnswer(x) PROVE SessionInv' /\ endedStaysEnded
<1>1. /\ cancels' = cancels \ {x} /\ cancels' \subseteq cancels
      /\ UNCHANGED <<runs, pending, admitted, strays, sessionActive, msgs, activity, sessionCommand, adrift, loads, obs, acts>>
      /\ \/ sessionRun' = sessionRun
         \/ answers(x) /\ sessionRun' = [id |-> x.run, status |-> x.status]
  BY DEF CancelAnswer, sessionServer, setRunState
<1>2. Grows
  BY <1>1, SameGrows DEF SessionInv
<1>3. Loading' /\ Stopping' /\ Observing'
  BY <1>1, <1>2, LoadingKept, StoppingKept, ObservingKept DEF SessionInv
<1>4. x.run \in DOMAIN runs /\ x.run # 0
  BY RunsCounted DEF SessionInv, Stopping
<1>5. isRun(sessionRun)' /\ endedStaysEnded
  <2>1. CASE sessionRun' = sessionRun
    BY <1>1, <1>2, <2>1, RunStays, EndedUnlessStopped
  <2>2. CASE answers(x) /\ sessionRun' = [id |-> x.run, status |-> x.status]
    <3>1. sessionRun.id = x.run /\ ~isTerminalRunStatus(sessionRun.status)
      BY <2>2 DEF answers
    <3>2. sessionRun # SessionNoRun
      BY <1>4, <3>1 DEF SessionNoRun
    <3>3. mayShow(sessionRun.id)
      BY <3>2 DEF SessionInv, Displayed, isRun
    <3>4. PICK r, s : r = x.run /\ s = x.status
      OBVIOUS
    <3>5. mayShow(r)' /\ sessionRun' = [id |-> r, status |-> s]
      BY <1>1, <2>2, <3>1, <3>3, <3>4 DEF mayShow
    <3>6. endedStaysEnded
      BY <3>1 DEF endedStaysEnded
    <3> QED BY <3>5, <3>6, RunShown
  <2> QED BY <1>1, <2>1, <2>2
<1>6. Displayed' /\ DraftsAreOwned' /\ Held' /\ Credited' /\ Linked'
  BY <1>1, <1>2, <1>5, RunMoves
<1> QED BY <1>2, <1>3, <1>5, <1>6 DEF SessionInv, Grows

----------------------------------------------------------------------------
\* One field of the observation changes; it still turnsInto its Run for its conversation.
goesOn(o, q) == isObs(q) /\ q.live = o.live /\ q.run = o.run /\ q.conv = o.conv /\ q.idle = o.idle
obsWith(o, pc, pos, refreshed, tries) ==
  [live |-> o.live, key |-> o.key, run |-> o.run, conv |-> o.conv, idle |-> o.idle, pc |-> pc, pos |-> pos, refreshed |-> refreshed, attempt |-> tries]

LEMMA WithGoesOn ==
  ASSUME NEW o, o.conv \in Convs, NEW pc, NEW pos, NEW refreshed, NEW tries
  PROVE  goesOn(o, obsWith(o, pc, pos, refreshed, tries))
<1> DEFINE q == obsWith(o, pc, pos, refreshed, tries)
<1>1. /\ q.live = o.live /\ q.key = o.key /\ q.run = o.run /\ q.conv = o.conv /\ q.idle = o.idle
      /\ q.pc = pc /\ q.pos = pos /\ q.refreshed = refreshed /\ q.attempt = tries
  BY DEF obsWith
<1>2. q = [live |-> q.live, key |-> q.key, run |-> q.run, conv |-> q.conv, idle |-> q.idle, pc |-> q.pc, pos |-> q.pos,
           refreshed |-> q.refreshed, attempt |-> q.attempt]
  BY <1>1 DEF obsWith
<1> HIDE DEF q
<1>3. goesOn(o, q)
  BY <1>1, <1>2 DEF goesOn, isObs
<1> QED BY <1>3 DEF q

LEMMA ObsFields ==
  ASSUME NEW o, isObs(o), NEW v
  PROVE  /\ goesOn(o, [o EXCEPT !.pc = v]) /\ goesOn(o, [o EXCEPT !.pos = v])
         /\ goesOn(o, [o EXCEPT !.refreshed = v]) /\ goesOn(o, [o EXCEPT !.attempt = v])
<1>0. o.conv \in Convs
  BY DEF isObs
<1>1. [o EXCEPT !.pc = v] = obsWith(o, v, o.pos, o.refreshed, o.attempt)
  BY DEF isObs, obsWith
<1>2. [o EXCEPT !.pos = v] = obsWith(o, o.pc, v, o.refreshed, o.attempt)
  BY DEF isObs, obsWith
<1>3. [o EXCEPT !.refreshed = v] = obsWith(o, o.pc, o.pos, v, o.attempt)
  BY DEF isObs, obsWith
<1>4. [o EXCEPT !.attempt = v] = obsWith(o, o.pc, o.pos, o.refreshed, v)
  BY DEF isObs, obsWith
<1> QED BY <1>0, <1>1, <1>2, <1>3, <1>4, WithGoesOn

LEMMA LiveObs == ASSUME SessionInv, obs.live PROVE isObs(obs) /\ obs.run \in DOMAIN runs /\ obs.conv \in Convs
  BY DEF SessionInv, Observing, isObs

LEMMA GoesOnObserving ==
  ASSUME SessionInv, Grows, obs.live, goesOn(obs, obs')
  PROVE  Observing'
<1>1. obs'.run \in DOMAIN runs'
  BY LiveObs DEF goesOn, Grows
<1> QED BY <1>1 DEF Observing, goesOn, isObs

\* A step of the observation that shows nothing.
LEMMA ObservationOnly ==
  ASSUME SessionInv, UNCHANGED <<sessionServer, view, activity, sessionCommand, adrift, loads, cancels, acts>>, Observing'
  PROVE  SessionInv' /\ endedStaysEnded
<1>1. UNCHANGED <<runs, pending, admitted, strays, sessionActive, sessionRun, msgs>>
  BY DEF sessionServer, view
<1>2. Grows
  BY <1>1, SameGrows DEF SessionInv
<1>3. Displayed' /\ Loading' /\ Stopping' /\ DraftsAreOwned' /\ Held' /\ Credited' /\ Linked' /\ endedStaysEnded
  BY <1>1, <1>2, DisplayedKept, LoadingKept, StoppingKept, CommandKept, EndedUnlessStopped DEF SessionInv
<1> QED BY <1>2, <1>3 DEF SessionInv, Grows

LEMMA EffectSafe == ASSUME SessionInv, Effect PROVE SessionInv' /\ endedStaysEnded
<1>1. UNCHANGED <<sessionServer, view, activity, sessionCommand, adrift, loads, cancels, acts>>
  BY DEF Effect
<1>2. CASE sessionRun.status \in {"running", "canceling"}
  <2>1. mayShow(sessionRun.id)
    BY <1>2 DEF SessionInv, Displayed, isRun, SessionNoRun
  <2>2. obs' = [live |-> TRUE, key |-> key, run |-> sessionRun.id, conv |-> sessionActive, idle |-> activity = "idle",
                pc |-> "connect", pos |-> 0, refreshed |-> FALSE, attempt |-> 0]
    BY <1>2 DEF Effect
  <2>3. /\ obs'.live = TRUE /\ obs'.key = key /\ obs'.run = sessionRun.id /\ obs'.conv = sessionActive /\ obs'.idle = (activity = "idle")
        /\ obs'.pc = "connect" /\ obs'.pos = 0 /\ obs'.refreshed = FALSE /\ obs'.attempt = 0
    BY <2>2
  <2>4. obs' = [live |-> obs'.live, key |-> obs'.key, run |-> obs'.run, conv |-> obs'.conv, idle |-> obs'.idle, pc |-> obs'.pc,
                pos |-> obs'.pos, refreshed |-> obs'.refreshed, attempt |-> obs'.attempt]
    BY <2>2, <2>3
  <2>5. obs'.conv \in Convs /\ obs'.run \in DOMAIN runs'
    BY <1>1, <2>1, <2>3 DEF SessionInv, Displayed, mayShow, sessionServer
  <2>6. Observing'
    BY <2>4, <2>5 DEF Observing, isObs
  <2> QED BY <1>1, <2>6, ObservationOnly
<1>3. CASE sessionRun.status \notin {"running", "canceling"}
  <2>1. ~obs'.live
    BY <1>3 DEF Effect
  <2>2. Observing'
    BY <2>1 DEF Observing
  <2> QED BY <1>1, <2>2, ObservationOnly
<1> QED BY <1>2, <1>3

\* Two fields of the observation change.
LEMMA GoesOnTwice ==
  ASSUME NEW o, NEW p, NEW q, isObs(o), goesOn(o, p), goesOn(p, q) \/ p = q
  PROVE  goesOn(o, q)
  BY DEF goesOn

LEMMA ObserveSafe == ASSUME SessionInv, SessionObserve PROVE SessionInv' /\ endedStaysEnded
<1>1. UNCHANGED <<sessionServer, view, activity, sessionCommand, adrift, loads, cancels, acts>> /\ obs.live
  BY DEF SessionObserve
<1>2. PICK n : obs' = [[obs EXCEPT !.pc = "snapshot"] EXCEPT !.pos = n]
  BY DEF SessionObserve
<1>3. PICK one : one = [obs EXCEPT !.pc = "snapshot"] /\ obs' = [one EXCEPT !.pos = n]
  BY <1>2
<1>4. isObs(obs) /\ goesOn(obs, one)
  BY <1>1, <1>3, LiveObs, ObsFields
<1>5. goesOn(one, obs')
  <2>1. isObs(one)
    BY <1>4 DEF goesOn
  <2> QED BY <1>3, <2>1, ObsFields
<1>6. Grows
  BY <1>1, SameGrows DEF SessionInv, sessionServer, view
<1>7. goesOn(obs, obs')
  BY <1>4, <1>5, GoesOnTwice
<1> QED BY <1>1, <1>6, <1>7, GoesOnObserving, ObservationOnly

LEMMA ObserveFailsSafe == ASSUME SessionInv, ObserveFails PROVE SessionInv' /\ endedStaysEnded
<1>1. UNCHANGED <<sessionServer, view, activity, sessionCommand, adrift, loads, cancels, acts>> /\ obs.live
  BY DEF ObserveFails
<1>2. isObs(obs)
  BY <1>1, LiveObs
<1>3. goesOn(obs, obs')
  <2>1. CASE obs' = [obs EXCEPT !.pc = "lost"]
    BY <1>2, <2>1, ObsFields
  <2>2. CASE obs' = [obs EXCEPT !.pc = "connect", !.attempt = @ + 1]
    <3>1. PICK one, n : one = [obs EXCEPT !.pc = "connect"] /\ obs' = [one EXCEPT !.attempt = n]
      BY <2>2
    <3>2. goesOn(obs, one)
      BY <1>2, <3>1, ObsFields
    <3>3. goesOn(one, obs')
      <4>1. isObs(one)
        BY <3>2 DEF goesOn
      <4> QED BY <3>1, <4>1, ObsFields
    <3> QED BY <1>2, <3>2, <3>3, GoesOnTwice
  <2> QED BY <2>1, <2>2 DEF ObserveFails
<1>4. Grows
  BY <1>1, SameGrows DEF SessionInv, sessionServer, view
<1> QED BY <1>1, <1>3, <1>4, GoesOnObserving, ObservationOnly

\* What an observer that has seen status s shows, and the load it asks for.
LEMMA SeenStatus ==
  ASSUME SessionInv, obs.live, NEW s, UNCHANGED loads \/ observed(s), goesOn(obs, obs'),
         UNCHANGED <<runs, pending, admitted, sessionActive, msgs, activity, sessionCommand, adrift, cancels, acts>>,
         UNCHANGED <<sessionRun, strays>> \/ observes(s)
  PROVE  SessionInv' /\ endedStaysEnded
<1>1. strays \subseteq strays'
  BY DEF observes
<1>2. Grows
  BY <1>1, SameGrows DEF SessionInv
<1>3. Stopping' /\ Observing' /\ endedStaysEnded
  BY <1>2, StoppingKept, GoesOnObserving, EndedUnlessStopped DEF SessionInv
<1>4. Loading'
  <2>1. CASE loads' = loads
    BY <1>2, <2>1, LoadingKept DEF SessionInv
  <2>2. CASE loads' = stale(loads) \cup {newLoad(obs.conv, "observed")}
    BY <1>2, <2>2, LiveObs, NewLoads DEF SessionInv
  <2> QED BY <2>1, <2>2 DEF observed
<1>5. isRun(sessionRun)'
  <2>1. CASE UNCHANGED <<sessionRun, strays>>
    BY <1>2, <2>1, RunStays
  <2>2. CASE observes(s)
    <3>1. obs.run \in DOMAIN runs /\ (runs[obs.run].conv = sessionActive \/ obs.run \in strays')
      BY <2>2, LiveObs DEF observes
    <3>2. sessionRun' = [id |-> obs.run, status |-> s]
      BY <2>2 DEF observes, setRunState
    <3>3. PICK r : r = obs.run
      OBVIOUS
    <3>4. mayShow(r)' /\ sessionRun' = [id |-> r, status |-> s]
      BY <3>1, <3>2, <3>3 DEF mayShow
    <3> QED BY <3>4, RunShown
  <2> QED BY <2>1, <2>2
<1>6. Displayed' /\ DraftsAreOwned' /\ Held' /\ Credited' /\ Linked'
  BY <1>2, <1>5, RunMoves
<1> QED BY <1>2, <1>3, <1>4, <1>6 DEF SessionInv, Grows

LEMMA SnapshotSafe == ASSUME SessionInv, SessionSnapshot PROVE SessionInv' /\ endedStaysEnded
<1>1. PICK s :
        /\ UNCHANGED <<runs, pending, admitted, sessionActive, msgs, activity, sessionCommand, adrift, cancels, acts>> /\ obs.live
        /\ UNCHANGED loads \/ observed(s)
        /\ UNCHANGED <<sessionRun, strays>> \/ observes(s)
        /\ \E p, f : obs' = [obs EXCEPT !.pc = p, !.refreshed = f]
  <2>1. PICK s : s = statusAt(obs.run, obs.pos)
    OBVIOUS
  <2>2. /\ UNCHANGED <<runs, pending, admitted, sessionActive, msgs, activity, sessionCommand, adrift, cancels, acts>> /\ obs.live
        /\ UNCHANGED loads \/ observed(s)
        /\ UNCHANGED <<sessionRun, strays>> \/ observes(s)
    BY <2>1 DEF SessionSnapshot, sessionServer
  <2>3. \E p, f : obs' = [obs EXCEPT !.pc = p, !.refreshed = f]
    <3>1. obs' = [obs EXCEPT !.pc = IF isStoppedRunStatus(s) THEN "closed" ELSE "live",
                             !.refreshed = @ \/ (runs[obs.run].conv = obs.conv /\ sessionStops(s))]
      BY <2>1 DEF SessionSnapshot
    <3>2. PICK p, b : p = (IF isStoppedRunStatus(s) THEN "closed" ELSE "live") /\ b = (runs[obs.run].conv = obs.conv /\ sessionStops(s))
      OBVIOUS
    <3>3. isObs(obs)
      BY <2>2, LiveObs
    <3>4. [obs EXCEPT !.pc = p].refreshed = obs.refreshed
      BY <3>3 DEF isObs
    <3>5. obs' = [obs EXCEPT !.pc = p, !.refreshed = obs.refreshed \/ b]
      BY <3>1, <3>2, <3>4
    <3> QED BY <3>5
  <2> QED BY <2>2, <2>3
<1>2. PICK one, f : goesOn(obs, one) /\ obs' = [one EXCEPT !.refreshed = f]
  <2>1. PICK p, f : obs' = [obs EXCEPT !.pc = p, !.refreshed = f]
    BY <1>1
  <2>2. PICK one : one = [obs EXCEPT !.pc = p] /\ obs' = [one EXCEPT !.refreshed = f]
    BY <2>1
  <2>3. goesOn(obs, one)
    BY <1>1, <2>2, LiveObs, ObsFields
  <2> QED BY <2>2, <2>3
<1>3. goesOn(one, obs')
  <2>1. isObs(one)
    BY <1>2 DEF goesOn
  <2> QED BY <1>2, <2>1, ObsFields
<1>4. goesOn(obs, obs')
  BY <1>1, <1>2, <1>3, LiveObs, GoesOnTwice
<1> QED BY <1>1, <1>4, SeenStatus

LEMMA LiveEventSafe == ASSUME SessionInv, LiveEvent PROVE SessionInv' /\ endedStaysEnded
<1>1. UNCHANGED <<runs, pending, admitted, sessionActive, msgs, activity, sessionCommand, adrift, cancels, acts>> /\ obs.live
  BY DEF LiveEvent, sessionServer
<1>2. isObs(obs)
  BY <1>1, LiveObs
<1>3. PICK n, e :
        /\ obs' = [obs EXCEPT !.pos = n, !.pc = IF isStoppedRunStatus(e) THEN "closed" ELSE @, !.refreshed = @ \/ sessionStops(e)]
        /\ observed(e)
        /\ UNCHANGED <<sessionRun, strays>> \/ observes(e)
  BY DEF LiveEvent
<1>4. goesOn(obs, obs')
  <2>1. PICK b, c : b = sessionStops(e) /\ c = isStoppedRunStatus(e)
    OBVIOUS
  <2>2. PICK one : one = [obs EXCEPT !.pos = n] /\ obs' = [one EXCEPT !.pc = IF c THEN "closed" ELSE @, !.refreshed = @ \/ b]
    BY <1>3, <2>1
  <2>3. PICK p, two : two = [one EXCEPT !.pc = p] /\ obs' = [two EXCEPT !.refreshed = @ \/ b]
    BY <2>2
  <2>4. goesOn(obs, one)
    BY <1>2, <2>2, ObsFields
  <2>5. goesOn(one, two)
    BY <2>3, <2>4, ObsFields DEF goesOn
  <2>6. goesOn(two, obs')
    <3>1. isObs(two)
      BY <2>5 DEF goesOn
    <3>2. PICK f : obs' = [two EXCEPT !.refreshed = f]
      BY <2>3
    <3> QED BY <3>1, <3>2, ObsFields
  <2> QED BY <2>4, <2>5, <2>6 DEF goesOn
<1> QED BY <1>1, <1>3, <1>4, SeenStatus

LEMMA SessionStutters == ASSUME SessionInv, UNCHANGED sessionVars PROVE SessionInv' /\ endedStaysEnded
<1>1. UNCHANGED <<runs, pending, admitted, strays, view, activity, sessionCommand, adrift, obs, loads, cancels, acts>>
  BY DEF sessionVars, view
<1>2. Grows
  BY <1>1, SameGrows DEF SessionInv
<1> QED BY <1>1, <1>2, QuietStep

LEMMA SessionBegins == SessionInit => SessionInv
<1> SUFFICES ASSUME SessionInit PROVE SessionInv
  OBVIOUS
<1>1. Begun
  <2>1. runs = <<>> /\ runs \in Seq(RunRecord) /\ DOMAIN runs = {}
    BY DEF SessionInit
  <2> QED BY <2>1 DEF Begun
<1>2. Displayed /\ DraftsAreOwned
  BY DEF SessionInit, Displayed, isRun, SessionNoRun, DraftsAreOwned
<1>3. Held /\ Credited /\ Linked
  BY DEF SessionInit, Held, Credited, Linked
<1>4. Loading /\ Stopping /\ Observing
  BY DEF SessionInit, Loading, Stopping, Observing, NoObs
<1> QED BY <1>1, <1>2, <1>3, <1>4 DEF SessionInv

\* The web session shows one conversation (but for an observation that outlived a change of
\* conversation), leaves no draft of a command the server has not admitted, and shows an ended
\* Run as ended whatever answer comes late: useRunSession.ts, useConversationHistory.ts,
\* ChatShell.tsx, latest-request.ts.
THEOREM SessionCorrect == SessionSpec => SessionSafe
<1>1. SessionInv /\ [SessionNext]_sessionVars => SessionInv' /\ endedStaysEnded
  <2> SUFFICES ASSUME SessionInv, [SessionNext]_sessionVars PROVE SessionInv' /\ endedStaysEnded
    OBVIOUS
  <2>1. CASE UNCHANGED sessionVars
    BY <2>1, SessionStutters
  <2>2. CASE RunStep \/ Repair \/ OtherClient \/ \E a \in pending : PrepareRun(a)
    BY <2>2, RunStepSafe, RepairSafe, OtherClientSafe, PrepareSafe
  <2>3. CASE cancel \/ startNewConversation \/ \E c \in Convs : openConversation(c)
    BY <2>3, CancelSafe, StartNewSafe, OpenSafe
  <2>4. CASE \E kind \in {"submitting", "continuing", "resuming"} : execute(kind)
    BY <2>4, ExecuteSafe DEF SessionKinds
  <2>5. CASE \E l \in loads : LoadFail(l) \/ LoadFetch(l) \/ LoadProjection(l) \/ LoadApply(l) \/ CreateConversation(l)
    BY <2>5, LoadFailSafe, LoadFetchSafe, LoadProjectionSafe, LoadApplySafe, CreateSafe
  <2>6. CASE ReceiveCommand \/ (\E q \in adrift : ReceiveAdrift(q)) \/ FirstFrame \/ Frame \/ RefusalFrame \/ StreamBreaks
    BY <2>6, ReceiveSafe, AdriftSafe, FirstFrameSafe, FrameSafe, RefusalSafe, BreaksSafe
  <2>7. CASE Finish \/ RollBack \/ Recover \/ CommandEnds
    BY <2>7, FinishSafe, RollBackSafe, RecoverSafe, CommandEndsSafe
  <2>8. CASE \E x \in cancels : CancelRun(x) \/ CancelAnswer(x)
    BY <2>8, CancelRunSafe, CancelAnswerSafe
  <2>9. CASE Effect \/ SessionObserve \/ SessionSnapshot \/ LiveEvent \/ ObserveFails
    BY <2>9, EffectSafe, ObserveSafe, SnapshotSafe, LiveEventSafe, ObserveFailsSafe
  <2> QED BY <2>1, <2>2, <2>3, <2>4, <2>5, <2>6, <2>7, <2>8, <2>9 DEF SessionNext, Browser, Server
<1>2. SessionInv => ShowsOneConversation /\ DraftsAreOwned
  <2> SUFFICES ASSUME SessionInv PROVE ShowsOneConversation /\ DraftsAreOwned
    OBVIOUS
  <2>1. msgs.conv = sessionActive
    BY DEF SessionInv, Displayed
  <2> QED BY <2>1 DEF SessionInv, Displayed, ShowsOneConversation, isRun, mayShow
<1> QED BY <1>1, <1>2, SessionBegins, PTL DEF SessionSpec, SessionSafe

----------------------------------------------------------------------------
(* Task State.  A patch is folded over its operations; what the fold leaves  *)
(* of one entity is a matter of the last operation on it.                    *)

TaskDecision == [id : {op.id : op \in Operations}, supersedes : {op.value : op \in Operations}]
TaskValues == {op.value : op \in Operations} \cup {"", "resolved"}
TaskItems == UNION {[S -> TaskValues] : S \in SUBSET Ids}
TaskStates == [goal : TaskValues, tasks : TaskItems, decisions : Seq(TaskDecision),
               constraints : TaskItems, blockers : TaskItems, refs : SUBSET Ids]

\* Every decision supersedes none or an earlier one.
supersedes(ds, n, d) == d.supersedes # "" => \E j \in 1..n : ds[j].id = d.supersedes
Superseding(ds) == \A i \in DOMAIN ds : supersedes(ds, i - 1, ds[i])
Extends(ds, es) == Len(ds) <= Len(es) /\ \A i \in 1..Len(ds) : es[i] = ds[i]

\* What an operation writes, and what the first k operations of a patch make of a map.
writes(op) == IF op.type = "resolve_blocker" THEN "resolved" ELSE op.value
names(op, types, id) == op.type \in types /\ op.id = id
leaves(f, g, ops, k, sets, removes, id) ==
  /\ (\A i \in 1..k : ~names(ops[i], sets \cup removes, id)) =>
       (id \in DOMAIN f <=> id \in DOMAIN g) /\ (id \in DOMAIN f => f[id] = g[id])
  /\ \A i \in 1..k :
       names(ops[i], sets \cup removes, id) /\ (\A j \in (i + 1)..k : ~names(ops[j], sets \cup removes, id)) =>
         IF ops[i].type \in removes THEN id \notin DOMAIN g ELSE id \in DOMAIN g /\ g[id] = writes(ops[i])

\* One operation on a map.
alters(f, g, op, sets, removes) ==
  /\ op.type \in sets => g = upsert(f, op.id, writes(op))
  /\ op.type \in removes => g = remove(f, op.id)
  /\ op.type \notin sets \cup removes => g = f

\* The next operation of a patch has the last word on what it names.
LEMMA LeavesStep ==
  ASSUME NEW f, NEW g, NEW h, NEW ops, NEW k \in Nat, NEW sets, NEW removes, NEW id, sets \cap removes = {},
         leaves(f, g, ops, k, sets, removes, id), alters(g, h, ops[k + 1], sets, removes)
  PROVE  leaves(f, h, ops, k + 1, sets, removes, id)
<1> DEFINE op == ops[k + 1]
           all == sets \cup removes
<1>1. CASE op.type \notin all
  <2>1. h = g /\ ~names(op, all, id)
    BY <1>1 DEF alters, names
  <2>2. ASSUME \A i \in 1..(k + 1) : ~names(ops[i], all, id)
        PROVE  (id \in DOMAIN f <=> id \in DOMAIN h) /\ (id \in DOMAIN f => f[id] = h[id])
    BY <2>1, <2>2 DEF leaves
  <2>3. ASSUME NEW i \in 1..(k + 1), names(ops[i], all, id), \A j \in (i + 1)..(k + 1) : ~names(ops[j], all, id)
        PROVE  IF ops[i].type \in removes THEN id \notin DOMAIN h ELSE id \in DOMAIN h /\ h[id] = writes(ops[i])
    <3>1. i \in 1..k
      BY <2>1, <2>3
    <3>2. \A j \in (i + 1)..k : ~names(ops[j], all, id)
      BY <2>3
    <3> QED BY <2>1, <2>3, <3>1, <3>2 DEF leaves
  <2> QED BY <2>2, <2>3 DEF leaves
<1>2. CASE op.type \in all /\ op.id # id
  <2>1. ~names(op, all, id)
    BY <1>2 DEF names
  <2>2. (id \in DOMAIN h <=> id \in DOMAIN g) /\ (id \in DOMAIN g => h[id] = g[id])
    BY <1>2 DEF alters, upsert, remove
  <2>3. ASSUME \A i \in 1..(k + 1) : ~names(ops[i], all, id)
        PROVE  (id \in DOMAIN f <=> id \in DOMAIN h) /\ (id \in DOMAIN f => f[id] = h[id])
    <3>1. \A i \in 1..k : ~names(ops[i], all, id)
      BY <2>3
    <3> QED BY <2>2, <3>1 DEF leaves
  <2>4. ASSUME NEW i \in 1..(k + 1), names(ops[i], all, id), \A j \in (i + 1)..(k + 1) : ~names(ops[j], all, id)
        PROVE  IF ops[i].type \in removes THEN id \notin DOMAIN h ELSE id \in DOMAIN h /\ h[id] = writes(ops[i])
    <3>1. i \in 1..k
      BY <2>1, <2>4
    <3>2. \A j \in (i + 1)..k : ~names(ops[j], all, id)
      BY <2>4
    <3>3. IF ops[i].type \in removes THEN id \notin DOMAIN g ELSE id \in DOMAIN g /\ g[id] = writes(ops[i])
      BY <2>4, <3>1, <3>2 DEF leaves
    <3> QED BY <2>2, <3>3
  <2> QED BY <2>3, <2>4 DEF leaves
<1>3. CASE op.type \in all /\ op.id = id
  <2>1. names(op, all, id)
    BY <1>3 DEF names
  <2>2. IF op.type \in removes THEN id \notin DOMAIN h ELSE id \in DOMAIN h /\ h[id] = writes(op)
    BY <1>3 DEF alters, upsert, remove
  <2>3. ASSUME NEW i \in 1..(k + 1), \A j \in (i + 1)..(k + 1) : ~names(ops[j], all, id)
        PROVE  i = k + 1
    BY <2>1, <2>3
  <2>4. ~\A i \in 1..(k + 1) : ~names(ops[i], all, id)
    BY <2>1
  <2> QED BY <2>2, <2>3, <2>4 DEF leaves
<1> QED BY <1>1, <1>2, <1>3

LEMMA ItemsKept ==
  ASSUME NEW f \in TaskItems, NEW id \in Ids, NEW v \in TaskValues
  PROVE  upsert(f, id, v) \in TaskItems /\ remove(f, id) \in TaskItems
<1>1. PICK S \in SUBSET Ids : f \in [S -> TaskValues]
  BY DEF TaskItems
<1>2. upsert(f, id, v) \in [S \cup {id} -> TaskValues] /\ S \cup {id} \in SUBSET Ids
  BY <1>1 DEF upsert
<1>3. remove(f, id) \in [S \ {id} -> TaskValues] /\ S \ {id} \in SUBSET Ids
  BY <1>1 DEF remove
<1> QED BY <1>2, <1>3 DEF TaskItems

\* What one accepted operation does to the maps and the decisions.
LEMMA OperationChanges ==
  ASSUME NEW s \in TaskStates, NEW op \in Operations, ~refuses(s, op), NEW t, t = applyTaskStateOperation(s, op)
  PROVE  /\ t \in TaskStates
         /\ alters(s.tasks, t.tasks, op, {"upsert_task", "set_task_status"}, {"remove_task"})
         /\ alters(s.constraints, t.constraints, op, {"upsert_constraint"}, {"remove_constraint"})
         /\ alters(s.blockers, t.blockers, op, {"upsert_blocker", "resolve_blocker"}, {"remove_blocker"})
         /\ \/ t.decisions = s.decisions
            \/ \E d \in TaskDecision : /\ t.decisions = Append(s.decisions, d)
                                       /\ supersedes(s.decisions, Len(s.decisions), d)
<1> DEFINE record(g, a, d, c, b, r) == [goal |-> g, tasks |-> a, decisions |-> d, constraints |-> c, blockers |-> b, refs |-> r]
           sound(g, a, d, c, b, r) == /\ g \in TaskValues /\ a \in TaskItems /\ d \in Seq(TaskDecision)
                                      /\ c \in TaskItems /\ b \in TaskItems /\ r \in SUBSET Ids
<1>1. /\ s = record(s.goal, s.tasks, s.decisions, s.constraints, s.blockers, s.refs)
      /\ sound(s.goal, s.tasks, s.decisions, s.constraints, s.blockers, s.refs)
  BY DEF TaskStates
<1>2. op.type \in TaskTypes /\ op.id \in Ids /\ op.value \in TaskValues /\ writes(op) \in TaskValues
  BY TaskAssumption DEF TaskValues, writes
<1>12. \A g, a, d, c, b, r : sound(g, a, d, c, b, r) => record(g, a, d, c, b, r) \in TaskStates
  BY DEF TaskStates
<1>13. \A f \in TaskItems : \A v \in TaskValues : upsert(f, op.id, v) \in TaskItems /\ remove(f, op.id) \in TaskItems
  BY <1>2, ItemsKept
<1>3. CASE op.type \in {"set_goal", "clear_goal"}
  <2>1. \E g \in TaskValues : t = record(g, s.tasks, s.decisions, s.constraints, s.blockers, s.refs)
    <3>1. "" \in TaskValues
      BY DEF TaskValues
    <3> QED BY <1>1, <1>2, <1>3, <3>1 DEF applyTaskStateOperation
  <2>2. t \in TaskStates
    BY <1>1, <1>12, <2>1
  <2> QED BY <1>3, <2>1, <2>2 DEF alters
<1>4. CASE op.type \in {"upsert_task", "set_task_status"}
  <2>1. t = record(s.goal, upsert(s.tasks, op.id, op.value), s.decisions, s.constraints, s.blockers, s.refs)
    BY <1>1, <1>4 DEF applyTaskStateOperation
  <2>2. upsert(s.tasks, op.id, op.value) \in TaskItems
    BY <1>1, <1>2, <1>13
  <2>3. t \in TaskStates
    <3> HIDE DEF record
    <3> QED BY <1>1, <1>12, <2>1, <2>2
  <2> QED BY <1>1, <1>4, <2>1, <2>3 DEF alters, writes
<1>5. CASE op.type = "remove_task"
  <2>1. t = record(s.goal, remove(s.tasks, op.id), s.decisions, s.constraints, s.blockers, s.refs)
    BY <1>1, <1>5 DEF applyTaskStateOperation
  <2>2. remove(s.tasks, op.id) \in TaskItems
    BY <1>1, <1>2, <1>13
  <2>3. t \in TaskStates
    <3> HIDE DEF record
    <3> QED BY <1>1, <1>12, <2>1, <2>2
  <2> QED BY <1>1, <1>5, <2>1, <2>3 DEF alters
<1>6. CASE op.type = "add_decision"
  <2> DEFINE d == [id |-> op.id, supersedes |-> op.value]
  <2>1. t = record(s.goal, s.tasks, Append(s.decisions, d), s.constraints, s.blockers, s.refs)
    BY <1>1, <1>6 DEF applyTaskStateOperation
  <2>2. d \in TaskDecision
    BY DEF TaskDecision
  <2>3. op.value # "" => \E j \in DOMAIN s.decisions : s.decisions[j].id = op.value
    BY <1>6 DEF refuses, containsDecision
  <2>4. supersedes(s.decisions, Len(s.decisions), d)
    <3>1. DOMAIN s.decisions = 1..Len(s.decisions)
      BY <1>1
    <3> QED BY <2>3, <3>1 DEF supersedes
  <2>5. /\ t.tasks = s.tasks /\ t.constraints = s.constraints /\ t.blockers = s.blockers
        /\ t.decisions = Append(s.decisions, d)
    BY <2>1
  <2> HIDE DEF d
  <2>6. Append(s.decisions, d) \in Seq(TaskDecision)
    BY <1>1, <2>2
  <2>7. t \in TaskStates
    BY <1>1, <1>12, <2>1, <2>6
  <2> QED BY <1>6, <2>2, <2>3, <2>4, <2>5, <2>7 DEF alters
<1>7. CASE op.type = "upsert_constraint"
  <2>1. t = record(s.goal, s.tasks, s.decisions, upsert(s.constraints, op.id, op.value), s.blockers, s.refs)
    BY <1>1, <1>7 DEF applyTaskStateOperation
  <2>2. upsert(s.constraints, op.id, op.value) \in TaskItems
    BY <1>1, <1>2, <1>13
  <2>3. t \in TaskStates
    <3> HIDE DEF record
    <3> QED BY <1>1, <1>12, <2>1, <2>2
  <2> QED BY <1>1, <1>7, <2>1, <2>3 DEF alters, writes
<1>8. CASE op.type = "remove_constraint"
  <2>1. t = record(s.goal, s.tasks, s.decisions, remove(s.constraints, op.id), s.blockers, s.refs)
    BY <1>1, <1>8 DEF applyTaskStateOperation
  <2>2. remove(s.constraints, op.id) \in TaskItems
    BY <1>1, <1>2, <1>13
  <2>3. t \in TaskStates
    <3> HIDE DEF record
    <3> QED BY <1>1, <1>12, <2>1, <2>2
  <2> QED BY <1>1, <1>8, <2>1, <2>3 DEF alters
<1>9. CASE op.type \in {"upsert_blocker", "resolve_blocker"}
  <2>1. t = record(s.goal, s.tasks, s.decisions, s.constraints, upsert(s.blockers, op.id, writes(op)), s.refs)
    BY <1>1, <1>9 DEF applyTaskStateOperation, writes
  <2>2. upsert(s.blockers, op.id, writes(op)) \in TaskItems
    BY <1>1, <1>2, <1>13
  <2>3. t \in TaskStates
    <3> HIDE DEF record
    <3> QED BY <1>1, <1>12, <2>1, <2>2
  <2> QED BY <1>1, <1>9, <2>1, <2>3 DEF alters
<1>10. CASE op.type = "remove_blocker"
  <2>1. t = record(s.goal, s.tasks, s.decisions, s.constraints, remove(s.blockers, op.id), s.refs)
    BY <1>1, <1>10 DEF applyTaskStateOperation
  <2>2. remove(s.blockers, op.id) \in TaskItems
    BY <1>1, <1>2, <1>13
  <2>3. t \in TaskStates
    <3> HIDE DEF record
    <3> QED BY <1>1, <1>12, <2>1, <2>2
  <2> QED BY <1>1, <1>10, <2>1, <2>3 DEF alters
<1>11. CASE op.type \in {"add_artifact_ref", "remove_artifact_ref"}
  <2>1. \E r \in SUBSET Ids : t = record(s.goal, s.tasks, s.decisions, s.constraints, s.blockers, r)
    BY <1>1, <1>2, <1>11 DEF applyTaskStateOperation
  <2>2. t \in TaskStates
    BY <1>1, <1>2, <1>12, <1>13, <2>1
  <2> QED BY <1>1, <1>11, <2>1, <2>2 DEF alters
<1> QED BY <1>2, <1>3, <1>4, <1>5, <1>6, <1>7, <1>8, <1>9, <1>10, <1>11 DEF TaskTypes

\* The fold of a patch has a state after every operation.
follows(h, s, ops, n) ==
  h = [k \in 0..n |-> IF k = 0 THEN [ok |-> TRUE, state |-> s] ELSE step(h[k - 1], ops[k])]

LEMMA FoldExists ==
  ASSUME NEW s, NEW ops
  PROVE  \A n \in Nat : \E h : follows(h, s, ops, n)
<1> DEFINE Without == {n \in Nat : ~\E h : follows(h, s, ops, n)}
<1> SUFFICES ASSUME Without # {} PROVE FALSE
  OBVIOUS
<1>1. Without \subseteq Nat
  OBVIOUS
<1>2. IsWellFoundedOn(earlier, Nat)
  BY NatLessThanWellFounded DEF OpToRel, earlier
<1>3. PICK n \in Without : \A m \in Without : ~(<<m, n>> \in earlier)
  <2> HIDE DEF Without
  <2> QED BY <1>1, <1>2, WFMin
<1>4. \A m \in Nat : m < n => m \notin Without
  BY <1>3 DEF earlier
<1>5. n # 0
  <2> DEFINE h == [k \in 0..0 |-> [ok |-> TRUE, state |-> s]]
  <2>1. follows(h, s, ops, 0)
    BY DEF follows
  <2> QED BY <1>3, <2>1
<1>6. n - 1 \in Nat /\ n - 1 < n
  BY <1>5
<1>7. PICK h : follows(h, s, ops, n - 1)
  BY <1>4, <1>6
<1> DEFINE g == [k \in 0..n |-> IF k = n THEN step(h[n - 1], ops[n]) ELSE h[k]]
<1>8. \A k \in 0..n : g[k] = IF k = 0 THEN [ok |-> TRUE, state |-> s] ELSE step(g[k - 1], ops[k])
  <2> TAKE k \in 0..n
  <2>1. CASE k = n
    <3>1. g[k] = step(h[n - 1], ops[n]) /\ g[k - 1] = h[n - 1]
      BY <1>5, <1>6, <2>1
    <3> QED BY <1>5, <2>1, <3>1
  <2>2. CASE k # n
    <3>1. k \in 0..(n - 1) /\ (k # 0 => k - 1 \in 0..(n - 1))
      BY <1>6, <2>2
    <3>2. g[k] = h[k] /\ (k # 0 => g[k - 1] = h[k - 1])
      BY <1>6, <2>2
    <3> QED BY <1>7, <3>1, <3>2 DEF follows
  <2> QED BY <2>1, <2>2
<1>9. follows(g, s, ops, n)
  <2>1. g = [k \in 0..n |-> g[k]]
    OBVIOUS
  <2> HIDE DEF g
  <2>2. g = [k \in 0..n |-> IF k = 0 THEN [ok |-> TRUE, state |-> s] ELSE step(g[k - 1], ops[k])]
    BY <1>8, <2>1
  <2> QED BY <2>2 DEF follows
<1> QED BY <1>3, <1>9

\* What the first k operations of an applied patch have made of a state.
tasksLeave(s, t, ops, k) ==
  \A id \in Ids : leaves(s.tasks, t.tasks, ops, k, {"upsert_task", "set_task_status"}, {"remove_task"}, id)
constraintsLeave(s, t, ops, k) ==
  \A id \in Ids : leaves(s.constraints, t.constraints, ops, k, {"upsert_constraint"}, {"remove_constraint"}, id)
blockersLeave(s, t, ops, k) ==
  \A id \in Ids : leaves(s.blockers, t.blockers, ops, k, {"upsert_blocker", "resolve_blocker"}, {"remove_blocker"}, id)
appliedTo(s, t, ops, k) ==
  /\ t \in TaskStates /\ Superseding(t.decisions) /\ Extends(s.decisions, t.decisions)
  /\ tasksLeave(s, t, ops, k) /\ constraintsLeave(s, t, ops, k) /\ blockersLeave(s, t, ops, k)

LEMMA DecisionAdded ==
  ASSUME NEW D, NEW ss \in Seq(D), NEW ds \in Seq(D), Superseding(ds), Extends(ss, ds),
         NEW d \in D, supersedes(ds, Len(ds), d), NEW es, es = Append(ds, d)
  PROVE  Superseding(es) /\ Extends(ss, es)
<1>1. /\ Len(es) = Len(ds) + 1 /\ DOMAIN es = 1..(Len(ds) + 1) /\ es[Len(ds) + 1] = d
      /\ DOMAIN ds = 1..Len(ds) /\ Len(ds) \in Nat
      /\ \A i \in 1..Len(ds) : es[i] = ds[i]
  OBVIOUS
<1>2. ASSUME NEW i \in 1..(Len(ds) + 1) PROVE supersedes(es, i - 1, es[i])
  <2>1. CASE i = Len(ds) + 1
    <3>1. i - 1 = Len(ds) /\ es[i] = d
      BY <1>1, <2>1
    <3>2. supersedes(es, Len(ds), d)
      BY <1>1 DEF supersedes
    <3> QED BY <3>1, <3>2
  <2>2. CASE i # Len(ds) + 1
    <3>1. i \in 1..Len(ds) /\ es[i] = ds[i] /\ 1..(i - 1) \subseteq 1..Len(ds)
      BY <1>1, <2>2
    <3>2. supersedes(ds, i - 1, ds[i])
      BY <1>1, <3>1 DEF Superseding
    <3> QED BY <1>1, <3>1, <3>2 DEF supersedes
  <2> QED BY <2>1, <2>2
<1>3. Extends(ss, es)
  <2>1. Len(ss) \in Nat
    OBVIOUS
  <2> QED BY <1>1, <2>1 DEF Extends
<1> QED BY <1>1, <1>2, <1>3 DEF Superseding

LEMMA AppliedStep ==
  ASSUME NEW s \in TaskStates, NEW t, NEW ops, NEW k \in Nat, appliedTo(s, t, ops, k),
         ops[k + 1] \in Operations, ~refuses(t, ops[k + 1])
  PROVE  appliedTo(s, applyTaskStateOperation(t, ops[k + 1]), ops, k + 1)
<1> DEFINE op == ops[k + 1]
           u == applyTaskStateOperation(t, op)
<1>1. t \in TaskStates
  BY DEF appliedTo
<1>2. /\ u \in TaskStates
      /\ alters(t.tasks, u.tasks, op, {"upsert_task", "set_task_status"}, {"remove_task"})
      /\ alters(t.constraints, u.constraints, op, {"upsert_constraint"}, {"remove_constraint"})
      /\ alters(t.blockers, u.blockers, op, {"upsert_blocker", "resolve_blocker"}, {"remove_blocker"})
      /\ \/ u.decisions = t.decisions
         \/ \E d \in TaskDecision : /\ u.decisions = Append(t.decisions, d)
                                    /\ supersedes(t.decisions, Len(t.decisions), d)
  BY <1>1, OperationChanges
<1> HIDE DEF u
<1>3. tasksLeave(s, u, ops, k + 1)
  <2> SUFFICES ASSUME NEW id \in Ids
      PROVE leaves(s.tasks, u.tasks, ops, k + 1, {"upsert_task", "set_task_status"}, {"remove_task"}, id)
    BY DEF tasksLeave
  <2>1. leaves(s.tasks, t.tasks, ops, k, {"upsert_task", "set_task_status"}, {"remove_task"}, id)
    BY DEF appliedTo, tasksLeave
  <2>2. {"upsert_task", "set_task_status"} \cap {"remove_task"} = {}
    OBVIOUS
  <2> QED BY <1>2, <2>1, <2>2, LeavesStep
<1>4. constraintsLeave(s, u, ops, k + 1)
  <2> SUFFICES ASSUME NEW id \in Ids
      PROVE leaves(s.constraints, u.constraints, ops, k + 1, {"upsert_constraint"}, {"remove_constraint"}, id)
    BY DEF constraintsLeave
  <2>1. leaves(s.constraints, t.constraints, ops, k, {"upsert_constraint"}, {"remove_constraint"}, id)
    BY DEF appliedTo, constraintsLeave
  <2>2. {"upsert_constraint"} \cap {"remove_constraint"} = {}
    OBVIOUS
  <2> QED BY <1>2, <2>1, <2>2, LeavesStep
<1>5. blockersLeave(s, u, ops, k + 1)
  <2> SUFFICES ASSUME NEW id \in Ids
      PROVE leaves(s.blockers, u.blockers, ops, k + 1, {"upsert_blocker", "resolve_blocker"}, {"remove_blocker"}, id)
    BY DEF blockersLeave
  <2>1. leaves(s.blockers, t.blockers, ops, k, {"upsert_blocker", "resolve_blocker"}, {"remove_blocker"}, id)
    BY DEF appliedTo, blockersLeave
  <2>2. {"upsert_blocker", "resolve_blocker"} \cap {"remove_blocker"} = {}
    OBVIOUS
  <2> QED BY <1>2, <2>1, <2>2, LeavesStep
<1> DEFINE ds == t.decisions
           es == u.decisions
<1>6. Superseding(es) /\ Extends(s.decisions, es)
  <2>1. ds \in Seq(TaskDecision) /\ s.decisions \in Seq(TaskDecision) /\ Superseding(ds) /\ Extends(s.decisions, ds)
    BY <1>1 DEF TaskStates, appliedTo
  <2>2. CASE es = ds
    BY <2>1, <2>2
  <2>3. ASSUME NEW d \in TaskDecision, es = Append(ds, d), supersedes(ds, Len(ds), d)
        PROVE  Superseding(es) /\ Extends(s.decisions, es)
    BY <2>1, <2>3, DecisionAdded
  <2> QED BY <1>2, <2>2, <2>3
<1>7. appliedTo(s, u, ops, k + 1)
  BY <1>2, <1>3, <1>4, <1>5, <1>6 DEF appliedTo
<1> QED BY <1>7 DEF u

LEMMA PatchApplies ==
  ASSUME NEW s \in TaskStates, Superseding(s.decisions), NEW ops \in Seq(Operations), patched(s, ops).ok
  PROVE  appliedTo(s, patched(s, ops).state, ops, Len(ops))
<1> DEFINE n == Len(ops)
           h == CHOOSE f : follows(f, s, ops, n)
<1>1. n \in Nat /\ \A k \in 1..n : ops[k] \in Operations
  OBVIOUS
<1>2. patched(s, ops) = h[n]
  BY DEF patched, follows
<1>3. follows(h, s, ops, n)
  BY <1>1, FoldExists
<1> HIDE DEF h
<1>4. h[0] = [ok |-> TRUE, state |-> s] /\ \A k \in 1..n : h[k] = step(h[k - 1], ops[k])
  <2>1. 0 \in 0..n /\ \A k \in 1..n : k \in 0..n /\ k # 0
    BY <1>1
  <2> HIDE DEF n
  <2> QED BY <1>3, <2>1 DEF follows
<1> DEFINE right(k) == h[k].ok => appliedTo(s, h[k].state, ops, k)
           shape(k) == h[k] = [ok |-> h[k].ok, state |-> h[k].state] /\ h[k].ok \in BOOLEAN
           Wrong == {k \in 0..n : ~(shape(k) /\ right(k))}
<1>5. shape(0) /\ right(0)
  <2>1. s \in TaskStates /\ Superseding(s.decisions) /\ Extends(s.decisions, s.decisions)
    BY DEF Extends, TaskStates
  <2>2. tasksLeave(s, s, ops, 0) /\ constraintsLeave(s, s, ops, 0) /\ blockersLeave(s, s, ops, 0)
    BY DEF tasksLeave, constraintsLeave, blockersLeave, leaves
  <2>3. appliedTo(s, s, ops, 0)
    BY <2>1, <2>2 DEF appliedTo
  <2>4. h[0].ok = TRUE /\ h[0].state = s
    BY <1>4
  <2> QED BY <1>4, <2>3, <2>4
<1>6. ASSUME NEW k \in 0..n, k # n, shape(k), right(k)
      PROVE  shape(k + 1) /\ right(k + 1)
  <2>1. k + 1 \in 1..n /\ k \in Nat /\ ops[k + 1] \in Operations
    BY <1>1, <1>6
  <2>2. h[k + 1] = step(h[k], ops[k + 1])
    <3>1. (k + 1) - 1 = k
      BY <2>1
    <3> QED BY <1>4, <2>1, <3>1
  <2>3. CASE ~h[k].ok \/ refuses(h[k].state, ops[k + 1])
    <3>1. h[k + 1] = [ok |-> FALSE, state |-> h[k].state]
      BY <1>6, <2>2, <2>3 DEF step
    <3> QED BY <3>1
  <2>4. CASE h[k].ok /\ ~refuses(h[k].state, ops[k + 1])
    <3>1. h[k + 1] = [ok |-> h[k].ok, state |-> applyTaskStateOperation(h[k].state, ops[k + 1])]
      BY <1>6, <2>2, <2>4 DEF step
    <3>2. appliedTo(s, applyTaskStateOperation(h[k].state, ops[k + 1]), ops, k + 1)
      BY <1>6, <2>1, <2>4, AppliedStep
    <3>3. h[k + 1].ok = h[k].ok /\ h[k + 1].state = applyTaskStateOperation(h[k].state, ops[k + 1])
      BY <3>1
    <3> QED BY <1>6, <3>1, <3>2, <3>3
  <2> QED BY <2>3, <2>4
<1>7. Wrong = {}
  <2> SUFFICES ASSUME Wrong # {} PROVE FALSE
    OBVIOUS
  <2> HIDE DEF shape, right
  <2>1. Wrong \subseteq Nat
    BY <1>1
  <2>2. IsWellFoundedOn(earlier, Nat)
    BY NatLessThanWellFounded DEF OpToRel, earlier
  <2>3. PICK k \in Wrong : \A m \in Wrong : ~(<<m, k>> \in earlier)
    <3> HIDE DEF Wrong
    <3> QED BY <2>1, <2>2, WFMin
  <2>4. \A m \in Nat : m < k => m \notin Wrong
    BY <2>1, <2>3 DEF earlier
  <2>5. k # 0
    BY <1>5, <2>3
  <2>6. k - 1 \in 0..n /\ k - 1 # n /\ k - 1 \in Nat /\ k - 1 < k /\ (k - 1) + 1 = k
    BY <1>1, <2>3, <2>5
  <2>7. shape(k - 1) /\ right(k - 1)
    BY <2>4, <2>6
  <2>8. shape((k - 1) + 1) /\ right((k - 1) + 1)
    BY <1>6, <2>6, <2>7
  <2> QED BY <2>3, <2>6, <2>8
<1>8. right(n)
  <2>1. n \in 0..n
    BY <1>1
  <2> HIDE DEF shape, right, n
  <2> QED BY <1>7, <2>1
<1> QED BY <1>2, <1>8

\* A patch leaves every entity as its last operation on it says.
LEMMA LastHolds ==
  ASSUME NEW f, NEW g, NEW ops \in Seq(Operations), NEW sets, NEW removes, NEW id,
         leaves(f, g, ops, Len(ops), sets, removes, id)
  PROVE  holds(f, g, ops, sets, removes, id)
<1> DEFINE onIt == {i \in DOMAIN ops : ops[i].type \in sets \cup removes /\ ops[i].id = id}
<1>1. DOMAIN ops = 1..Len(ops) /\ Len(ops) \in Nat
  OBVIOUS
<1>2. CASE onIt = {}
  <2>1. lastOn(ops, sets \cup removes, id) = 0
    BY <1>2 DEF lastOn
  <2>2. \A i \in 1..Len(ops) : ~names(ops[i], sets \cup removes, id)
    BY <1>1, <1>2 DEF names
  <2> QED BY <2>1, <2>2 DEF holds, leaves
<1>3. CASE onIt # {}
  <2>1. onIt \in SUBSET (0..Len(ops))
    BY <1>1
  <2>2. \E i \in onIt : \A j \in onIt : j <= i
    <3> HIDE DEF onIt
    <3> QED BY <1>1, <1>3, <2>1, Greatest
  <2>3. lastOn(ops, sets \cup removes, id) \in onIt
        /\ \A j \in onIt : j <= lastOn(ops, sets \cup removes, id)
    BY <1>3, <2>2 DEF lastOn
  <2> DEFINE m == lastOn(ops, sets \cup removes, id)
  <2>4. m \in 1..Len(ops) /\ m # 0 /\ names(ops[m], sets \cup removes, id) /\ \A j \in onIt : j <= m
    <3> HIDE DEF m
    <3>1. m \in onIt /\ \A j \in onIt : j <= m
      BY <2>3 DEF m
    <3>2. m \in 1..Len(ops) /\ names(ops[m], sets \cup removes, id)
      BY <1>1, <3>1 DEF names
    <3> QED BY <1>1, <3>1, <3>2
  <2> HIDE DEF m
  <2>5. \A j \in (m + 1)..Len(ops) : ~names(ops[j], sets \cup removes, id)
    BY <1>1, <2>4 DEF names
  <2>6. IF ops[m].type \in removes THEN id \notin DOMAIN g ELSE id \in DOMAIN g /\ g[id] = writes(ops[m])
    BY <2>4, <2>5 DEF leaves
  <2> QED BY <2>4, <2>6 DEF holds, m, writes
<1> QED BY <1>2, <1>3

Revision == [patch : Seq(Operations), state : TaskStates, seen : TaskStates, call : Calls \cup {"none"}]
\* The state of a version.
stateAt(v) == IF v = 0 THEN EmptyTaskState ELSE revisions[v].state
\* Exactly one revision, or none, was written by a call of the Tool.
wroteOne(c) == \E k \in DOMAIN revisions : \A j \in DOMAIN revisions : revisions[j].call = c <=> j = k
wroteNone(c) == \A j \in DOMAIN revisions : revisions[j].call # c

\* The type invariant of the Task State.
TaskTypeOK ==
  /\ revisions \in Seq(Revision)
  /\ taskView \in [TaskClients -> [version : Nat, state : TaskStates]]
  /\ journal \in [Calls -> {"none", "prepared", "committed", "uncertain"}]
  /\ taskPhase \in [Calls -> {"idle", "running", "applied"}]
  /\ args \in [Calls -> [ops : Seq(Operations), seen : TaskStates, expected : Nat]]
  /\ taskEvents \in SUBSET Nat
\* What a client has read, and what a call was written against, is the state of its version.
ReadsAreVersions ==
  /\ \A c \in TaskClients : taskView[c].version <= Len(revisions) /\ taskView[c].state = stateAt(taskView[c].version)
  /\ \A c \in Calls : args[c].expected <= Len(revisions) /\ args[c].seen = stateAt(args[c].expected)
\* A revision is its patch applied to the state before it, which its author had seen.
RevisionsApply ==
  \A k \in DOMAIN revisions :
    /\ revisions[k].seen = stateAt(k - 1)
    /\ appliedTo(stateAt(k - 1), revisions[k].state, revisions[k].patch, Len(revisions[k].patch))
\* How far a call is, in its journal and in the revisions.
CallsWriteOnce ==
  \A c \in Calls :
    /\ taskPhase[c] # "idle" => journal[c] = "prepared"
    /\ taskPhase[c] = "running" \/ journal[c] = "none" => wroteNone(c)
    /\ taskPhase[c] = "applied" \/ journal[c] = "committed" => wroteOne(c)
EventsNameRevisions == \A k \in taskEvents : k \in DOMAIN revisions /\ revisions[k].call \in Calls
TaskInv == TaskTypeOK /\ ReadsAreVersions /\ RevisionsApply /\ CallsWriteOnce /\ EventsNameRevisions

LEMMA EmptyIsState == EmptyTaskState \in TaskStates /\ Superseding(EmptyTaskState.decisions)
<1>1. NoFn \in TaskItems
  <2>1. NoFn \in [{} -> TaskValues]
    BY DEF NoFn
  <2> QED BY <2>1 DEF TaskItems
<1>2. "" \in TaskValues /\ <<>> \in Seq(TaskDecision) /\ {} \in SUBSET Ids
  BY DEF TaskValues
<1>3. EmptyTaskState.decisions = <<>>
  BY DEF EmptyTaskState
<1>4. Superseding(<<>>)
  BY DEF Superseding
<1> QED BY <1>1, <1>2, <1>3, <1>4 DEF EmptyTaskState, TaskStates

LEMMA VersionStates ==
  ASSUME TaskTypeOK, RevisionsApply, NEW v \in 0..Len(revisions)
  PROVE  stateAt(v) \in TaskStates /\ Superseding(stateAt(v).decisions)
<1>1. CASE v = 0
  BY <1>1, EmptyIsState DEF stateAt
<1>2. CASE v # 0
  <2>1. v \in DOMAIN revisions /\ stateAt(v) = revisions[v].state
    BY <1>2 DEF TaskTypeOK, stateAt
  <2>2. appliedTo(stateAt(v - 1), revisions[v].state, revisions[v].patch, Len(revisions[v].patch))
    BY <2>1 DEF RevisionsApply
  <2> QED BY <2>1, <2>2 DEF appliedTo
<1> QED BY <1>1, <1>2

LEMMA CurrentIsState ==
  ASSUME TaskTypeOK, RevisionsApply
  PROVE  /\ version = Len(revisions) /\ version \in Nat /\ DOMAIN revisions = 1..Len(revisions)
         /\ current = stateAt(Len(revisions)) /\ current \in TaskStates /\ Superseding(current.decisions)
<1>1. version = Len(revisions) /\ version \in Nat /\ DOMAIN revisions = 1..Len(revisions)
  BY DEF TaskTypeOK, version
<1>2. current = stateAt(Len(revisions))
  BY <1>1 DEF current, stateAt
<1>3. Len(revisions) \in 0..Len(revisions)
  BY <1>1
<1> QED BY <1>1, <1>2, <1>3, VersionStates

\* One transaction of the Store: what a step that writes a revision preserves.
LEMMA RevisionWritten ==
  ASSUME TaskInv, NEW ops \in Seq(Operations), NEW seen, seen = stateAt(Len(revisions)), NEW c \in Calls \cup {"none"},
         acceptable(current, ops),
         revisions' = Append(revisions, [patch |-> ops, state |-> patched(current, ops).state, seen |-> seen, call |-> c]),
         taskView' = taskView, args' = args
  PROVE  /\ revisions' \in Seq(Revision) /\ ReadsAreVersions' /\ RevisionsApply'
         /\ Len(revisions') = Len(revisions) + 1 /\ Len(revisions) \in Nat
         /\ DOMAIN revisions = 1..Len(revisions) /\ DOMAIN revisions' = 1..(Len(revisions) + 1)
         /\ \A k \in DOMAIN revisions : revisions'[k] = revisions[k]
         /\ revisions'[Len(revisions) + 1].call = c
<1> DEFINE r == [patch |-> ops, state |-> patched(current, ops).state, seen |-> seen, call |-> c]
           n == Len(revisions)
<1>1. /\ n \in Nat /\ DOMAIN revisions = 1..n /\ current = stateAt(n) /\ current \in TaskStates
      /\ Superseding(current.decisions)
  BY CurrentIsState DEF TaskInv
<1>2. appliedTo(current, patched(current, ops).state, ops, Len(ops))
  BY <1>1, PatchApplies DEF acceptable
<1>3. r \in Revision
  BY <1>1, <1>2 DEF appliedTo, Revision
<1>4. /\ r.state = patched(current, ops).state /\ r.patch = ops /\ r.seen = seen /\ r.call = c
  OBVIOUS
<1>5. revisions \in Seq(Revision) /\ revisions' = Append(revisions, r)
  BY DEF TaskInv, TaskTypeOK
<1> HIDE DEF r
<1>6. /\ revisions' \in Seq(Revision) /\ Len(revisions') = n + 1 /\ DOMAIN revisions' = 1..(n + 1)
      /\ revisions'[n + 1] = r /\ \A k \in 1..n : revisions'[k] = revisions[k]
  BY <1>3, <1>5
<1> HIDE DEF n
<1>7. \A v \in 0..n : stateAt(v)' = stateAt(v)
  BY <1>1, <1>6 DEF stateAt
<1>8. ReadsAreVersions'
  <2>1. ASSUME NEW d \in TaskClients
        PROVE  (taskView[d].version <= Len(revisions) /\ taskView[d].state = stateAt(taskView[d].version))'
    <3>1. taskView[d].version \in 0..n /\ taskView[d].state = stateAt(taskView[d].version)
      BY <1>1 DEF TaskInv, TaskTypeOK, ReadsAreVersions, n
    <3>2. PICK v \in 0..n : v = taskView[d].version
      BY <3>1
    <3>3. stateAt(v)' = stateAt(v)
      BY <1>7
    <3>4. taskView'[d].version = v /\ taskView'[d].state = stateAt(v) /\ v <= Len(revisions')
      BY <1>1, <1>6, <3>1, <3>2
    <3> QED BY <3>3, <3>4 DEF stateAt
  <2>2. ASSUME NEW d \in Calls
        PROVE  (args[d].expected <= Len(revisions) /\ args[d].seen = stateAt(args[d].expected))'
    <3>1. args[d].expected \in 0..n /\ args[d].seen = stateAt(args[d].expected)
      BY <1>1 DEF TaskInv, TaskTypeOK, ReadsAreVersions, n
    <3>2. PICK v \in 0..n : v = args[d].expected
      BY <3>1
    <3>3. stateAt(v)' = stateAt(v)
      BY <1>7
    <3>4. args'[d].expected = v /\ args'[d].seen = stateAt(v) /\ v <= Len(revisions')
      BY <1>1, <1>6, <3>1, <3>2
    <3> QED BY <3>3, <3>4 DEF stateAt
  <2> QED BY <2>1, <2>2 DEF ReadsAreVersions
<1>9. RevisionsApply'
  <2> SUFFICES ASSUME NEW k \in 1..(n + 1)
      PROVE  /\ revisions'[k].seen = stateAt(k - 1)'
             /\ appliedTo(stateAt(k - 1)', revisions'[k].state, revisions'[k].patch, Len(revisions'[k].patch))
    BY <1>6 DEF RevisionsApply
  <2>1. k - 1 \in 0..n
    BY <1>1
  <2>2. stateAt(k - 1)' = stateAt(k - 1)
    BY <1>7, <2>1
  <2>3. CASE k = n + 1
    <3>1. k - 1 = n /\ revisions'[k] = r
      BY <1>1, <1>6, <2>3
    <3>2. stateAt(k - 1)' = current
      BY <1>1, <2>2, <3>1
    <3> QED BY <1>1, <1>2, <1>4, <3>1, <3>2 DEF n
  <2>4. CASE k # n + 1
    <3>1. k \in DOMAIN revisions /\ revisions'[k] = revisions[k]
      BY <1>1, <1>6, <2>4
    <3>2. /\ revisions[k].seen = stateAt(k - 1)
          /\ appliedTo(stateAt(k - 1), revisions[k].state, revisions[k].patch, Len(revisions[k].patch))
      BY <3>1 DEF TaskInv, RevisionsApply
    <3> QED BY <2>2, <3>1, <3>2
  <2> QED BY <2>3, <2>4
<1> QED BY <1>1, <1>4, <1>6, <1>8, <1>9 DEF n

LEMMA TaskInitInv == TaskInit => TaskInv
<1> SUFFICES ASSUME TaskInit PROVE TaskInv
  OBVIOUS
<1>1. revisions = <<>> /\ revisions \in Seq(Revision) /\ Len(revisions) = 0 /\ DOMAIN revisions = {}
  BY DEF TaskInit
<1>2. EmptyTaskState \in TaskStates
  BY EmptyIsState
<1>3. TaskTypeOK
  <2>1. taskView \in [TaskClients -> [version : Nat, state : TaskStates]]
    BY <1>2 DEF TaskInit
  <2>2. args \in [Calls -> [ops : Seq(Operations), seen : TaskStates, expected : Nat]]
    BY <1>2 DEF TaskInit
  <2> QED BY <1>1, <2>1, <2>2 DEF TaskInit, TaskTypeOK
<1>4. ReadsAreVersions
  BY <1>1 DEF TaskInit, ReadsAreVersions, stateAt
<1>5. RevisionsApply
  BY <1>1 DEF RevisionsApply
<1>6. CallsWriteOnce
  BY <1>1 DEF TaskInit, CallsWriteOnce, wroteNone
<1>7. EventsNameRevisions
  BY DEF TaskInit, EventsNameRevisions
<1> QED BY <1>3, <1>4, <1>5, <1>6, <1>7 DEF TaskInv

\* Steps that write no revision and read nothing keep what is said of revisions and readers.
LEMMA RevisionsRest ==
  ASSUME TaskInv, UNCHANGED <<revisions, taskView, args>>
  PROVE  ReadsAreVersions' /\ RevisionsApply'
<1>1. revisions' = revisions /\ taskView' = taskView /\ args' = args
  OBVIOUS
<1>2. \A v : stateAt(v)' = stateAt(v)
  BY <1>1 DEF stateAt
<1> QED BY <1>1, <1>2 DEF TaskInv, ReadsAreVersions, RevisionsApply

LEMMA PatchesAreSequences == patches \subseteq Seq(Operations)
<1> SUFFICES ASSUME NEW p \in patches PROVE p \in Seq(Operations)
  OBVIOUS
<1>1. PICK n \in 1..MaxOps : p \in [1..n -> Operations]
  BY DEF patches
<1>2. n \in Nat
  BY TaskAssumption
<1> QED BY <1>1, <1>2

LEMMA LoadInv == ASSUME TaskInv, NEW c \in TaskClients, Load(c) PROVE TaskInv'
<1> DEFINE new == [version |-> version, state |-> current]
<1>1. /\ version = Len(revisions) /\ version \in Nat /\ current = stateAt(Len(revisions)) /\ current \in TaskStates
  BY CurrentIsState DEF TaskInv
<1>2. taskView' = [taskView EXCEPT ![c] = new] /\ UNCHANGED <<revisions, journal, args, taskPhase, taskEvents>>
  BY DEF Load
<1>3. new \in [version : Nat, state : TaskStates] /\ new.version = version /\ new.state = current
  BY <1>1
<1> HIDE DEF new
<1>4. TaskTypeOK'
  BY <1>2, <1>3 DEF TaskInv, TaskTypeOK
<1>5. \A v : stateAt(v)' = stateAt(v)
  BY <1>2 DEF stateAt
<1>6. ReadsAreVersions'
  <2>1. \A d \in TaskClients : taskView'[d] = IF d = c THEN new ELSE taskView[d]
    BY <1>2 DEF TaskInv, TaskTypeOK
  <2>2. \A d \in TaskClients : taskView'[d].version <= Len(revisions') /\ taskView'[d].state = stateAt(taskView'[d].version)
    BY <1>1, <1>2, <1>3, <2>1 DEF TaskInv, ReadsAreVersions
  <2>3. \A d \in Calls : args'[d].expected <= Len(revisions') /\ args'[d].seen = stateAt(args'[d].expected)
    BY <1>2 DEF TaskInv, ReadsAreVersions
  <2> QED BY <1>5, <2>2, <2>3 DEF ReadsAreVersions
<1>7. RevisionsApply'
  BY <1>2, <1>5 DEF TaskInv, RevisionsApply
<1>8. CallsWriteOnce' /\ EventsNameRevisions'
  BY <1>2 DEF TaskInv, CallsWriteOnce, wroteOne, wroteNone, EventsNameRevisions
<1> QED BY <1>4, <1>6, <1>7, <1>8 DEF TaskInv

\* A transaction whose expected version is the current one writes what its author had seen.
LEMMA CommitWrites ==
  ASSUME TaskInv, NEW ops \in Seq(Operations), NEW v \in Nat, NEW seen, seen = stateAt(v), NEW c \in Calls \cup {"none"},
         commits(ops, v, seen, c), taskView' = taskView, args' = args
  PROVE  /\ revisions' \in Seq(Revision) /\ ReadsAreVersions' /\ RevisionsApply'
         /\ Len(revisions') = Len(revisions) + 1 /\ Len(revisions) \in Nat
         /\ DOMAIN revisions = 1..Len(revisions) /\ DOMAIN revisions' = 1..(Len(revisions) + 1)
         /\ \A k \in DOMAIN revisions : revisions'[k] = revisions[k]
         /\ revisions'[Len(revisions) + 1].call = c
<1>1. v = Len(revisions)
  BY DEF commits, expected, version
<1>2. /\ acceptable(current, ops)
      /\ revisions' = Append(revisions, [patch |-> ops, state |-> patched(current, ops).state, seen |-> seen, call |-> c])
  BY DEF commits
<1> QED BY <1>1, <1>2, RevisionWritten

LEMMA UserPatchInv ==
  ASSUME TaskInv, NEW u \in Users, NEW ops \in patches, patchTaskState(u, ops)
  PROVE  TaskInv'
<1>1. commits(ops, taskView[u].version, taskView[u].state, "none") /\ UNCHANGED <<taskView, journal, args, taskPhase, taskEvents>>
  BY DEF patchTaskState
<1>2. ops \in Seq(Operations) /\ u \in TaskClients
  BY PatchesAreSequences DEF TaskClients
<1>3. taskView[u].version \in Nat /\ taskView[u].state = stateAt(taskView[u].version)
  BY <1>2 DEF TaskInv, TaskTypeOK, ReadsAreVersions
<1>4. PICK v \in Nat : v = taskView[u].version
  BY <1>3
<1>5. PICK s : s = taskView[u].state
  OBVIOUS
<1>6. commits(ops, v, s, "none") /\ s = stateAt(v)
  BY <1>1, <1>3, <1>4, <1>5
<1> DEFINE n == Len(revisions)
<1>7. /\ revisions' \in Seq(Revision) /\ ReadsAreVersions' /\ RevisionsApply'
      /\ n \in Nat /\ DOMAIN revisions = 1..n /\ DOMAIN revisions' = 1..(n + 1)
      /\ \A k \in DOMAIN revisions : revisions'[k] = revisions[k]
      /\ revisions'[n + 1].call = "none"
  BY <1>1, <1>2, <1>6, CommitWrites
<1> HIDE DEF n
<1>8. TaskTypeOK'
  BY <1>1, <1>7 DEF TaskInv, TaskTypeOK
<1>9. \A c \in Calls : (wroteNone(c) => wroteNone(c)') /\ (wroteOne(c) => wroteOne(c)')
  <2> TAKE c \in Calls
  <2>1. c # "none"
    BY TaskAssumption
  <2>2. \A j \in DOMAIN revisions' : revisions'[j].call = c <=> j \in DOMAIN revisions /\ revisions[j].call = c
    BY <1>7, <2>1
  <2>3. DOMAIN revisions \subseteq DOMAIN revisions'
    BY <1>7
  <2>4. wroteNone(c) => wroteNone(c)'
    BY <2>2 DEF wroteNone
  <2>5. wroteOne(c) => wroteOne(c)'
    BY <2>2, <2>3 DEF wroteOne
  <2> QED BY <2>4, <2>5
<1>10. CallsWriteOnce'
  BY <1>1, <1>9 DEF TaskInv, CallsWriteOnce
<1>11. EventsNameRevisions'
  BY <1>1, <1>7 DEF TaskInv, EventsNameRevisions
<1> QED BY <1>7, <1>8, <1>10, <1>11 DEF TaskInv

LEMMA BeginInv == ASSUME TaskInv, NEW c \in Calls, NEW ops \in patches, BeginPatch(c, ops) PROVE TaskInv'
<1> DEFINE new == [ops |-> ops, seen |-> taskView[c].state, expected |-> taskView[c].version]
<1>1. /\ taskPhase[c] = "idle" /\ journal[c] = "none" /\ args' = [args EXCEPT ![c] = new]
      /\ journal' = [journal EXCEPT ![c] = "prepared"] /\ taskPhase' = [taskPhase EXCEPT ![c] = "running"]
      /\ UNCHANGED <<revisions, taskView, taskEvents>>
  BY DEF BeginPatch
<1>2. /\ taskView[c].version \in Nat /\ taskView[c].state \in TaskStates /\ taskView[c].version <= Len(revisions)
      /\ taskView[c].state = stateAt(taskView[c].version) /\ ops \in Seq(Operations)
  BY PatchesAreSequences DEF TaskInv, TaskTypeOK, ReadsAreVersions, TaskClients
<1>3. /\ new \in [ops : Seq(Operations), seen : TaskStates, expected : Nat]
      /\ new.expected <= Len(revisions) /\ new.seen = stateAt(new.expected)
  BY <1>2
<1> HIDE DEF new
<1>4. TaskTypeOK'
  BY <1>1, <1>3 DEF TaskInv, TaskTypeOK
<1>5. \A v : stateAt(v)' = stateAt(v)
  BY <1>1 DEF stateAt
<1>6. ReadsAreVersions'
  <2>1. \A d \in Calls : args'[d] = IF d = c THEN new ELSE args[d]
    BY <1>1 DEF TaskInv, TaskTypeOK
  <2>2. \A d \in Calls : args'[d].expected <= Len(revisions') /\ args'[d].seen = stateAt(args'[d].expected)
    BY <1>1, <1>3, <2>1 DEF TaskInv, ReadsAreVersions
  <2>3. \A d \in TaskClients : taskView'[d].version <= Len(revisions') /\ taskView'[d].state = stateAt(taskView'[d].version)
    BY <1>1 DEF TaskInv, ReadsAreVersions
  <2> QED BY <1>5, <2>2, <2>3 DEF ReadsAreVersions
<1>7. RevisionsApply'
  BY <1>1, <1>5 DEF TaskInv, RevisionsApply
<1>8. \A d \in Calls : /\ wroteNone(d)' <=> wroteNone(d)
                       /\ wroteOne(d)' <=> wroteOne(d)
  BY <1>1 DEF wroteOne, wroteNone
<1>9. CallsWriteOnce'
  <2>1. \A d \in Calls : /\ journal'[d] = IF d = c THEN "prepared" ELSE journal[d]
                         /\ taskPhase'[d] = IF d = c THEN "running" ELSE taskPhase[d]
    BY <1>1 DEF TaskInv, TaskTypeOK
  <2> QED BY <1>1, <1>8, <2>1 DEF TaskInv, CallsWriteOnce
<1>10. EventsNameRevisions'
  BY <1>1 DEF TaskInv, EventsNameRevisions
<1> QED BY <1>4, <1>6, <1>7, <1>9, <1>10 DEF TaskInv

LEMMA ApplyInv == ASSUME TaskInv, NEW c \in Calls, Apply(c) PROVE TaskInv'
<1>1. /\ taskPhase[c] = "running" /\ commits(args[c].ops, args[c].expected, args[c].seen, c)
      /\ taskPhase' = [taskPhase EXCEPT ![c] = "applied"] /\ UNCHANGED <<taskView, journal, args, taskEvents>>
  BY DEF Apply
<1>2. args[c].ops \in Seq(Operations) /\ args[c].expected \in Nat /\ args[c].seen = stateAt(args[c].expected)
  BY DEF TaskInv, TaskTypeOK, ReadsAreVersions
<1>3. PICK ops \in Seq(Operations), v \in Nat : ops = args[c].ops /\ v = args[c].expected
  BY <1>2
<1>4. PICK s : s = args[c].seen
  OBVIOUS
<1>5. commits(ops, v, s, c) /\ s = stateAt(v)
  BY <1>1, <1>2, <1>3, <1>4
<1> DEFINE n == Len(revisions)
<1>6. /\ revisions' \in Seq(Revision) /\ ReadsAreVersions' /\ RevisionsApply'
      /\ n \in Nat /\ DOMAIN revisions = 1..n /\ DOMAIN revisions' = 1..(n + 1)
      /\ \A k \in DOMAIN revisions : revisions'[k] = revisions[k]
      /\ revisions'[n + 1].call = c
  BY <1>1, <1>5, CommitWrites
<1> HIDE DEF n
<1>7. TaskTypeOK'
  BY <1>1, <1>6 DEF TaskInv, TaskTypeOK
<1>8. wroteOne(c)'
  <2>1. wroteNone(c)
    BY <1>1 DEF TaskInv, CallsWriteOnce
  <2>2. \A j \in DOMAIN revisions' : revisions'[j].call = c <=> j = n + 1
    BY <1>6, <2>1 DEF wroteNone
  <2>3. n + 1 \in DOMAIN revisions'
    BY <1>6
  <2> QED BY <2>2, <2>3 DEF wroteOne
<1>9. \A d \in Calls \ {c} : (wroteNone(d) => wroteNone(d)') /\ (wroteOne(d) => wroteOne(d)')
  <2> TAKE d \in Calls \ {c}
  <2>1. d # c
    OBVIOUS
  <2>2. \A j \in DOMAIN revisions' : revisions'[j].call = d <=> j \in DOMAIN revisions /\ revisions[j].call = d
    BY <1>6, <2>1
  <2>3. DOMAIN revisions \subseteq DOMAIN revisions'
    BY <1>6
  <2>4. wroteNone(d) => wroteNone(d)'
    BY <2>2 DEF wroteNone
  <2>5. wroteOne(d) => wroteOne(d)'
    BY <2>2, <2>3 DEF wroteOne
  <2> QED BY <2>4, <2>5
<1>10. CallsWriteOnce'
  <2>1. journal[c] = "prepared"
    BY <1>1 DEF TaskInv, CallsWriteOnce
  <2>2. \A d \in Calls : taskPhase'[d] = IF d = c THEN "applied" ELSE taskPhase[d]
    BY <1>1 DEF TaskInv, TaskTypeOK
  <2>3. ASSUME NEW d \in Calls
        PROVE  /\ taskPhase'[d] # "idle" => journal'[d] = "prepared"
               /\ taskPhase'[d] = "running" \/ journal'[d] = "none" => wroteNone(d)'
               /\ taskPhase'[d] = "applied" \/ journal'[d] = "committed" => wroteOne(d)'
    <3>1. CASE d = c
      BY <1>1, <1>8, <2>1, <2>2, <3>1
    <3>2. CASE d # c
      <4>1. taskPhase'[d] = taskPhase[d] /\ journal'[d] = journal[d]
        BY <1>1, <2>2, <3>2
      <4>2. (wroteNone(d) => wroteNone(d)') /\ (wroteOne(d) => wroteOne(d)')
        BY <1>9, <3>2
      <4> QED BY <4>1, <4>2 DEF TaskInv, CallsWriteOnce
    <3> QED BY <3>1, <3>2
  <2> QED BY <2>3 DEF CallsWriteOnce
<1>11. EventsNameRevisions'
  BY <1>1, <1>6 DEF TaskInv, EventsNameRevisions
<1> QED BY <1>6, <1>7, <1>10, <1>11 DEF TaskInv

\* The steps of the journal and of a crash.
LEMMA JournalStepInv ==
  ASSUME TaskInv, UNCHANGED <<revisions, taskView, args, taskEvents>>,
         journal' \in [Calls -> {"none", "prepared", "committed", "uncertain"}],
         taskPhase' \in [Calls -> {"idle", "running", "applied"}],
         \A d \in Calls :
           \/ journal'[d] = journal[d] /\ taskPhase'[d] = taskPhase[d]
           \/ taskPhase'[d] = "idle" /\ journal'[d] = "uncertain"
           \/ taskPhase[d] = "applied" /\ taskPhase'[d] = "idle" /\ journal'[d] = "committed"
  PROVE  TaskInv'
<1>1. revisions' = revisions /\ taskEvents' = taskEvents /\ taskView' = taskView /\ args' = args
  OBVIOUS
<1>2. ReadsAreVersions' /\ RevisionsApply'
  BY RevisionsRest
<1>3. TaskTypeOK'
  BY <1>1 DEF TaskInv, TaskTypeOK
<1>4. \A d \in Calls : (wroteNone(d)' <=> wroteNone(d)) /\ (wroteOne(d)' <=> wroteOne(d))
  BY <1>1 DEF wroteOne, wroteNone
<1>5. CallsWriteOnce'
  BY <1>4 DEF TaskInv, CallsWriteOnce
<1>6. EventsNameRevisions'
  BY <1>1 DEF TaskInv, EventsNameRevisions
<1> QED BY <1>2, <1>3, <1>5, <1>6 DEF TaskInv

LEMMA PublishInv == ASSUME TaskInv, NEW c \in Calls, Publish(c) PROVE TaskInv'
<1>1. /\ taskPhase[c] = "applied" /\ taskEvents' = taskEvents \cup {revisionOf(c)}
      /\ UNCHANGED <<revisions, taskView, journal, args, taskPhase>>
  BY DEF Publish
<1>2. wroteOne(c)
  BY <1>1 DEF TaskInv, CallsWriteOnce
<1>3. revisionOf(c) \in DOMAIN revisions /\ revisions[revisionOf(c)].call = c
  BY <1>2 DEF wroteOne, revisionOf
<1>4. DOMAIN revisions \subseteq Nat
  BY DEF TaskInv, TaskTypeOK
<1>5. TaskTypeOK'
  BY <1>1, <1>3, <1>4 DEF TaskInv, TaskTypeOK
<1>6. ReadsAreVersions' /\ RevisionsApply'
  BY <1>1, RevisionsRest
<1>7. CallsWriteOnce'
  BY <1>1 DEF TaskInv, CallsWriteOnce, wroteOne, wroteNone
<1>8. EventsNameRevisions'
  BY <1>1, <1>3 DEF TaskInv, EventsNameRevisions
<1> QED BY <1>5, <1>6, <1>7, <1>8 DEF TaskInv

LEMMA TaskNextInv == TaskInv /\ [TaskNext]_taskVars => TaskInv'
<1> SUFFICES ASSUME TaskInv, [TaskNext]_taskVars PROVE TaskInv'
  OBVIOUS
<1> DEFINE journals == {"none", "prepared", "committed", "uncertain"}
           phases == {"idle", "running", "applied"}
<1>1. journal \in [Calls -> journals] /\ taskPhase \in [Calls -> phases]
  BY DEF TaskInv, TaskTypeOK
<1>2. ASSUME NEW c \in TaskClients, Load(c) PROVE TaskInv'
  BY <1>2, LoadInv
<1>3. ASSUME NEW u \in Users, NEW ops \in patches, patchTaskState(u, ops) PROVE TaskInv'
  BY <1>3, UserPatchInv
<1>4. ASSUME NEW c \in Calls, NEW ops \in patches, BeginPatch(c, ops) PROVE TaskInv'
  BY <1>4, BeginInv
<1>5. ASSUME NEW c \in Calls, Apply(c) PROVE TaskInv'
  BY <1>5, ApplyInv
<1>6. ASSUME NEW c \in Calls, Refused(c) PROVE TaskInv'
  <2>1. /\ taskPhase' = [taskPhase EXCEPT ![c] = "idle"] /\ journal' = [journal EXCEPT ![c] = "uncertain"]
        /\ UNCHANGED <<revisions, taskView, args, taskEvents>>
    BY <1>6 DEF Refused
  <2> QED BY <1>1, <2>1, JournalStepInv
<1>7. ASSUME NEW c \in Calls, Publish(c) PROVE TaskInv'
  BY <1>7, PublishInv
<1>8. ASSUME NEW c \in Calls, TaskSettle(c) PROVE TaskInv'
  <2>1. /\ taskPhase[c] = "applied" /\ taskPhase' = [taskPhase EXCEPT ![c] = "idle"]
        /\ journal' = [journal EXCEPT ![c] = "committed"] /\ UNCHANGED <<revisions, taskView, args, taskEvents>>
    BY <1>8 DEF TaskSettle
  <2> QED BY <1>1, <2>1, JournalStepInv
<1>9. CASE TaskCrash
  <2>1. /\ taskPhase' = [c \in Calls |-> "idle"]
        /\ journal' = [c \in Calls |-> IF taskPhase[c] # "idle" THEN "uncertain" ELSE journal[c]]
        /\ UNCHANGED <<revisions, taskView, args, taskEvents>>
    BY <1>9 DEF TaskCrash
  <2> QED BY <1>1, <2>1, JournalStepInv
<1>10. CASE UNCHANGED taskVars
  <2>1. UNCHANGED <<revisions, taskView, args, taskEvents>> /\ journal' = journal /\ taskPhase' = taskPhase
    BY <1>10 DEF taskVars
  <2> QED BY <1>1, <2>1, JournalStepInv
<1> QED BY <1>2, <1>3, <1>4, <1>5, <1>6, <1>7, <1>8, <1>9, <1>10 DEF TaskNext

LEMMA ExtendsIsPrefix ==
  ASSUME NEW D, NEW ds \in Seq(D), NEW es \in Seq(D), Extends(ds, es)
  PROVE  IsPrefix(ds, es)
<1>1. Len(ds) \in Nat /\ Len(es) \in Nat /\ Len(ds) <= Len(es) /\ \A i \in 1..Len(ds) : es[i] = ds[i]
  BY DEF Extends
<1>2. SubSeq(ds, 1, Len(ds)) = SubSeq(es, 1, Len(ds))
  BY <1>1
<1> QED BY <1>1, <1>2 DEF IsPrefix

LEMMA TaskInvSafe == TaskInv => TaskStateSafe
<1> SUFFICES ASSUME TaskInv PROVE TaskStateSafe
  OBVIOUS
<1>1. DOMAIN revisions = 1..Len(revisions) /\ Len(revisions) \in Nat
  BY DEF TaskInv, TaskTypeOK
<1>2. ASSUME NEW k \in DOMAIN revisions
      PROVE  /\ stateBefore(k) = stateAt(k - 1) /\ stateBefore(k) \in TaskStates
             /\ revisions[k].seen = stateBefore(k) /\ revisions[k].patch \in Seq(Operations)
             /\ appliedTo(stateBefore(k), revisions[k].state, revisions[k].patch, Len(revisions[k].patch))
  <2>1. stateBefore(k) = stateAt(k - 1) /\ k - 1 \in 0..Len(revisions)
    BY <1>1 DEF stateBefore, stateAt
  <2>2. stateBefore(k) \in TaskStates
    BY <2>1, VersionStates DEF TaskInv
  <2>3. revisions[k] \in Revision
    BY DEF TaskInv, TaskTypeOK
  <2> QED BY <2>1, <2>2, <2>3 DEF TaskInv, RevisionsApply, Revision
<1>3. LastOperationWins
  <2> SUFFICES ASSUME NEW k \in DOMAIN revisions, NEW id \in Ids
      PROVE  LET r == revisions[k] IN
             /\ holds(stateBefore(k).tasks, r.state.tasks, r.patch, {"upsert_task", "set_task_status"}, {"remove_task"}, id)
             /\ holds(stateBefore(k).constraints, r.state.constraints, r.patch, {"upsert_constraint"}, {"remove_constraint"}, id)
             /\ holds(stateBefore(k).blockers, r.state.blockers, r.patch, {"upsert_blocker", "resolve_blocker"}, {"remove_blocker"}, id)
    BY DEF LastOperationWins
  <2>1. PICK p \in Seq(Operations) : p = revisions[k].patch
    BY <1>2
  <2>6. PICK s, t : s = stateBefore(k) /\ t = revisions[k].state
    OBVIOUS
  <2>2. tasksLeave(s, t, p, Len(p)) /\ constraintsLeave(s, t, p, Len(p)) /\ blockersLeave(s, t, p, Len(p))
    BY <1>2, <2>1, <2>6 DEF appliedTo
  <2>3. holds(s.tasks, t.tasks, p, {"upsert_task", "set_task_status"}, {"remove_task"}, id)
    BY <2>2, LastHolds DEF tasksLeave
  <2>4. holds(s.constraints, t.constraints, p, {"upsert_constraint"}, {"remove_constraint"}, id)
    BY <2>2, LastHolds DEF constraintsLeave
  <2>5. holds(s.blockers, t.blockers, p, {"upsert_blocker", "resolve_blocker"}, {"remove_blocker"}, id)
    BY <2>2, LastHolds DEF blockersLeave
  <2> QED BY <2>1, <2>3, <2>4, <2>5, <2>6
<1>4. AuthorSawWhatItChanged
  BY <1>2 DEF AuthorSawWhatItChanged
<1>5. DecisionsKeepHistory
  <2> SUFFICES ASSUME NEW k \in DOMAIN revisions
      PROVE  /\ IsPrefix(stateBefore(k).decisions, revisions[k].state.decisions)
             /\ \A i \in DOMAIN revisions[k].state.decisions :
                  revisions[k].state.decisions[i].supersedes # "" =>
                    \E j \in 1..(i - 1) : revisions[k].state.decisions[j].id = revisions[k].state.decisions[i].supersedes
    BY DEF DecisionsKeepHistory
  <2>1. PICK ds, es : ds = stateBefore(k).decisions /\ es = revisions[k].state.decisions
    OBVIOUS
  <2>2. ds \in Seq(TaskDecision) /\ es \in Seq(TaskDecision)
    BY <1>2, <2>1 DEF appliedTo, TaskStates
  <2>3. Superseding(es) /\ Extends(ds, es)
    BY <1>2, <2>1 DEF appliedTo
  <2>4. IsPrefix(ds, es)
    BY <2>2, <2>3, ExtendsIsPrefix
  <2>5. \A i \in DOMAIN es : es[i].supersedes # "" => \E j \in 1..(i - 1) : es[j].id = es[i].supersedes
    BY <2>3 DEF Superseding, supersedes
  <2> QED BY <2>1, <2>4, <2>5
<1>6. ReceiptsHaveRevisions
  <2>1. ASSUME NEW c \in Calls, journal[c] = "committed"
        PROVE  Cardinality({k \in DOMAIN revisions : revisions[k].call = c}) = 1
    <3>1. PICK k \in DOMAIN revisions : \A j \in DOMAIN revisions : revisions[j].call = c <=> j = k
      BY <2>1 DEF TaskInv, CallsWriteOnce, wroteOne
    <3>2. {j \in DOMAIN revisions : revisions[j].call = c} = {k}
      BY <3>1
    <3> QED BY <3>2, FS_Singleton
  <2> QED BY <2>1 DEF TaskInv, EventsNameRevisions, ReceiptsHaveRevisions
<1> QED BY <1>3, <1>4, <1>5, <1>6 DEF TaskStateSafe

\* For any operations, users, calls and crashes every revision of a Task State is its whole
\* patch applied to the state its author had seen, decisions are never lost or circular, and a
\* committed receipt of update_task_state has its one revision.
THEOREM TaskStateCorrect == TaskSpec => []TaskStateSafe
<1>1. TaskSpec => []TaskInv
  BY TaskInitInv, TaskNextInv, PTL DEF TaskSpec
<1> QED BY <1>1, TaskInvSafe, PTL

----------------------------------------------------------------------------
(* A model call.  Seen says that what the consumer saw is of the attempt in *)
(* flight and bars its retry, Drafted what is in its draft meanwhile,       *)
(* RecordsTruthful that only the write that failed left a record without    *)
(* its event, ReservationHeld which attempt settles.  However an attempt    *)
(* ends, AttemptEnded is what it leaves (EndKeeps is its deferred           *)
(* functions).                                                              *)

StreamNote == [kind : {"delta", "reset", "reasoning", "output_display"}, attempt : Nat]
RequestRecord == [prepared : BOOLEAN, sent : BOOLEAN, outcome : {"", "completed", "failed"}, terminal : BOOLEAN,
              capture : [content : Payloads \cup {"plain", "none", "redacted"}, exact : BOOLEAN]]
Assembly == [text : Nat, reasoning : Nat, calls : Seq(PartialCall), finish : FinishReasons, refused : BOOLEAN,
             retracted : BOOLEAN, display : BOOLEAN]
AttemptResult == [emitted : BOOLEAN, answer : BOOLEAN, terminal : BOOLEAN, choice : Seq(PartialCall), output : Nat,
           finish : FinishReasons \cup {""}]
FailureKinds ==
  {"none", "invalid_response", "rate_limited", "authentication", "stream_usage_unsupported", "canceled", "transport",
   "model_admission_timeout", "request_token_capacity_exceeded", "content_policy", "incomplete_output"}
Failure == [kind : FailureKinds, retryable : BOOLEAN]

CallTypes ==
  /\ call \in [kind : Kinds \cup {"none"}, payload : Payloads \cup {"plain"}, usage : BOOLEAN]
  /\ call.kind = "none" => phase = "idle"
  /\ records \in Seq(RequestRecord) /\ sent \in Seq(StreamNote)
  /\ acc \in Assembly /\ res \in AttemptResult /\ err \in Failure /\ callCanceled \in BOOLEAN
  /\ err # NoErr => err.kind # "none"

\* What the consumer saw is of the attempt in flight, which it bars from a retry.
Seen ==
  /\ phase \in {"idle", "record", "admit", "open", "backoff"} => ~res.emitted
  /\ \A i \in DOMAIN sent : visible(sent[i].kind) => sent[i].attempt = attempt /\ res.emitted
  /\ acc.display \/ res.answer => res.emitted
  /\ ~streaming => ~res.emitted
  /\ phase = "after" /\ err # NoErr /\ res.emitted => ~err.retryable

\* The draft is the text received until a Tool call is seen, and empty from then on.
Drafted ==
  /\ phase # "stream" => acc = Empty
  /\ phase = "idle" => res = NoResult
  /\ ~res.answer => draft = 0
  /\ phase = "stream" => draft = (IF acc.calls = <<>> THEN acc.text ELSE 0)
  /\ acc.retracted => acc.calls # <<>>
  /\ phase \in {"after", "settle", "finished"} /\ err = NoErr /\ streaming =>
       draft = (IF res.choice = <<>> THEN res.output ELSE 0)

Confirmed ==
  res.choice # <<>> =>
    /\ phase \in {"after", "settle", "finished"}
    /\ res.terminal /\ res.finish = "tool_calls" /\ err = NoErr /\ finish([calls |-> res.choice])

AttemptsClosed ==
  /\ phase \notin {"open", "stream"} => permit = 0
  /\ \A n \in DOMAIN records : records[n].outcome = "completed" =>
         n = Len(records) /\ err = NoErr /\ phase \in {"after", "settle", "finished"}

\* Only the write that failed left a record without its event, and it ended the call.
RecordsTruthful ==
  /\ phase = "idle" => records = <<>>
  /\ phase = "record" => recorded
  /\ phase \in {"admit", "open", "stream"} /\ recorded => records # <<>>
  /\ \A n \in DOMAIN records :
       /\ records[n].sent => records[n].prepared
       /\ records[n].capture.exact => records[n].capture.content = call.payload
       /\ records[n].capture.content # "secret"
       /\ ~records[n].prepared => /\ n = Len(records) /\ phase \in {"after", "settle", "finished"}
                                  /\ err.kind \in {"transport", "canceled"} /\ ~err.retryable

ReservationHeld ==
  /\ phase \in {"after", "backoff", "settle"} /\ recorded /\ res.terminal =>
       records # <<>> /\ records[Len(records)].terminal
  /\ phase \in {"after", "settle"} /\ err = NoErr => res.terminal
  /\ budget = "settled" => phase = "finished" /\ records # <<>> /\ records[Len(records)].terminal
  /\ phase = "finished" /\ outcome = "ok" => err = NoErr /\ (recorded => budget = "settled")

OneCall ==
  CallTypes /\ Seen /\ Drafted /\ Confirmed /\ AttemptsClosed /\ RecordsTruthful /\ ReservationHeld

LEMMA OneCallSafe == OneCall => ModelCallSafe
<1> SUFFICES ASSUME OneCall PROVE ModelCallSafe
  OBVIOUS
<1> USE DEF OneCall
<1>1. OneVisibleAttempt
  BY DEF OneVisibleAttempt, Seen
<1>2. DraftIsTheAnswer
  BY DEF DraftIsTheAnswer, Drafted, ReservationHeld
<1>3. CallsAreConfirmed
  BY DEF CallsAreConfirmed, Confirmed, finish
<1>4. AttemptsAreClosed
  <2>1. phase \in {"record", "after", "backoff", "settle", "finished"} => phase \notin {"open", "stream"}
    OBVIOUS
  <2> QED BY <2>1 DEF AttemptsAreClosed, AttemptsClosed
<1>5. SentIsRecorded
  BY DEF SentIsRecorded, RecordsTruthful, ValidateReconstructability
<1>6. CaptureHoldsNoSecret
  BY DEF CaptureHoldsNoSecret, RecordsTruthful
<1>7. SettledByTerminal
  BY DEF SettledByTerminal, ReservationHeld
<1> QED BY <1>1, <1>2, <1>3, <1>4, <1>5, <1>6, <1>7 DEF ModelCallSafe

\* A note adds one piece to the draft, empties it or leaves it.
LEMMA DraftAppended ==
  ASSUME NEW s \in Seq(StreamNote), NEW e \in StreamNote
  PROVE  /\ draftOf(s) \in Nat
         /\ draftOf(Append(s, e)) = IF e.kind = "reset" THEN 0 ELSE IF e.kind = "delta" THEN draftOf(s) + 1 ELSE draftOf(s)
<1> DEFINE t == Append(s, e)
           counted(u) == {i \in DOMAIN u : u[i].kind = "delta" /\ \A j \in i..Len(u) : u[j].kind # "reset"}
<1>1. /\ Len(s) \in Nat /\ DOMAIN s = 1..Len(s) /\ Len(t) = Len(s) + 1 /\ DOMAIN t = 1..(Len(s) + 1)
      /\ t[Len(s) + 1] = e /\ \A i \in 1..Len(s) : t[i] = s[i]
  OBVIOUS
<1> HIDE DEF t
<1>2. IsFiniteSet(counted(s))
  <2>1. IsFiniteSet(1..Len(s))
    BY <1>1, FS_Interval
  <2> QED BY <1>1, <2>1, FS_Subset
<1>3. Cardinality(counted(s)) \in Nat
  BY <1>2, FS_CardinalityType
<1>4. CASE e.kind = "reset"
  <2>1. counted(t) = {}
    <3> SUFFICES ASSUME NEW i \in 1..(Len(s) + 1), \A j \in i..(Len(s) + 1) : t[j].kind # "reset" PROVE FALSE
      BY <1>1
    <3>1. Len(s) + 1 \in i..(Len(s) + 1)
      BY <1>1
    <3> QED BY <1>1, <1>4, <3>1
  <2>2. Cardinality(counted(t)) = 0
    BY <2>1, FS_EmptySet
  <2> QED BY <1>3, <1>4, <2>2 DEF draftOf, t
<1>5. CASE e.kind # "reset"
  <2>1. \A i \in 1..Len(s) : i \in counted(t) <=> i \in counted(s)
    <3> TAKE i \in 1..Len(s)
    <3>1. (\A j \in i..(Len(s) + 1) : t[j].kind # "reset") <=> (\A j \in i..Len(s) : s[j].kind # "reset")
      <4>1. \A j \in i..(Len(s) + 1) : j = Len(s) + 1 \/ (j \in i..Len(s) /\ j \in 1..Len(s))
        BY <1>1
      <4>2. \A j \in i..Len(s) : j \in i..(Len(s) + 1) /\ j \in 1..Len(s)
        BY <1>1
      <4> QED BY <1>1, <1>5, <4>1, <4>2
    <3>2. i \in 1..(Len(s) + 1)
      BY <1>1
    <3> QED BY <1>1, <3>1, <3>2
  <2>2. Len(s) + 1 \in counted(t) <=> e.kind = "delta"
    <3>1. \A j \in (Len(s) + 1)..(Len(s) + 1) : j = Len(s) + 1
      BY <1>1
    <3>2. Len(s) + 1 \in 1..(Len(s) + 1)
      BY <1>1
    <3> QED BY <1>1, <1>5, <3>1, <3>2
  <2>3. counted(t) = counted(s) \cup (IF e.kind = "delta" THEN {Len(s) + 1} ELSE {})
    <3>1. counted(t) \subseteq 1..(Len(s) + 1) /\ counted(s) \subseteq 1..Len(s)
      BY <1>1
    <3>2. \A i \in 1..(Len(s) + 1) : i \in 1..Len(s) \/ i = Len(s) + 1
      BY <1>1
    <3> HIDE DEF counted
    <3> QED BY <2>1, <2>2, <3>1, <3>2
  <2>4. Len(s) + 1 \notin counted(s)
    BY <1>1
  <2>5. Cardinality(counted(t)) = IF e.kind = "delta" THEN Cardinality(counted(s)) + 1 ELSE Cardinality(counted(s))
    <3> HIDE DEF counted
    <3> QED BY <1>2, <2>3, <2>4, FS_AddElement
  <2> QED BY <1>3, <1>5, <2>5 DEF draftOf, t
<1> QED BY <1>4, <1>5

LEMMA OneCallInit == StreamInit => OneCall
<1> SUFFICES ASSUME StreamInit PROVE OneCall
  OBVIOUS
<1>0. /\ records = <<>> /\ sent = <<>> /\ acc = Empty /\ res = NoResult /\ err = NoErr /\ phase = "idle"
      /\ callCanceled = FALSE /\ permit = 0 /\ budget = "none" /\ outcome = ""
      /\ call = [kind |-> "none", payload |-> "plain", usage |-> TRUE]
  BY DEF StreamInit
<1>7. /\ DOMAIN sent = {} /\ DOMAIN records = {}
      /\ records \in Seq(RequestRecord) /\ sent \in Seq(StreamNote) /\ <<>> \in Seq(PartialCall)
  <2>1. <<>> \in Seq(RequestRecord) /\ <<>> \in Seq(StreamNote) /\ <<>> \in Seq(PartialCall)
    BY EmptySeq
  <2>2. DOMAIN <<>> = {}
    OBVIOUS
  <2> QED BY <1>0, <2>1, <2>2
<1>1. CallTypes
  <2>1. acc \in Assembly
    BY <1>0, <1>7 DEF Assembly, Empty, FinishReasons
  <2>2. res \in AttemptResult
    BY <1>0, <1>7 DEF AttemptResult, NoResult
  <2>3. err \in Failure
    BY <1>0 DEF Failure, FailureKinds, NoErr
  <2>4. call \in [kind : Kinds \cup {"none"}, payload : Payloads \cup {"plain"}, usage : BOOLEAN]
    BY <1>0
  <2> QED BY <1>0, <1>7, <2>1, <2>2, <2>3, <2>4 DEF CallTypes
<1>2. Seen
  BY <1>0, <1>7 DEF Seen, Empty, NoResult
<1>3. draft = 0
  <2>1. {i \in DOMAIN sent : sent[i].kind = "delta" /\ \A j \in i..Len(sent) : sent[j].kind # "reset"} = {}
    BY <1>0, <1>7
  <2> QED BY <2>1, FS_EmptySet DEF draft, draftOf
<1>4. Drafted
  BY <1>0, <1>3 DEF Drafted, Empty, NoResult
<1>5. Confirmed
  BY <1>0 DEF Confirmed, NoResult
<1>6. AttemptsClosed /\ RecordsTruthful /\ ReservationHeld
  BY <1>0, <1>7 DEF AttemptsClosed, RecordsTruthful, ReservationHeld, NoResult
<1> QED BY <1>1, <1>2, <1>4, <1>5, <1>6 DEF OneCall

\* Notes sent so far, seen only when b and then of the attempt in flight.
seenIn(s, b) == \A i \in DOMAIN s : visible(s[i].kind) => s[i].attempt = attempt /\ b

LEMMA SeenAppended ==
  ASSUME NEW s \in Seq(StreamNote), NEW e \in StreamNote, NEW b, seenIn(s, b), visible(e.kind) => e.attempt = attempt /\ b
  PROVE  Append(s, e) \in Seq(StreamNote) /\ seenIn(Append(s, e), b)
<1>1. /\ Append(s, e) \in Seq(StreamNote) /\ DOMAIN Append(s, e) = 1..(Len(s) + 1) /\ DOMAIN s = 1..Len(s) /\ Len(s) \in Nat
      /\ Append(s, e)[Len(s) + 1] = e /\ \A i \in 1..Len(s) : Append(s, e)[i] = s[i]
  OBVIOUS
<1>2. \A i \in 1..(Len(s) + 1) : i \in 1..Len(s) \/ i = Len(s) + 1
  BY <1>1
<1> QED BY <1>1, <1>2 DEF seenIn

\* What the end of an attempt does to the records.
RecordsKept ==
  /\ records' \in Seq(RequestRecord) /\ Len(records') = Len(records)
  /\ \A n \in DOMAIN records :
       /\ records'[n].prepared = records[n].prepared /\ records'[n].capture = records[n].capture
       /\ records'[n].outcome = "completed" => records[n].outcome = "completed" \/ (n = attempt /\ err' = NoErr)
  /\ recorded /\ records # <<>> /\ res'.terminal => records'[attempt].terminal

LEMMA AttemptEnded ==
  ASSUME OneCall, phase \in {"admit", "open", "stream"}, phase' = "after",
         err' \in Failure, err' # NoErr => err'.kind # "none" /\ (res'.emitted => ~err'.retryable),
         res' \in AttemptResult, res'.answer => res'.emitted, ~streaming => ~res'.emitted, acc' = Empty, permit' = 0, RecordsKept,
         sent' \in Seq(StreamNote), seenIn(sent', res'.emitted), draft' = draft, ~res'.answer => draft = 0,
         err' = NoErr => res'.terminal /\ (streaming => draft = (IF res'.choice = <<>> THEN res'.output ELSE 0)),
         res'.choice # <<>> => /\ res'.terminal /\ res'.finish = "tool_calls" /\ err' = NoErr
                               /\ finish([calls |-> res'.choice]),
         UNCHANGED <<call, callCanceled, budget, outcome>>
  PROVE  OneCall'
<1>0. CallTypes /\ Seen /\ Drafted /\ Confirmed /\ AttemptsClosed /\ RecordsTruthful /\ ReservationHeld
  BY DEF OneCall
<1>1. /\ attempt' = attempt /\ (recorded' <=> recorded) /\ (streaming' <=> streaming) /\ call' = call
      /\ DOMAIN records' = DOMAIN records /\ (recorded => records # <<>>) /\ Len(records) \in Nat
      /\ DOMAIN records = 1..Len(records) /\ (records # <<>> => records' # <<>> /\ Len(records) \in DOMAIN records)
      /\ \A n \in DOMAIN records : records'[n] \in RequestRecord
  <2>1. records \in Seq(RequestRecord) /\ records' \in Seq(RequestRecord) /\ Len(records') = Len(records)
    BY <1>0 DEF CallTypes, RecordsKept
  <2>2. DOMAIN records = 1..Len(records) /\ DOMAIN records' = 1..Len(records') /\ Len(records) \in Nat
    BY <2>1
  <2>3. records # <<>> => Len(records) # 0
    BY <2>1, EmptySeq
  <2>4. records # <<>> => records' # <<>> /\ Len(records) \in 1..Len(records)
    BY <2>1, <2>2, <2>3
  <2> QED BY <1>0, <2>1, <2>2, <2>4 DEF attempt, recorded, streaming, RecordsTruthful
<1>2. CallTypes'
  <2>1. Empty \in Assembly
    BY EmptySeq DEF Assembly, Empty, FinishReasons
  <2> QED BY <1>0, <1>1, <2>1 DEF CallTypes, RecordsKept
<1>3. Seen'
  BY <1>1 DEF Seen, seenIn, Empty
<1>4. Drafted'
  <2>1. Empty.retracted = FALSE
    BY DEF Empty
  <2> QED BY <1>1, <2>1 DEF Drafted
<1>5. Confirmed'
  <2>1. finish([calls |-> res'.choice]) => finish([calls |-> res.choice])'
    BY DEF finish
  <2> QED BY <2>1 DEF Confirmed
<1>6. AttemptsClosed'
  BY <1>0, <1>1 DEF AttemptsClosed, RecordsKept, attempt
<1>7. RecordsTruthful'
  <2>1. \A n \in DOMAIN records : records[n].prepared
    BY <1>0 DEF RecordsTruthful
  <2> QED BY <1>0, <1>1, <2>1 DEF RecordsTruthful, RecordsKept
<1>8. ReservationHeld'
  <2>1. budget # "settled"
    BY <1>0 DEF ReservationHeld
  <2> QED BY <1>0, <1>1, <2>1 DEF ReservationHeld, RecordsKept, attempt
<1> QED BY <1>2, <1>3, <1>4, <1>5, <1>6, <1>7, <1>8 DEF OneCall

\* Only the record of the attempt in flight is rewritten.
LEMMA LastReplaced ==
  ASSUME records \in Seq(RequestRecord), NEW last, attempt \in DOMAIN records => last \in RequestRecord,
         records' = [records EXCEPT ![attempt] = last]
  PROVE  /\ records' \in Seq(RequestRecord) /\ Len(records') = Len(records) /\ DOMAIN records' = DOMAIN records
         /\ \A n \in DOMAIN records : records'[n] = IF n = attempt THEN last ELSE records[n]
<1>0. Len(records) \in Nat /\ DOMAIN records = 1..Len(records)
  OBVIOUS
<1>1. CASE attempt \in 1..Len(records)
  <2>1. [records EXCEPT ![attempt] = last] \in Seq(RequestRecord) /\ Len([records EXCEPT ![attempt] = last]) = Len(records)
    BY <1>0, <1>1, ExceptSeq
  <2> QED BY <2>1
<1>2. CASE attempt \notin DOMAIN records
  <2>1. records' = records
    BY <1>0, <1>2
  <2> QED BY <1>0, <1>2, <2>1
<1> QED BY <1>0, <1>1, <1>2

LEMMA OutcomeKeepsRecords ==
  ASSUME OneCall, NEW e, NEW r \in AttemptResult, finishModelAttempt(e, r), e = NoErr => err' = NoErr, res'.terminal = r.terminal
  PROVE  RecordsKept
<1>0. records \in Seq(RequestRecord) /\ Len(records) \in Nat /\ DOMAIN records = 1..Len(records) /\ r.terminal \in BOOLEAN
  <2>1. records \in Seq(RequestRecord)
    BY DEF OneCall, CallTypes
  <2>2. r.terminal \in BOOLEAN
    BY DEF AttemptResult
  <2> QED BY <2>1, <2>2
<1>1. CASE ~recorded
  BY <1>0, <1>1 DEF finishModelAttempt, RecordsKept
<1>2. CASE recorded
  <2> PICK ok \in BOOLEAN : records' = [records EXCEPT
             ![attempt].outcome = IF ok THEN (IF e = NoErr THEN "completed" ELSE "failed") ELSE @,
             ![attempt].terminal = r.terminal]
    BY <1>2 DEF finishModelAttempt
  <2> DEFINE o == IF ok THEN (IF e = NoErr THEN "completed" ELSE "failed") ELSE records[attempt].outcome
             last == [records[attempt] EXCEPT !.outcome = o, !.terminal = r.terminal]
  <2>1. records' = [records EXCEPT ![attempt] = last]
    BY <1>0
  <2>2. attempt \in DOMAIN records => records[attempt] \in RequestRecord /\ last \in RequestRecord
    <3> SUFFICES ASSUME attempt \in DOMAIN records PROVE records[attempt] \in RequestRecord /\ last \in RequestRecord
      OBVIOUS
    <3>1. records[attempt] \in RequestRecord
      BY <1>0
    <3>2. o \in {"", "completed", "failed"}
      BY <3>1 DEF RequestRecord
    <3> HIDE DEF o
    <3> QED BY <1>0, <3>1, <3>2 DEF RequestRecord
  <2>3. attempt \in DOMAIN records =>
          /\ last.prepared = records[attempt].prepared /\ last.capture = records[attempt].capture
          /\ last.terminal = r.terminal /\ last.outcome = o
    BY <2>2 DEF RequestRecord
  <2> HIDE DEF last
  <2>4. records' \in Seq(RequestRecord) /\ Len(records') = Len(records)
        /\ \A n \in DOMAIN records : records'[n] = IF n = attempt THEN last ELSE records[n]
    BY <1>0, <2>1, <2>2, LastReplaced
  <2>6. records # <<>> => attempt \in DOMAIN records
    <3>1. records # <<>> => Len(records) # 0
      BY <1>0, EmptySeq
    <3> QED BY <1>0, <3>1 DEF attempt
  <2> QED BY <2>3, <2>4, <2>6 DEF RecordsKept
<1> QED BY <1>1, <1>2

\* A deferred note of the attempt is neither a delta nor a reset.
LEMMA QuietNote ==
  ASSUME CallTypes, NEW s \in Seq(StreamNote), NEW b, seenIn(s, b), NEW k \in {"output_display", "reasoning"},
         k = "reasoning" => b
  PROVE  Append(s, note(k)) \in Seq(StreamNote) /\ seenIn(Append(s, note(k)), b) /\ draftOf(Append(s, note(k))) = draftOf(s)
<1>1. note(k) \in StreamNote /\ note(k).kind = k /\ note(k).attempt = attempt
  <2>1. attempt \in Nat
    BY DEF attempt, CallTypes
  <2> QED BY <2>1 DEF note, StreamNote
<1>2. ~visible("output_display")
  BY DEF visible
<1> QED BY <1>1, <1>2, SeenAppended, DraftAppended

LEMMA DeferredNotes ==
  ASSUME OneCall, NEW b, seenIn(sent, b), NEW a, a.display => b,
         sent' = sent \o outputDisplay(a) \o reasoningDisplay(a)
  PROVE  sent' \in Seq(StreamNote) /\ seenIn(sent', b) /\ draft' = draft
<1>0. CallTypes /\ sent \in Seq(StreamNote) /\ draft' = draftOf(sent') /\ draft = draftOf(sent)
  BY DEF OneCall, CallTypes, draft, draftOf
<1> DEFINE s == sent \o outputDisplay(a)
<1>1. s \in Seq(StreamNote) /\ seenIn(s, b) /\ draftOf(s) = draftOf(sent)
  <2>1. CASE outputDisplay(a) = <<>>
    BY <1>0, <2>1
  <2>2. CASE outputDisplay(a) = <<note("output_display")>>
    <3>1. s = Append(sent, note("output_display"))
      BY <1>0, <2>2, AppendIsConcat
    <3> QED BY <1>0, <3>1, QuietNote
  <2> QED BY <2>1, <2>2 DEF outputDisplay
<1> HIDE DEF s
<1>2. CASE reasoningDisplay(a) = <<>>
  BY <1>0, <1>1, <1>2 DEF s
<1>3. CASE reasoningDisplay(a) = <<note("reasoning")>> /\ a.display
  <2>1. sent' = s \o <<note("reasoning")>>
    BY <1>3 DEF s
  <2>2. sent' = Append(s, note("reasoning"))
    BY <1>1, <2>1, AppendIsConcat
  <2> QED BY <1>0, <1>1, <1>3, <2>2, QuietNote
<1> QED BY <1>2, <1>3 DEF reasoningDisplay

LEMMA EndKeeps ==
  ASSUME OneCall, phase \in {"admit", "open", "stream"},
         NEW e \in Failure, NEW r \in AttemptResult, NEW a \in Assembly, endAttempt(e, r, a),
         e # NoErr => e.kind # "none", r.answer => r.emitted, a.display => r.emitted, ~streaming => ~r.emitted,
         seenIn(sent, r.emitted), ~r.answer => draft = 0,
         e = NoErr => r.terminal /\ (streaming => draft = (IF r.choice = <<>> THEN r.output ELSE 0)),
         r.choice # <<>> => r.terminal /\ a.finish = "tool_calls" /\ e = NoErr /\ finish([calls |-> r.choice]),
         UNCHANGED <<call, callCanceled, budget, outcome>>
  PROVE  OneCall'
<1>1. /\ phase' = "after" /\ err' = attemptError(e, r) /\ res' = [r EXCEPT !.finish = a.finish] /\ acc' = Empty
      /\ permit' = 0 /\ sent' = sent \o outputDisplay(a) \o reasoningDisplay(a) /\ finishModelAttempt(e, r)
  BY DEF endAttempt
<1>2. /\ err' \in Failure /\ (e = NoErr <=> err' = NoErr) /\ (err' # NoErr => err'.kind # "none")
      /\ (err' # NoErr /\ r.emitted => ~err'.retryable)
  <2>1. CASE e # NoErr /\ r.emitted
    <3>1. err' = [e EXCEPT !.retryable = FALSE]
      BY <1>1, <2>1 DEF attemptError, withoutRetry
    <3> QED BY <2>1, <3>1 DEF Failure, FailureKinds, NoErr
  <2>2. CASE ~(e # NoErr /\ r.emitted)
    BY <1>1, <2>2 DEF attemptError
  <2> QED BY <2>1, <2>2
<1>3. /\ res' \in AttemptResult /\ res'.emitted = r.emitted /\ res'.answer = r.answer /\ res'.terminal = r.terminal
      /\ res'.choice = r.choice /\ res'.output = r.output /\ res'.finish = a.finish
  BY <1>1 DEF AttemptResult, Assembly
<1>4. RecordsKept
  BY <1>1, <1>2, <1>3, OutcomeKeepsRecords
<1>5. sent' \in Seq(StreamNote) /\ seenIn(sent', r.emitted) /\ draft' = draft
  BY <1>1, DeferredNotes
<1> QED BY <1>1, <1>2, <1>3, <1>4, <1>5, AttemptEnded

\* The errors an attempt ends with.
LEMMA FailureTypes ==
  /\ NoErr \in Failure /\ NoErr.kind = "none"
  /\ withoutRetry(transport) \in Failure /\ withoutRetry(transport).kind = "transport"
  /\ ~withoutRetry(transport).retryable
  /\ \A k \in FailureKinds, b \in BOOLEAN :
       [kind |-> k, retryable |-> b] \in Failure /\ [kind |-> k, retryable |-> b].kind = k
<1>1. transport = [kind |-> "transport", retryable |-> TRUE]
  BY DEF transport, modelError
<1>2. transport \in Failure
  BY <1>1 DEF Failure, FailureKinds
<1>3. /\ withoutRetry(transport) \in Failure /\ withoutRetry(transport).kind = transport.kind
      /\ withoutRetry(transport).retryable = FALSE
  BY <1>2 DEF withoutRetry, Failure
<1>4. NoErr \in Failure /\ NoErr.kind = "none"
  BY DEF NoErr, Failure, FailureKinds
<1> QED BY <1>1, <1>3, <1>4 DEF Failure

LEMMA StartKeeps ==
  ASSUME OneCall, NEW kind \in Kinds, NEW payload \in Payloads, Start(kind, payload), StreamAssumption
  PROVE  OneCall'
<1>0. /\ CallTypes /\ Seen /\ Drafted /\ Confirmed /\ AttemptsClosed /\ RecordsTruthful /\ ReservationHeld
      /\ phase = "idle" /\ call' = [kind |-> kind, payload |-> payload, usage |-> TRUE]
      /\ UNCHANGED <<try, records, permit, acc, res, sent, err, callCanceled>>
  BY DEF OneCall, Start
<1>1. /\ records = <<>> /\ res = NoResult /\ draft = 0 /\ draft' = draft /\ attempt' = attempt /\ budget # "settled"
      /\ DOMAIN records = {} /\ kind # "none"
  <2>1. DOMAIN <<>> = {}
    OBVIOUS
  <2>2. records = <<>> /\ DOMAIN records = {}
    BY <1>0, <2>1 DEF RecordsTruthful
  <2>3. res = NoResult /\ draft = 0
    <3>1. res = NoResult /\ (~res.answer => draft = 0)
      BY <1>0 DEF Drafted
    <3>2. ~NoResult.answer
      BY DEF NoResult
    <3> QED BY <3>1, <3>2
  <2>4. draft' = draft /\ attempt' = attempt
    BY <1>0 DEF draft, draftOf, attempt
  <2>5. budget # "settled" /\ kind # "none"
    BY <1>0 DEF ReservationHeld, StreamAssumption
  <2> QED BY <2>2, <2>3, <2>4, <2>5
<1>2. \/ kind = "embedding" /\ phase' = "admit" /\ budget' = "none" /\ outcome' = outcome
      \/ kind # "embedding" /\ phase' = "record" /\ budget' = "reserved" /\ outcome' = outcome
      \/ kind # "embedding" /\ phase' = "finished" /\ outcome' = "error" /\ budget' = budget
  BY DEF Start
<1>3. CallTypes'
  BY <1>0, <1>1, <1>2 DEF CallTypes
<1>4. Seen'
  BY <1>0, <1>1 DEF Seen, NoResult
<1>5. Drafted'
  BY <1>0, <1>1, <1>2 DEF Drafted, NoResult
<1>6. Confirmed'
  BY <1>0, <1>1 DEF Confirmed, NoResult
<1>7. AttemptsClosed'
  BY <1>0, <1>1, <1>2 DEF AttemptsClosed
<1>8. RecordsTruthful'
  BY <1>0, <1>1, <1>2 DEF RecordsTruthful, recorded
<1>9. ReservationHeld'
  BY <1>0, <1>1, <1>2 DEF ReservationHeld, NoResult
<1> QED BY <1>3, <1>4, <1>5, <1>6, <1>7, <1>8, <1>9 DEF OneCall

LEMMA CancelKeeps == ASSUME OneCall, CancelCall PROVE OneCall'
<1>1. UNCHANGED <<phase, call, try, records, permit, acc, res, sent, err, budget, outcome>> /\ callCanceled' = TRUE
  BY DEF CancelCall
<1>2. draft' = draft /\ attempt' = attempt /\ (recorded' <=> recorded) /\ (streaming' <=> streaming)
  BY <1>1 DEF draft, draftOf, attempt, recorded, streaming
<1>3. CallTypes' /\ Seen' /\ Drafted'
  BY <1>1, <1>2 DEF OneCall, CallTypes, Seen, Drafted
<1>4. Confirmed' /\ AttemptsClosed' /\ RecordsTruthful' /\ ReservationHeld'
  BY <1>1, <1>2 DEF OneCall, Confirmed, AttemptsClosed, RecordsTruthful, ReservationHeld, finish
<1> QED BY <1>3, <1>4 DEF OneCall

LEMMA ListKeeps == ASSUME OneCall, ListModelRequestRecords PROVE OneCall'
<1>0. /\ CallTypes /\ Seen /\ Drafted /\ Confirmed /\ AttemptsClosed /\ RecordsTruthful /\ ReservationHeld
      /\ UNCHANGED <<phase, call, try, permit, acc, res, sent, err, callCanceled, budget, outcome>>
      /\ records \in Seq(RequestRecord)
  BY DEF OneCall, ListModelRequestRecords, CallTypes
<1>1. PICK n \in DOMAIN records :
        records' = [records EXCEPT ![n].capture = [content |-> "none", exact |-> FALSE]]
  BY DEF ListModelRequestRecords
<1> DEFINE one == [records[n] EXCEPT !.capture = [content |-> "none", exact |-> FALSE]]
<1>2. records' = [records EXCEPT ![n] = one]
  BY <1>1
<1>3. records[n] \in RequestRecord /\ n \in 1..Len(records)
  BY <1>0
<1>4. /\ one \in RequestRecord /\ one.capture.content = "none" /\ one.capture.exact = FALSE
      /\ one.prepared = records[n].prepared /\ one.sent = records[n].sent /\ one.outcome = records[n].outcome
      /\ one.terminal = records[n].terminal
  BY <1>3 DEF RequestRecord
<1> HIDE DEF one
<1>5. [records EXCEPT ![n] = one] \in Seq(RequestRecord) /\ Len([records EXCEPT ![n] = one]) = Len(records)
  BY <1>0, <1>3, <1>4, ExceptSeq
<1>6. /\ records' \in Seq(RequestRecord) /\ Len(records') = Len(records) /\ DOMAIN records' = DOMAIN records
      /\ \A k \in DOMAIN records : records'[k] = IF k = n THEN one ELSE records[k]
      /\ records' # <<>> /\ records # <<>> /\ Len(records) \in DOMAIN records
  <2>1. DOMAIN records = 1..Len(records) /\ Len(records) \in Nat /\ Len(records) # 0
    BY <1>0, <1>3
  <2>2. records' \in Seq(RequestRecord) /\ Len(records') = Len(records)
    BY <1>2, <1>5
  <2>3. records' # <<>> /\ records # <<>>
    BY <1>0, <2>1, <2>2, EmptySeq
  <2> QED BY <1>0, <1>2, <2>1, <2>2, <2>3
<1>7. draft' = draft /\ attempt' = attempt /\ (recorded' <=> recorded) /\ (streaming' <=> streaming)
  BY <1>0, <1>6 DEF draft, draftOf, attempt, recorded, streaming
<1>8. CallTypes' /\ Seen' /\ Drafted' /\ Confirmed'
  BY <1>0, <1>6, <1>7 DEF CallTypes, Seen, Drafted, Confirmed, finish
<1>9. AttemptsClosed'
  BY <1>0, <1>4, <1>6, <1>7 DEF AttemptsClosed
<1>10. RecordsTruthful'
  BY <1>0, <1>4, <1>6, <1>7 DEF RecordsTruthful
<1>11. ReservationHeld'
  BY <1>0, <1>4, <1>6, <1>7 DEF ReservationHeld
<1> QED BY <1>8, <1>9, <1>10, <1>11 DEF OneCall

LEMMA CaptureTypes ==
  ASSUME call.payload \in Payloads \cup {"plain"}
  PROVE  LET c == capturePayload(call.payload)
         IN  /\ c \in [content : Payloads \cup {"plain", "none", "redacted"}, exact : BOOLEAN]
             /\ c.exact => c.content = call.payload
             /\ c.content # "secret"
BY DEF capturePayload

LEMMA RecordKeeps == ASSUME OneCall, Record PROVE OneCall'
<1>0. /\ CallTypes /\ Seen /\ Drafted /\ Confirmed /\ AttemptsClosed /\ RecordsTruthful /\ ReservationHeld
      /\ UNCHANGED <<call, try, permit, sent, callCanceled, budget, outcome>> /\ phase = "record"
      /\ acc' = Empty /\ res' = NoResult
      /\ records \in Seq(RequestRecord) /\ call.payload \in Payloads \cup {"plain"}
  BY DEF OneCall, Record, CallTypes
<1>1. \/ records' = CreateModelRequestRecord(TRUE) /\ phase' = "admit" /\ err' = NoErr
      \/ records' \in {records, CreateModelRequestRecord(FALSE)} /\ phase' = "after" /\ err' = withoutRetry(transport)
  BY DEF Record
<1>2. ~res.emitted /\ draft = 0 /\ draft' = draft /\ (recorded' <=> recorded) /\ recorded /\ (streaming' <=> streaming)
      /\ \A i \in DOMAIN sent : ~visible(sent[i].kind)
  BY <1>0 DEF Seen, Drafted, draft, draftOf, RecordsTruthful, recorded, streaming
<1>3. ASSUME NEW p \in BOOLEAN
      PROVE  LET r == [prepared |-> p, sent |-> FALSE, outcome |-> "", terminal |-> FALSE,
                       capture |-> capturePayload(call.payload)]
             IN  /\ r \in RequestRecord /\ r.prepared = p /\ ~r.sent /\ r.outcome = ""
                 /\ r.capture.exact => r.capture.content = call.payload
                 /\ r.capture.content # "secret"
                 /\ CreateModelRequestRecord(p) = Append(records, r)
  <2> DEFINE c == capturePayload(call.payload)
  <2>1. /\ c \in [content : Payloads \cup {"plain", "none", "redacted"}, exact : BOOLEAN]
        /\ c.exact => c.content = call.payload
        /\ c.content # "secret"
    BY <1>0, CaptureTypes
  <2> HIDE DEF c
  <2>2. LET r == [prepared |-> p, sent |-> FALSE, outcome |-> "", terminal |-> FALSE, capture |-> c]
        IN  /\ r \in RequestRecord /\ r.prepared = p /\ ~r.sent /\ r.outcome = ""
            /\ r.capture.exact => r.capture.content = call.payload
            /\ r.capture.content # "secret"
    BY <2>1 DEF RequestRecord
  <2> QED BY <2>2 DEF c, CreateModelRequestRecord
<1>4. CASE records' = records /\ phase' = "after" /\ err' = withoutRetry(transport)
  <2>1. /\ err' \in Failure /\ err'.kind = "transport" /\ err' # NoErr /\ ~err'.retryable /\ attempt' = attempt
    BY <1>4, FailureTypes DEF attempt
  <2>2. CallTypes'
    BY <1>0, <1>4, <2>1, EmptySeq DEF CallTypes, Assembly, AttemptResult, Empty, NoResult, FinishReasons
  <2>3. Seen' /\ Drafted' /\ Confirmed'
    BY <1>0, <1>2, <1>4, <2>1 DEF Seen, Drafted, Confirmed, NoResult, Empty
  <2>4. AttemptsClosed' /\ RecordsTruthful' /\ ReservationHeld'
    BY <1>0, <1>2, <1>4, <2>1 DEF AttemptsClosed, RecordsTruthful, ReservationHeld, NoResult
  <2> QED BY <2>2, <2>3, <2>4 DEF OneCall
<1>5. ASSUME NEW p \in BOOLEAN, records' = CreateModelRequestRecord(p),
             \/ p /\ phase' = "admit" /\ err' = NoErr
             \/ ~p /\ phase' = "after" /\ err' = withoutRetry(transport)
      PROVE  OneCall'
  <2>1. PICK r \in RequestRecord : /\ r.prepared = p /\ ~r.sent /\ r.outcome = ""
                               /\ (r.capture.exact => r.capture.content = call.payload) /\ r.capture.content # "secret"
                               /\ records' = Append(records, r)
    BY <1>3, <1>5
  <2>2. /\ Len(records) \in Nat /\ DOMAIN records = 1..Len(records)
        /\ records' \in Seq(RequestRecord) /\ Len(records') = Len(records) + 1 /\ DOMAIN records' = 1..(Len(records) + 1)
        /\ records'[Len(records) + 1] = r /\ \A n \in 1..Len(records) : records'[n] = records[n]
    <3>1. records' = Append(records, r)
      BY <2>1
    <3>2. records' \in Seq(RequestRecord) /\ Len(records') = Len(records) + 1 /\ records'[Len(records) + 1] = r
          /\ \A n \in 1..Len(records) : records'[n] = records[n]
      BY <1>0, <3>1, AppendProperties
    <3> QED BY <1>0, <3>2
  <2>3. records' # <<>> /\ \A n \in 1..(Len(records) + 1) : n \in 1..Len(records) \/ n = Len(records) + 1
    BY <2>2, EmptySeq
  <2>4. /\ err' \in Failure /\ (~p => err'.kind = "transport" /\ ~err'.retryable /\ err' # NoErr) /\ (err' # NoErr => err'.kind # "none")
    BY <1>5, FailureTypes
  <2>5. CallTypes'
    BY <1>0, <2>2, <2>4, EmptySeq DEF CallTypes, Assembly, AttemptResult, Empty, NoResult, FinishReasons
  <2>6. Seen' /\ Confirmed'
    BY <1>0, <1>2, <1>5, <2>4 DEF Seen, Confirmed, NoResult, Empty
  <2>7. Drafted'
    <3>1. Empty.calls = <<>> /\ Empty.text = 0 /\ ~Empty.retracted /\ ~NoResult.answer
      BY DEF Empty, NoResult
    <3> QED BY <1>0, <1>2, <1>5, <2>4, <3>1 DEF Drafted
  <2>8. AttemptsClosed'
    <3>1. phase' \notin {"open", "stream"} /\ permit = 0
      BY <1>0, <1>5 DEF AttemptsClosed
    <3>2. \A n \in DOMAIN records' : records'[n].outcome # "completed"
      BY <1>0, <2>1, <2>2, <2>3 DEF AttemptsClosed
    <3> QED BY <1>0, <3>1, <3>2 DEF AttemptsClosed
  <2>9. RecordsTruthful'
    <3>1. \A n \in 1..Len(records) : records[n].prepared
      BY <1>0, <2>2 DEF RecordsTruthful
    <3>2. phase' \in {"admit", "after"} /\ records' # <<>> /\ call' = call
      BY <1>0, <1>5, <2>3
    <3>3. \A n \in 1..Len(records) :
            /\ records[n].sent => records[n].prepared
            /\ records[n].capture.exact => records[n].capture.content = call.payload
            /\ records[n].capture.content # "secret"
      BY <1>0, <2>2 DEF RecordsTruthful
    <3>4. ~p => phase' = "after" /\ err'.kind = "transport" /\ ~err'.retryable
      BY <1>5, <2>4
    <3>5. \A n \in DOMAIN records' :
            /\ records'[n].sent => records'[n].prepared
            /\ records'[n].capture.exact => records'[n].capture.content = call.payload
            /\ records'[n].capture.content # "secret"
            /\ ~records'[n].prepared => n = Len(records') /\ ~p
      BY <2>1, <2>2, <2>3, <3>1, <3>3
    <3> QED BY <3>2, <3>4, <3>5 DEF RecordsTruthful
  <2>10. ReservationHeld'
    BY <1>0, <1>5, <2>4 DEF ReservationHeld, NoResult
  <2> QED BY <2>5, <2>6, <2>7, <2>8, <2>9, <2>10 DEF OneCall
<1> QED BY <1>1, <1>4, <1>5

LEMMA AdmitKeeps == ASSUME OneCall, doPathRequest PROVE OneCall'
<1>0. /\ CallTypes /\ Seen /\ Drafted /\ Confirmed /\ AttemptsClosed /\ RecordsTruthful /\ ReservationHeld
      /\ UNCHANGED <<call, try, callCanceled, budget, outcome>> /\ phase = "admit"
  BY DEF OneCall, doPathRequest
<1>1. ~res.emitted /\ draft = 0 /\ \A i \in DOMAIN sent : ~visible(sent[i].kind)
  BY <1>0 DEF Seen, Drafted
<1>2. CASE permit' = permit + 1 /\ phase' = "open" /\ UNCHANGED <<records, acc, res, sent, err>>
  <2>1. draft' = draft /\ attempt' = attempt /\ (recorded' <=> recorded) /\ (streaming' <=> streaming)
    BY <1>0, <1>2 DEF draft, draftOf, attempt, recorded, streaming
  <2>2. CallTypes' /\ Seen' /\ Drafted' /\ Confirmed'
    BY <1>0, <1>2, <2>1 DEF CallTypes, Seen, Drafted, Confirmed
  <2>3. AttemptsClosed' /\ RecordsTruthful' /\ ReservationHeld'
    BY <1>0, <1>2, <2>1 DEF AttemptsClosed, RecordsTruthful, ReservationHeld
  <2> QED BY <2>2, <2>3 DEF OneCall
<1>3. ASSUME NEW e \in {modelError("model_admission_timeout", FALSE), modelError("request_token_capacity_exceeded", FALSE)}
                       \cup (IF callCanceled THEN {ctxErr} ELSE {}),
             endAttempt(e, NoResult, Empty)
      PROVE  OneCall'
  <2>1. e \in Failure /\ e # NoErr /\ e.kind # "none"
    <3>1. e \in {[kind |-> k, retryable |-> FALSE] : k \in {"model_admission_timeout", "request_token_capacity_exceeded", "canceled"}}
      BY <1>3 DEF modelError, ctxErr
    <3> QED BY <3>1, FailureTypes DEF FailureKinds
  <2>2. NoResult \in AttemptResult /\ Empty \in Assembly
    BY EmptySeq DEF NoResult, AttemptResult, Empty, Assembly, FinishReasons
  <2>3. seenIn(sent, NoResult.emitted)
    BY <1>1 DEF seenIn
  <2>4. ~NoResult.answer /\ ~NoResult.emitted /\ ~Empty.display /\ NoResult.choice = <<>>
    BY DEF NoResult, Empty
  <2> QED BY <1>0, <1>1, <1>3, <2>1, <2>2, <2>3, <2>4, EndKeeps
<1> QED BY <1>2, <1>3 DEF doPathRequest

LEMMA OpenKeeps == ASSUME OneCall, Open PROVE OneCall'
<1>0. /\ CallTypes /\ Seen /\ Drafted /\ Confirmed /\ AttemptsClosed /\ RecordsTruthful /\ ReservationHeld
      /\ UNCHANGED <<call, try, callCanceled, budget, outcome>> /\ phase = "open"
  BY DEF OneCall, Open
<1>1. /\ ~res.emitted /\ ~res.answer /\ draft = 0 /\ acc = Empty
      /\ \A i \in DOMAIN sent : ~visible(sent[i].kind)
  BY <1>0 DEF Seen, Drafted
<1>2. /\ records \in Seq(RequestRecord) /\ DOMAIN records = 1..Len(records) /\ Len(records) \in Nat
      /\ \A n \in DOMAIN records : records[n] \in RequestRecord
  <2>1. records \in Seq(RequestRecord)
    BY <1>0 DEF CallTypes
  <2> QED BY <2>1
<1>3. records # <<>> => attempt \in DOMAIN records
  <2>1. records # <<>> => Len(records) # 0
    BY <1>2, EmptySeq
  <2> QED BY <1>2, <2>1 DEF attempt
<1>4. CASE /\ phase' = "stream" /\ UNCHANGED <<permit, acc, res, sent, err>>
           /\ records' = IF recorded THEN [records EXCEPT ![attempt].sent = TRUE] ELSE records
  <2> DEFINE last == IF recorded THEN [records[attempt] EXCEPT !.sent = TRUE] ELSE records[attempt]
  <2>1. records' = [records EXCEPT ![attempt] = last]
    <3>1. CASE recorded
      BY <1>2, <1>4, <3>1
    <3>2. CASE ~recorded
      <4>1. records = [records EXCEPT ![attempt] = records[attempt]] /\ last = records[attempt]
        BY <1>2, <3>2
      <4> HIDE DEF last
      <4> QED BY <1>4, <3>2, <4>1
    <3> QED BY <3>1, <3>2
  <2>2. attempt \in DOMAIN records =>
          /\ last \in RequestRecord /\ last.prepared = records[attempt].prepared /\ last.capture = records[attempt].capture
          /\ last.outcome = records[attempt].outcome
    BY <1>2 DEF RequestRecord
  <2> HIDE DEF last
  <2>3. /\ records' \in Seq(RequestRecord) /\ Len(records') = Len(records) /\ DOMAIN records' = DOMAIN records
        /\ \A n \in DOMAIN records : records'[n] = IF n = attempt THEN last ELSE records[n]
    BY <1>2, <2>1, <2>2, LastReplaced
  <2>4. /\ draft' = draft /\ attempt' = attempt /\ (recorded' <=> recorded) /\ (streaming' <=> streaming)
        /\ (records # <<>> => records' # <<>>)
    <3>1. records # <<>> => records' # <<>>
      BY <1>3, <2>3
    <3> QED BY <1>0, <1>4, <2>3, <3>1 DEF draft, draftOf, attempt, recorded, streaming
  <2>5. CallTypes' /\ Seen' /\ Confirmed'
    BY <1>0, <1>4, <2>3, <2>4 DEF CallTypes, Seen, Confirmed
  <2>6. Drafted'
    <3>1. Empty.calls = <<>> /\ Empty.text = 0 /\ ~Empty.retracted
      BY DEF Empty
    <3> QED BY <1>0, <1>1, <1>4, <2>4, <3>1 DEF Drafted
  <2>7. AttemptsClosed'
    BY <1>0, <1>4, <2>2, <2>3 DEF AttemptsClosed
  <2>8. RecordsTruthful'
    <3>1. \A n \in DOMAIN records : records[n].prepared
      BY <1>0 DEF RecordsTruthful
    <3> QED BY <1>0, <1>4, <2>2, <2>3, <2>4, <3>1 DEF RecordsTruthful
  <2>9. ReservationHeld'
    BY <1>0, <1>4 DEF ReservationHeld
  <2> QED BY <2>5, <2>6, <2>7, <2>8, <2>9 DEF OneCall
<1>5. ASSUME NEW e \in classifyHTTPFailure \cup {IF callCanceled THEN ctxErr ELSE transport}, NEW ok \in BOOLEAN,
             phase' = "after", err' = e, permit' = 0, acc' = Empty, res' = NoResult, UNCHANGED sent,
             records' = IF recorded THEN [records EXCEPT ![attempt].sent = TRUE,
                                                         ![attempt].outcome = IF ok THEN "failed" ELSE @]
                                    ELSE records
      PROVE  OneCall'
  <2> DEFINE o == IF ok THEN "failed" ELSE records[attempt].outcome
             last == IF recorded THEN [records[attempt] EXCEPT !.sent = TRUE, !.outcome = o] ELSE records[attempt]
  <2>1. records' = [records EXCEPT ![attempt] = last]
    <3>1. CASE recorded
      BY <1>2, <1>5, <3>1
    <3>2. CASE ~recorded
      <4>1. records = [records EXCEPT ![attempt] = records[attempt]] /\ last = records[attempt]
        BY <1>2, <3>2
      <4> HIDE DEF last
      <4> QED BY <1>5, <3>2, <4>1
    <3> QED BY <3>1, <3>2
  <2>2. attempt \in DOMAIN records =>
          /\ last \in RequestRecord /\ last.prepared = records[attempt].prepared /\ last.capture = records[attempt].capture
          /\ last.outcome \in {records[attempt].outcome, "failed"}
    <3> SUFFICES ASSUME attempt \in DOMAIN records
        PROVE /\ last \in RequestRecord /\ last.prepared = records[attempt].prepared /\ last.capture = records[attempt].capture
              /\ last.outcome \in {records[attempt].outcome, "failed"}
      OBVIOUS
    <3>1. records[attempt] \in RequestRecord /\ o \in {"", "completed", "failed"} /\ o \in {records[attempt].outcome, "failed"}
      BY <1>2 DEF RequestRecord
    <3> HIDE DEF o
    <3> QED BY <3>1 DEF RequestRecord
  <2> HIDE DEF last
  <2>3. /\ records' \in Seq(RequestRecord) /\ Len(records') = Len(records) /\ DOMAIN records' = DOMAIN records
        /\ \A n \in DOMAIN records : records'[n] = IF n = attempt THEN last ELSE records[n]
    BY <1>2, <2>1, <2>2, LastReplaced
  <2>4. ~NoResult.terminal /\ ~NoResult.emitted /\ ~NoResult.answer /\ NoResult.choice = <<>> /\ NoResult \in AttemptResult
    BY EmptySeq DEF NoResult, AttemptResult
  <2>5. RecordsKept
    BY <1>5, <2>2, <2>3, <2>4 DEF RecordsKept
  <2>6. err' \in Failure /\ err'.kind # "none" /\ err' # NoErr
    <3>1. e \in {[kind |-> "rate_limited", retryable |-> TRUE], [kind |-> "authentication", retryable |-> FALSE],
               [kind |-> "stream_usage_unsupported", retryable |-> FALSE], [kind |-> "canceled", retryable |-> FALSE],
               [kind |-> "transport", retryable |-> TRUE]}
      <4>1. e \in classifyHTTPFailure \/ e = ctxErr \/ e = transport
        BY <1>5
      <4>2. /\ ctxErr = [kind |-> "canceled", retryable |-> FALSE] /\ transport = [kind |-> "transport", retryable |-> TRUE]
            /\ classifyHTTPFailure = {[kind |-> "rate_limited", retryable |-> TRUE], [kind |-> "authentication", retryable |-> FALSE],
                                      [kind |-> "stream_usage_unsupported", retryable |-> FALSE]}
        BY DEF classifyHTTPFailure, modelError, ctxErr, transport
      <4> QED BY <4>1, <4>2
    <3> QED BY <1>5, <3>1, FailureTypes DEF FailureKinds
  <2>7. sent' \in Seq(StreamNote) /\ seenIn(sent', res'.emitted) /\ draft' = draft
    BY <1>0, <1>1, <1>5 DEF CallTypes, seenIn, draft, draftOf
  <2> QED BY <1>0, <1>1, <1>5, <2>4, <2>5, <2>6, <2>7, AttemptEnded
<1>6. \/ /\ phase' = "stream" /\ UNCHANGED <<permit, acc, res, sent, err>>
         /\ records' = IF recorded THEN [records EXCEPT ![attempt].sent = TRUE] ELSE records
      \/ \E e \in classifyHTTPFailure \cup {IF callCanceled THEN ctxErr ELSE transport}, ok \in BOOLEAN :
           /\ phase' = "after" /\ err' = e /\ permit' = 0 /\ acc' = Empty /\ res' = NoResult /\ UNCHANGED sent
           /\ records' = IF recorded THEN [records EXCEPT ![attempt].sent = TRUE,
                                                          ![attempt].outcome = IF ok THEN "failed" ELSE @]
                                     ELSE records
  BY DEF Open
<1> QED BY <1>4, <1>5, <1>6

LEMMA StreamState ==
  ASSUME OneCall, phase = "stream"
  PROVE  /\ (~streaming => ~res.emitted)
         /\ acc \in Assembly /\ res \in AttemptResult /\ (acc.display \/ res.answer => res.emitted)
         /\ seenIn(sent, res.emitted) /\ (~res.answer => draft = 0) /\ res.choice = <<>>
         /\ draft = (IF acc.calls = <<>> THEN acc.text ELSE 0) /\ (acc.retracted => acc.calls # <<>>)
BY DEF OneCall, CallTypes, Seen, Drafted, Confirmed, seenIn

LEMMA ErrorTypes ==
  /\ ctxErr \in Failure /\ ctxErr.kind # "none" /\ ctxErr # NoErr
  /\ invalidResponseError \in Failure /\ invalidResponseError.kind # "none" /\ invalidResponseError # NoErr
  /\ \A label, has, refused : LET e == generationOutcomeError(label, has, refused)
       IN e \in Failure /\ (e # NoErr => e.kind # "none")
          /\ (e = NoErr /\ has => label = "tool_calls")
<1>1. /\ ctxErr \in Failure /\ ctxErr.kind # "none" /\ ctxErr # NoErr
      /\ invalidResponseError \in Failure /\ invalidResponseError.kind # "none" /\ invalidResponseError # NoErr
  BY FailureTypes DEF ctxErr, invalidResponseError, modelError, FailureKinds
<1>2. ASSUME NEW label, NEW has, NEW refused
      PROVE  LET e == generationOutcomeError(label, has, refused)
             IN e \in Failure /\ (e # NoErr => e.kind # "none") /\ (e = NoErr /\ has => label = "tool_calls")
  <2> DEFINE e == generationOutcomeError(label, has, refused)
  <2>1. CASE /\ ~(refused \/ label = "content_filter")
             /\ (label \in {"missing", "stop"} /\ ~has) \/ (label = "tool_calls" /\ has)
    <3>1. e = NoErr
      BY <2>1 DEF generationOutcomeError
    <3> QED BY <2>1, <3>1, FailureTypes
  <2>2. CASE ~(/\ ~(refused \/ label = "content_filter")
               /\ (label \in {"missing", "stop"} /\ ~has) \/ (label = "tool_calls" /\ has))
    <3>1. e \in {[kind |-> k, retryable |-> FALSE] : k \in {"content_policy", "incomplete_output", "invalid_response"}}
      BY <2>2 DEF generationOutcomeError, modelError
    <3> HIDE DEF e
    <3>2. e \in Failure /\ e # NoErr /\ e.kind # "none"
      BY <3>1, FailureTypes DEF FailureKinds
    <3> QED BY <3>2 DEF e
  <2> QED BY <2>1, <2>2
<1> QED BY <1>1, <1>2

LEMMA BrokenKeeps == ASSUME OneCall, Broken PROVE OneCall'
<1>1. phase = "stream" /\ UNCHANGED <<call, callCanceled, budget, outcome>>
  BY DEF Broken
<1>2. PICK e \in {ctxErr, invalidResponseError} : endAttempt(e, res, acc)
  BY DEF Broken
<1>3. e \in Failure /\ e # NoErr /\ e.kind # "none"
  BY ErrorTypes
<1> QED BY <1>1, <1>2, <1>3, StreamState, EndKeeps

LEMMA DoneKeeps == ASSUME OneCall, Done PROVE OneCall'
<1>1. phase = "stream" /\ UNCHANGED <<call, callCanceled, budget, outcome>>
  BY DEF Done
<1>2. CASE endAttempt(ctxErr, res, acc)
  BY <1>1, <1>2, ErrorTypes, StreamState, EndKeeps
<1> DEFINE r == [res EXCEPT !.terminal = TRUE, !.output = acc.text,
                            !.choice = IF doneError = NoErr THEN acc.calls ELSE <<>>]
<1>3. CASE endAttempt(doneError, r, acc)
  <2> DEFINE e == generationOutcomeError(acc.finish, acc.calls # <<>>, acc.refused)
  <2>1. /\ doneError \in {invalidResponseError, e, NoErr}
        /\ doneError = NoErr => e = NoErr /\ finish(acc)
    BY ErrorTypes DEF doneError
  <2>2. /\ e \in Failure /\ (e # NoErr => e.kind # "none")
        /\ (e = NoErr /\ acc.calls # <<>> => acc.finish = "tool_calls")
    BY ErrorTypes
  <2> HIDE DEF e
  <2>3. doneError \in Failure /\ (doneError # NoErr => doneError.kind # "none")
    BY <2>1, <2>2, ErrorTypes, FailureTypes
  <2>4. /\ r \in AttemptResult /\ r.emitted = res.emitted /\ r.answer = res.answer /\ r.terminal = TRUE /\ r.output = acc.text
        /\ r.choice = IF doneError = NoErr THEN acc.calls ELSE <<>>
    <3>1. acc.text \in Nat /\ acc.calls \in Seq(PartialCall) /\ <<>> \in Seq(PartialCall) /\ res \in AttemptResult
      BY <1>1, StreamState, EmptySeq DEF Assembly
    <3> DEFINE choice == IF doneError = NoErr THEN acc.calls ELSE <<>>
    <3>2. choice \in Seq(PartialCall)
      BY <3>1
    <3> HIDE DEF choice
    <3>3. r = [res EXCEPT !.terminal = TRUE, !.output = acc.text, !.choice = choice]
      BY DEF choice
    <3>4. /\ [res EXCEPT !.terminal = TRUE, !.output = acc.text, !.choice = choice] \in AttemptResult
          /\ [res EXCEPT !.terminal = TRUE, !.output = acc.text, !.choice = choice].choice = choice
      BY <3>1, <3>2 DEF AttemptResult
    <3>5. r.emitted = res.emitted /\ r.answer = res.answer /\ r.terminal = TRUE /\ r.output = acc.text
      BY <3>1 DEF AttemptResult
    <3> HIDE DEF r
    <3> QED BY <3>3, <3>4, <3>5 DEF choice
  <2> HIDE DEF r
  <2>5. doneError = NoErr => draft = (IF r.choice = <<>> THEN r.output ELSE 0)
    BY <1>1, <2>4, StreamState
  <2>6. r.choice # <<>> => acc.finish = "tool_calls" /\ doneError = NoErr /\ finish([calls |-> r.choice])
    BY <2>1, <2>2, <2>4 DEF finish
  <2> QED BY <1>1, <1>3, <2>3, <2>4, <2>5, <2>6, StreamState, EndKeeps
<1> QED BY <1>2, <1>3 DEF Done

LEMMA DecodeKeeps ==
  ASSUME OneCall, NEW label, NEW has \in BOOLEAN, NEW text \in {0, 1}, Decode(label, has, text)
  PROVE  OneCall'
<1>1. phase = "stream" /\ ~streaming /\ UNCHANGED <<call, callCanceled, budget, outcome>>
  BY DEF Decode
<1> DEFINE e == IF text = 0 /\ ~has THEN invalidResponseError
                ELSE IF call.kind = "completion" THEN generationOutcomeError(label, has, FALSE) ELSE NoErr
           r == [NoResult EXCEPT !.terminal = text > 0 \/ has, !.output = text]
<1>2. endAttempt(e, r, Empty)
  BY DEF Decode
<1>3. e \in Failure /\ (e # NoErr => e.kind # "none") /\ (e = NoErr => text > 0 \/ has)
  <2> DEFINE g == generationOutcomeError(label, has, FALSE)
  <2>1. g \in Failure /\ (g # NoErr => g.kind # "none")
    BY ErrorTypes
  <2>2. /\ e \in {invalidResponseError, g, NoErr} /\ (text = 0 /\ ~has => e = invalidResponseError)
    OBVIOUS
  <2> HIDE DEF e, g
  <2> QED BY <2>1, <2>2, ErrorTypes, FailureTypes
<1>4. Empty \in Assembly /\ ~Empty.display
  BY EmptySeq DEF Empty, Assembly, FinishReasons
<1>5. r \in AttemptResult /\ r.emitted = FALSE /\ r.answer = FALSE /\ r.choice = <<>> /\ (text > 0 \/ has => r.terminal)
  <2> DEFINE t == text > 0 \/ has
  <2>1. t \in BOOLEAN /\ text \in Nat /\ NoResult \in AttemptResult
    BY EmptySeq DEF NoResult, AttemptResult
  <2>2. r = [NoResult EXCEPT !.terminal = t, !.output = text]
    OBVIOUS
  <2> HIDE DEF t
  <2>3. /\ [NoResult EXCEPT !.terminal = t, !.output = text] \in AttemptResult
        /\ [NoResult EXCEPT !.terminal = t, !.output = text].terminal = t
        /\ [NoResult EXCEPT !.terminal = t, !.output = text].emitted = NoResult.emitted
        /\ [NoResult EXCEPT !.terminal = t, !.output = text].answer = NoResult.answer
        /\ [NoResult EXCEPT !.terminal = t, !.output = text].choice = NoResult.choice
    BY <2>1 DEF AttemptResult
  <2>4. NoResult.emitted = FALSE /\ NoResult.answer = FALSE /\ NoResult.choice = <<>>
    BY DEF NoResult
  <2> HIDE DEF r
  <2> QED BY <2>2, <2>3, <2>4 DEF t
<1>6. seenIn(sent, FALSE) /\ draft = 0
  <2>1. ~res.emitted /\ ~res.answer /\ res \in AttemptResult
    BY <1>1, StreamState
  <2>2. seenIn(sent, res.emitted) /\ draft = 0
    BY <1>1, <2>1, StreamState
  <2> QED BY <2>1, <2>2 DEF seenIn
<1> QED BY <1>1, <1>2, <1>3, <1>4, <1>5, <1>6, EndKeeps

StreamEvent == [choices : Nat, text : {0, 1}, reasoning : Nat, call : Seq(PartialCall), finish : FinishReasons, refusal : BOOLEAN]

\* An event adds its text and its Tool call and leaves the rest of the assembly.
LEMMA AddTypes ==
  ASSUME acc \in Assembly, NEW c \in StreamEvent
  PROVE  /\ add(c) \in Assembly /\ add(c).text = acc.text + c.text /\ add(c).display = acc.display
         /\ add(c).retracted = acc.retracted
         /\ add(c).calls = <<>> <=> acc.calls = <<>> /\ c.call = <<>>
<1> DEFINE f == IF c.finish # "missing" THEN c.finish ELSE acc.finish
           base == addText(c)
<1>1. /\ acc.text + c.text \in Nat /\ acc.reasoning + c.reasoning \in Nat /\ (acc.refused \/ c.refusal) \in BOOLEAN
      /\ f \in FinishReasons /\ acc.calls \in Seq(PartialCall) /\ c.call \in Seq(PartialCall)
  BY DEF Assembly, StreamEvent
<1>2. /\ base \in Assembly /\ base.text = acc.text + c.text /\ base.display = acc.display
      /\ base.retracted = acc.retracted /\ base.calls = acc.calls
  <2> HIDE DEF f
  <2> DEFINE b == acc.refused \/ c.refusal
  <2>1. b \in BOOLEAN
    BY <1>1
  <2> HIDE DEF b
  <2>2. base = [acc EXCEPT !.text = acc.text + c.text, !.reasoning = acc.reasoning + c.reasoning, !.refused = b, !.finish = f]
    BY DEF b, f, addText
  <2> QED BY <1>1, <2>1, <2>2 DEF Assembly
<1>3. CASE c.call = <<>>
  <2>1. add(c) = base
    BY <1>3 DEF add
  <2> HIDE DEF base
  <2> QED BY <1>2, <1>3, <2>1
<1>4. CASE c.call # <<>>
  <2> DEFINE d == c.call[1]
             changed == [n \in DOMAIN acc.calls |->
                           IF n \in callOf(acc, d.index)
                             THEN [acc.calls[n] EXCEPT !.whole = acc.calls[n].whole \/ d.whole] ELSE acc.calls[n]]
             calls == IF callOf(acc, d.index) = {} THEN Append(acc.calls, d) ELSE changed
  <2>1. add(c) = [base EXCEPT !.calls = calls]
    BY <1>4 DEF add, addCall
  <2>2. d \in PartialCall
    <3>1. 1 \in 1..Len(c.call)
      <4>1. Len(c.call) \in Nat \ {0}
        BY <1>1, <1>4, EmptySeq
      <4> QED BY <4>1
    <3> QED BY <1>1, <3>1, ElementOfSeq
  <2>3. calls \in Seq(PartialCall) /\ calls # <<>>
    <3>1. CASE callOf(acc, d.index) = {}
      BY <1>1, <2>2, <3>1, AppendProperties
    <3>2. CASE callOf(acc, d.index) # {}
      <4>1. PICK k \in DOMAIN acc.calls : TRUE
        BY <3>2 DEF callOf
      <4>2. DOMAIN acc.calls = 1..Len(acc.calls) /\ Len(acc.calls) \in Nat
        BY <1>1
      <4>3. ASSUME NEW n \in 1..Len(acc.calls) PROVE changed[n] \in PartialCall
        <5>1. acc.calls[n] \in PartialCall
          BY <1>1, <4>3
        <5>2. (acc.calls[n].whole \/ d.whole) \in BOOLEAN
          OBVIOUS
        <5> DEFINE w == acc.calls[n].whole \/ d.whole
        <5>3. [acc.calls[n] EXCEPT !.whole = w] \in PartialCall
          <6> HIDE DEF w
          <6> QED BY <5>1, <5>2 DEF PartialCall, w
        <5> QED BY <4>2, <4>3, <5>1, <5>3
      <4>4. changed = [n \in 1..Len(acc.calls) |-> changed[n]]
        BY <4>2
      <4> HIDE DEF changed
      <4>5. changed \in Seq(PartialCall) /\ Len(changed) = Len(acc.calls)
        BY <4>2, <4>3, <4>4
      <4>6. Len(changed) # 0
        BY <4>1, <4>2, <4>5
      <4> QED BY <3>2, <4>5, <4>6, EmptySeq
    <3> QED BY <3>1, <3>2
  <2> HIDE DEF calls, base
  <2>4. /\ [base EXCEPT !.calls = calls] \in Assembly /\ [base EXCEPT !.calls = calls].calls = calls
        /\ [base EXCEPT !.calls = calls].text = base.text /\ [base EXCEPT !.calls = calls].display = base.display
        /\ [base EXCEPT !.calls = calls].retracted = base.retracted
    BY <1>2, <2>3 DEF Assembly
  <2> QED BY <1>2, <1>4, <2>1, <2>3, <2>4
<1> QED BY <1>3, <1>4

\* What one event shows, note by note.
LEMMA ShownNotes ==
  ASSUME OneCall, phase = "stream", NEW c \in StreamEvent,
         NEW b \in BOOLEAN, seenIn(sent, b), startsDisplay(c) \/ speaks(c, add(c)) \/ retracts(add(c)) => b
  PROVE  LET t == sent \o shows(c, add(c))
         IN  /\ t \in Seq(StreamNote) /\ seenIn(t, b)
             /\ draftOf(t) = IF retracts(add(c)) THEN 0 ELSE IF speaks(c, add(c)) THEN draft + 1 ELSE draft
<1> DEFINE a == add(c)
           s1 == IF startsDisplay(c) THEN Append(sent, note("reasoning")) ELSE sent
           s2 == IF retracts(a) THEN Append(s1, note("reset")) ELSE s1
           s3 == IF speaks(c, a) THEN Append(s2, note("delta")) ELSE s2
<1>0. CallTypes /\ sent \in Seq(StreamNote) /\ draft = draftOf(sent) /\ draftOf(sent) \in Nat
  <2>1. CallTypes /\ sent \in Seq(StreamNote) /\ draft = draftOf(sent)
    BY DEF OneCall, CallTypes, draft
  <2>2. note("reset") \in StreamNote
    BY <2>1 DEF note, StreamNote, attempt, CallTypes
  <2> QED BY <2>1, <2>2, DraftAppended
<1>1. \A k \in {"reset", "delta"} : note(k) \in StreamNote /\ note(k).kind = k /\ note(k).attempt = attempt
  <2>1. attempt \in Nat
    BY <1>0 DEF attempt, CallTypes
  <2> QED BY <2>1 DEF note, StreamNote
<1>2. s1 \in Seq(StreamNote) /\ seenIn(s1, b) /\ draftOf(s1) = draft
  BY <1>0, QuietNote
<1> HIDE DEF s1
<1>3. s2 \in Seq(StreamNote) /\ seenIn(s2, b) /\ draftOf(s2) = IF retracts(a) THEN 0 ELSE draft
  <2>1. CASE retracts(a)
    <3>1. s2 = Append(s1, note("reset")) /\ note("reset") \in StreamNote /\ note("reset").kind = "reset"
          /\ note("reset").attempt = attempt /\ b
      BY <1>1, <2>1
    <3> HIDE DEF s2, a
    <3> QED BY <1>2, <2>1, <3>1, SeenAppended, DraftAppended
  <2>2. CASE ~retracts(a)
    BY <1>2, <2>2
  <2> QED BY <2>1, <2>2
<1> HIDE DEF s2
<1>4. s3 \in Seq(StreamNote) /\ seenIn(s3, b)
      /\ draftOf(s3) = IF retracts(a) THEN 0 ELSE IF speaks(c, a) THEN draft + 1 ELSE draft
  <2>1. CASE speaks(c, a)
    <3>1. s3 = Append(s2, note("delta")) /\ note("delta") \in StreamNote /\ note("delta").kind = "delta"
          /\ note("delta").attempt = attempt /\ b
      BY <1>1, <2>1
    <3>2. ~retracts(a)
      BY <2>1 DEF speaks, retracts
    <3> HIDE DEF s3, a
    <3> QED BY <1>3, <2>1, <3>1, <3>2, SeenAppended, DraftAppended
  <2>2. CASE ~speaks(c, a)
    BY <1>3, <2>2
  <2> QED BY <2>1, <2>2
<1>5. sent \o shows(c, a) = s3
  <2> DEFINE t1 == IF startsDisplay(c) THEN <<note("reasoning")>> ELSE <<>>
             t2 == IF retracts(a) THEN <<note("reset")>> ELSE <<>>
             t3 == IF speaks(c, a) THEN <<note("delta")>> ELSE <<>>
  <2>1. t1 \in Seq(StreamNote) /\ t2 \in Seq(StreamNote) /\ t3 \in Seq(StreamNote)
    <3>1. note("reasoning") \in StreamNote
      BY <1>0 DEF note, StreamNote, attempt, CallTypes
    <3> QED BY <1>1, <3>1
  <2>2. sent \o t1 = s1
    <3>1. note("reasoning") \in StreamNote
      BY <1>0 DEF note, StreamNote, attempt, CallTypes
    <3> QED BY <1>0, <3>1, AppendIsConcat DEF s1
  <2>3. s1 \o t2 = s2
    BY <1>1, <1>2, AppendIsConcat DEF s2
  <2>4. s2 \o t3 = s3
    BY <1>1, <1>3, AppendIsConcat
  <2>5. shows(c, a) = t1 \o t2 \o t3
    BY DEF shows
  <2> HIDE DEF t1, t2, t3, s3, a
  <2>6. sent \o (t1 \o t2 \o t3) = ((sent \o t1) \o t2) \o t3
    BY <1>0, <2>1
  <2> QED BY <2>2, <2>3, <2>4, <2>5, <2>6
<1> HIDE DEF s3
<1> QED BY <1>4, <1>5

LEMMA ReceiveKeeps == ASSUME OneCall, StreamAssumption, NEW c \in Chunks, ReceiveEvent(c) PROVE OneCall'
<1>0. /\ phase = "stream" /\ streaming /\ UNCHANGED <<call, try, callCanceled, budget, outcome>>
      /\ c \in StreamEvent
  BY DEF ReceiveEvent, StreamAssumption, StreamEvent
<1>1. /\ acc \in Assembly /\ res \in AttemptResult /\ (acc.display \/ res.answer => res.emitted)
      /\ seenIn(sent, res.emitted) /\ (~res.answer => draft = 0) /\ res.choice = <<>>
      /\ draft = (IF acc.calls = <<>> THEN acc.text ELSE 0) /\ (acc.retracted => acc.calls # <<>>)
  BY <1>0, StreamState
<1>2. ASSUME NEW e \in {ctxErr, invalidResponseError}, NEW a \in Assembly, a.display = acc.display, endAttempt(e, res, a)
      PROVE  OneCall'
  <2>1. e \in Failure /\ e # NoErr /\ e.kind # "none"
    BY ErrorTypes
  <2> QED BY <1>0, <1>1, <1>2, <2>1, EndKeeps
<1>3. ASSUME NEW d \in StreamEvent PROVE add(d) \in Assembly /\ add(d).display = acc.display
  BY <1>1, AddTypes
<1>4. CASE endAttempt(invalidResponseError, res, IF tooLarge(c) THEN acc ELSE add([c EXCEPT !.call = <<>>]))
  <2>1. [c EXCEPT !.call = <<>>] \in StreamEvent
    BY <1>0, EmptySeq DEF StreamEvent
  <2> DEFINE a == IF tooLarge(c) THEN acc ELSE add([c EXCEPT !.call = <<>>])
  <2>2. a \in Assembly /\ a.display = acc.display
    BY <1>1, <1>3, <2>1
  <2>3. endAttempt(invalidResponseError, res, a)
    BY <1>4
  <2> HIDE DEF a
  <2> QED BY <1>2, <2>2, <2>3
<1>5. CASE /\ acc' = received(c, add(c)) /\ res' = resulted(c, add(c)) /\ sent' = sent \o shows(c, add(c))
           /\ UNCHANGED <<phase, permit, err, records>>
  <2> DEFINE a == add(c)
             b == res.emitted \/ startsDisplay(c) \/ speaks(c, a)
  <2>1. /\ a \in Assembly /\ a.text = acc.text + c.text /\ a.display = acc.display /\ a.retracted = acc.retracted
        /\ a.calls = <<>> <=> acc.calls = <<>> /\ c.call = <<>>
    BY <1>0, <1>1, AddTypes
  <2>2. /\ c.text \in {0, 1} /\ acc.text \in Nat
        /\ res.emitted \in BOOLEAN /\ res.answer \in BOOLEAN
        /\ startsDisplay(c) \in BOOLEAN /\ speaks(c, a) \in BOOLEAN /\ retracts(a) \in BOOLEAN
    BY <1>0, <1>1 DEF StreamEvent, Assembly, AttemptResult, startsDisplay, speaks, retracts
  <2>3. /\ acc' \in Assembly /\ acc'.text = a.text /\ acc'.calls = a.calls
        /\ acc'.display = (a.display \/ startsDisplay(c)) /\ acc'.retracted = (a.retracted \/ retracts(a))
    <3> HIDE DEF a
    <3>1. acc' = [a EXCEPT !.display = a.display \/ startsDisplay(c), !.retracted = a.retracted \/ retracts(a)]
      BY <1>5 DEF received, a
    <3> DEFINE x == a.display \/ startsDisplay(c)
               y == a.retracted \/ retracts(a)
    <3>2. x \in BOOLEAN /\ y \in BOOLEAN
      OBVIOUS
    <3>3. acc' = [a EXCEPT !.display = x, !.retracted = y]
      BY <3>1
    <3> HIDE DEF x, y
    <3>4. /\ acc' \in Assembly /\ acc'.text = a.text /\ acc'.calls = a.calls /\ acc'.display = x /\ acc'.retracted = y
      BY <2>1, <3>2, <3>3 DEF Assembly
    <3> QED BY <3>4 DEF x, y
  <2>4. /\ res' \in AttemptResult /\ res'.emitted = b /\ res'.answer = (res.answer \/ speaks(c, a)) /\ res'.choice = <<>>
        /\ b \in BOOLEAN
    <3> HIDE DEF a
    <3> DEFINE y == res.answer \/ speaks(c, a)
    <3>1. res' = [res EXCEPT !.emitted = b, !.answer = y]
      BY <1>5 DEF resulted, a
    <3>2. b \in BOOLEAN /\ y \in BOOLEAN
      OBVIOUS
    <3> HIDE DEF b, y
    <3>3. res' \in AttemptResult /\ res'.emitted = b /\ res'.answer = y /\ res'.choice = res.choice
      BY <1>1, <3>1, <3>2 DEF AttemptResult
    <3> QED BY <1>1, <3>2, <3>3 DEF y
  <2>5. /\ sent' \in Seq(StreamNote) /\ seenIn(sent', b)
        /\ draft' = IF retracts(a) THEN 0 ELSE IF speaks(c, a) THEN draft + 1 ELSE draft
    <3>1. draft' = draftOf(sent')
      BY DEF draft, draftOf
    <3>2. retracts(a) => res.emitted
      BY <1>1 DEF retracts
    <3>3. seenIn(sent, b)
      BY <1>1 DEF seenIn
    <3>4. b \in BOOLEAN /\ (startsDisplay(c) \/ speaks(c, a) \/ retracts(a) => b)
      BY <2>4, <3>2
    <3> HIDE DEF b
    <3> QED BY <1>0, <1>5, <3>1, <3>3, <3>4, ShownNotes
  <2>6. attempt' = attempt /\ (recorded' <=> recorded) /\ (streaming' <=> streaming) /\ phase' = "stream"
    BY <1>0, <1>5 DEF attempt, recorded, streaming
  <2>7. speaks(c, a) <=> c.text = 1 /\ a.calls = <<>>
    BY <2>2 DEF speaks
  <2>8. retracts(a) <=> a.calls # <<>> /\ res.answer /\ ~acc.retracted
    BY DEF retracts
  <2> HIDE DEF a
  <2>9. CallTypes'
    BY <1>0, <1>5, <2>3, <2>4, <2>5 DEF OneCall, CallTypes
  <2>10. Seen'
    BY <1>0, <1>1, <2>1, <2>3, <2>4, <2>5, <2>6 DEF Seen, seenIn
  <2>11. Drafted'
    <3>1. draft' = IF acc'.calls = <<>> THEN acc'.text ELSE 0
      <4>1. CASE a.calls = <<>>
        BY <1>1, <2>1, <2>2, <2>3, <2>5, <2>7, <2>8, <4>1
      <4>2. CASE a.calls # <<>>
        BY <1>1, <2>1, <2>2, <2>3, <2>5, <2>7, <2>8, <4>2
      <4> QED BY <4>1, <4>2
    <3>2. ~res'.answer => draft' = 0
      BY <1>1, <2>4, <2>5
    <3>3. acc'.retracted => acc'.calls # <<>>
      BY <1>1, <2>1, <2>3, <2>8
    <3> QED BY <2>6, <3>1, <3>2, <3>3 DEF Drafted
  <2>12. Confirmed'
    BY <2>4 DEF Confirmed
  <2>13. AttemptsClosed' /\ RecordsTruthful' /\ ReservationHeld'
    BY <1>0, <1>5, <2>6 DEF OneCall, AttemptsClosed, RecordsTruthful, ReservationHeld
  <2> QED BY <2>9, <2>10, <2>11, <2>12, <2>13 DEF OneCall
<1>6. \/ endAttempt(invalidResponseError, res, acc)
      \/ endAttempt(invalidResponseError, res, IF tooLarge(c) THEN acc ELSE add([c EXCEPT !.call = <<>>]))
      \/ /\ acc' = received(c, add(c)) /\ res' = resulted(c, add(c)) /\ sent' = sent \o shows(c, add(c))
         /\ UNCHANGED <<phase, permit, err, records>>
      \/ endAttempt(ctxErr, res, add(c))
  BY DEF ReceiveEvent
<1> QED BY <1>0, <1>1, <1>2, <1>3, <1>4, <1>5, <1>6

LEMMA RetryKeeps == ASSUME OneCall, executeWithRetry PROVE OneCall'
<1>0. /\ CallTypes /\ Seen /\ Drafted /\ Confirmed /\ AttemptsClosed /\ RecordsTruthful /\ ReservationHeld
      /\ UNCHANGED <<records, permit, acc, res, sent, callCanceled, budget, outcome>> /\ phase = "after"
      /\ err' = IF callCanceled /\ err # NoErr THEN ctxErr ELSE err
  BY DEF OneCall, executeWithRetry
<1>1. /\ err' \in Failure /\ (err' = NoErr <=> err = NoErr) /\ (err' # NoErr => err'.kind # "none")
      /\ err'.kind \in {err.kind, "canceled"} /\ (~err.retryable => ~err'.retryable)
  <2>1. /\ ctxErr \in Failure /\ ctxErr # NoErr /\ ctxErr.kind = "canceled" /\ ctxErr.retryable = FALSE
    BY ErrorTypes DEF ctxErr, modelError
  <2> QED BY <1>0, <2>1 DEF CallTypes
<1>2. /\ call.kind # "none" /\ call \in [kind : Kinds \cup {"none"}, payload : Payloads \cup {"plain"}, usage : BOOLEAN]
      /\ budget # "settled" /\ NoErr.kind = "none"
  BY <1>0, FailureTypes DEF CallTypes, ReservationHeld
<1>3. \/ phase' = "backoff" /\ call' = call /\ err # NoErr /\ err.retryable
      \/ /\ phase' = "record" /\ call' = [call EXCEPT !.usage = FALSE] /\ streaming /\ ~res.emitted
         /\ err.kind = "stream_usage_unsupported"
      \/ phase' = "settle" /\ call' = call
  BY DEF executeWithRetry, retries, isStreamUsageUnsupported
<1>4. /\ call'.kind = call.kind /\ call'.payload = call.payload
      /\ call' \in [kind : Kinds \cup {"none"}, payload : Payloads \cup {"plain"}, usage : BOOLEAN]
  BY <1>2, <1>3
<1>5. /\ draft' = draft /\ attempt' = attempt /\ (recorded' <=> recorded) /\ (streaming' <=> streaming)
      /\ (streaming => recorded)
  BY <1>0, <1>4 DEF draft, draftOf, attempt, recorded, streaming
<1>6. phase' = "backoff" => err # NoErr /\ ~res.emitted
  BY <1>0, <1>3 DEF Seen
<1>7. phase' = "record" => err # NoErr /\ err.kind = "stream_usage_unsupported" /\ ~res.emitted /\ recorded
  BY <1>2, <1>3, <1>5
<1>8. phase' \in {"backoff", "record", "settle"}
  BY <1>3
<1>9. CallTypes' /\ Seen'
  BY <1>0, <1>1, <1>2, <1>4, <1>5, <1>6, <1>7, <1>8 DEF CallTypes, Seen
<1>10. Drafted'
  BY <1>0, <1>1, <1>5, <1>8 DEF Drafted
<1>11. Confirmed'
  BY <1>0, <1>1, <1>6, <1>7, <1>8 DEF Confirmed, finish
<1>12. AttemptsClosed'
  BY <1>0, <1>1, <1>6, <1>7, <1>8 DEF AttemptsClosed
<1>13. RecordsTruthful'
  <2>1. \A n \in DOMAIN records : ~records[n].prepared => phase' = "settle"
    <3> SUFFICES ASSUME NEW n \in DOMAIN records, ~records[n].prepared PROVE phase' = "settle"
      OBVIOUS
    <3>1. ~err.retryable /\ err.kind \in {"transport", "canceled"}
      BY <1>0 DEF RecordsTruthful
    <3> QED BY <1>3, <3>1
  <2>2. phase' \notin {"idle", "admit", "open", "stream"} /\ (phase' = "record" => recorded')
    BY <1>5, <1>7, <1>8
  <2>3. \A n \in DOMAIN records :
          /\ records[n].sent => records[n].prepared
          /\ records[n].capture.exact => records[n].capture.content = call'.payload
          /\ records[n].capture.content # "secret"
    BY <1>0, <1>4 DEF RecordsTruthful
  <2>4. \A n \in DOMAIN records : ~records[n].prepared => /\ n = Len(records) /\ phase' = "settle"
                                                          /\ err'.kind \in {"transport", "canceled"} /\ ~err'.retryable
    BY <1>0, <1>1, <2>1 DEF RecordsTruthful
  <2> QED BY <1>0, <2>2, <2>3, <2>4 DEF RecordsTruthful
<1>14. ReservationHeld'
  BY <1>0, <1>1, <1>2, <1>5, <1>8 DEF ReservationHeld
<1> QED BY <1>9, <1>10, <1>11, <1>12, <1>13, <1>14 DEF OneCall

LEMMA WaitKeeps == ASSUME OneCall, waitForRetry PROVE OneCall'
<1>0. /\ CallTypes /\ Seen /\ Drafted /\ Confirmed /\ AttemptsClosed /\ RecordsTruthful /\ ReservationHeld
      /\ UNCHANGED <<call, records, permit, acc, res, sent, callCanceled, budget, outcome>> /\ phase = "backoff"
  BY DEF OneCall, waitForRetry
<1>1. /\ \/ phase' = "record" /\ recorded /\ err' = err
         \/ phase' = "admit" /\ ~recorded /\ err' = err
         \/ phase' = "settle" /\ err' = ctxErr
      /\ ctxErr \in Failure /\ ctxErr # NoErr /\ ctxErr.kind # "none"
  BY ErrorTypes DEF waitForRetry
<1>2. draft' = draft /\ attempt' = attempt /\ (recorded' <=> recorded) /\ (streaming' <=> streaming)
  BY <1>0 DEF draft, draftOf, attempt, recorded, streaming
<1>3. CallTypes' /\ Seen'
  BY <1>0, <1>1, <1>2 DEF CallTypes, Seen
<1>4. Drafted' /\ Confirmed' /\ AttemptsClosed'
  BY <1>0, <1>1, <1>2 DEF Drafted, Confirmed, AttemptsClosed
<1>5. RecordsTruthful'
  BY <1>0, <1>1, <1>2 DEF RecordsTruthful
<1>6. ReservationHeld'
  BY <1>0, <1>1, <1>2 DEF ReservationHeld
<1> QED BY <1>3, <1>4, <1>5, <1>6 DEF OneCall

LEMMA SettleKeeps == ASSUME OneCall, SettleCall PROVE OneCall'
<1>0. /\ CallTypes /\ Seen /\ Drafted /\ Confirmed /\ AttemptsClosed /\ RecordsTruthful /\ ReservationHeld
      /\ UNCHANGED <<call, try, records, permit, acc, res, sent, err, callCanceled>>
      /\ phase = "settle" /\ phase' = "finished"
  BY DEF OneCall, SettleCall
<1>1. \/ ~(res.terminal /\ recorded) /\ outcome' = (IF err = NoErr THEN "ok" ELSE "error") /\ budget' = budget
      \/ res.terminal /\ recorded /\ budget' = "settled" /\ outcome' = (IF err = NoErr THEN "ok" ELSE "error")
      \/ outcome' = "error" /\ budget' = budget
  BY DEF SettleCall, settles
<1>2. draft' = draft /\ attempt' = attempt /\ (recorded' <=> recorded) /\ (streaming' <=> streaming)
  BY <1>0 DEF draft, draftOf, attempt, recorded, streaming
<1>3. CallTypes' /\ Seen'
  BY <1>0, <1>2 DEF CallTypes, Seen
<1>4. Drafted' /\ Confirmed' /\ AttemptsClosed'
  BY <1>0, <1>2 DEF Drafted, Confirmed, AttemptsClosed, finish
<1>5. RecordsTruthful'
  BY <1>0, <1>2 DEF RecordsTruthful
<1>6. ReservationHeld'
  BY <1>0, <1>1, <1>2 DEF ReservationHeld
<1> QED BY <1>3, <1>4, <1>5, <1>6 DEF OneCall

LEMMA OneCallStep == ASSUME StreamAssumption, OneCall, [StreamNext]_streamVars PROVE OneCall'
<1>1. CASE UNCHANGED streamVars
  <2>1. /\ UNCHANGED <<phase, call, try, records, permit, acc, res, sent, err, callCanceled, budget, outcome>>
    BY <1>1 DEF streamVars
  <2>2. draft' = draft /\ attempt' = attempt /\ (recorded' <=> recorded) /\ (streaming' <=> streaming)
    BY <2>1 DEF draft, draftOf, attempt, recorded, streaming
  <2>3. CallTypes' /\ Seen' /\ Drafted'
    BY <2>1, <2>2 DEF OneCall, CallTypes, Seen, Drafted
  <2>4. Confirmed' /\ AttemptsClosed' /\ RecordsTruthful' /\ ReservationHeld'
    BY <2>1, <2>2 DEF OneCall, Confirmed, AttemptsClosed, RecordsTruthful, ReservationHeld, finish
  <2> QED BY <2>3, <2>4 DEF OneCall
<1>2. CASE Step
  BY <1>2, StartKeeps, RecordKeeps, AdmitKeeps, OpenKeeps, ReceiveKeeps, DoneKeeps, BrokenKeeps, DecodeKeeps,
     RetryKeeps, WaitKeeps, SettleKeeps DEF Step
<1> QED BY <1>1, <1>2, CancelKeeps, ListKeeps DEF StreamNext

\* A model call is one answer, whatever its attempts, its consumer and the capture of its
\* requests go through: streamChat, complete and EmbedText for any events and any payloads.
THEOREM ModelCallCorrect == StreamSpec => []ModelCallSafe
<1>1. StreamInit => OneCall
  BY OneCallInit
<1>2. OneCall /\ [StreamNext]_streamVars => OneCall'
  BY OneCallStep, StreamAssumption
<1>3. OneCall => ModelCallSafe
  BY OneCallSafe
<1> QED BY <1>1, <1>2, <1>3, PTL DEF StreamSpec
=============================================================================
