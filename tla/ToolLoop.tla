------------------------------- MODULE ToolLoop -------------------------------
(***************************************************************************)
(* One Stage's model -> Tools -> observations -> model loop, as the Turn     *)
(* engine runs it, with lazily discovered Tool schemas, the private-data     *)
(* boundary of the executor, suspension for a clarification, and Stage       *)
(* retries after an error or a crash.  What survives is what is in the Run's *)
(* events, the effect journal and a suspended continuation.                  *)
(***************************************************************************)
EXTENDS Naturals, Sequences, FiniteSets

CONSTANTS Tools,       \* candidates: reader (private data), sender (egress), writer (journal)
          Modes,       \* eager, lazy
          MaxSearchCalls, MaxActiveTools, BatchMax, MaxRounds, MaxRetries

ASSUME LoopAssumption ==
  /\ Modes \subseteq {"eager", "lazy"}
  /\ MaxSearchCalls \in Nat /\ BatchMax \in Nat

VARIABLES mode, bounded,   \* schema mode; whether a deadline or a model-call limit applies
          turn,            \* none, running, waiting, failed, completed
          at,              \* none, model, execute
          discovery,       \* toolVisibility.state: [active, searches]
          private,         \* the executor's privateData
          context,         \* the model's messages hold private results
          steering,        \* a steering input is pending
          batch, todo, results, ids, found,
          slots, round,
          saved,           \* newest tool.discovery_updated event: [exists, active, searches]
          evidence,        \* private_data of a terminal Tool event of the Run
          journal,         \* committed effects: [id, nth]
          continuation,    \* of a suspended Turn
          used,            \* ids of this attempt's calls that ran
          count,           \* writer calls that ran in this attempt
          searched,        \* searches that ever ran
          leaked, retries
loopVars == <<mode, bounded, turn, at, discovery, private, context, steering, batch, todo, results, ids, found, slots, round,
          saved, evidence, journal, continuation, used, count, searched, leaked, retries>>
fixed == <<mode, bounded>>
durable == <<saved, evidence, journal, continuation>>
world == <<used, count, searched, leaked, retries>>
loopCall == <<batch, todo, results, ids, found>>

names == Tools \cup {"tool_search", "request_user_input"}
NoSlots == [n \in names \cup {"unloaded"} |-> 0]
NoContinuation == [exists |-> FALSE]
Empty == [active |-> {}, searches |-> 0]

LoopInit ==
  /\ mode \in Modes /\ bounded \in BOOLEAN
  /\ turn = "none" /\ at = "none" /\ discovery = Empty /\ private = FALSE /\ context = FALSE
  /\ steering \in BOOLEAN
  /\ batch = <<>> /\ todo = {} /\ results = {} /\ ids = <<>> /\ found = {} /\ slots = NoSlots /\ round = 0
  /\ saved = [exists |-> FALSE, active |-> {}, searches |-> 0] /\ evidence = FALSE /\ journal = {}
  /\ continuation = NoContinuation
  /\ used = {} /\ count = 0 /\ searched = 0 /\ leaked = FALSE /\ retries = 0

ends(how) == turn' = how /\ at' = "none" /\ batch' = <<>> /\ todo' = {} /\ results' = {} /\ ids' = <<>> /\ found' = {}

----------------------------------------------------------------------------
\* prepareToolVisibility and the first context.  A recovered scope keeps its mode.
\* privateRunEvidence: what earlier events of the Run show.
restored == evidence
Start ==
  /\ turn \in {"none", "failed"}
  /\ turn = "failed" => retries < MaxRetries
  /\ retries' = IF turn = "failed" THEN retries + 1 ELSE retries
  /\ discovery' = IF mode = "lazy" /\ saved.exists THEN [active |-> saved.active, searches |-> saved.searches] ELSE Empty
  /\ saved' = IF mode = "lazy" /\ ~saved.exists THEN [saved EXCEPT !.exists = TRUE] ELSE saved
  /\ private' = restored /\ context' = FALSE
  /\ slots' = NoSlots /\ round' = 1 /\ used' = {} /\ count' = 0
  /\ turn' = "running" /\ at' = "model"
  /\ UNCHANGED <<fixed, steering, loopCall, evidence, journal, continuation, searched, leaked>>

\* The answered Turn goes on from its continuation: nothing before it runs again.
resumedSlots == continuation.slots
LoopResume ==
  /\ turn = "waiting"
  /\ discovery' = IF mode = "lazy" THEN [active |-> saved.active, searches |-> saved.searches] ELSE Empty
  /\ private' = restored /\ context' = continuation.context
  /\ slots' = resumedSlots /\ round' = continuation.round
  /\ turn' = "running" /\ at' = "model" /\ continuation' = NoContinuation
  /\ UNCHANGED <<fixed, steering, loopCall, saved, evidence, journal, used, count, searched, leaked, retries>>

\* A final answer; pending steering asks for another round, which needs a bound.
Answer ==
  /\ turn = "running" /\ at = "model" /\ ~steering
  /\ ends("completed")
  /\ UNCHANGED <<fixed, discovery, private, context, steering, slots, round, durable, world>>
AnswerThenSteer ==
  /\ turn = "running" /\ at = "model" /\ steering /\ bounded /\ round < MaxRounds
  /\ steering' = FALSE /\ round' = round + 1
  /\ UNCHANGED <<fixed, turn, at, discovery, private, context, loopCall, slots, durable, world>>
\* An unbounded continuation, an invalid batch, a question that is not alone.
refused(calls) ==
  \/ ~bounded
  \/ \E i \in DOMAIN calls : calls[i] = "request_user_input" /\ Len(calls) > 1
RefuseBatch(calls) ==
  /\ turn = "running" /\ at = "model" /\ refused(calls)
  /\ ends("failed")
  /\ UNCHANGED <<fixed, discovery, private, context, steering, slots, round, durable, world>>

\* Call identities: round and position, or a slot per loaded Tool when schemas are lazy.
slotName(n) == IF n \in {"tool_search"} \cup discovery.active THEN n ELSE "unloaded"
slotIn(calls, i) == slots[slotName(calls[i])] + Cardinality({j \in 1..i : slotName(calls[j]) = slotName(calls[i])})
callId(calls, i) == IF mode = "lazy" THEN <<slotName(calls[i]), slotIn(calls, i)>> ELSE <<"round", round * BatchMax + i>>
\* UsesPrivateResources: one private Tool makes the batch conservative before it starts.
\* Mutant: only the private call itself protects, when it runs.
protectedBatchLater(calls) == FALSE
protectedBatch(calls) == \E i \in DOMAIN calls : calls[i] = "reader"
ToolRound(calls) ==
  /\ turn = "running" /\ at = "model" /\ ~refused(calls) /\ round < MaxRounds
  /\ batch' = calls /\ todo' = DOMAIN calls /\ results' = {} /\ found' = {}
  /\ ids' = [i \in DOMAIN calls |-> callId(calls, i)]
  /\ slots' = IF mode = "eager" THEN slots ELSE
               [n \in DOMAIN slots |-> slots[n] + Cardinality({i \in DOMAIN calls : slotName(calls[i]) = n})]
  /\ private' = (private \/ context \/ protectedBatch(calls))
  /\ at' = "execute"
  /\ UNCHANGED <<fixed, turn, discovery, context, steering, round, durable, world>>

----------------------------------------------------------------------------
\* Authorization and the boundary, at the moment a call starts.
loaded(n) == mode = "eager" \/ n \in {"tool_search"} \cup discovery.active
loopAdmitted(n) == loaded(n) /\ ~(n = "sender" /\ private)
serial == \E i \in DOMAIN batch : batch[i] \notin {"reader", "sender"}
ready(i) == turn = "running" /\ at = "execute" /\ i \in todo /\ (serial => \A j \in todo : i <= j)
Deny(i) ==
  /\ ready(i) /\ batch[i] \in Tools /\ ~loopAdmitted(batch[i])
  /\ todo' = todo \ {i}
  /\ UNCHANGED <<fixed, turn, at, discovery, private, context, steering, batch, results, ids, found, slots, round, durable, world>>
Run(i) ==
  /\ ready(i) /\ batch[i] \in Tools \ {"writer"} /\ loopAdmitted(batch[i])
  /\ todo' = todo \ {i} /\ results' = results \cup {batch[i]} /\ used' = used \cup {ids[i]}
  /\ private' = (private \/ batch[i] = "reader")
  /\ leaked' = (leaked \/ (batch[i] = "sender" /\ (context \/ evidence \/ "reader" \in results))
                       \/ (batch[i] = "reader" /\ "sender" \in results))
  /\ UNCHANGED <<fixed, turn, at, discovery, context, steering, batch, ids, found, slots, round, durable, count, searched, retries>>
\* A journalled call: new, or already committed under this identity and replayed.
Write(i) ==
  /\ ready(i) /\ batch[i] = "writer" /\ loopAdmitted(batch[i])
  /\ todo' = todo \ {i} /\ results' = results \cup {batch[i]} /\ used' = used \cup {ids[i]}
  /\ count' = count + 1
  /\ journal' = IF \E e \in journal : e.id = ids[i] THEN journal ELSE journal \cup {[id |-> ids[i], nth |-> count + 1]}
  /\ UNCHANGED <<fixed, turn, at, discovery, private, context, steering, batch, ids, found, slots, round, saved, evidence, continuation, searched, leaked, retries>>
\* The outcome of a write is not known: the loop ends for reconciliation.
WriteUncertain(i) ==
  /\ ready(i) /\ batch[i] = "writer" /\ loopAdmitted(batch[i]) /\ ~\E e \in journal : e.id = ids[i]
  /\ ends("failed")
  /\ UNCHANGED <<fixed, discovery, private, context, steering, slots, round, durable, world>>
\* tool_search: the counter is persisted before the index is read.
searchSaved == [saved EXCEPT !.searches = discovery.searches + 1]
Search(i, matches) ==
  /\ ready(i) /\ batch[i] = "tool_search" /\ mode = "lazy" /\ discovery.searches < MaxSearchCalls
  /\ discovery' = [discovery EXCEPT !.searches = @ + 1] /\ saved' = searchSaved
  /\ searched' = searched + 1
  /\ todo' = todo \ {i} /\ results' = results \cup {"tool_search"} /\ found' = found \cup matches
  /\ UNCHANGED <<fixed, turn, at, private, context, steering, batch, ids, slots, round, evidence, journal, continuation, used, count, leaked, retries>>
\* The limit, or a state that cannot be saved: terminal.
SearchFails(i) ==
  /\ ready(i) /\ batch[i] = "tool_search" /\ mode = "lazy" /\ discovery.searches >= MaxSearchCalls
  /\ ends("failed")
  /\ UNCHANGED <<fixed, discovery, private, context, steering, slots, round, durable, world>>

----------------------------------------------------------------------------
\* finishBatch and the loop: terminal events, activation, observations.
activated == discovery.active \cup found
fits == Cardinality(activated) <= MaxActiveTools
Observe ==
  /\ turn = "running" /\ at = "execute" /\ todo = {} /\ batch # <<>> /\ batch[1] # "request_user_input" /\ fits
  /\ evidence' = (evidence \/ "reader" \in results) /\ context' = (context \/ "reader" \in results)
  /\ discovery' = [discovery EXCEPT !.active = activated]
  /\ saved' = IF activated = discovery.active THEN saved
              ELSE [exists |-> TRUE, active |-> activated, searches |-> discovery.searches]
  /\ round' = round + 1 /\ at' = "model"
  /\ batch' = <<>> /\ results' = {} /\ ids' = <<>> /\ found' = {}
  /\ UNCHANGED <<fixed, turn, private, steering, todo, slots, journal, continuation, world>>
TooManyActive ==
  /\ turn = "running" /\ at = "execute" /\ todo = {} /\ batch # <<>> /\ ~fits
  /\ evidence' = (evidence \/ "reader" \in results)
  /\ ends("failed")
  /\ UNCHANGED <<fixed, discovery, private, context, steering, slots, round, saved, journal, continuation, world>>
\* request_user_input alone: suspend with everything the next rounds need.
Suspend ==
  /\ turn = "running" /\ at = "execute" /\ batch = <<"request_user_input">>
  /\ ends("waiting")
  /\ continuation' = [exists |-> TRUE, slots |-> slots, round |-> round + 1, context |-> context]
  /\ UNCHANGED <<fixed, discovery, private, context, steering, slots, round, saved, evidence, journal, world>>

\* A model error, a cancellation or the death of the process.
Fail ==
  /\ turn = "running"
  /\ ends("failed")
  /\ discovery' = Empty /\ private' = FALSE /\ context' = FALSE /\ slots' = NoSlots /\ round' = 0
  /\ UNCHANGED <<fixed, steering, durable, world>>

offered == IF mode = "eager" THEN Tools \cup {"request_user_input"} ELSE names
batches == UNION {[1..n -> offered] : n \in 1..BatchMax}
LoopNext ==
  \/ Start \/ LoopResume \/ Answer \/ AnswerThenSteer \/ Observe \/ TooManyActive \/ Suspend \/ Fail
  \/ \E b \in batches : RefuseBatch(b) \/ ToolRound(b)
  \/ \E i \in DOMAIN batch : Deny(i) \/ Run(i) \/ Write(i) \/ WriteUncertain(i) \/ SearchFails(i)
                             \/ \E m \in SUBSET Tools : Search(i, m)
LoopSpec == LoopInit /\ [][LoopNext]_loopVars

-----------------------------------------------------------------------------
(* Properties *)

\* Nothing is sent out once the model may have seen private data, in this Turn, an earlier
\* one or before a restart, and no batch both reads private data and sends, in whichever
\* order its calls run (ExecuteBatch: "must not race a private read against network
\* egress").
PrivateDataNeverLeaves == ~leaked

\* The search limit holds for the Stage, not for the process: a crash after a search does
\* not give it back.
SearchesStayBounded == searched <= MaxSearchCalls

\* With lazy schemas an identity means the same write in every attempt: the n-th write of
\* the attempt that first committed it, and every later attempt that uses it for its n-th,
\* whatever was searched, refused for not being loaded, or skipped because the schema was
\* already restored.
sameSlotSameWrite ==
  \A i \in DOMAIN batch :
       mode = "lazy" /\ count' = count + 1 /\ i \in todo \ todo' =>
         \A e \in journal' : e.id = ids[i] => e.nth = count + 1

\* Two calls of one attempt never share an identity, also when a clarification suspended
\* it in between: the second would get the first one's result from the journal.
identitiesAreNotReused ==
  \A i \in DOMAIN batch : (used' # used \/ count' # count) /\ i \in todo \ todo' => ids[i] \notin used

\* A Stage's batches, crashes and resumes neither leak what was read, nor win back searches,
\* nor let an identity stand for two writes: the four parts above.
ToolLoopSafe ==
  /\ [](PrivateDataNeverLeaves /\ SearchesStayBounded)
  /\ [][sameSlotSameWrite /\ identitiesAreNotReused]_loopVars
=============================================================================
