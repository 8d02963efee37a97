--------------------------- MODULE CapacityProofs ---------------------------
(***************************************************************************)
(* Proofs about the components that ration or choose what Runs and requests *)
(* share, for any number of commands, Conversations, requests, owners,      *)
(* sessions, writers and routes: RunAdmission, ModelRequestLimiter,         *)
(* WorkspaceLifecycle and ModelRouting; about the AutonomousLoop, which has  *)
(* to stay within its iterations and its output; and about the UsageLedger, *)
(* which has to keep a Run within its limits.                               *)
(*                                                                          *)
(* Admission.  The token of a writerEntry excludes only those who refer to  *)
(* the same entry, and entries are deleted and created again.  The inductive *)
(* invariant Writing says why that is enough: everyone who wants the same   *)
(* Conversation refers to the entry the map holds for it, because releaseRef *)
(* deletes it only with its last reference.                                 *)
(***************************************************************************)
EXTENDS RunAdmission, ModelRequestLimiter, WorkspaceLifecycle, ModelRouting, UsageLedger, AutonomousLoop, FiniteSetTheorems, TLAPS

Types ==
  /\ pc \in [Reservations -> PC] /\ conv \in [Reservations -> Conversations]
  /\ entry \in [Reservations -> Entries \cup {None}]
  /\ started \subseteq Reservations /\ capacity \subseteq Reservations
  /\ pending \subseteq Reservations /\ active \subseteq Reservations
  /\ entries \in [Conversations -> Entries \cup {None}]
  /\ refs \in [Entries -> SUBSET Reservations] /\ token \in [Entries -> Reservations \cup {None}]
  /\ shutdown \in {"open", "closing", "drained", "expired"}

Channels ==
  /\ IsFiniteSet(capacity) /\ Cardinality(capacity) <= MaxConcurrent + QueueSize
  /\ IsFiniteSet(active) /\ Cardinality(active) <= MaxConcurrent

Referring == {"writer", "slot", "run", "untoken", "unref"}

Writing ==
  /\ \A r \in Reservations :
       IF pc[r] \in Referring THEN entry[r] \in Entries /\ entries[conv[r]] = entry[r] ELSE entry[r] = None
  /\ \A e \in Entries : refs[e] = {r \in Reservations : entry[r] = e}
  /\ \A c \in Conversations : entries[c] # None =>
       \E r \in Reservations : entry[r] = entries[c] /\ conv[r] = c
  /\ \A r, s \in Reservations : entry[r] # None /\ entry[r] = entry[s] => conv[r] = conv[s]
  /\ \A r \in Reservations : pc[r] \in {"slot", "run", "untoken"} => token[entry[r]] = r

Draining ==
  /\ \A r \in Reservations : r \in pending <=> pc[r] \notin {"out", "after"}
  /\ shutdown = "drained" => pending = {}

\* Every variable keeps its type.
LEMMA TypesInductive == Types /\ [Next]_vars => Types'
<1> SUFFICES ASSUME Types, [Next]_vars PROVE Types'
  OBVIOUS
<1> USE ConstantsAssumption DEF Types, PC
<1>1. ASSUME NEW r \in Reservations, Reserve(r) PROVE Types'
  BY <1>1 DEF Reserve, Goto
<1>2. ASSUME NEW r \in Reservations, GiveUp(r) PROVE Types'
  BY <1>2 DEF GiveUp, Goto, writers
<1>3. ASSUME NEW r \in Reservations, Refer(r) PROVE Types'
  BY <1>3 DEF Refer, Goto
<1>4. ASSUME NEW r \in Reservations, TakeToken(r) PROVE Types'
  BY <1>4 DEF TakeToken, Goto
<1>5. ASSUME NEW r \in Reservations, TakeSlot(r) PROVE Types'
  BY <1>5 DEF TakeSlot, Goto, writers
<1>6. ASSUME NEW r \in Reservations, Expire(r) PROVE Types'
  BY <1>6 DEF Expire, expiredTo, Goto, writers
<1>7. ASSUME NEW r \in Reservations, Finish(r) PROVE Types'
  BY <1>7 DEF Finish, Goto, writers
<1>8. ASSUME NEW r \in Reservations, ReleaseToken(r) PROVE Types'
  BY <1>8 DEF ReleaseToken, Goto
<1>9. ASSUME NEW r \in Reservations, ReleaseRef(r) PROVE Types'
  BY <1>9 DEF ReleaseRef, Goto
<1>10. ASSUME NEW r \in Reservations, Cancel(r) PROVE Types'
  BY <1>10 DEF Cancel, Goto, writers
<1>11. ASSUME NEW r \in Reservations, Done(r) PROVE Types'
  BY <1>11 DEF Done, Leave, Goto, writers
<1>12. ASSUME NEW r \in Reservations, AfterRelease(r) PROVE Types'
  BY <1>12 DEF AfterRelease, Goto, writers
<1>13. CASE Close \/ Drained \/ DrainExpires
  BY <1>13 DEF Close, Drained, DrainExpires, writers
<1>14. CASE UNCHANGED vars
  BY <1>14 DEF vars
<1> QED
  BY <1>1, <1>2, <1>3, <1>4, <1>5, <1>6, <1>7, <1>8, <1>9, <1>10, <1>11, <1>12, <1>13, <1>14
  DEF Next, Proceed

\* Adding to a channel that has room, and removing from one, respects its size.
LEMMA RoomAdds ==
  ASSUME NEW S, IsFiniteSet(S), NEW n \in Nat, room(S, n), NEW x
  PROVE IsFiniteSet(S \cup {x}) /\ Cardinality(S \cup {x}) <= n
<1>1. IsFiniteSet(S \cup {x})
  BY FS_AddElement
<1>2. Cardinality(S \cup {x}) = IF x \in S THEN Cardinality(S) ELSE Cardinality(S) + 1
  BY FS_AddElement
<1>3. Cardinality(S) \in Nat /\ Cardinality(S) < n
  BY FS_CardinalityType DEF room
<1>4. Cardinality(S \cup {x}) <= n
  BY <1>2, <1>3
<1> QED
  BY <1>1, <1>4

\* Removing from a channel keeps it within its size.
LEMMA RemovalKeeps ==
  ASSUME NEW S, IsFiniteSet(S), NEW n \in Nat, Cardinality(S) <= n, NEW x
  PROVE IsFiniteSet(S \ {x}) /\ Cardinality(S \ {x}) <= n
  BY FS_RemoveElement, FS_CardinalityType

\* No step fills a channel beyond its size.
LEMMA ChannelsInductive == Channels /\ [Next]_vars => Channels'
<1> SUFFICES ASSUME Channels, [Next]_vars PROVE Channels'
  OBVIOUS
<1> USE ConstantsAssumption DEF Channels
<1>0. MaxConcurrent + QueueSize \in Nat /\ MaxConcurrent \in Nat
  OBVIOUS
<1>1. ASSUME NEW r \in Reservations, Reserve(r) PROVE Channels'
  BY <1>0, <1>1, RoomAdds DEF Reserve
<1>2. ASSUME NEW r \in Reservations, TakeSlot(r) PROVE Channels'
  BY <1>0, <1>2, RoomAdds DEF TakeSlot
<1>3. ASSUME NEW r \in Reservations, Finish(r) PROVE Channels'
  BY <1>0, <1>3, RemovalKeeps DEF Finish
<1>4. ASSUME NEW r \in Reservations, Cancel(r) PROVE Channels'
  BY <1>0, <1>4, RemovalKeeps DEF Cancel
<1>5. CASE UNCHANGED <<capacity, active>>
  BY <1>5
<1> QED
  BY <1>1, <1>2, <1>3, <1>4, <1>5 DEF Next, Proceed, vars, GiveUp, Refer, TakeToken, Expire,
     ReleaseToken, ReleaseRef, Done, AfterRelease, Close, Drained, DrainExpires

\* Every step keeps everyone who wants a Conversation at the entry of the map.
LEMMA WritingInductive == Types /\ Writing /\ [Next]_vars => Writing'
<1> SUFFICES ASSUME Types, Writing, [Next]_vars PROVE Writing'
  OBVIOUS
<1> USE ConstantsAssumption DEF Types, PC, Referring
<1>1. ASSUME NEW r \in Reservations, Reserve(r) PROVE Writing'
  BY <1>1 DEF Reserve, Goto, Writing
<1>2. ASSUME NEW r \in Reservations, GiveUp(r) PROVE Writing'
  BY <1>2 DEF GiveUp, Goto, writers, Writing
<1>3. ASSUME NEW r \in Reservations, Refer(r) PROVE Writing'
  BY <1>3 DEF Refer, unused, Goto, Writing
<1>4. ASSUME NEW r \in Reservations, TakeToken(r) PROVE Writing'
  BY <1>4 DEF TakeToken, Goto, Writing
<1>5. ASSUME NEW r \in Reservations, TakeSlot(r) PROVE Writing'
  BY <1>5 DEF TakeSlot, Goto, writers, Writing
<1>6. ASSUME NEW r \in Reservations, Expire(r) PROVE Writing'
  BY <1>6 DEF Expire, expiredTo, Goto, writers, Writing
<1>7. ASSUME NEW r \in Reservations, Finish(r) PROVE Writing'
  BY <1>7 DEF Finish, Goto, writers, Writing
<1>8. ASSUME NEW r \in Reservations, ReleaseToken(r) PROVE Writing'
  BY <1>8 DEF ReleaseToken, Goto, Writing
<1>9. ASSUME NEW r \in Reservations, ReleaseRef(r) PROVE Writing'
  BY <1>9 DEF ReleaseRef, lastReference, Goto, Writing
<1>10. ASSUME NEW r \in Reservations, Cancel(r) PROVE Writing'
  BY <1>10 DEF Cancel, Goto, writers, Writing
<1>11. ASSUME NEW r \in Reservations, Done(r) PROVE Writing'
  BY <1>11 DEF Done, Leave, Goto, writers, Writing
<1>12. ASSUME NEW r \in Reservations, AfterRelease(r) PROVE Writing'
  BY <1>12 DEF AfterRelease, Goto, writers, Writing
<1>13. CASE Close \/ Drained \/ DrainExpires
  BY <1>13 DEF Close, Drained, DrainExpires, writers, Writing
<1>14. CASE UNCHANGED vars
  BY <1>14 DEF vars, Writing
<1> QED
  BY <1>1, <1>2, <1>3, <1>4, <1>5, <1>6, <1>7, <1>8, <1>9, <1>10, <1>11, <1>12, <1>13, <1>14
  DEF Next, Proceed

\* The WaitGroup counts exactly the accepted commands, and none once drained.
LEMMA DrainingInductive == Types /\ Draining /\ [Next]_vars => Draining'
<1> SUFFICES ASSUME Types, Draining, [Next]_vars PROVE Draining'
  OBVIOUS
<1> USE DEF Types, PC, Draining, Goto
<1>1. ASSUME NEW r \in Reservations, Reserve(r) PROVE Draining'
  BY <1>1 DEF Reserve, admits
<1>2. ASSUME NEW r \in Reservations, Done(r) PROVE Draining'
  BY <1>2 DEF Done, Leave
<1>3. ASSUME NEW r \in Reservations,
             GiveUp(r) \/ Refer(r) \/ TakeToken(r) \/ TakeSlot(r) \/ Expire(r) \/ Finish(r)
             \/ ReleaseToken(r) \/ ReleaseRef(r) \/ Cancel(r) \/ AfterRelease(r)
      PROVE Draining'
  <2>1. /\ UNCHANGED <<pending, shutdown>>
        /\ \E l \in PC : pc' = [pc EXCEPT ![r] = l] /\ (pc[r] \in {"out", "after"} <=> l \in {"out", "after"})
    BY <1>3 DEF GiveUp, Refer, TakeToken, TakeSlot, Expire, expiredTo, Finish, ReleaseToken, ReleaseRef,
                Cancel, AfterRelease
  <2> QED
    BY <2>1
<1>4. CASE Close \/ Drained \/ DrainExpires
  BY <1>4 DEF Close, Drained, DrainExpires
<1>5. CASE UNCHANGED vars
  BY <1>5 DEF vars
<1> QED
  BY <1>1, <1>2, <1>3, <1>4, <1>5 DEF Next, Proceed

\* The state of the admission controller is well typed and neither channel ever
\* holds more tokens than it was made for (NewRunController, Reserve, Start).
THEOREM AdmissionTypeCorrect == Spec => []TypeOK
<1>1. Init => Types /\ Channels
  <2> SUFFICES ASSUME Init PROVE Types /\ Channels
    OBVIOUS
  <2>1. Types
    BY ConstantsAssumption DEF Init, Types, PC
  <2>2. Channels
    BY ConstantsAssumption, FS_EmptySet DEF Init, Channels
  <2> QED
    BY <2>1, <2>2
<1>2. Types /\ Channels => TypeOK
  BY DEF Types, Channels, TypeOK
<1> QED
  BY <1>1, <1>2, TypesInductive, ChannelsInductive, PTL DEF Spec

\* What the proofs of the writer exclusion rest on.
LEMMA WritingCorrect == Spec => [](Types /\ Writing)
<1>1. Init => Types /\ Writing
  BY ConstantsAssumption DEF Init, Types, PC, Writing, Referring
<1> QED
  BY <1>1, TypesInductive, WritingInductive, PTL DEF Spec

\* At most one command at a time owns the writing of a Conversation
\* (conversationWriters.acquire and releaseRef), however many wait, time out and leave.
THEOREM OneWriterCorrect == Spec => []OneWriter
<1>1. Types /\ Writing => OneWriter
  BY DEF Types, Writing, OneWriter, Referring
<1> QED
  BY <1>1, WritingCorrect, PTL

\* The map of writer entries holds an entry for exactly the Conversations somebody
\* refers to (releaseRef neither deletes early nor leaks).
THEOREM WritersTrackedCorrect == Spec => []WritersTracked
<1>1. Types /\ Writing => WritersTracked
  BY ConstantsAssumption DEF Types, Writing, WritersTracked, Referring
<1> QED
  BY <1>1, WritingCorrect, PTL

\* A drained shutdown is final: CloseAndWait returns only when no accepted command is
\* under way, and Reserve admits none afterwards.
THEOREM DrainIsFinalCorrect == Spec => []DrainIsFinal
<1>1. Init => Types /\ Draining
  BY ConstantsAssumption DEF Init, Types, PC, Draining
<1>2. Types /\ Draining => DrainIsFinal
  BY DEF Types, Draining, DrainIsFinal
<1> QED
  BY <1>1, <1>2, TypesInductive, DrainingInductive, PTL DEF Spec

\* Admission at its limits: for any number of commands, slots and Conversations the
\* queue and the slots stay bounded, a Conversation has one writer, the map of writers
\* loses and keeps no entry, and a drained shutdown is final (Reserve, Start, releaseRef
\* and CloseAndWait).
THEOREM AdmissionCorrect == Spec => []AdmissionSafe
BY AdmissionTypeCorrect, OneWriterCorrect, WritersTrackedCorrect, DrainIsFinalCorrect, PTL DEF AdmissionSafe

----------------------------------------------------------------------------
(* Model permits.  The channels are exact accounts (Accounts): every step of *)
(* an attempt changes what that attempt holds and nothing of the others.    *)

AttemptPC == {"idle", "owner", "slot", "rate", "permit", "granted", "recheck", "transport", "backoff", "done"}

LimiterTypes ==
  /\ limiterPc \in [Requests -> AttemptPC] /\ owner \in [Requests -> Owners] /\ cost \in [Requests -> Nat]
  /\ limiterRefs \in [Owners -> Int] /\ ownerActive \in [Owners -> Int] /\ global \in Int
  /\ requests \in Nat /\ tokens \in Nat /\ burst \in [requests : Nat, tokens : Nat]

Permits == {r \in Requests : holds(r)}
Slots(o) == {r \in Requests : owner[r] = o /\ occupies(r)}
References(o) == {r \in Requests : owner[r] = o /\ queued(r)}

\* The channels and the references are the number of attempts that hold them.
Accounts ==
  /\ IsFiniteSet(Permits) /\ global = Cardinality(Permits)
  /\ \A o \in Owners :
       /\ IsFiniteSet(Slots(o)) /\ ownerActive[o] = Cardinality(Slots(o))
       /\ IsFiniteSet(References(o)) /\ limiterRefs[o] = Cardinality(References(o))

\* An attempt before its transport has not been released.
Unreleased ==
  \A r \in Requests :
    limiterPc[r] \in {"owner", "slot", "rate", "permit", "granted", "recheck"} => r \notin released

Limited ==
  /\ global <= MaxLimiterConcurrent
  /\ \A o \in Owners : ownerActive[o] <= OwnerMaxConcurrent
                       /\ limiterRefs[o] <= OwnerMaxConcurrent + OwnerQueueSize

\* What was consumed since the last refill is what the buckets lack.
Metered == requests + burst.requests = RequestCapacity /\ tokens + burst.tokens = TokenCapacity

LimiterInv == LimiterTypes /\ Accounts /\ Unreleased /\ Limited /\ Metered

ind(b) == IF b THEN 1 ELSE 0

\* Two sets that differ in one element at most.
LEMMA CountMoves ==
  ASSUME NEW S, NEW T, NEW x, IsFiniteSet(S), T \ {x} = S \ {x}
  PROVE  IsFiniteSet(T) /\ Cardinality(T) \in Int
         /\ Cardinality(T) = Cardinality(S) + ind(x \in T) - ind(x \in S)
<1>1. IsFiniteSet(S \ {x}) /\ Cardinality(S \ {x}) = Cardinality(S) - ind(x \in S)
      /\ Cardinality(S) \in Nat
  BY FS_RemoveElement, FS_CardinalityType DEF ind
<1>2. CASE x \in T
  <2>1. T = (S \ {x}) \cup {x} /\ x \notin S \ {x}
    BY <1>2
  <2>2. IsFiniteSet(T) /\ Cardinality(T) = Cardinality(S \ {x}) + 1
    BY <1>1, <2>1, FS_AddElement
  <2> QED
    BY <1>1, <1>2, <2>2 DEF ind
<1>3. CASE x \notin T
  <2>1. T = S \ {x}
    BY <1>3
  <2> QED
    BY <1>1, <1>3, <2>1 DEF ind
<1> QED
  BY <1>2, <1>3

\* A step of one attempt that books what the attempt gains and gives back keeps the accounts.
Alters(r) ==
  /\ owner' = owner
  /\ \A q \in Requests \ {r} : limiterPc'[q] = limiterPc[q] /\ (q \in released' <=> q \in released)

Books(r) ==
  /\ global' = global + ind(holds(r)') - ind(holds(r))
  /\ ownerActive' = [ownerActive EXCEPT ![owner[r]] = @ + ind(occupies(r)') - ind(occupies(r))]
  /\ limiterRefs' = [limiterRefs EXCEPT ![owner[r]] = @ + ind(queued(r)') - ind(queued(r))]

LEMMA BooksKeep ==
  ASSUME LimiterTypes, Accounts, NEW r \in Requests, Alters(r), Books(r)
  PROVE  Accounts' /\ limiterRefs' \in [Owners -> Int] /\ ownerActive' \in [Owners -> Int] /\ global' \in Int
<1>0. owner[r] \in Owners /\ owner' = owner
  BY DEF LimiterTypes, Alters
<1>1. \A q \in Requests \ {r} : /\ holds(q)' <=> holds(q)
                                /\ occupies(q)' <=> occupies(q)
                                /\ queued(q)' <=> queued(q)
  BY DEF Alters, holds, occupies, queued, transmitting
<1>2. IsFiniteSet(Permits') /\ global' = Cardinality(Permits') /\ global' \in Int
  <2>1. Permits' \ {r} = Permits \ {r} /\ (r \in Permits' <=> holds(r)') /\ (r \in Permits <=> holds(r))
    BY <1>1 DEF Permits
  <2>2. IsFiniteSet(Permits') /\ Cardinality(Permits') \in Int
        /\ Cardinality(Permits') = Cardinality(Permits) + ind(r \in Permits') - ind(r \in Permits)
    BY <2>1, CountMoves DEF Accounts
  <2>3. ind(r \in Permits') = ind(holds(r)') /\ ind(r \in Permits) = ind(holds(r))
    BY <2>1 DEF ind
  <2> QED
    BY <2>2, <2>3 DEF Accounts, Books
<1>3. ownerActive' \in [Owners -> Int] /\ limiterRefs' \in [Owners -> Int]
  BY <1>0 DEF Books, LimiterTypes, ind
<1>4. ASSUME NEW o \in Owners
      PROVE  IsFiniteSet(Slots(o)') /\ ownerActive'[o] = Cardinality(Slots(o)')
  <2>1. Slots(o)' \ {r} = Slots(o) \ {r}
    BY <1>0, <1>1 DEF Slots
  <2>2. IsFiniteSet(Slots(o)') /\ Cardinality(Slots(o)') \in Int
        /\ Cardinality(Slots(o)') = Cardinality(Slots(o)) + ind(r \in Slots(o)') - ind(r \in Slots(o))
    BY <2>1, CountMoves DEF Accounts
  <2>3. CASE o = owner[r]
    <3>1. ind(r \in Slots(o)') = ind(occupies(r)') /\ ind(r \in Slots(o)) = ind(occupies(r))
      BY <1>0, <2>3 DEF ind, Slots
    <3>2. ownerActive'[o] = ownerActive[o] + ind(occupies(r)') - ind(occupies(r))
      BY <1>0, <2>3 DEF Books, LimiterTypes
    <3> QED
      BY <2>2, <3>1, <3>2 DEF Accounts
  <2>4. CASE o # owner[r]
    <3>1. ind(r \in Slots(o)') = 0 /\ ind(r \in Slots(o)) = 0
      BY <1>0, <2>4 DEF ind, Slots
    <3>2. ownerActive'[o] = ownerActive[o] /\ ownerActive[o] \in Int
      BY <1>0, <2>4 DEF Books, LimiterTypes
    <3> QED
      BY <2>2, <3>1, <3>2 DEF Accounts
  <2> QED
    BY <2>3, <2>4
<1>5. ASSUME NEW o \in Owners
      PROVE  IsFiniteSet(References(o)') /\ limiterRefs'[o] = Cardinality(References(o)')
  <2>1. References(o)' \ {r} = References(o) \ {r}
    BY <1>0, <1>1 DEF References
  <2>2. IsFiniteSet(References(o)') /\ Cardinality(References(o)') \in Int
        /\ Cardinality(References(o)')
             = Cardinality(References(o)) + ind(r \in References(o)') - ind(r \in References(o))
    BY <2>1, CountMoves DEF Accounts
  <2>3. CASE o = owner[r]
    <3>1. ind(r \in References(o)') = ind(queued(r)') /\ ind(r \in References(o)) = ind(queued(r))
      BY <1>0, <2>3 DEF ind, References
    <3>2. limiterRefs'[o] = limiterRefs[o] + ind(queued(r)') - ind(queued(r))
      BY <1>0, <2>3 DEF Books, LimiterTypes
    <3> QED
      BY <2>2, <3>1, <3>2 DEF Accounts
  <2>4. CASE o # owner[r]
    <3>1. ind(r \in References(o)') = 0 /\ ind(r \in References(o)) = 0
      BY <1>0, <2>4 DEF ind, References
    <3>2. limiterRefs'[o] = limiterRefs[o] /\ limiterRefs[o] \in Int
      BY <1>0, <2>4 DEF Books, LimiterTypes
    <3> QED
      BY <2>2, <3>1, <3>2 DEF Accounts
  <2> QED
    BY <2>3, <2>4
<1> QED
  BY <1>2, <1>3, <1>4, <1>5 DEF Accounts

\* What is common to the steps of an attempt, which gains only what its guard found free.
LEMMA AttemptKeeps ==
  ASSUME LimiterInv, NEW r \in Requests, Alters(r), Books(r),
         NEW l \in AttemptPC, LimiterGoto(r, l),
         l \in {"owner", "slot", "rate", "permit", "granted", "recheck"} => r \notin released',
         holds(r)' => holds(r) \/ global < MaxLimiterConcurrent,
         occupies(r)' => occupies(r) \/ ownerActive[owner[r]] < OwnerMaxConcurrent,
         queued(r)' => queued(r) \/ limiterRefs[owner[r]] < OwnerMaxConcurrent + OwnerQueueSize
  PROVE  /\ limiterPc' \in [Requests -> AttemptPC] /\ owner' \in [Requests -> Owners]
         /\ limiterRefs' \in [Owners -> Int] /\ ownerActive' \in [Owners -> Int] /\ global' \in Int
         /\ Accounts' /\ Unreleased' /\ Limited'
<1>1. limiterPc' \in [Requests -> AttemptPC] /\ limiterPc'[r] = l /\ owner' \in [Requests -> Owners]
  BY DEF LimiterInv, LimiterTypes, LimiterGoto, Alters
<1>2. Accounts' /\ limiterRefs' \in [Owners -> Int] /\ ownerActive' \in [Owners -> Int] /\ global' \in Int
  BY BooksKeep DEF LimiterInv
<1>3. Unreleased'
  <2> SUFFICES ASSUME NEW q \in Requests,
                      limiterPc'[q] \in {"owner", "slot", "rate", "permit", "granted", "recheck"}
               PROVE  q \notin released'
    BY DEF Unreleased
  <2>1. CASE q = r
    BY <1>1, <2>1
  <2>2. CASE q # r
    BY <2>2 DEF LimiterInv, Unreleased, Alters
  <2> QED
    BY <2>1, <2>2
<1>4. Limited'
  <2>1. owner[r] \in Owners /\ {global, MaxLimiterConcurrent, OwnerMaxConcurrent, OwnerQueueSize} \subseteq Int
        /\ limiterRefs \in [Owners -> Int] /\ ownerActive \in [Owners -> Int]
    BY LimitsAssumption DEF LimiterInv, LimiterTypes
  <2>2. global' <= MaxLimiterConcurrent
    BY <2>1 DEF LimiterInv, Limited, Books, ind
  <2>3. ASSUME NEW o \in Owners PROVE ownerActive'[o] <= OwnerMaxConcurrent
    BY <2>1 DEF LimiterInv, Limited, Books, ind
  <2>4. ASSUME NEW o \in Owners PROVE limiterRefs'[o] <= OwnerMaxConcurrent + OwnerQueueSize
    BY <2>1 DEF LimiterInv, Limited, Books, ind
  <2> QED
    BY <2>2, <2>3, <2>4 DEF Limited
<1> QED
  BY <1>1, <1>2, <1>3, <1>4

\* The steps of an attempt, the buckets apart.
Attempted(r) ==
  \/ AcquireRequest(r) \/ TakeOwnerSlot(r) \/ take(r) \/ TakeGlobal(r) \/ LimiterProceed(r)
  \/ BodyEnds(r) \/ EndAttempt(r) \/ executeWithRetry(r)

\* Each step of an attempt books exactly what the attempt gains and gives back.
LEMMA AttemptBooks ==
  ASSUME LimiterInv, NEW r \in Requests, Attempted(r)
  PROVE  /\ Alters(r) /\ Books(r)
         /\ \E l \in AttemptPC : LimiterGoto(r, l)
              /\ (l \in {"owner", "slot", "rate", "permit", "granted", "recheck"} => r \notin released')
         /\ holds(r)' => holds(r) \/ global < MaxLimiterConcurrent
         /\ occupies(r)' => occupies(r) \/ ownerActive[owner[r]] < OwnerMaxConcurrent
         /\ queued(r)' => queued(r) \/ limiterRefs[owner[r]] < OwnerMaxConcurrent + OwnerQueueSize
<1> DEFINE Goal ==
         /\ Alters(r) /\ Books(r)
         /\ \E l \in AttemptPC : LimiterGoto(r, l)
              /\ (l \in {"owner", "slot", "rate", "permit", "granted", "recheck"} => r \notin released')
         /\ holds(r)' => holds(r) \/ global < MaxLimiterConcurrent
         /\ occupies(r)' => occupies(r) \/ ownerActive[owner[r]] < OwnerMaxConcurrent
         /\ queued(r)' => queued(r) \/ limiterRefs[owner[r]] < OwnerMaxConcurrent + OwnerQueueSize
<1>0. /\ limiterPc \in [Requests -> AttemptPC] /\ owner[r] \in Owners /\ global \in Int
      /\ limiterRefs \in [Owners -> Int] /\ ownerActive \in [Owners -> Int]
      /\ {OwnerMaxConcurrent, OwnerQueueSize} \subseteq Int
  BY LimitsAssumption DEF LimiterInv, LimiterTypes
<1>a. \A l : LimiterGoto(r, l) => limiterPc'[r] = l /\ \A q \in Requests \ {r} : limiterPc'[q] = limiterPc[q]
  BY <1>0 DEF LimiterGoto
<1>b. limiterPc[r] \in {"owner", "slot", "rate", "permit", "granted", "recheck"} => r \notin released
  BY DEF LimiterInv, Unreleased
<1> USE DEF holds, occupies, queued, transmitting, AttemptPC, ind, Alters, Books
<1>c. ASSUME limiterPc[r] \in {"rate", "permit"}, r \notin released, ownerRelease(r), LimiterGoto(r, "done"),
             UNCHANGED <<owner, released, global>>
      PROVE  Goal
  <2>1. limiterPc'[r] = "done" /\ ~holds(r) /\ ~holds(r)' /\ occupies(r) /\ queued(r) /\ ~occupies(r)' /\ ~queued(r)'
    BY <1>a, <1>c
  <2>2. Books(r)
    <3>1. ownerActive[owner[r]] + 0 - 1 = ownerActive[owner[r]] - 1 /\ limiterRefs[owner[r]] + 0 - 1 = limiterRefs[owner[r]] - 1
          /\ global = global + 0 - 0
      BY <1>0
    <3>2. ind(holds(r)) = 0 /\ ind(holds(r)') = 0 /\ ind(occupies(r)) = 1 /\ ind(occupies(r)') = 0
          /\ ind(queued(r)) = 1 /\ ind(queued(r)') = 0
      BY <2>1
    <3>3. ownerActive' = [ownerActive EXCEPT ![owner[r]] = ownerActive[owner[r]] - 1] /\ global' = global
          /\ limiterRefs' = [limiterRefs EXCEPT ![owner[r]] = limiterRefs[owner[r]] - 1]
      BY <1>c DEF ownerRelease, releaseOwnerRef
    <3> HIDE DEF ind, holds, occupies, queued
    <3> QED
      BY <3>1, <3>2, <3>3
  <2> QED
    BY <1>a, <1>c, <2>1, <2>2
<1>1. CASE AcquireRequest(r)
  <2>1. CASE closed \/ owner[r] \in revoked \/ queueFull(owner[r])
    BY <1>0, <1>1, <1>a, <2>1 DEF AcquireRequest
  <2>2. CASE ~(closed \/ owner[r] \in revoked \/ queueFull(owner[r]))
    BY <1>0, <1>1, <1>a, <2>2 DEF AcquireRequest, queueFull
  <2> QED
    BY <2>1, <2>2
<1>2. CASE TakeOwnerSlot(r)
  <2>1. /\ limiterPc[r] = "owner" /\ LimiterGoto(r, "slot") /\ limiterPc'[r] = "slot" /\ r \notin released'
        /\ UNCHANGED <<owner, released, limiterRefs, global>>
        /\ ownerActive' = [ownerActive EXCEPT ![owner[r]] = @ + 1] /\ ownerActive[owner[r]] < OwnerMaxConcurrent
    BY <1>2, <1>a, <1>b DEF TakeOwnerSlot, call
  <2>2. Books(r)
    BY <1>0, <2>1
  <2> QED
    BY <1>a, <2>1, <2>2
<1>3. CASE take(r)
  <2>1. CASE ownerRelease(r) /\ LimiterGoto(r, "done")
    <3>1. limiterPc[r] = "rate" /\ UNCHANGED <<owner, released, global>>
      BY <1>3 DEF take, call
    <3> QED
      BY <1>b, <2>1, <3>1, <1>c
  <2>2. CASE LimiterGoto(r, "permit") /\ UNCHANGED <<limiterRefs, ownerActive>>
    BY <1>0, <1>3, <1>a, <1>b, <2>2 DEF take, call
  <2> QED
    BY <1>3, <2>1, <2>2 DEF take
<1>4. CASE TakeGlobal(r)
  BY <1>0, <1>4, <1>a, <1>b DEF TakeGlobal, call
<1>5. CASE OwnerWaitEnds(r)
  <2>1. /\ limiterPc[r] = "owner" /\ LimiterGoto(r, "done") /\ limiterPc'[r] = "done" /\ r \notin released'
        /\ UNCHANGED <<owner, released, ownerActive, global>>
        /\ limiterRefs' = [limiterRefs EXCEPT ![owner[r]] = @ - 1]
    BY <1>5, <1>a, <1>b DEF OwnerWaitEnds, releaseOwnerRef, call
  <2>2. Books(r)
    <3>1. limiterRefs[owner[r]] + 0 - 1 = limiterRefs[owner[r]] - 1 /\ global = global + 0 - 0
          /\ ownerActive[owner[r]] = ownerActive[owner[r]] + 0 - 0
      BY <1>0
    <3>2. ind(holds(r)) = 0 /\ ind(holds(r)') = 0 /\ ind(occupies(r)) = 0 /\ ind(occupies(r)') = 0
          /\ ind(queued(r)) = 1 /\ ind(queued(r)') = 0
      BY <2>1
    <3>3. ownerActive' = [ownerActive EXCEPT ![owner[r]] = ownerActive[owner[r]]] /\ global' = global
          /\ limiterRefs' = [limiterRefs EXCEPT ![owner[r]] = limiterRefs[owner[r]] - 1]
      BY <1>0, <2>1
    <3> HIDE DEF ind, holds, occupies, queued
    <3> QED
      BY <3>1, <3>2, <3>3
  <2> QED
    BY <1>a, <2>1, <2>2
<1>6. CASE WaitEnds(r)
  <2>1. limiterPc[r] \in {"rate", "permit"} /\ ownerRelease(r) /\ LimiterGoto(r, "done")
        /\ UNCHANGED <<owner, released, global>>
    BY <1>6 DEF WaitEnds, call
  <2> QED
    BY <1>b, <2>1, <1>c
<1>7. CASE acquireOwner(r)
  BY <1>0, <1>7, <1>a, <1>b DEF acquireOwner, ownerRelease, releaseOwnerRef, call
<1>8. CASE Granted(r)
  BY <1>0, <1>8, <1>a, <1>b DEF Granted, ownerRelease, releaseOwnerRef, call
<1>9. CASE Recheck(r)
  BY <1>0, <1>9, <1>a, <1>b DEF Recheck, ownerRelease, releaseOwnerRef, call
<1>10. CASE BodyEnds(r)
  BY <1>0, <1>10 DEF BodyEnds, release, ownerRelease, releaseOwnerRef, call, LimiterGoto
<1>11. CASE EndAttempt(r)
  <2>1. PICK l \in {"done", "backoff"} : LimiterGoto(r, l)
    BY <1>11 DEF EndAttempt
  <2>2. CASE r \in released
    BY <1>0, <1>11, <1>a, <2>1, <2>2 DEF EndAttempt, release, call
  <2>3. CASE r \notin released
    BY <1>0, <1>11, <1>a, <2>1, <2>3 DEF EndAttempt, release, ownerRelease, releaseOwnerRef, call
  <2> QED
    BY <2>2, <2>3
<1>12. CASE executeWithRetry(r)
  <2>1. PICK l \in {"done", "idle"} : LimiterGoto(r, l)
    BY <1>12 DEF executeWithRetry
  <2> QED
    BY <1>0, <1>12, <1>a, <2>1 DEF executeWithRetry, call
<1> QED
  BY <1>1, <1>2, <1>3, <1>4, <1>5, <1>6, <1>7, <1>8, <1>9, <1>10, <1>11, <1>12 DEF Attempted, LimiterProceed

LEMMA LimiterInductive == LimiterInv /\ [LimiterNext]_limiterVars => LimiterInv'
<1> SUFFICES ASSUME LimiterInv, [LimiterNext]_limiterVars PROVE LimiterInv'
  OBVIOUS
<1>1. ASSUME NEW r \in Requests, Attempted(r) PROVE LimiterInv'
  <2>1. /\ limiterPc' \in [Requests -> AttemptPC] /\ owner' \in [Requests -> Owners]
        /\ limiterRefs' \in [Owners -> Int] /\ ownerActive' \in [Owners -> Int] /\ global' \in Int
        /\ Accounts' /\ Unreleased' /\ Limited'
    BY <1>1, AttemptBooks, AttemptKeeps
  <2>2. cost' = cost
    BY <1>1 DEF Attempted, LimiterProceed, AcquireRequest, TakeOwnerSlot, take, TakeGlobal, OwnerWaitEnds,
                WaitEnds, acquireOwner, Granted, Recheck, BodyEnds, EndAttempt, executeWithRetry, call
  <2>3. \/ UNCHANGED buckets
        \/ /\ requests >= 1 /\ tokens >= cost[r]
           /\ requests' = requests - 1 /\ tokens' = tokens - cost[r]
           /\ burst' = [requests |-> burst.requests + 1, tokens |-> burst.tokens + cost[r]]
    BY <1>1 DEF Attempted, LimiterProceed, AcquireRequest, TakeOwnerSlot, take, TakeGlobal, OwnerWaitEnds,
                WaitEnds, acquireOwner, Granted, Recheck, BodyEnds, EndAttempt, executeWithRetry, affordable
  <2>4. requests' \in Nat /\ tokens' \in Nat /\ burst' \in [requests : Nat, tokens : Nat] /\ Metered'
    BY <2>3, LimitsAssumption DEF LimiterInv, LimiterTypes, Metered, buckets
  <2> QED
    BY <2>1, <2>2, <2>4 DEF LimiterInv, LimiterTypes
<1>2. ASSUME UNCHANGED <<limiterPc, released, limiterRefs, ownerActive, global, owner, cost>>
      PROVE  Accounts' /\ Unreleased' /\ Limited'
  <2>1. Permits' = Permits /\ \A o \in Owners : Slots(o)' = Slots(o) /\ References(o)' = References(o)
    BY <1>2 DEF Permits, Slots, References, holds, occupies, queued, transmitting
  <2> QED
    BY <1>2, <2>1 DEF LimiterInv, Accounts, Unreleased, Limited
<1>3. CASE RefillAt
  <2>1. UNCHANGED <<limiterPc, released, limiterRefs, ownerActive, global, owner, cost>>
    BY <1>3 DEF RefillAt, call
  <2>2. requests' \in Nat /\ tokens' \in Nat /\ burst' \in [requests : Nat, tokens : Nat] /\ Metered'
    BY <1>3, LimitsAssumption DEF RefillAt, refill, Metered
  <2> QED
    BY <1>2, <2>1, <2>2 DEF LimiterInv, LimiterTypes
<1>4. CASE LimiterClose \/ (\E r \in Requests : LimiterExpire(r)) \/ (\E o \in Owners : Revoke(o))
            \/ UNCHANGED limiterVars
  <2>1. UNCHANGED <<limiterPc, released, limiterRefs, ownerActive, global, owner, cost, requests, tokens, burst>>
    BY <1>4 DEF LimiterClose, LimiterExpire, Revoke, limiterVars, call, buckets
  <2> QED
    BY <1>2, <2>1 DEF LimiterInv, LimiterTypes, Metered
<1> QED
  BY <1>1, <1>3, <1>4 DEF LimiterNext, Attempted

\* Model permits are taken in turn and given back exactly once: with any number of
\* requests, owners and permits, however bodies end twice, waits run out and the limiter
\* closes, every channel counts exactly the attempts that hold it (AcquireRequest and its
\* once-only release), neither transmissions nor an owner's queue nor a key's rate exceed
\* their limits, and no permit granted during a shutdown is used.
THEOREM LimiterCorrect == LimiterSpec => LimiterSafe
<1>1. LimiterInit => LimiterInv
  <2> SUFFICES ASSUME LimiterInit PROVE LimiterInv
    OBVIOUS
  <2>1. LimiterTypes
    <3>1. /\ limiterPc \in [Requests -> AttemptPC] /\ limiterRefs \in [Owners -> Int]
          /\ ownerActive \in [Owners -> Int] /\ global \in Int
      BY DEF LimiterInit, AttemptPC
    <3>2. owner \in [Requests -> Owners] /\ cost \in [Requests -> Nat]
      BY LimitsAssumption DEF LimiterInit
    <3>3. requests \in Nat /\ tokens \in Nat /\ burst \in [requests : Nat, tokens : Nat]
      BY LimitsAssumption DEF LimiterInit
    <3> QED
      BY <3>1, <3>2, <3>3 DEF LimiterTypes
  <2>2. Permits = {} /\ \A o \in Owners : Slots(o) = {} /\ References(o) = {}
    BY DEF LimiterInit, Permits, Slots, References, holds, occupies, queued, transmitting
  <2>3. Accounts
    BY <2>2, FS_EmptySet DEF LimiterInit, Accounts
  <2>4. Unreleased /\ Limited /\ Metered
    BY LimitsAssumption DEF LimiterInit, Unreleased, Limited, Metered
  <2> QED
    BY <2>1, <2>3, <2>4 DEF LimiterInv
<1>2. LimiterInv => TransmissionsBounded /\ NoPermitLost /\ OwnerQueueBounded /\ RateHonoured
  <2> SUFFICES ASSUME LimiterInv PROVE TransmissionsBounded /\ NoPermitLost /\ OwnerQueueBounded /\ RateHonoured
    OBVIOUS
  <2>1. TransmissionsBounded
    <3>1. {r \in Requests : transmitting(r)} \in SUBSET Permits
      BY DEF Permits, holds
    <3>2. Cardinality({r \in Requests : transmitting(r)}) <= Cardinality(Permits)
          /\ IsFiniteSet({r \in Requests : transmitting(r)})
      BY <3>1, FS_Subset DEF LimiterInv, Accounts
    <3>3. Cardinality({r \in Requests : transmitting(r)}) <= MaxLimiterConcurrent
      BY <3>2, FS_CardinalityType, LimitsAssumption DEF LimiterInv, Accounts, Limited
    <3>4. ASSUME NEW o \in Owners
          PROVE  Cardinality({r \in Requests : owner[r] = o /\ transmitting(r)}) <= OwnerMaxConcurrent
      <4>1. {r \in Requests : owner[r] = o /\ transmitting(r)} \in SUBSET Slots(o)
        BY DEF Slots, occupies, holds
      <4>2. Cardinality({r \in Requests : owner[r] = o /\ transmitting(r)}) <= Cardinality(Slots(o))
            /\ IsFiniteSet({r \in Requests : owner[r] = o /\ transmitting(r)})
        BY <4>1, FS_Subset DEF LimiterInv, Accounts
      <4> QED
        BY <4>2, FS_CardinalityType, LimitsAssumption DEF LimiterInv, Accounts, Limited
    <3> QED
      BY <3>3, <3>4 DEF TransmissionsBounded
  <2>2. NoPermitLost
    BY DEF LimiterInv, Accounts, NoPermitLost, Permits, Slots, References
  <2>3. OwnerQueueBounded
    BY DEF LimiterInv, Limited, OwnerQueueBounded
  <2>4. RateHonoured
    BY LimitsAssumption DEF LimiterInv, LimiterTypes, Metered, RateHonoured
  <2> QED
    BY <2>1, <2>2, <2>3, <2>4
<1>3. LimiterInv /\ [LimiterNext]_limiterVars => [noGrantAfterClose]_limiterVars
  <2> SUFFICES ASSUME LimiterInv, LimiterNext, NEW q \in Requests, closed, limiterPc[q] \in waiting
               PROVE  limiterPc'[q] \notin {"recheck", "transport"}
    BY DEF noGrantAfterClose
  <2>0. limiterPc \in [Requests -> AttemptPC]
    BY DEF LimiterInv, LimiterTypes
  <2>1. ASSUME NEW r \in Requests, Attempted(r) PROVE limiterPc'[q] \notin {"recheck", "transport"}
    <3>1. CASE q # r
      <4>1. limiterPc'[q] = limiterPc[q]
        BY <2>1, <3>1, AttemptBooks DEF Alters
      <4> QED
        BY <4>1 DEF waiting
    <3>2. CASE q = r
      <4>1. ~BodyEnds(r) /\ ~EndAttempt(r) /\ ~executeWithRetry(r) /\ ~Recheck(r)
        BY <3>2 DEF waiting, BodyEnds, EndAttempt, executeWithRetry, Recheck
      <4>2. \E l \in AttemptPC \ {"recheck", "transport"} : LimiterGoto(r, l)
        BY <2>1, <3>2, <4>1 DEF Attempted, LimiterProceed, AcquireRequest, TakeOwnerSlot, take, TakeGlobal,
             OwnerWaitEnds, WaitEnds, acquireOwner, Granted, waitError, AttemptPC
      <4> QED
        BY <2>0, <3>2, <4>2 DEF LimiterGoto
    <3> QED
      BY <3>1, <3>2
  <2>2. CASE RefillAt \/ LimiterClose \/ (\E r \in Requests : LimiterExpire(r)) \/ (\E o \in Owners : Revoke(o))
    <3>1. limiterPc' = limiterPc
      BY <2>2 DEF RefillAt, LimiterClose, LimiterExpire, Revoke
    <3> QED
      BY <3>1 DEF waiting
  <2> QED
    BY <2>1, <2>2 DEF LimiterNext, Attempted
<1> QED
  BY <1>1, <1>2, <1>3, LimiterInductive, PTL DEF LimiterSpec, LimiterSafe

----------------------------------------------------------------------------
(* Workspaces.  Only the session that holds the owner's row decides anything *)
(* (Alone), what it decided from stays true until it commits (Decided),     *)
(* because a business write holds its Workspace row shared (Admitted).      *)

SessionPC == {"owner", "insert", "row", "busy", "other", "replace", "apply"}
Deciding == {"busy", "other", "replace", "apply"}
SessionRecord == {NoSession} \cup [pc : SessionPC, req : WorkspaceRequests]
TxRecord == {NoTx} \cup [pc : {"begun", "written"}, w : Ids, kind : Kinds]
WorkspaceRow == [status : {"none", "active", "archived"}, deleted : BOOLEAN, member : BOOLEAN]

\* WorkspaceTypeOK, with the requests and the transactions of sessions and writers.
WorkspaceTypes ==
  /\ ws \in [Ids -> WorkspaceRow]
  /\ marker \in Ids \cup {Nobody}
  /\ personal \in Nat /\ writes \in 0..MaxWrites
  /\ workspaceOwner \in Sessions \cup {Nobody}
  /\ excl \in [Ids -> Sessions \cup {Nobody}]
  /\ shared \in [Ids -> SUBSET Writers]
  /\ sess \in [Sessions -> SessionRecord]
  /\ txs \in [Writers -> TxRecord]
  /\ run \in [Ids -> {"none", "unfinished", "finished"}]
  /\ effect \in [Ids -> {"none", "uncertain", "settled"}]
  /\ payload \in [Ids -> {"none", "held", "expired", "erased"}]

\* Past the first lock a session owns the owner's row; a row it locks besides the one
\* it changes is an active replacement.
alone(s) ==
  /\ sess[s].pc \in SessionPC \ {"owner"} => workspaceOwner = s
  /\ sess[s].pc \in {"row"} \cup Deciding => sess[s].req.op = "update"
  /\ sess[s].pc \in Deciding => excl[sess[s].req.w] = s
  /\ \A w \in Ids : excl[w] = s =>
       sess[s].pc \in Deciding /\ (w # sess[s].req.w => sess[s].pc = "apply" /\ Active(w))

Alone == \A s \in Sessions : alone(s)

closes(s) ==
  sess[s].req.c.remove \/ (NewStatus(s) = "archived" /\ ws[sess[s].req.w].status # "archived")

\* What a session has checked still holds.
decided(s) ==
  /\ sess[s].pc \in Deciding => Exists(sess[s].req.w) /\ ~ws[sess[s].req.w].deleted
  /\ sess[s].pc \in {"other", "replace"} => ~Busy(sess[s].req.w)
  /\ sess[s].pc = "replace" => marker = sess[s].req.w /\ sess[s].req.c.repl # Nobody
  /\ sess[s].pc = "apply" /\ closes(s) =>
       /\ ~Busy(sess[s].req.w)
       /\ marker = sess[s].req.w =>
            /\ sess[s].req.c.repl \in Ids /\ sess[s].req.c.repl # sess[s].req.w
            /\ excl[sess[s].req.c.repl] = s

Decided == \A s \in Sessions : decided(s)

\* A write that passed the trigger, an erasure apart, keeps its Workspace active.
Admitted ==
  /\ \A w \in Ids : excl[w] = Nobody \/ shared[w] = {}
  /\ \A t \in Writers : txs[t].pc = "written" /\ txs[t].kind # "erase" =>
       t \in shared[txs[t].w] /\ Active(txs[t].w)

\* The promises themselves.
Kept ==
  /\ ClosedIsQuiet /\ DefaultStaysActive
  /\ personal = 0 \/ (personal = 1 /\ marker # Nobody)

WorkspaceInv == WorkspaceTypes /\ Alone /\ Decided /\ Admitted /\ Kept

\* What the body of an update may be.
LEMMA UpdateRequest ==
  ASSUME NEW r \in WorkspaceRequests, r.op = "update"
  PROVE  /\ r.w \in Ids /\ r.c.repl \in Ids \cup {Nobody}
         /\ r.c.status \in {"keep", "active", "archived"}
         /\ r.c.makeDefault \in BOOLEAN /\ r.c.remove \in BOOLEAN
         /\ r.c.remove => ~r.c.makeDefault /\ r.c.status = "keep"
<1>1. r.w \in Ids /\ r.c \in Patches
  BY DEF WorkspaceRequests
<1>2. r.c \in Changes
  BY <1>1, PatchesAssumption
<1> QED
  BY <1>1, <1>2 DEF Changes

\* The request of a session past its first lock.
LEMMA RequestOf ==
  ASSUME WorkspaceInv, NEW s \in Sessions, sess[s].pc \in {"row"} \cup Deciding
  PROVE  /\ sess[s].req.op = "update"
         /\ sess[s].req.w \in Ids /\ sess[s].req.c.repl \in Ids \cup {Nobody}
         /\ sess[s].req.c.status \in {"keep", "active", "archived"}
         /\ sess[s].req.c.makeDefault \in BOOLEAN /\ sess[s].req.c.remove \in BOOLEAN
         /\ sess[s].req.c.remove => ~sess[s].req.c.makeDefault /\ sess[s].req.c.status = "keep"
<1>1. sess[s] \in [pc : SessionPC, req : WorkspaceRequests]
  BY DEF WorkspaceInv, WorkspaceTypes, SessionRecord, NoSession, Deciding
<1>2. sess[s].req.op = "update"
  BY DEF WorkspaceInv, Alone, alone
<1> QED
  BY <1>1, <1>2, UpdateRequest

\* A session that moves on keeps its request.
LEMMA SessionMoves ==
  ASSUME sess \in [Sessions -> SessionRecord], NEW s \in Sessions, sess[s].pc # "idle",
         NEW l \in SessionPC, WorkspaceGoto(s, l)
  PROVE  /\ sess' \in [Sessions -> SessionRecord]
         /\ sess'[s].pc = l /\ sess'[s].req = sess[s].req
         /\ \A z \in Sessions \ {s} : sess'[z] = sess[z]
<1>1. sess[s] \in [pc : SessionPC, req : WorkspaceRequests]
  BY DEF SessionRecord, NoSession
<1>2. [sess[s] EXCEPT !.pc = l] \in [pc : SessionPC, req : WorkspaceRequests]
  BY <1>1
<1> QED
  BY <1>1, <1>2 DEF WorkspaceGoto, SessionRecord

\* A session that ends frees its locks and no other.
LEMMA SessionEnds ==
  ASSUME WorkspaceTypes, NEW s \in Sessions, Release(s)
  PROVE  /\ sess' \in [Sessions -> SessionRecord] /\ sess'[s].pc = "idle"
         /\ \A z \in Sessions \ {s} : sess'[z] = sess[z]
         /\ workspaceOwner' \in Sessions \cup {Nobody} /\ workspaceOwner' # s
         /\ workspaceOwner # s => workspaceOwner' = workspaceOwner
         /\ excl' \in [Ids -> Sessions \cup {Nobody}]
         /\ \A w \in Ids : excl'[w] = IF excl[w] = s THEN Nobody ELSE excl[w]
         /\ \A w \in Ids : excl'[w] # s
  BY WorkspaceConstants DEF WorkspaceTypes, Release, SessionRecord, NoSession, Ids

\* A refused, failed or cancelled request leaves no trace but its locks.
LEMMA RollbackKeeps ==
  ASSUME WorkspaceInv, NEW s \in Sessions, Rollback(s)
  PROVE  WorkspaceInv'
<1> USE DEF WorkspaceInv
<1>1. UNCHANGED <<ws, marker, personal, shared, txs, writes, run, effect, payload>> /\ Release(s)
  BY DEF Rollback, business
<1>2. WorkspaceTypes'
  BY <1>1, SessionEnds DEF WorkspaceTypes
<1>3. \A z \in Sessions : z # s => sess'[z] = sess[z]
  BY <1>1, SessionEnds
<1>4. sess'[s].pc = "idle" /\ workspaceOwner' # s
      /\ (workspaceOwner # s => workspaceOwner' = workspaceOwner)
      /\ \A w \in Ids : excl'[w] = (IF excl[w] = s THEN Nobody ELSE excl[w]) /\ excl'[w] # s
  BY <1>1, SessionEnds
<1>5. \A w \in Ids : Active(w)' = Active(w) /\ Exists(w)' = Exists(w) /\ Busy(w)' = Busy(w)
  BY <1>1 DEF Active, Exists, Busy
<1>6. Alone'
  <2>1. ASSUME NEW z \in Sessions, z # s PROVE alone(z)'
    <3>1. sess[z].pc \in Deciding => sess[z].req.w \in Ids
      BY RequestOf DEF Deciding
    <3> QED
      BY <1>3, <1>4, <1>5, <2>1, <3>1, WorkspaceConstants DEF Alone, alone, Deciding
  <2>2. alone(s)'
    BY <1>4 DEF alone, SessionPC, Deciding
  <2> QED
    BY <2>1, <2>2 DEF Alone, alone
<1>7. Decided'
  <2>1. ASSUME NEW z \in Sessions, z # s PROVE decided(z)'
    BY <1>1, <1>3, <1>4, <2>1 DEF Decided, decided, closes, NewStatus, Exists, Busy
  <2>2. decided(s)'
    BY <1>4 DEF decided, Deciding
  <2> QED
    BY <2>1, <2>2 DEF Decided
<1>8. Admitted'
  BY <1>1, <1>4 DEF Admitted, Active, WorkspaceTypes
<1>9. Kept'
  BY <1>1 DEF Kept, ClosedIsQuiet, DefaultStaysActive, Closed, Exists, Active, Busy
<1> QED
  BY <1>2, <1>6, <1>7, <1>8, <1>9

\* While a session owns the owner's row, no other is past its first lock.
LEMMA OneDecides ==
  ASSUME WorkspaceInv, NEW s \in Sessions, workspaceOwner = s, NEW z \in Sessions, z # s
  PROVE  sess[z].pc \in {"idle", "owner"} /\ \A w \in Ids : excl[w] # z
<1>1. sess[z].pc \notin SessionPC \ {"owner"}
  BY DEF WorkspaceInv, Alone, alone
<1>2. sess[z].pc \in SessionPC \cup {"idle"}
  BY DEF WorkspaceInv, WorkspaceTypes, SessionRecord, NoSession
<1>3. \A w \in Ids : excl[w] = z => sess[z].pc \in Deciding
  BY DEF WorkspaceInv, Alone, alone
<1> QED
  BY <1>1, <1>2, <1>3 DEF SessionPC, Deciding

\* A request begins, or takes the owner's row, and has decided nothing.
LEMMA RequestKeeps ==
  ASSUME WorkspaceInv, NEW s \in Sessions,
         lockWorkspaceOwner(s) \/ \E r \in WorkspaceRequests : Begin(s, r)
  PROVE  WorkspaceInv'
<1> USE DEF WorkspaceInv
<1>1. UNCHANGED <<ws, marker, personal, excl, shared, txs, writes, run, effect, payload>>
  BY DEF lockWorkspaceOwner, Begin, business
<1> DEFINE begun ==
        /\ sess' \in [Sessions -> SessionRecord]
        /\ \A z \in Sessions : z # s => sess'[z] = sess[z]
        /\ \/ sess[s].pc = "idle" /\ sess'[s].pc = "owner" /\ workspaceOwner' = workspaceOwner
           \/ /\ sess[s].pc = "owner" /\ workspaceOwner = Nobody /\ workspaceOwner' = s
              /\ sess'[s].pc = "row" \/ sess'[s].pc = "insert"
              /\ sess'[s].pc = "row" => sess'[s].req.op = "update"
<1>2. begun
  <2>1. CASE lockWorkspaceOwner(s)
    <3>1. PICK l \in {"row", "insert"} : WorkspaceGoto(s, l) /\ (l = "row" => sess[s].req.op = "update")
      BY <2>1 DEF lockWorkspaceOwner
    <3>2. l \in SessionPC /\ sess[s].pc = "owner"
      BY <2>1 DEF lockWorkspaceOwner, SessionPC
    <3>3. sess' \in [Sessions -> SessionRecord] /\ sess'[s].pc = l /\ sess'[s].req = sess[s].req
          /\ \A z \in Sessions \ {s} : sess'[z] = sess[z]
      BY <3>1, <3>2, SessionMoves DEF WorkspaceTypes
    <3> QED
      BY <2>1, <3>1, <3>2, <3>3 DEF lockWorkspaceOwner
  <2>2. ASSUME NEW r \in WorkspaceRequests, Begin(s, r) PROVE begun
    BY <2>2 DEF Begin, WorkspaceTypes, SessionRecord, SessionPC
  <2> QED
    BY <2>1, <2>2
<1>3. WorkspaceTypes'
  BY <1>1, <1>2 DEF WorkspaceTypes
<1>4. sess[s].pc \notin Deciding /\ sess'[s].pc \notin Deciding /\ \A w \in Ids : excl[w] # s
  BY <1>2 DEF Alone, alone, Deciding
<1>5. Alone'
  BY <1>1, <1>2, <1>4, WorkspaceConstants DEF Alone, alone, Deciding, SessionPC, Active
<1>6. Decided'
  BY <1>1, <1>2, <1>4 DEF Decided, decided, Deciding, closes, NewStatus, Exists, Busy
<1>7. Admitted' /\ Kept'
  BY <1>1 DEF Admitted, Kept, ClosedIsQuiet, DefaultStaysActive, Closed, Exists, Active, Busy
<1> QED
  BY <1>3, <1>5, <1>6, <1>7

\* A new Workspace is quiet and active, and only an unusable default gives way to it.
LEMMA CreateKeeps ==
  ASSUME WorkspaceInv, NEW s \in Sessions, sess[s].pc = "insert", NEW w \in Ids,
         createOwnedWorkspace(s, w), personal' = personal \/ (marker = Nobody /\ personal' = personal + 1)
  PROVE  WorkspaceInv'
<1> USE DEF WorkspaceInv
<1>1. workspaceOwner = s
  BY DEF Alone, alone, SessionPC
<1>2. /\ UNCHANGED <<shared, txs, writes, run, effect, payload>> /\ Release(s)
      /\ ws' = [ws EXCEPT ![w] = [status |-> "active", deleted |-> FALSE, member |-> TRUE]]
      /\ marker' = w \/ (marker' = marker /\ marker # Nobody)
      /\ ~Exists(w)
  BY DEF createOwnedWorkspace, DefaultAfterCreate, business
<1>3. WorkspaceTypes'
  <2>1. marker' \in Ids \cup {Nobody} /\ personal' \in Nat
    BY <1>2 DEF WorkspaceTypes
  <2>2. ws' \in [Ids -> WorkspaceRow]
    BY <1>2 DEF WorkspaceTypes, WorkspaceRow
  <2> QED
    BY <1>2, <2>1, <2>2, SessionEnds DEF WorkspaceTypes
<1>4. \A z \in Sessions : sess'[z].pc \in {"idle", "owner"} /\ \A v \in Ids : excl'[v] # z
  BY <1>1, <1>2, SessionEnds, OneDecides, WorkspaceConstants
<1>5. Alone' /\ Decided'
  BY <1>4 DEF Alone, alone, Decided, decided, SessionPC, Deciding
<1>6. \A v \in Ids : /\ v # w => Active(v)' = Active(v) /\ Exists(v)' = Exists(v)
                     /\ Active(w)' /\ Busy(v)' = Busy(v)
  BY <1>2 DEF WorkspaceTypes, WorkspaceRow, Active, Exists, Busy
<1>7. \A v \in Ids : Active(v) => Active(v)'
  BY <1>2, <1>6 DEF Active, Exists
<1>8. Admitted'
  <2>1. \A v \in Ids : excl'[v] = Nobody \/ excl'[v] = excl[v]
    BY <1>2, SessionEnds
  <2>2. \A t \in Writers : txs[t].pc = "written" => txs[t].w \in Ids
    BY DEF WorkspaceTypes, TxRecord, NoTx
  <2> QED
    BY <1>2, <1>7, <2>1, <2>2 DEF Admitted
<1>9. Kept'
  <2>1. ClosedIsQuiet'
    BY <1>6 DEF Kept, ClosedIsQuiet, Closed
  <2>2. DefaultStaysActive'
    BY <1>2, <1>6, <1>7 DEF Kept, DefaultStaysActive, WorkspaceTypes
  <2>3. personal' = 0 \/ (personal' = 1 /\ marker' # Nobody)
    BY <1>2, WorkspaceConstants DEF Kept, Ids
  <2> QED
    BY <2>1, <2>2, <2>3 DEF Kept
<1> QED
  BY <1>3, <1>5, <1>8, <1>9

\* A session that only moves on, perhaps locking a row nobody holds, as what it read
\* allows.
LEMMA DecidingKeeps ==
  ASSUME WorkspaceInv, NEW s \in Sessions, workspaceOwner = s, sess[s].pc # "idle",
         NEW l \in Deciding, WorkspaceGoto(s, l), sess[s].req.op = "update",
         UNCHANGED <<ws, marker, personal, workspaceOwner, shared, txs, writes, run, effect, payload>>,
         excl' = excl \/ (\E w \in Ids : Lockable(w) /\ excl' = [excl EXCEPT ![w] = s]),
         excl'[sess[s].req.w] = s,
         \A w \in Ids : excl'[w] = s /\ w # sess[s].req.w => l = "apply" /\ Active(w),
         Exists(sess[s].req.w) /\ ~ws[sess[s].req.w].deleted,
         l \in {"other", "replace"} => ~Busy(sess[s].req.w),
         l = "replace" => marker = sess[s].req.w /\ sess[s].req.c.repl # Nobody,
         l = "apply" /\ closes(s) =>
           /\ ~Busy(sess[s].req.w)
           /\ marker = sess[s].req.w =>
                /\ sess[s].req.c.repl \in Ids /\ sess[s].req.c.repl # sess[s].req.w
                /\ excl'[sess[s].req.c.repl] = s
  PROVE  WorkspaceInv'
<1> USE DEF WorkspaceInv
<1>1. /\ sess' \in [Sessions -> SessionRecord] /\ sess'[s].pc = l /\ sess'[s].req = sess[s].req
      /\ \A z \in Sessions \ {s} : sess'[z] = sess[z]
  BY SessionMoves DEF WorkspaceTypes, Deciding, SessionPC
<1>2. excl' \in [Ids -> Sessions \cup {Nobody}] /\ \A w \in Ids : excl'[w] # excl[w] => excl'[w] = s /\ shared[w] = {}
  BY DEF WorkspaceTypes, Lockable
<1>3. WorkspaceTypes'
  BY <1>1, <1>2 DEF WorkspaceTypes
<1>4. \A z \in Sessions \ {s} : sess'[z].pc \in {"idle", "owner"} /\ \A w \in Ids : excl'[w] # z
  BY <1>1, <1>2, OneDecides
<1>5. Alone'
  <2>1. \A w \in Ids : Active(w)' = Active(w)
    BY DEF Active
  <2> QED
    BY <1>1, <1>4, <2>1 DEF Alone, alone, SessionPC, Deciding
<1>6. Decided'
  <2>1. closes(s)' = closes(s) /\ Busy(sess[s].req.w)' = Busy(sess[s].req.w) /\ Exists(sess[s].req.w)' = Exists(sess[s].req.w)
    BY <1>1 DEF closes, NewStatus, Busy, Exists
  <2> QED
    BY <1>1, <1>4, <2>1 DEF Decided, decided, Deciding
<1>7. Admitted'
  BY <1>2 DEF Admitted, Active
<1>8. Kept'
  BY DEF Kept, ClosedIsQuiet, DefaultStaysActive, Closed, Exists, Active, Busy
<1> QED
  BY <1>3, <1>5, <1>6, <1>7, <1>8

\* UpdateWorkspace, up to its commit.
LEMMA UpdateKeeps ==
  ASSUME WorkspaceInv, NEW s \in Sessions,
         LockRow(s) \/ CheckBusy(s) \/ CheckOther(s) \/ LockReplacement(s)
  PROVE  WorkspaceInv'
<1> USE DEF WorkspaceInv
<1> DEFINE q == sess[s].req
<1>1. sess[s].pc \in {"row", "busy", "other", "replace"}
  BY DEF LockRow, CheckBusy, CheckOther, LockReplacement
<1>2. workspaceOwner = s /\ q.op = "update" /\ (sess[s].pc # "row" => excl[q.w] = s)
      /\ \A w \in Ids : excl[w] = s => sess[s].pc # "row" /\ w = q.w
  BY <1>1 DEF Alone, alone, SessionPC, Deciding
<1>3. q.w \in Ids /\ q.c.repl \in Ids \cup {Nobody} /\ sess[s].pc # "idle"
  BY <1>1, RequestOf DEF Deciding
<1>4. CASE Rollback(s)
  BY <1>4, RollbackKeeps
<1>5. CASE LockRow(s) /\ ~Rollback(s)
  <2>1. sess[s].pc = "row" /\ Readable(q.w) /\ Lockable(q.w) /\ excl' = [excl EXCEPT ![q.w] = s]
        /\ UNCHANGED <<ws, marker, personal, workspaceOwner, shared, txs, writes, run, effect, payload>>
        /\ WorkspaceGoto(s, IF closes(s) THEN "busy" ELSE "apply")
    BY <1>5 DEF LockRow, closes, business
  <2>2. PICK l \in {"busy", "apply"} : WorkspaceGoto(s, l) /\ (l = "apply" => ~closes(s))
    BY <2>1
  <2>3. l \in Deciding /\ l \notin {"other", "replace"}
    BY DEF Deciding
  <2>4. excl'[q.w] = s /\ \A w \in Ids : excl'[w] = s => w = q.w
    BY <1>2, <1>3, <2>1 DEF WorkspaceTypes
  <2>5. Exists(q.w) /\ ~ws[q.w].deleted
    BY <2>1 DEF Readable
  <2> QED
    BY <1>2, <1>3, <2>1, <2>2, <2>3, <2>4, <2>5, DecidingKeeps
<1>6. CASE CheckBusy(s) /\ ~Rollback(s)
  <2>1. sess[s].pc = "busy" /\ ~Busy(q.w) /\ WorkspaceGoto(s, "other")
        /\ UNCHANGED <<ws, marker, personal, workspaceOwner, excl, shared, txs, writes, run, effect, payload>>
    BY <1>6 DEF CheckBusy, business
  <2>2. Exists(q.w) /\ ~ws[q.w].deleted
    BY <2>1 DEF Decided, decided, Deciding
  <2>3. "other" \in Deciding
    BY DEF Deciding
  <2> QED
    BY <1>2, <1>3, <2>1, <2>2, <2>3, DecidingKeeps
<1>7. CASE CheckOther(s) /\ ~Rollback(s)
  <2>1. sess[s].pc = "other" /\ ~(marker = q.w /\ q.c.repl = Nobody)
        /\ WorkspaceGoto(s, IF marker = q.w THEN "replace" ELSE "apply")
        /\ UNCHANGED <<ws, marker, personal, workspaceOwner, excl, shared, txs, writes, run, effect, payload>>
    BY <1>7 DEF CheckOther, business
  <2>2. PICK l \in {"replace", "apply"} : WorkspaceGoto(s, l) /\ (l = "replace" <=> marker = q.w)
    BY <2>1
  <2>3. Exists(q.w) /\ ~ws[q.w].deleted /\ ~Busy(q.w) /\ l \in Deciding
    BY <2>1 DEF Decided, decided, Deciding
  <2> QED
    BY <1>2, <1>3, <2>1, <2>2, <2>3, DecidingKeeps
<1>8. CASE LockReplacement(s) /\ ~Rollback(s)
  <2>1. sess[s].pc = "replace" /\ Replaceable(q.w, q.c.repl) /\ Lockable(q.c.repl)
        /\ excl' = [excl EXCEPT ![q.c.repl] = s] /\ WorkspaceGoto(s, "apply")
        /\ UNCHANGED <<ws, marker, personal, workspaceOwner, shared, txs, writes, run, effect, payload>>
    BY <1>8 DEF LockReplacement, business
  <2>2. Exists(q.w) /\ ~ws[q.w].deleted /\ ~Busy(q.w) /\ q.c.repl \in Ids /\ "apply" \in Deciding
    BY <1>3, <2>1 DEF Decided, decided, Deciding
  <2>3. q.c.repl # q.w /\ Active(q.c.repl)
    BY <2>1 DEF Replaceable, Usable
  <2>4. /\ excl'[q.c.repl] = s /\ excl'[q.w] = s
        /\ \A w \in Ids : excl'[w] = s /\ w # q.w => w = q.c.repl
    BY <1>2, <1>3, <2>1, <2>2, <2>3 DEF WorkspaceTypes
  <2> QED
    BY <1>2, <1>3, <2>1, <2>2, <2>3, <2>4, DecidingKeeps
<1> QED
  BY <1>4, <1>5, <1>6, <1>7, <1>8

\* The commit of UpdateWorkspace.
LEMMA ApplyKeeps ==
  ASSUME WorkspaceInv, NEW s \in Sessions, Apply(s)
  PROVE  WorkspaceInv'
<1> USE DEF WorkspaceInv
<1> DEFINE q == sess[s].req
<1>1. CASE Rollback(s)
  BY <1>1, RollbackKeeps
<1>2. CASE ~Rollback(s)
  <2>1. /\ sess[s].pc = "apply" /\ Release(s)
        /\ ~(q.c.makeDefault /\ (q.c.remove \/ NewStatus(s) # "active"))
        /\ ws' = [ws EXCEPT ![q.w].status = NewStatus(s), ![q.w].deleted = @ \/ q.c.remove]
        /\ marker' = NewMarker(s)
        /\ UNCHANGED <<personal, shared, txs, writes, run, effect, payload>>
    BY <1>2 DEF Apply, business
  <2>2. workspaceOwner = s /\ q.op = "update" /\ excl[q.w] = s
        /\ \A w \in Ids : excl[w] = s /\ w # q.w => Active(w)
    BY <2>1 DEF Alone, alone, SessionPC, Deciding
  <2>3. /\ q.w \in Ids /\ q.c.repl \in Ids \cup {Nobody}
        /\ q.c.status \in {"keep", "active", "archived"}
        /\ q.c.makeDefault \in BOOLEAN /\ q.c.remove \in BOOLEAN
        /\ q.c.remove => ~q.c.makeDefault /\ q.c.status = "keep"
    BY <2>1, RequestOf DEF Deciding
  <2> PICK w \in Ids : w = q.w
    BY <2>3
  <2>4. /\ Exists(q.w) /\ ~ws[q.w].deleted
        /\ closes(s) => /\ ~Busy(q.w)
                        /\ marker = q.w => q.c.repl \in Ids /\ q.c.repl # q.w /\ excl[q.c.repl] = s
    BY <2>1 DEF Decided, decided, Deciding
  <2>5. NewStatus(s) \in {"active", "archived"}
    BY <2>3, <2>4 DEF NewStatus, Exists, WorkspaceTypes, WorkspaceRow
  <2>6. /\ ws' \in [Ids -> WorkspaceRow]
        /\ \A v \in Ids : v # w => ws'[v] = ws[v]
        /\ ws'[w].status = NewStatus(s)
        /\ ws'[w].deleted <=> q.c.remove
    <3>1. ws[q.w] \in WorkspaceRow
      BY <2>3 DEF WorkspaceTypes
    <3> DEFINE row == [[ws[w] EXCEPT !.status = NewStatus(s)] EXCEPT !.deleted = @ \/ q.c.remove]
    <3>3. ws' = [ws EXCEPT ![w] = row]
      BY <2>1, <3>1 DEF WorkspaceTypes
    <3>4. row \in WorkspaceRow /\ row.status = NewStatus(s)
      BY <2>3, <2>4, <2>5, <3>1 DEF WorkspaceRow
    <3>5. row.deleted <=> q.c.remove
      BY <2>3, <2>4, <2>5, <3>1 DEF WorkspaceRow
    <3> HIDE DEF row
    <3> QED
      BY <3>3, <3>4, <3>5 DEF WorkspaceTypes
  <2>7. /\ marker' \in Ids \cup {Nobody} /\ (marker # Nobody => marker' # Nobody)
        /\ \/ q.c.makeDefault /\ marker' = q.w
           \/ ~q.c.makeDefault /\ marker' = marker
           \/ /\ ~q.c.makeDefault /\ marker = q.w /\ marker' = q.c.repl
              /\ q.c.repl \in Ids /\ q.c.repl # q.w /\ excl[q.c.repl] = s
        /\ closes(s) /\ ~q.c.makeDefault => marker' # q.w
    <3>1. Nobody \notin Ids /\ marker \in Ids \cup {Nobody}
      BY WorkspaceConstants DEF Ids, WorkspaceTypes
    <3>2. CASE q.c.makeDefault
      BY <2>1, <2>3, <3>1, <3>2 DEF NewMarker
    <3>3. CASE ~q.c.makeDefault /\ marker = q.w /\ q.c.repl # Nobody /\ excl[q.c.repl] = s /\ q.c.repl # q.w
      BY <2>1, <2>3, <3>1, <3>3 DEF NewMarker
    <3>4. CASE ~q.c.makeDefault /\ ~(marker = q.w /\ q.c.repl # Nobody /\ excl[q.c.repl] = s /\ q.c.repl # q.w)
      <4>1. marker' = marker
        BY <2>1, <3>4 DEF NewMarker
      <4> QED
        BY <2>4, <3>1, <3>4, <4>1
    <3> QED
      BY <3>2, <3>3, <3>4
  <2>8. WorkspaceTypes'
    BY <2>1, <2>6, <2>7, SessionEnds DEF WorkspaceTypes
  <2>9. \A z \in Sessions : sess'[z].pc \in {"idle", "owner"} /\ \A v \in Ids : excl'[v] # z
    BY <2>1, <2>2, SessionEnds, OneDecides, WorkspaceConstants
  <2>10. Alone' /\ Decided'
    BY <2>9 DEF Alone, alone, Decided, decided, SessionPC, Deciding
  <2>11. \A v \in Ids : /\ v # w => Active(v)' = Active(v) /\ Closed(v)' = Closed(v)
                        /\ Busy(v)' = Busy(v)
    BY <2>1, <2>6 DEF Active, Closed, Exists, Busy
  <2>12. ~closes(s) /\ Active(w) => Active(w)'
    BY <2>5, <2>6 DEF closes, Active
  <2>13. q.c.makeDefault => Active(w)'
    BY <2>1, <2>3, <2>6 DEF Active
  <2>14. Admitted'
    <3>1. \A v \in Ids : excl'[v] = Nobody \/ excl'[v] = excl[v]
      BY <2>1, SessionEnds
    <3>2. shared[q.w] = {}
      BY <2>2, <2>3, WorkspaceConstants DEF Admitted
    <3>3. \A t \in Writers : txs[t].pc = "written" => txs[t].w \in Ids
      BY DEF WorkspaceTypes, TxRecord, NoTx
    <3> QED
      BY <2>1, <2>11, <3>1, <3>2, <3>3 DEF Admitted
  <2>15. Kept'
    <3>1. ClosedIsQuiet'
      <4> SUFFICES ASSUME Closed(w)' PROVE ~Busy(w)
        BY <2>3, <2>11 DEF Kept, ClosedIsQuiet
      <4>1. CASE closes(s)
        BY <2>4, <4>1
      <4>2. CASE ~closes(s)
        <5>1. ~Active(w)
          BY <2>12, <4>2 DEF Closed
        <5> QED
          BY <2>3, <2>4, <5>1 DEF Kept, ClosedIsQuiet, Closed
      <4> QED
        BY <4>1, <4>2
    <3>2. DefaultStaysActive'
      <4> SUFFICES ASSUME marker' # Nobody PROVE Active(marker)'
        BY DEF DefaultStaysActive
      <4>1. CASE q.c.makeDefault
        BY <2>7, <2>13, <4>1
      <4>2. CASE ~q.c.makeDefault /\ marker' = marker
        <5>1. Active(marker)
          BY <4>2 DEF Kept, DefaultStaysActive
        <5> QED
          BY <2>7, <2>11, <2>12, <4>2, <5>1
      <4>3. CASE ~q.c.makeDefault /\ marker' = q.c.repl /\ q.c.repl \in Ids /\ q.c.repl # q.w /\ excl[q.c.repl] = s
        BY <2>2, <2>11, <4>3
      <4> QED
        BY <2>7, <4>1, <4>2, <4>3
    <3>3. personal' = 0 \/ (personal' = 1 /\ marker' # Nobody)
      BY <2>1, <2>7 DEF Kept
    <3> QED
      BY <3>1, <3>2, <3>3 DEF Kept
  <2> QED
    BY <2>8, <2>10, <2>14, <2>15
<1> QED
  BY <1>1, <1>2

\* Writers, the operator and time leave the sessions' decisions standing.
LEMMA DecisionsStand ==
  ASSUME WorkspaceInv,
         UNCHANGED <<marker, workspaceOwner, excl, sess>>,
         \A w \in Ids : ws'[w].status = ws[w].status /\ ws'[w].deleted = ws[w].deleted,
         \A w \in Ids : excl[w] # Nobody => run'[w] = run[w] /\ effect'[w] = effect[w]
  PROVE  Alone' /\ Decided'
<1> USE DEF WorkspaceInv
<1>1. \A w \in Ids : Active(w)' = Active(w) /\ Exists(w)' = Exists(w)
  BY DEF Active, Exists
<1>2. Alone'
  BY <1>1 DEF Alone, alone
<1>3. Decided'
  <2> SUFFICES ASSUME NEW s \in Sessions, sess[s].pc \in Deciding PROVE decided(s)'
    BY DEF Decided, decided, Deciding
  <2>1. sess[s].req.op = "update" /\ excl[sess[s].req.w] = s
    BY DEF Alone, alone
  <2>2. sess[s].req.w \in Ids
    BY RequestOf
  <2>3. Busy(sess[s].req.w)' = Busy(sess[s].req.w) /\ Exists(sess[s].req.w)' = Exists(sess[s].req.w)
        /\ closes(s)' = closes(s) /\ ws'[sess[s].req.w].deleted = ws[sess[s].req.w].deleted
    BY <1>1, <2>1, <2>2, WorkspaceConstants DEF Busy, closes, NewStatus
  <2> QED
    BY <2>3 DEF Decided, decided
<1> QED
  BY <1>2, <1>3

\* A transaction that ends lets its shares go.
LEMMA TxEnds ==
  ASSUME WorkspaceInv, NEW t \in Writers, EndTx(t)
  PROVE  /\ txs' \in [Writers -> TxRecord] /\ shared' \in [Ids -> SUBSET Writers]
         /\ txs'[t].pc = "idle" /\ \A u \in Writers \ {t} : txs'[u] = txs[u]
         /\ \A w \in Ids : shared'[w] = shared[w] \ {t}
  BY DEF WorkspaceInv, WorkspaceTypes, EndTx, TxRecord, NoTx

\* Business transactions begin, pass the trigger or are refused, and are given up.
LEMMA WriterKeeps ==
  ASSUME WorkspaceInv, NEW t \in Writers,
         AbortWrite(t) \/ require_active_workspace(t) \/ \E w \in Ids, k \in Kinds : withWorkspace(t, w, k)
  PROVE  WorkspaceInv'
<1> USE DEF WorkspaceInv
<1>1. UNCHANGED <<ws, marker, personal, workspaceOwner, excl, sess, run, effect, payload>>
  BY DEF AbortWrite, require_active_workspace, withWorkspace, business
<1>2. Alone' /\ Decided'
  BY <1>1, DecisionsStand
<1>3. Kept'
  BY <1>1 DEF Kept, ClosedIsQuiet, DefaultStaysActive, Closed, Exists, Active, Busy
<1>4. \A w \in Ids : Active(w)' = Active(w)
  BY <1>1 DEF Active
<1>5. ASSUME EndTx(t), UNCHANGED writes PROVE WorkspaceTypes' /\ Admitted'
  <2>1. WorkspaceTypes'
    BY <1>1, <1>5, TxEnds DEF WorkspaceTypes
  <2>2. Admitted'
    BY <1>1, <1>4, <1>5, TxEnds DEF Admitted, WorkspaceTypes, TxRecord, NoTx
  <2> QED
    BY <2>1, <2>2
<1>6. ASSUME NEW w \in Ids, NEW k \in Kinds, withWorkspace(t, w, k) PROVE WorkspaceTypes' /\ Admitted'
  <2>1. txs' = [txs EXCEPT ![t] = [pc |-> "begun", w |-> w, kind |-> k]] /\ UNCHANGED shared
        /\ writes < MaxWrites /\ writes' = writes + 1
    BY <1>6 DEF withWorkspace
  <2>2. txs' \in [Writers -> TxRecord] /\ writes' \in 0..MaxWrites
    BY <2>1, WorkspaceConstants DEF WorkspaceTypes, TxRecord
  <2>3. WorkspaceTypes'
    BY <1>1, <2>1, <2>2 DEF WorkspaceTypes
  <2>4. Admitted'
    BY <1>1, <1>4, <2>1 DEF Admitted, WorkspaceTypes, TxRecord, NoTx
  <2> QED
    BY <2>3, <2>4
<1>7. ASSUME require_active_workspace(t), ~EndTx(t) PROVE WorkspaceTypes' /\ Admitted'
  <2> DEFINE w == txs[t].w
             exempt == txs[t].kind = "erase" /\ payload[w] = "expired"
  <2>1. /\ txs[t].pc = "begun" /\ txs' = [txs EXCEPT ![t].pc = "written"]
        /\ exempt \/ (excl[w] = Nobody /\ Active(w))
        /\ shared' = IF exempt THEN shared ELSE [shared EXCEPT ![w] = shared[w] \cup {t}]
        /\ UNCHANGED writes
    BY <1>7 DEF require_active_workspace, shareLock
  <2>2. txs[t] \in [pc : {"begun", "written"}, w : Ids, kind : Kinds]
    BY <2>1 DEF WorkspaceTypes, TxRecord, NoTx
  <2>3. /\ txs' \in [Writers -> TxRecord] /\ txs'[t].w = w /\ txs'[t].kind = txs[t].kind
        /\ \A u \in Writers \ {t} : txs'[u] = txs[u]
    BY <2>1, <2>2 DEF WorkspaceTypes, TxRecord
  <2>4. shared' \in [Ids -> SUBSET Writers] /\ (~exempt => t \in shared'[w])
        /\ \A v \in Ids : shared[v] \subseteq shared'[v] /\ (shared'[v] # shared[v] => excl[v] = Nobody)
    BY <2>1, <2>2 DEF WorkspaceTypes
  <2>5. WorkspaceTypes'
    BY <1>1, <2>1, <2>3, <2>4 DEF WorkspaceTypes
  <2>6. Admitted'
    <3>1. \A v \in Ids : excl'[v] = Nobody \/ shared'[v] = {}
      BY <1>1, <2>4 DEF Admitted
    <3>2. \A u \in Writers \ {t} : txs'[u].pc = "written" /\ txs'[u].kind # "erase" =>
            u \in shared'[txs'[u].w] /\ Active(txs[u].w)'
      <4>1. \A u \in Writers : txs[u].pc = "written" => txs[u].w \in Ids
        BY DEF WorkspaceTypes, TxRecord, NoTx
      <4> QED
        BY <1>4, <2>3, <2>4, <4>1 DEF Admitted
    <3>3. txs'[t].kind # "erase" => t \in shared'[txs'[t].w] /\ Active(txs[t].w)'
      BY <1>4, <2>1, <2>2, <2>3, <2>4
    <3> QED
      BY <3>1, <3>2, <3>3 DEF Admitted
  <2> QED
    BY <2>5, <2>6
<1>8. WorkspaceTypes' /\ Admitted'
  BY <1>5, <1>6, <1>7 DEF AbortWrite, require_active_workspace
<1> QED
  BY <1>2, <1>3, <1>8

\* A commit writes Runs and effects of an active Workspace only, and of a closed one
\* only the erasure of an expired payload.
LEMMA CommitWrites ==
  ASSUME WorkspaceInv, NEW t \in Writers, CommitWrite(t)
  PROVE  /\ WorkspaceTypes'
         /\ \A w \in Ids : run'[w] # run[w] \/ effect'[w] # effect[w] => Active(w) /\ excl[w] = Nobody
         /\ \A w \in Ids : payload'[w] # payload[w] =>
              Active(w) \/ (payload[w] = "expired" /\ payload'[w] = "erased")
<1> USE DEF WorkspaceInv
<1> DEFINE w == txs[t].w
           k == txs[t].kind
<1>1. txs[t].pc = "written" /\ w \in Ids /\ k \in Kinds
  BY DEF CommitWrite, WorkspaceTypes, TxRecord, NoTx
<1>2. k # "erase" => Active(w) /\ excl[w] = Nobody
  BY <1>1 DEF Admitted
<1>3. /\ run' = run \/ (k \in {"start", "end"} /\ run' = [run EXCEPT ![w] = IF k = "start" THEN "unfinished" ELSE "finished"])
      /\ effect' = effect \/ (k \in {"effect", "settle"} /\ effect' = [effect EXCEPT ![w] = IF k = "effect" THEN "uncertain" ELSE "settled"])
      /\ \/ payload' = payload
         \/ k = "capture" /\ payload' = [payload EXCEPT ![w] = "held"]
         \/ k = "erase" /\ payload[w] = "expired" /\ payload' = [payload EXCEPT ![w] = "erased"]
  BY <1>1 DEF CommitWrite, Applicable
<1>4. EndTx(t) /\ UNCHANGED <<ws, marker, personal, workspaceOwner, excl, sess, writes>>
  BY DEF CommitWrite
<1>5. /\ run' \in [Ids -> {"none", "unfinished", "finished"}]
      /\ effect' \in [Ids -> {"none", "uncertain", "settled"}]
      /\ payload' \in [Ids -> {"none", "held", "expired", "erased"}]
  BY <1>1, <1>3 DEF WorkspaceTypes
<1>6. WorkspaceTypes'
  BY <1>4, <1>5, TxEnds DEF WorkspaceTypes
<1>7. \A v \in Ids : run'[v] # run[v] \/ effect'[v] # effect[v] => v = w /\ k # "erase"
  BY <1>1, <1>3 DEF WorkspaceTypes
<1>8. \A v \in Ids : payload'[v] # payload[v] =>
        v = w /\ (k # "erase" \/ (payload[v] = "expired" /\ payload'[v] = "erased"))
  BY <1>1, <1>3 DEF WorkspaceTypes
<1> QED
  BY <1>2, <1>6, <1>7, <1>8

\* A commit keeps the invariant.
LEMMA CommitKeeps ==
  ASSUME WorkspaceInv, NEW t \in Writers, CommitWrite(t)
  PROVE  WorkspaceInv'
<1> USE DEF WorkspaceInv
<1>1. EndTx(t) /\ UNCHANGED <<ws, marker, personal, workspaceOwner, excl, sess, writes>>
  BY DEF CommitWrite
<1>2. WorkspaceTypes' /\ \A w \in Ids : run'[w] # run[w] \/ effect'[w] # effect[w] => Active(w) /\ excl[w] = Nobody
  BY CommitWrites
<1>3. Alone' /\ Decided'
  BY <1>1, <1>2, DecisionsStand
<1>4. Admitted'
  BY <1>1, TxEnds DEF Admitted, Active, WorkspaceTypes, TxRecord, NoTx
<1>5. Kept'
  BY <1>1, <1>2 DEF Kept, ClosedIsQuiet, DefaultStaysActive, Closed, Exists, Active, Busy
<1> QED
  BY <1>2, <1>3, <1>4, <1>5

\* The operator and time.
LEMMA OutsideKeeps ==
  ASSUME WorkspaceInv, NEW w \in Ids, WorkspaceExpire(w) \/ \E on \in BOOLEAN : Grant(w, on)
  PROVE  WorkspaceInv'
<1> USE DEF WorkspaceInv
<1>1. UNCHANGED <<marker, personal, workspaceOwner, excl, shared, sess, txs, writes, run, effect>>
  BY DEF WorkspaceExpire, Grant, business
<1>2. /\ ws' \in [Ids -> WorkspaceRow] /\ payload' \in [Ids -> {"none", "held", "expired", "erased"}]
      /\ \A v \in Ids : ws'[v].status = ws[v].status /\ ws'[v].deleted = ws[v].deleted
  <2>1. CASE WorkspaceExpire(w)
    BY <2>1 DEF WorkspaceExpire, WorkspaceTypes
  <2>2. ASSUME NEW on \in BOOLEAN, Grant(w, on)
        PROVE  /\ ws' \in [Ids -> WorkspaceRow] /\ UNCHANGED payload
               /\ \A v \in Ids : ws'[v].status = ws[v].status /\ ws'[v].deleted = ws[v].deleted
    <3>1. ws' = [ws EXCEPT ![w] = [ws[w] EXCEPT !.member = on]] /\ UNCHANGED payload
      BY <2>2 DEF Grant, business
    <3> QED
      BY <3>1 DEF WorkspaceTypes, WorkspaceRow
  <2> QED
    BY <2>1, <2>2 DEF WorkspaceTypes
<1>3. WorkspaceTypes'
  BY <1>1, <1>2 DEF WorkspaceTypes
<1>4. Alone' /\ Decided'
  BY <1>1, <1>2, DecisionsStand
<1>5. \A v \in Ids : Active(v)' = Active(v) /\ Closed(v)' = Closed(v) /\ Busy(v)' = Busy(v)
  BY <1>1, <1>2 DEF Active, Closed, Exists, Busy
<1>6. Admitted'
  <2>1. \A t \in Writers : txs[t].pc = "written" => txs[t].w \in Ids
    BY DEF WorkspaceTypes, TxRecord, NoTx
  <2> QED
    BY <1>1, <1>5, <2>1 DEF Admitted
<1>7. Kept'
  BY <1>1, <1>5 DEF Kept, ClosedIsQuiet, DefaultStaysActive, WorkspaceTypes
<1> QED
  BY <1>3, <1>4, <1>6, <1>7

\* Every step keeps the invariant.
LEMMA WorkspaceInductive == WorkspaceInv /\ [WorkspaceNext]_workspaceVars => WorkspaceInv'
<1> SUFFICES ASSUME WorkspaceInv, [WorkspaceNext]_workspaceVars PROVE WorkspaceInv'
  OBVIOUS
<1>1. ASSUME NEW s \in Sessions, lockWorkspaceOwner(s) \/ \E r \in WorkspaceRequests : Begin(s, r)
      PROVE WorkspaceInv'
  BY <1>1, RequestKeeps
<1>2. ASSUME NEW s \in Sessions, WorkspaceCancel(s) PROVE WorkspaceInv'
  BY <1>2, RollbackKeeps DEF WorkspaceCancel
<1>3. ASSUME NEW s \in Sessions, CreateWorkspace(s) PROVE WorkspaceInv'
  BY <1>3, CreateKeeps DEF CreateWorkspace
<1>4. ASSUME NEW s \in Sessions, ProvisionPersonalWorkspace(s) PROVE WorkspaceInv'
  BY <1>4, CreateKeeps, RollbackKeeps DEF ProvisionPersonalWorkspace, Onboarded
<1>5. ASSUME NEW s \in Sessions, LockRow(s) \/ CheckBusy(s) \/ CheckOther(s) \/ LockReplacement(s)
      PROVE WorkspaceInv'
  BY <1>5, UpdateKeeps
<1>6. ASSUME NEW s \in Sessions, Apply(s) PROVE WorkspaceInv'
  BY <1>6, ApplyKeeps
<1>7. ASSUME NEW t \in Writers, AbortWrite(t) \/ require_active_workspace(t)
                                \/ \E w \in Ids, k \in Kinds : withWorkspace(t, w, k)
      PROVE WorkspaceInv'
  BY <1>7, WriterKeeps
<1>8. ASSUME NEW t \in Writers, CommitWrite(t) PROVE WorkspaceInv'
  BY <1>8, CommitKeeps
<1>9. ASSUME NEW w \in Ids, WorkspaceExpire(w) \/ \E on \in BOOLEAN : Grant(w, on) PROVE WorkspaceInv'
  BY <1>9, OutsideKeeps
<1>10. CASE UNCHANGED workspaceVars
  BY <1>10 DEF workspaceVars, WorkspaceInv, WorkspaceTypes, Alone, alone, Decided, decided, Admitted, Kept, ClosedIsQuiet,
               DefaultStaysActive, closes, NewStatus, Closed, Exists, Active, Busy
<1> QED
  BY <1>1, <1>2, <1>3, <1>4, <1>5, <1>6, <1>7, <1>8, <1>9, <1>10 DEF WorkspaceNext, SessionStep, WriterStep

\* No step writes business state of a closed Workspace, but for payloads that expire
\* and are erased.
LEMMA ClosedStep == WorkspaceInv /\ [WorkspaceNext]_workspaceVars => [closedIsReadOnly]_workspaceVars
<1> SUFFICES ASSUME WorkspaceInv, WorkspaceNext PROVE closedIsReadOnly
  OBVIOUS
<1>1. ASSUME NEW t \in Writers, CommitWrite(t) PROVE closedIsReadOnly
  BY <1>1, CommitWrites DEF closedIsReadOnly, Closed
<1>2. ASSUME NEW w \in Ids, WorkspaceExpire(w) PROVE closedIsReadOnly
  BY <1>2 DEF WorkspaceExpire, closedIsReadOnly, WorkspaceInv, WorkspaceTypes
<1>3. CASE UNCHANGED <<run, effect, payload>>
  BY <1>3 DEF closedIsReadOnly
<1> QED
  BY <1>1, <1>2, <1>3 DEF WorkspaceNext, SessionStep, WriterStep, Begin, lockWorkspaceOwner, WorkspaceCancel,
     Rollback, CreateWorkspace, ProvisionPersonalWorkspace, createOwnedWorkspace, LockRow, CheckBusy, CheckOther,
     LockReplacement, Apply, withWorkspace, require_active_workspace, AbortWrite, Grant, business

\* However lifecycle requests, logins, business writes and revocations interleave, for any
\* number of them: no Workspace is closed with an unfinished Run or an uncertain effect,
\* the default stays active, onboarding happens once, and a closed Workspace is read-only
\* (UpdateWorkspace, createOwnedWorkspace, ProvisionPersonalWorkspace, require_active_workspace).
THEOREM WorkspacesCorrect == WorkspaceSpec => WorkspacesSafe
<1>1. WorkspaceInit => WorkspaceInv
  <2> SUFFICES ASSUME WorkspaceInit PROVE WorkspaceInv
    OBVIOUS
  <2>1. WorkspaceTypes
    BY WorkspaceConstants DEF WorkspaceInit, WorkspaceTypes, WorkspaceRow, SessionRecord, TxRecord, NoSession, NoTx
  <2>2. Alone /\ Decided /\ Admitted
    BY WorkspaceConstants DEF WorkspaceInit, Alone, alone, Decided, decided, Admitted, SessionPC, Deciding, NoSession, NoTx, Ids
  <2>3. Kept
    BY DEF WorkspaceInit, Kept, ClosedIsQuiet, DefaultStaysActive, Closed, Exists
  <2> QED
    BY <2>1, <2>2, <2>3 DEF WorkspaceInv
<1>2. WorkspaceInv => WorkspaceTypeOK /\ ClosedIsQuiet /\ DefaultStaysActive /\ OnboardedOnce
  <2> SUFFICES ASSUME WorkspaceInv PROVE WorkspaceTypeOK /\ OnboardedOnce
    BY DEF WorkspaceInv, Kept
  <2>1. WorkspaceTypeOK
    BY DEF WorkspaceInv, WorkspaceTypes, WorkspaceTypeOK, WorkspaceRow, SessionRecord, TxRecord, NoSession, NoTx, SessionPC
  <2>2. OnboardedOnce
    BY DEF WorkspaceInv, Kept, OnboardedOnce
  <2> QED
    BY <2>1, <2>2
<1> QED
  BY <1>1, <1>2, WorkspaceInductive, ClosedStep, PTL DEF WorkspaceSpec, WorkspacesSafe
-----------------------------------------------------------------------------
\* Routing.  The inductive invariant says that all successful decisions of a Run name one
\* frozen route (Decided), that a Turn under way holds that decision and a route that meets
\* its needs in a process that has the credential (Serving), and that every request carries
\* the frozen identity of a decided route (Frozen).
Decisions == {events[i] : i \in DOMAIN events} \ {""}

DecidedOnce ==
  /\ \A a, b \in Decisions : a = b
  /\ Decisions \subseteq ids(frozen)

Serving ==
  turn # NoTurn =>
    /\ turn = [phase |-> turn.phase, need |-> turn.need, id |-> turn.id]
    /\ turn.phase \in {"decided", "overflow"} /\ turn.id \in Decisions
    /\ restoreModelRouteCatalog
    /\ turn.need.output \in Int /\ turn.need.input \in Int
    /\ exclusionReasons(Resolve(frozen, turn.id), turn.need) = {}
    /\ Strict => turn.need.format = "json_schema"

SentFrozen ==
  \A s \in routingSent :
    s.id \in Decisions /\ s = [id |-> s.id, model |-> Resolve(frozen, s.id).model, credential |-> Resolve(frozen, s.id).credential]

RouteNames == {""} \cup UNION {ids(f) : f \in RouteFiles}

RoutingTypes ==
  /\ installed \in RouteFiles /\ NewCatalog(installed)
  /\ frozen # {} => frozen \in RouteFiles /\ NewCatalog(frozen)
  /\ events \in Seq(RouteNames)

RoutingInv == RoutingTypes /\ DecidedOnce /\ Serving /\ SentFrozen

fewer == {ss \in Nat \X Nat : ss[1] < ss[2]}

\* Any finite set of comparable routes has a first one.
LEMMA BestRoute ==
  ASSUME NEW S, IsFiniteSet(S), S # {},
         \A d \in S : d.priority \in Int /\ d.order \in Int,
         \A d, e \in S : d.order = e.order => d = e
  PROVE  \E d \in S : \A e \in S \ {d} : precedes(d, e)
<1> DEFINE best(T) == \E d \in T : \A e \in T \ {d} : precedes(d, e)
           Counts == {n \in Nat : \E T \in SUBSET S : T # {} /\ Cardinality(T) = n /\ ~best(T)}
<1> SUFFICES ASSUME ~best(S) PROVE FALSE
  OBVIOUS
<1>1. Counts \subseteq Nat /\ Counts # {}
  BY FS_CardinalityType
<1>2. IsWellFoundedOn(fewer, Nat)
  BY NatLessThanWellFounded DEF OpToRel, fewer
<1> HIDE DEF Counts
<1>3. PICK n \in Counts : \A m \in Counts : ~(<<m, n>> \in fewer)
  BY <1>1, <1>2, WFMin
<1>4. PICK T \in SUBSET S : T # {} /\ Cardinality(T) = n /\ ~best(T)
  BY DEF Counts
<1>5. PICK x \in T : TRUE
  BY <1>4
<1>6. IsFiniteSet(T)
  BY FS_Subset
<1>7. /\ IsFiniteSet(T \ {x}) /\ Cardinality(T \ {x}) = n - 1
      /\ Cardinality(T \ {x}) \in Nat /\ n \in Nat
  <2>1. IsFiniteSet(T \ {x}) /\ Cardinality(T \ {x}) = Cardinality(T) - 1
    BY <1>5, <1>6, FS_RemoveElement
  <2>2. Cardinality(T \ {x}) \in Nat
    BY <2>1, FS_CardinalityType
  <2> QED
    BY <1>1, <1>4, <2>1, <2>2
<1>8. n - 1 \notin Counts
  <2>1. <<n - 1, n>> \in fewer
    BY <1>7 DEF fewer
  <2> QED
    BY <1>3, <2>1
<1>9. T \ {x} # {}
  <2> SUFFICES ASSUME T \ {x} = {} PROVE best(T)
    BY <1>4
  <2> QED
    BY <1>5
<1>10. best(T \ {x})
  <2> SUFFICES ASSUME ~best(T \ {x}) PROVE FALSE
    OBVIOUS
  <2>1. T \ {x} \in SUBSET S /\ n - 1 \in Nat
    BY <1>7
  <2> HIDE DEF best
  <2> QED
    BY <1>7, <1>8, <1>9, <2>1 DEF Counts
<1>11. PICK b \in T \ {x} : \A e \in (T \ {x}) \ {b} : precedes(b, e)
  BY <1>10
<1>12. \A d \in T : d.priority \in Int /\ d.order \in Int
  BY <1>4
<1>13. CASE precedes(b, x)
  <2>1. \A e \in T \ {b} : precedes(b, e)
    BY <1>11, <1>13
  <2> QED
    BY <1>4, <1>11, <2>1
<1>14. CASE ~precedes(b, x)
  <2>1. b.order # x.order
    BY <1>4, <1>5, <1>11
  <2>2. precedes(x, b)
    BY <1>5, <1>11, <1>12, <1>14, <2>1 DEF precedes
  <2>3. ASSUME NEW e \in T \ {x} PROVE precedes(x, e)
    <3>1. CASE e = b
      BY <2>2, <3>1
    <3>2. CASE e # b
      <4>1. precedes(b, e)
        BY <1>11, <2>3, <3>2
      <4> QED
        BY <1>5, <1>11, <1>12, <2>2, <2>3, <4>1 DEF precedes
    <3> QED
      BY <3>1, <3>2
  <2> QED
    BY <1>4, <1>5, <2>3
<1> QED
  BY <1>13, <1>14

\* An identity of a catalog resolves to the one route that has it.
LEMMA Resolves ==
  ASSUME NEW f, NewCatalog(f), NEW d \in f
  PROVE  Resolve(f, d.id) = d
  BY DEF NewCatalog, Resolve

\* What selectRoute returns: nothing, or a route that meets the needs and the affinity and
\* that no other such route precedes.
LEMMA Selected ==
  ASSUME NEW f \in RouteFiles, NewCatalog(f), NEW id, NEW need, selectRoute(f, id, need) # NoRoute
  PROVE  LET route == selectRoute(f, id, need)
         IN  /\ route \in f /\ route.id # "" /\ exclusionReasons(route, need) = {}
             /\ id # "" => route.id = id
             /\ \A e \in f \ {route} : exclusionReasons(e, need) = {} /\ (id # "" => e.id = id) => precedes(route, e)
<1> DEFINE S == {d \in f : exclusionReasons(d, need) = {} /\ (id # "" => d.id = id)}
<1>1. S # {}
  BY DEF selectRoute
<1>2. IsFiniteSet(S)
  BY RoutingAssumption, FS_Subset
<1>3. \A d \in S : d.priority \in Int /\ d.order \in Int
  BY RoutingAssumption
<1>4. \A d, e \in S : d.order = e.order => d = e
  BY RoutingAssumption DEF NewCatalog
<1>5. \E d \in S : \A e \in S \ {d} : precedes(d, e)
  <2> HIDE DEF S
  <2> QED
    BY <1>1, <1>2, <1>3, <1>4, BestRoute
<1>6. selectRoute(f, id, need) = CHOOSE d \in S : \A e \in S \ {d} : precedes(d, e)
  BY <1>1 DEF selectRoute
<1> DEFINE route == selectRoute(f, id, need)
<1>7. route \in S /\ \A e \in S \ {route} : precedes(route, e)
  <2> HIDE DEF S, route
  <2>1. route = CHOOSE d \in S : \A e \in S \ {d} : precedes(d, e)
    BY <1>6 DEF route
  <2> QED
    BY <1>5, <2>1
<1>8. \A d \in f : d.id # ""
  BY DEF NewCatalog, ValidateDescriptor
<1> QED
  BY <1>7, <1>8

\* Affinity: selectedModelRoute is the one decision, if there is any.
LEMMA Affinity ==
  ASSUME RoutingTypes, DecidedOnce
  PROVE  /\ Decisions = {} => selectedModelRoute = ""
         /\ Decisions # {} => selectedModelRoute \in Decisions /\ selectedModelRoute # ""
<1> DEFINE chosen == {i \in DOMAIN events : events[i] # ""}
<1>1. CASE chosen = {}
  <2>1. Decisions = {}
    BY <1>1 DEF Decisions
  <2>2. selectedModelRoute = ""
    BY <1>1 DEF selectedModelRoute
  <2> QED
    BY <2>1, <2>2
<1>2. CASE chosen # {}
  <2>1. chosen \subseteq Nat
    <3>1. events \in Seq(RouteNames)
      BY DEF RoutingTypes
    <3>2. DOMAIN events \subseteq Nat
      BY <3>1
    <3> QED
      BY <3>2
  <2>2. IsWellFoundedOn(fewer, Nat)
    BY NatLessThanWellFounded DEF OpToRel, fewer
  <2>3. selectedModelRoute = events[Min(chosen)]
    BY <1>2 DEF selectedModelRoute
  <2>4. Min(chosen) \in chosen
    <3> HIDE DEF chosen
    <3>1. PICK i \in chosen : \A k \in chosen : ~(<<k, i>> \in fewer)
      BY <1>2, <2>1, <2>2, WFMin
    <3>2. \A k \in chosen : k < i => <<k, i>> \in fewer
      BY <2>1 DEF fewer
    <3>3. \A k \in chosen : ~(k < i)
      BY <3>1, <3>2
    <3>4. \A k \in chosen : i <= k
      BY <2>1, <3>3
    <3> QED
      BY <3>4 DEF Min
  <2> QED
    BY <2>3, <2>4 DEF Decisions
<1> QED
  BY <1>1, <1>2

\* What a Turn asks for is a number of units, and the strict format under a strict contract.
LEMMA Needs ==
  ASSUME NEW t \in Turns
  PROVE  LET need == withContract(modelRequirements(t))
         IN  need.input \in Int /\ need.output \in Int /\ (Strict => need.format = "json_schema")
<1> DEFINE base == modelRequirements(t)
           maxInput == ContextWindow - OutputReserve - SafetyMargin
           asked == t.input + IF t.tools THEN SchemaTokens ELSE 0
<1>1. maxInput \in Int /\ asked \in Int
  BY RoutingAssumption
<1>2. Min({asked, maxInput}) \in Int
  <2>1. \E x \in {asked, maxInput} : \A y \in {asked, maxInput} : x <= y
    BY <1>1
  <2> QED
    BY <1>1, <2>1 DEF Min
<1>3. base.input \in Int
  <2>1. base.input = IF maxInput > 0 THEN Min({asked, maxInput}) ELSE asked
    BY DEF modelRequirements
  <2> HIDE DEF maxInput, asked, base
  <2> QED
    BY <1>1, <1>2, <2>1
<1>4. base.output = OutputReserve
  BY DEF modelRequirements
<1>5. CASE ~Strict
  <2>1. withContract(base) = base
    BY <1>5 DEF withContract
  <2> HIDE DEF base
  <2> QED
    BY <1>3, <1>4, <1>5, <2>1, RoutingAssumption DEF base
<1>6. CASE Strict
  <2> DEFINE need == withContract(base)
  <2>1. {"structured", "format", "input", "output"} \subseteq DOMAIN base
    BY DEF modelRequirements
  <2>2. need = [base EXCEPT !.structured = TRUE, !.format = "json_schema", !.input = @ + SafetyMargin + SchemaTokens]
    BY <1>6 DEF withContract
  <2> HIDE DEF base, need
  <2>3. need.format = "json_schema" /\ need.output = base.output /\ need.input = base.input + SafetyMargin + SchemaTokens
    BY <2>1, <2>2
  <2>4. need.input \in Int /\ need.output \in Int
    BY <1>3, <1>4, <2>3, RoutingAssumption
  <2> QED
    BY <2>3, <2>4 DEF need, base
<1> QED
  BY <1>5, <1>6

\* What is sent under a decision carries the frozen identity: the installed client has
\* the credential the route was frozen with.
LEMMA Identity ==
  ASSUME RoutingTypes, restoreModelRouteCatalog, NEW id \in ids(frozen)
  PROVE  WithRuntimeIdentity(id) =
           [id |-> id, model |-> Resolve(frozen, id).model, credential |-> Resolve(frozen, id).credential]
<1>1. PICK d \in frozen : d.id = id
  BY DEF ids
<1>2. Resolve(frozen, id) = d
  BY <1>1, Resolves DEF restoreModelRouteCatalog
<1>3. Resolve(installed, id).credential = d.credential
  BY <1>1 DEF restoreModelRouteCatalog
<1> QED
  BY <1>2, <1>3 DEF WithRuntimeIdentity

LEMMA CaptureKeeps ==
  ASSUME RoutingInv, captureModelRoutingSnapshot
  PROVE  RoutingInv'
<1>1. Decisions = {}
  BY DEF captureModelRoutingSnapshot, RoutingInv, DecidedOnce, ids
<1>2. turn = NoTurn /\ routingSent = {}
  BY <1>1 DEF RoutingInv, Serving, SentFrozen
<1>3. Decisions' = {} /\ turn' = NoTurn /\ routingSent' = {}
  BY <1>1, <1>2 DEF captureModelRoutingSnapshot, Decisions
<1>4. RoutingTypes'
  BY DEF captureModelRoutingSnapshot, RoutingInv, RoutingTypes, NewCatalog, ids
<1> QED
  BY <1>3, <1>4 DEF RoutingInv, DecidedOnce, Serving, SentFrozen

LEMMA SelectKeeps ==
  ASSUME RoutingInv, NEW t \in Turns, selectModelRoute(t)
  PROVE  RoutingInv'
<1> DEFINE need == withContract(modelRequirements(t))
           route == selectRoute(frozen, selectedModelRoute, need)
<1>1. restoreModelRouteCatalog /\ UNCHANGED <<installed, frozen, routingSent>>
  BY DEF selectModelRoute
<1>2. restoreModelRouteCatalog' /\ \A id : Resolve(frozen, id)' = Resolve(frozen, id)
  BY <1>1 DEF restoreModelRouteCatalog, ids, Resolve
<1>3. frozen \in RouteFiles /\ NewCatalog(frozen)
  BY <1>1 DEF restoreModelRouteCatalog, RoutingInv, RoutingTypes
<1>4. CASE UNCHANGED <<events, turn>>
  <2>1. RoutingTypes' /\ Decisions' = Decisions /\ ids(frozen)' = ids(frozen)
    BY <1>1, <1>4 DEF RoutingInv, RoutingTypes, NewCatalog, Decisions, ids
  <2>2. Serving'
    BY <1>1, <1>2, <1>4, <2>1 DEF RoutingInv, Serving, Resolve, exclusionReasons
  <2> QED
    BY <1>1, <2>1, <2>2 DEF RoutingInv, DecidedOnce, SentFrozen, Resolve
<1>5. CASE /\ events' = Append(events, route.id)
           /\ turn' = IF route = NoRoute THEN NoTurn ELSE [phase |-> "decided", need |-> need, id |-> route.id]
  <2>1. route = NoRoute \/ (route \in frozen /\ route.id # "" /\ exclusionReasons(route, need) = {}
                            /\ (selectedModelRoute # "" => route.id = selectedModelRoute))
    BY <1>3, Selected
  <2>2. need.input \in Int /\ need.output \in Int /\ (Strict => need.format = "json_schema")
    BY Needs
  <2> HIDE DEF need, route
  <2>3. route = NoRoute => route.id = ""
    <3>1. NoRoute.id = ""
      BY DEF NoRoute
    <3> QED
      BY <3>1
  <2>4. route # NoRoute => route.id \in ids(frozen) /\ Resolve(frozen, route.id) = route
    BY <1>3, <2>1, Resolves DEF ids
  <2>5. route.id \in RouteNames
    BY <1>3, <2>3, <2>4 DEF RouteNames
  <2>6. RoutingTypes'
    <3>1. events \in Seq(RouteNames)
      BY DEF RoutingInv, RoutingTypes
    <3>2. events' \in Seq(RouteNames)
      BY <1>5, <2>5, <3>1
    <3> QED
      BY <1>1, <3>2 DEF RoutingInv, RoutingTypes, NewCatalog
  <2>7. Decisions' = (Decisions \cup {route.id}) \ {""}
    <3>1. events \in Seq(RouteNames)
      BY DEF RoutingInv, RoutingTypes
    <3>2. /\ DOMAIN events' = DOMAIN events \cup {Len(events) + 1}
          /\ \A i \in DOMAIN events : events'[i] = events[i]
          /\ events'[Len(events) + 1] = route.id
      BY <1>5, <2>5, <3>1
    <3> QED
      BY <3>2 DEF Decisions
  <2>8. DecidedOnce'
    <3>1. \A a \in Decisions : route # NoRoute => a = route.id
      BY <2>1, Affinity DEF RoutingInv, DecidedOnce
    <3>2. \A a, b \in Decisions' : a = b
      BY <2>3, <2>7, <3>1 DEF RoutingInv, DecidedOnce
    <3>3. Decisions' \subseteq ids(frozen)'
      BY <1>1, <2>3, <2>4, <2>7 DEF RoutingInv, DecidedOnce, ids
    <3> QED
      BY <3>2, <3>3 DEF DecidedOnce
  <2>9. SentFrozen'
    <3>1. Decisions \subseteq Decisions'
      BY <2>7 DEF Decisions
    <3> QED
      BY <1>1, <3>1 DEF RoutingInv, SentFrozen, Resolve
  <2>10. Serving'
    <3>1. CASE route = NoRoute
      BY <1>5, <3>1 DEF Serving
    <3>2. CASE route # NoRoute
      <4>1. turn' = [phase |-> "decided", need |-> need, id |-> route.id]
        BY <1>5, <3>2
      <4>2. turn'.phase = "decided" /\ turn'.need = need /\ turn'.id = route.id
        BY <4>1
      <4>3. turn'.id \in Decisions'
        BY <2>1, <2>7, <3>2, <4>2
      <4>4. exclusionReasons(Resolve(frozen, turn.id), turn.need)' = {}
        <5>1. Resolve(frozen, turn.id)' = route
          BY <1>1, <2>4, <3>2, <4>2 DEF Resolve
        <5>2. exclusionReasons(Resolve(frozen, turn.id), turn.need)' = exclusionReasons(route, need)
          BY <4>2, <5>1 DEF exclusionReasons
        <5> QED
          BY <2>1, <3>2, <5>2
      <4> QED
        BY <1>2, <2>2, <4>1, <4>2, <4>3, <4>4 DEF Serving
    <3> QED
      BY <3>1, <3>2
  <2> QED
    BY <2>6, <2>8, <2>9, <2>10 DEF RoutingInv
<1> QED
  BY <1>4, <1>5 DEF selectModelRoute

LEMMA SendKeeps ==
  ASSUME RoutingInv, Execute \/ CompactAndRetry \/ ModelClientForRun
  PROVE  RoutingInv'
<1>1. UNCHANGED <<installed, frozen, events>>
  BY DEF Execute, CompactAndRetry, ModelClientForRun
<1>2. PICK id \in Decisions : restoreModelRouteCatalog /\ routingSent' = routingSent \cup {WithRuntimeIdentity(id)}
  <2>1. CASE Execute \/ CompactAndRetry
    BY <2>1 DEF Execute, CompactAndRetry, RoutingInv, Serving
  <2>2. CASE ModelClientForRun
    <3>1. selectedModelRoute \in Decisions
      BY <2>2, Affinity DEF ModelClientForRun, RoutingInv
    <3> QED
      BY <2>2, <3>1 DEF ModelClientForRun
  <2> QED
    BY <2>1, <2>2
<1>3. /\ Decisions' = Decisions /\ restoreModelRouteCatalog' /\ RoutingTypes'
      /\ \A x : Resolve(frozen, x)' = Resolve(frozen, x)
  <2>1. Decisions' = Decisions /\ RoutingTypes'
    BY <1>1 DEF Decisions, RoutingInv, RoutingTypes, NewCatalog
  <2>2. restoreModelRouteCatalog'
    BY <1>1, <1>2 DEF restoreModelRouteCatalog, NewCatalog, ids, Resolve
  <2>3. \A x : Resolve(frozen, x)' = Resolve(frozen, x)
    BY <1>1 DEF Resolve
  <2> QED
    BY <2>1, <2>2, <2>3
<1>4. DecidedOnce'
  BY <1>1, <1>3 DEF RoutingInv, DecidedOnce, ids
<1>5. SentFrozen'
  <2>1. id \in ids(frozen)
    BY DEF RoutingInv, DecidedOnce
  <2> DEFINE s == WithRuntimeIdentity(id)
  <2>2. s = [id |-> id, model |-> Resolve(frozen, id).model, credential |-> Resolve(frozen, id).credential]
    BY <1>2, <2>1, Identity DEF RoutingInv
  <2>3. s.id = id
    BY <2>2
  <2>4. \A x \in routingSent' : x.id \in Decisions /\
          x = [id |-> x.id, model |-> Resolve(frozen, x.id).model, credential |-> Resolve(frozen, x.id).credential]
    BY <1>2, <2>2, <2>3 DEF RoutingInv, SentFrozen
  <2> QED
    BY <1>1, <1>3, <2>4 DEF SentFrozen, Resolve
<1>6. Serving'
  <2>1. turn' = NoTurn \/ (turn # NoTurn /\ turn' = [phase |-> turn'.phase, need |-> turn.need, id |-> turn.id] /\ turn'.phase \in {"decided", "overflow"})
    <3>1. CASE turn' = turn
      BY <3>1 DEF RoutingInv, Serving
    <3>2. CASE Execute /\ turn' = [turn EXCEPT !.phase = "overflow"]
      <4>1. turn # NoTurn /\ turn = [phase |-> turn.phase, need |-> turn.need, id |-> turn.id]
        BY <3>2 DEF Execute, RoutingInv, Serving
      <4>2. turn' = [phase |-> "overflow", need |-> turn.need, id |-> turn.id]
        BY <3>2, <4>1
      <4> QED
        BY <4>1, <4>2
    <3> QED
      BY <3>1, <3>2 DEF Execute, CompactAndRetry, ModelClientForRun
  <2>2. CASE turn' = NoTurn
    BY <2>2 DEF Serving
  <2>3. CASE turn # NoTurn /\ turn' = [phase |-> turn'.phase, need |-> turn.need, id |-> turn.id] /\ turn'.phase \in {"decided", "overflow"}
    <3>1. turn'.need = turn.need /\ turn'.id = turn.id
      BY <2>3
    <3>2. exclusionReasons(Resolve(frozen, turn.id), turn.need)' = exclusionReasons(Resolve(frozen, turn.id), turn.need)
      BY <1>1, <3>1 DEF exclusionReasons, Resolve
    <3> QED
      BY <1>3, <2>3, <3>1, <3>2 DEF RoutingInv, Serving
  <2> QED
    BY <2>1, <2>2, <2>3
<1> QED
  BY <1>3, <1>4, <1>5, <1>6 DEF RoutingInv

LEMMA RoutingInductive == RoutingInv /\ [RoutingNext]_routingVars => RoutingInv'
<1> SUFFICES ASSUME RoutingInv, [RoutingNext]_routingVars PROVE RoutingInv'
  OBVIOUS
<1>1. CASE captureModelRoutingSnapshot
  BY <1>1, CaptureKeeps
<1>2. CASE \E t \in Turns : selectModelRoute(t)
  BY <1>2, SelectKeeps
<1>3. CASE Execute \/ CompactAndRetry \/ ModelClientForRun
  BY <1>3, SendKeeps
<1>4. CASE Restart
  <2>1. RoutingTypes' /\ turn' = NoTurn
    BY <1>4 DEF Restart, RoutingInv, RoutingTypes, NewCatalog
  <2>2. Decisions' = Decisions /\ UNCHANGED <<frozen, routingSent>>
    BY <1>4 DEF Restart, Decisions
  <2> QED
    BY <2>1, <2>2 DEF RoutingInv, DecidedOnce, Serving, SentFrozen, Resolve, ids
<1>5. CASE UNCHANGED routingVars
  <2>1. UNCHANGED <<installed, frozen, events, turn, routingSent>>
    BY <1>5 DEF routingVars
  <2>2. RoutingTypes' /\ Decisions' = Decisions
    BY <2>1 DEF RoutingInv, RoutingTypes, NewCatalog, Decisions
  <2>3. Serving'
    <3>1. exclusionReasons(Resolve(frozen, turn.id), turn.need)' = exclusionReasons(Resolve(frozen, turn.id), turn.need)
      BY <2>1 DEF exclusionReasons, Resolve
    <3>2. restoreModelRouteCatalog => restoreModelRouteCatalog'
      BY <2>1 DEF restoreModelRouteCatalog, NewCatalog, ids, Resolve
    <3> QED
      BY <2>1, <2>2, <3>1, <3>2 DEF RoutingInv, Serving
  <2> QED
    BY <2>1, <2>2, <2>3 DEF RoutingInv, DecidedOnce, SentFrozen, Resolve, ids
<1> QED
  BY <1>1, <1>2, <1>3, <1>4, <1>5 DEF RoutingNext

\* A Turn under way goes to a route that meets its needs (exclusionReasons).
LEMMA FitsStep == RoutingInv => sentTurnsFit
<1> SUFFICES ASSUME RoutingInv, turn # NoTurn
             PROVE  LET d == Resolve(frozen, turn.id)
                        n == turn.need
                    IN  /\ n.tools => d.tools
                        /\ n.streaming => d.streaming
                        /\ n.structured => d.structured
                        /\ Strict => d.format = "json_schema"
                        /\ n.output <= d.output /\ n.input + n.output <= d.window
  BY DEF sentTurnsFit
<1> DEFINE d == Resolve(frozen, turn.id)
           n == turn.need
<1>1. exclusionReasons(d, n) = {}
  BY DEF RoutingInv, Serving
<1>2. n.output \in Int /\ n.input \in Int /\ (Strict => n.format = "json_schema")
  BY DEF RoutingInv, Serving
<1>3. d.output \in Int /\ d.window \in Int
  <2>1. turn.id \in ids(frozen) /\ frozen \in RouteFiles /\ NewCatalog(frozen)
    BY DEF RoutingInv, DecidedOnce, Serving, RoutingTypes, restoreModelRouteCatalog
  <2>2. PICK e \in frozen : e.id = turn.id
    BY <2>1 DEF ids
  <2>3. d = e
    BY <2>1, <2>2, Resolves
  <2> QED
    BY <2>1, <2>2, <2>3, RoutingAssumption
<1> HIDE DEF d, n
<1>4. (n.tools => d.tools) /\ (n.streaming => d.streaming) /\ (n.structured => d.structured)
  <2>1. "tool_calling" \notin exclusionReasons(d, n) /\ "streaming" \notin exclusionReasons(d, n)
        /\ "structured_output" \notin exclusionReasons(d, n)
    BY <1>1
  <2> QED
    BY <2>1 DEF exclusionReasons
<1>5. n.format # "" => d.format = n.format
  <2>1. "format" \notin exclusionReasons(d, n)
    BY <1>1
  <2> QED
    BY <2>1 DEF exclusionReasons
<1>6. ~(n.output > d.output) /\ ~(n.input + n.output > d.window)
  <2>1. "output_limit" \notin exclusionReasons(d, n) /\ "context_window" \notin exclusionReasons(d, n)
    BY <1>1
  <2> QED
    BY <2>1 DEF exclusionReasons
<1>7. n.output <= d.output /\ n.input + n.output <= d.window
  BY <1>2, <1>3, <1>6
<1> QED
  BY <1>2, <1>4, <1>5, <1>7 DEF d, n

\* A route of lower priority is another one and does not precede.
LEMMA Outranked ==
  ASSUME NEW a, NEW b, a.priority \in Int, b.priority \in Int, b.priority > a.priority
  PROVE  a # b /\ ~precedes(a, b)
  BY DEF precedes

\* The first decision takes a route that no compatible frozen route outranks (precedes).
LEMMA BestStep == RoutingInv /\ [RoutingNext]_routingVars => firstDecisionIsBest
<1> SUFFICES ASSUME RoutingInv, [RoutingNext]_routingVars, turn = NoTurn, turn' # NoTurn,
                    \A i \in DOMAIN events : events[i] = "",
                    NEW d \in frozen, d.priority > Resolve(frozen, turn'.id).priority,
                    exclusionReasons(d, turn'.need) = {}
             PROVE  FALSE
  BY DEF firstDecisionIsBest
<1>1. PICK t \in Turns : selectModelRoute(t)
  BY DEF RoutingNext, routingVars, captureModelRoutingSnapshot, Execute, CompactAndRetry, ModelClientForRun, Restart
<1> DEFINE need == withContract(modelRequirements(t))
           route == selectRoute(frozen, selectedModelRoute, need)
<1>2. frozen \in RouteFiles /\ NewCatalog(frozen)
  BY <1>1 DEF selectModelRoute, restoreModelRouteCatalog, RoutingInv, RoutingTypes
<1>3. selectedModelRoute = ""
  <2>1. Decisions = {}
    BY DEF Decisions
  <2> QED
    BY <2>1, Affinity DEF RoutingInv
<1>4. route # NoRoute /\ turn' = [phase |-> "decided", need |-> need, id |-> route.id]
  BY <1>1 DEF selectModelRoute
<1>5. route \in frozen /\ \A e \in frozen \ {route} : exclusionReasons(e, need) = {} => precedes(route, e)
  <2>1. LET r == selectRoute(frozen, selectedModelRoute, need)
        IN  r \in frozen /\ \A e \in frozen \ {r} :
              exclusionReasons(e, need) = {} /\ (selectedModelRoute # "" => e.id = selectedModelRoute) => precedes(r, e)
    BY <1>2, <1>4, Selected
  <2> HIDE DEF need, route
  <2>2. route \in frozen /\ \A e \in frozen \ {route} :
          exclusionReasons(e, need) = {} /\ (selectedModelRoute # "" => e.id = selectedModelRoute) => precedes(route, e)
    BY <2>1 DEF route
  <2> QED
    BY <1>3, <2>2
<1> HIDE DEF need, route
<1>6. turn'.id = route.id /\ turn'.need = need
  BY <1>4
<1>7. Resolve(frozen, route.id) = route
  BY <1>2, <1>5, Resolves
<1>8. d.priority > route.priority
  BY <1>6, <1>7
<1>9. d.priority \in Int /\ route.priority \in Int
  BY <1>2, <1>5, RoutingAssumption
<1>10. d # route
  BY <1>8, <1>9, Outranked
<1>11. precedes(route, d)
  BY <1>5, <1>6, <1>10
<1> QED
  BY <1>8, <1>9, <1>11, Outranked

\* Whatever Turns a Run takes, over failed decisions, restarts and other route files, for any
\* routes: all its requests go to one model under the frozen credential, a Turn goes to a route
\* that can serve it, and the first decision is the best one (selectModelRoute,
\* restoreModelRouteCatalog, ModelClientForRun).
THEOREM RoutingCorrect == RoutingSpec => RoutingSafe
<1>1. RoutingInit => RoutingInv
  <2> SUFFICES ASSUME RoutingInit PROVE RoutingInv
    OBVIOUS
  <2>1. events \in Seq(RouteNames)
    BY DEF RoutingInit
  <2>2. Decisions = {}
    BY DEF RoutingInit, Decisions
  <2> QED
    BY <2>1, <2>2 DEF RoutingInit, RoutingInv, RoutingTypes, DecidedOnce, Serving, SentFrozen
<1>2. RoutingInv => OneModelPerRun
  <2> SUFFICES ASSUME RoutingInv PROVE OneModelPerRun
    OBVIOUS
  <2>1. \A r, s \in routingSent : r = s
    BY DEF RoutingInv, SentFrozen, DecidedOnce
  <2>2. Cardinality(routingSent) <= 1
    <3>1. CASE routingSent = {}
      BY <3>1, FS_EmptySet
    <3>2. CASE routingSent # {}
      <4>1. PICK s \in routingSent : TRUE
        BY <3>2
      <4>2. routingSent = {s}
        BY <2>1, <4>1
      <4> QED
        BY <4>2, FS_Singleton
    <3> QED
      BY <3>1, <3>2
  <2>3. ASSUME NEW s \in routingSent
        PROVE  \E d \in frozen : s.id = d.id /\ s.model = d.model /\ s.credential = d.credential
    <3>1. s.id \in ids(frozen)
      BY DEF RoutingInv, SentFrozen, DecidedOnce
    <3>2. PICK d \in frozen : d.id = s.id
      BY <3>1 DEF ids
    <3>3. Resolve(frozen, s.id) = d
      BY <3>2, Resolves DEF RoutingInv, RoutingTypes
    <3>4. s = [id |-> s.id, model |-> d.model, credential |-> d.credential]
      BY <3>3 DEF RoutingInv, SentFrozen
    <3> QED
      BY <3>2, <3>4
  <2> QED
    BY <2>2, <2>3 DEF OneModelPerRun
<1>3. RoutingInv /\ [RoutingNext]_routingVars => sentTurnsFit /\ firstDecisionIsBest
  BY FitsStep, BestStep
<1> QED
  BY <1>1, <1>2, <1>3, RoutingInductive, PTL DEF RoutingSpec, RoutingSafe

----------------------------------------------------------------------------
(* The autonomous loop.  Recounted says of the Stages what every way back    *)
(* into the loop relies on, Underway of the Stage in flight or suspended,    *)
(* Progressing where the loop stands: which Stages of the iteration it has   *)
(* passed, and that the output counter covers exactly those and, at most     *)
(* twice, the questions, answers and notes.                                  *)
AutoRecord ==
  [role : loopRoles \cup {"final", "human_input", "recovery"}, iter : Nat,
   status : {"running", "completed", "failed"}, out : {0, 1}]

places == {"top"} \cup loopRoles \cup {"decided"}

AutoTypes ==
  /\ steps \in Seq(AutoRecord)
  /\ loop \in [pc : places \cup {"off", "asked", "final", "emit", "resumed"}, iter : Nat, chars : Nat, step : Nat, key : Nat]
  /\ loop.pc = "off" => loop = Off
  /\ loop.pc # "off" => autoRun \in {"running", "canceling"}

\* Only completed Stages of the loop have output.
Recounted == \A n \in DOMAIN steps : steps[n].role \in loopRoles \cup {"final"} => (steps[n].out = 1 <=> done(n))

rankOf == [top |-> 0, observe |-> 1, plan |-> 2, act |-> 3, review |-> 4, decide |-> 5, decided |-> 6]

\* The Stages of iteration it before place p are completed.
passedBefore(it, p) ==
  \A q \in loopRoles : rankOf[q] < rankOf[p] => \E m \in work : steps[m].role = q /\ steps[m].iter = it

unfinished(it, role) == \A m \in work : ~(steps[m].role = role /\ steps[m].iter = it)

newestIteration(it) == \A m \in work : steps[m].iter <= it

last == steps[Len(steps)]

ActOpen ==
  /\ last.role = "act" /\ last.iter \in 1..MaxIterations /\ newestIteration(last.iter)
  /\ passedBefore(last.iter, "act") /\ unfinished(last.iter, "act")

Underway ==
  /\ loop.step # 0 =>
       /\ loop.step = Len(steps) /\ last.status = "running"
       /\ \/ /\ loop.pc \in loopRoles \cup {"final"} /\ last.role = loop.pc /\ last.iter = loop.iter
             /\ loop.pc = "final" => Contracted
          \/ loop.pc = "asked" /\ last.role = "human_input"
          \/ loop.pc = "resumed" /\ ActOpen
  /\ loop.pc \in {"asked", "resumed"} => loop.step # 0
  /\ loop.pc = "asked" => ~limitReached(loop.chars)
  /\ autoRun = "waiting" /\ autoPending = "human" => steps # <<>> /\ last.role = "human_input" /\ ~limitReached(0)
  /\ autoRun = "waiting" /\ autoPending = "tool" => steps # <<>> /\ last.status = "running" /\ ActOpen

\* The completed Stages the loop has counted.
passed ==
  {n \in work : steps[n].iter < loop.iter \/ (steps[n].iter = loop.iter /\ rankOf[steps[n].role] < rankOf[loop.pc])}

finals == {n \in DOMAIN steps : steps[n].role = "final"}

Progressing ==
  loop.pc \in places =>
    /\ loop.iter >= 1 /\ loop.key <= loop.iter /\ newestIteration(loop.iter)
    /\ loop.pc # "top" => loop.iter <= MaxIterations
    /\ passedBefore(loop.iter, loop.pc)
    /\ loop.key # loop.iter => \A m \in work : steps[m].iter = loop.iter => rankOf[steps[m].role] < rankOf[loop.pc]
    /\ loop.step # 0 => unfinished(loop.iter, loop.pc)
    /\ Cardinality(passed) <= loop.chars
    /\ loop.chars <= Cardinality(passed) + 2 * Cardinality(human) + Cardinality(finals)

AutoInv == AutoTypes /\ Recounted /\ Underway /\ Progressing /\ IterationsRunOnce /\ IterationsAdvance

\* The output of a set of Stages is the number of those that have output.
LEMMA WrittenCounts ==
  ASSUME NEW ss, NEW S, IsFiniteSet(S), \A n \in S : ss[n].out \in {0, 1}
  PROVE  written(ss, S) = Cardinality({n \in S : ss[n].out = 1})
<1> DEFINE pick(s) == CHOOSE x \in s : TRUE
           adds(h) == h = [s \in SUBSET S |-> IF s = {} THEN 0 ELSE ss[pick(s)].out + h[s \ {pick(s)}]]
           with(s) == {n \in s : ss[n].out = 1}
           counts == [s \in SUBSET S |-> Cardinality(with(s))]
           g == CHOOSE h : adds(h)
<1>1. written(ss, S) = g[S]
  BY DEF written, MapThenSumSet, MapThenFoldSet
<1>2. \A s \in SUBSET S : s # {} => pick(s) \in s
  OBVIOUS
<1>3. \A s \in SUBSET S : IsFiniteSet(s) /\ IsFiniteSet(with(s)) /\ Cardinality(with(s)) \in Nat
  BY FS_Subset, FS_CardinalityType
<1>4. \A s \in SUBSET S : \A x \in s : Cardinality(with(s)) = ss[x].out + Cardinality(with(s \ {x}))
  <2> TAKE s \in SUBSET S
  <2> TAKE x \in s
  <2>1. IsFiniteSet(with(s \ {x})) /\ Cardinality(with(s \ {x})) \in Nat
    BY <1>3
  <2>2. CASE ss[x].out = 1
    <3>1. with(s) = with(s \ {x}) \cup {x} /\ x \notin with(s \ {x})
      BY <2>2
    <3> DEFINE W == with(s \ {x})
               V == with(s)
    <3>2. IsFiniteSet(W) /\ Cardinality(W) \in Nat /\ x \notin W /\ V = W \cup {x}
      BY <2>1, <3>1
    <3> HIDE DEF W, V
    <3>3. Cardinality(W \cup {x}) = Cardinality(W) + 1
      BY <3>2, FS_AddElement
    <3>4. Cardinality(V) = 1 + Cardinality(W)
      BY <3>2, <3>3
    <3> QED BY <2>2, <3>4 DEF W, V
  <2>3. CASE ss[x].out = 0
    <3>1. with(s) = with(s \ {x})
      BY <2>3
    <3> HIDE DEF with
    <3> QED BY <2>1, <2>3, <3>1
  <2>4. ss[x].out \in {0, 1}
    OBVIOUS
  <2> HIDE DEF with
  <2> QED BY <2>2, <2>3, <2>4
<1>5. with({}) = {}
  OBVIOUS
<1> HIDE DEF with, pick
<1>6. adds(counts)
  <2>1. \A s \in SUBSET S : counts[s] = IF s = {} THEN 0 ELSE ss[pick(s)].out + counts[s \ {pick(s)}]
    <3> TAKE s \in SUBSET S
    <3>1. CASE s = {}
      BY <1>5, <3>1, FS_EmptySet
    <3>2. CASE s # {}
      BY <1>2, <1>4, <3>2
    <3> QED BY <3>1, <3>2
  <2> HIDE DEF counts
  <2>2. counts = [s \in SUBSET S |-> counts[s]]
    BY DEF counts
  <2> QED BY <2>1, <2>2
<1> HIDE DEF counts
<1>7. adds(g)
  BY <1>6
<1> HIDE DEF g
<1>8. \A s \in SUBSET S : g[s] = Cardinality(with(s))
  <2> DEFINE Counts == {n \in Nat : \E s \in SUBSET S : Cardinality(s) = n /\ g[s] # Cardinality(with(s))}
  <2> SUFFICES ASSUME NEW r \in SUBSET S, g[r] # Cardinality(with(r)) PROVE FALSE
    OBVIOUS
  <2>1. Counts \subseteq Nat /\ Counts # {}
    BY <1>3, FS_CardinalityType
  <2>2. IsWellFoundedOn(fewer, Nat)
    BY NatLessThanWellFounded DEF OpToRel, fewer
  <2> HIDE DEF Counts
  <2>3. PICK n \in Counts : \A m \in Counts : ~(<<m, n>> \in fewer)
    BY <2>1, <2>2, WFMin
  <2>4. PICK s \in SUBSET S : Cardinality(s) = n /\ g[s] # Cardinality(with(s))
    BY DEF Counts
  <2>5. s # {}
    <3>1. g[{}] = 0
      BY <1>7
    <3> QED BY <1>5, <2>4, <3>1, FS_EmptySet
  <2> DEFINE x == pick(s)
  <2>6. x \in s
    BY <1>2, <2>5
  <2>7. IsFiniteSet(s) /\ n \in Nat /\ n # 0 /\ Cardinality(s \ {x}) = n - 1
    BY <1>3, <2>1, <2>4, <2>5, <2>6, FS_RemoveElement, FS_EmptySet
  <2>8. n - 1 \notin Counts
    <3>1. n - 1 \in Nat /\ n - 1 < n
      BY <2>7
    <3>2. <<n - 1, n>> \in fewer
      BY <2>7, <3>1 DEF fewer
    <3> QED BY <2>3, <3>2
  <2>9. g[s \ {x}] = Cardinality(with(s \ {x}))
    BY <2>7, <2>8 DEF Counts
  <2>10. g[s] = ss[x].out + g[s \ {x}]
    BY <1>7, <2>5
  <2> QED BY <1>4, <2>4, <2>6, <2>9, <2>10
<1> QED BY <1>1, <1>8 DEF with

LEMMA StagesFinite ==
  ASSUME AutoTypes
  PROVE  /\ Len(steps) \in Nat /\ DOMAIN steps = 1..Len(steps) /\ IsFiniteSet(DOMAIN steps)
         /\ \A n \in DOMAIN steps : steps[n] \in AutoRecord
<1>1. steps \in Seq(AutoRecord)
  BY DEF AutoTypes
<1> HIDE DEF AutoRecord
<1>2. Len(steps) \in Nat /\ DOMAIN steps = 1..Len(steps) /\ \A n \in DOMAIN steps : steps[n] \in AutoRecord
  BY <1>1
<1>3. IsFiniteSet(1..Len(steps))
  BY <1>2, FS_Interval
<1> QED BY <1>2, <1>3

LEMMA StageFields ==
  ASSUME AutoTypes, NEW n \in DOMAIN steps
  PROVE  /\ steps[n] = [role |-> steps[n].role, iter |-> steps[n].iter, status |-> steps[n].status, out |-> steps[n].out]
         /\ steps[n].role \in loopRoles \cup {"final", "human_input", "recovery"} /\ steps[n].iter \in Nat
         /\ steps[n].status \in {"running", "completed", "failed"} /\ steps[n].out \in {0, 1}
<1>1. steps[n] \in AutoRecord
  BY StagesFinite
<1> QED BY <1>1 DEF AutoRecord

LEMMA LoopRoles == loopRoles = {"observe", "plan", "act", "review", "decide"}
<1>1. DOMAIN Order = 1..5
  BY DEF Order
<1>2. Order[1] = "observe" /\ Order[2] = "plan" /\ Order[3] = "act" /\ Order[4] = "review" /\ Order[5] = "decide"
  BY DEF Order
<1>3. 1..5 = {1, 2, 3, 4, 5}
  OBVIOUS
<1> QED BY <1>1, <1>2, <1>3 DEF loopRoles

LEMMA Ranks ==
  /\ rankOf["top"] = 0 /\ rankOf["observe"] = 1 /\ rankOf["plan"] = 2 /\ rankOf["act"] = 3
  /\ rankOf["review"] = 4 /\ rankOf["decide"] = 5 /\ rankOf["decided"] = 6
  BY DEF rankOf

\* A role is in its place of the order.
LEMMA Places == \A i \in 1..5 : Order[i] \in loopRoles /\ rankOf[Order[i]] = i
<1>1. Order[1] = "observe" /\ Order[2] = "plan" /\ Order[3] = "act" /\ Order[4] = "review" /\ Order[5] = "decide"
  BY DEF Order
<1>2. 1..5 = {1, 2, 3, 4, 5}
  OBVIOUS
<1> QED BY <1>1, <1>2, Ranks, LoopRoles

LEMMA NextStage ==
  /\ after("final") = "emit"
  /\ \A p \in loopRoles : after(p) \in loopRoles \cup {"decided"} /\ rankOf[after(p)] = rankOf[p] + 1
<1>1. Order[1] = "observe" /\ Order[2] = "plan" /\ Order[3] = "act" /\ Order[4] = "review" /\ Order[5] = "decide"
  BY DEF Order
<1>2. 1..4 = {1, 2, 3, 4}
  OBVIOUS
<1>3. /\ (CHOOSE i \in 1..4 : Order[i] = "observe") = 1 /\ (CHOOSE i \in 1..4 : Order[i] = "plan") = 2
      /\ (CHOOSE i \in 1..4 : Order[i] = "act") = 3 /\ (CHOOSE i \in 1..4 : Order[i] = "review") = 4
  BY <1>1, <1>2
<1>4. after("observe") = "plan" /\ after("plan") = "act" /\ after("act") = "review" /\ after("review") = "decide" /\ after("decide") = "decided"
  BY <1>1, <1>3 DEF after
<1> QED BY <1>4, Ranks, LoopRoles DEF after

\* On a finite set a natural function takes its greatest value.
LEMMA GreatestAt ==
  ASSUME NEW S, IsFiniteSet(S), S # {}, NEW f \in [S -> Nat]
  PROVE  \E x \in S : \A y \in S : f[x] >= f[y]
<1> DEFINE most(T) == \E x \in T : \A y \in T : f[x] >= f[y]
           Counts == {n \in Nat : \E T \in SUBSET S : T # {} /\ Cardinality(T) = n /\ ~most(T)}
<1> SUFFICES ASSUME ~most(S) PROVE FALSE
  OBVIOUS
<1>1. Counts \subseteq Nat /\ Counts # {}
  BY FS_CardinalityType
<1>2. IsWellFoundedOn(fewer, Nat)
  BY NatLessThanWellFounded DEF OpToRel, fewer
<1> HIDE DEF Counts
<1>3. PICK n \in Counts : \A m \in Counts : ~(<<m, n>> \in fewer)
  BY <1>1, <1>2, WFMin
<1>4. PICK T \in SUBSET S : T # {} /\ Cardinality(T) = n /\ ~most(T)
  BY DEF Counts
<1>5. PICK x \in T : TRUE
  BY <1>4
<1> DEFINE U == T \ {x}
<1>6. IsFiniteSet(T)
  BY FS_Subset
<1>7. Cardinality(U) = n - 1 /\ n \in Nat /\ n # 0
  BY <1>1, <1>4, <1>5, <1>6, FS_RemoveElement, FS_EmptySet
<1>8. n - 1 \notin Counts /\ n - 1 \in Nat
  <2>1. n - 1 \in Nat /\ n - 1 < n
    BY <1>7
  <2>2. <<n - 1, n>> \in fewer
    BY <1>7, <2>1 DEF fewer
  <2> QED BY <1>3, <2>1, <2>2
<1>9. U \in SUBSET S /\ T = U \cup {x} /\ x \in S
  BY <1>5
<1> HIDE DEF U, most
<1>10. U = {} \/ most(U)
  BY <1>7, <1>8, <1>9 DEF Counts
<1>11. CASE U = {}
  <2>1. T = {x} /\ f[x] \in Nat
    BY <1>9, <1>11
  <2> QED BY <1>4, <2>1 DEF most
<1>12. CASE most(U)
  <2>1. PICK m \in U : \A y \in U : f[m] >= f[y]
    BY <1>12 DEF most
  <2>2. f[x] \in Nat /\ f[m] \in Nat /\ \A y \in U : f[y] \in Nat
    BY <1>9, <2>1
  <2>3. CASE f[m] >= f[x]
    BY <1>4, <1>9, <2>1, <2>3 DEF most
  <2>4. CASE f[x] >= f[m]
    <3>1. \A y \in T : f[x] >= f[y]
      BY <1>9, <2>1, <2>2, <2>4
    <3> QED BY <1>4, <1>5, <3>1 DEF most
  <2> QED BY <2>2, <2>3, <2>4
<1> QED BY <1>10, <1>11, <1>12

LEMMA GreatestOf ==
  ASSUME NEW S \in SUBSET Nat, IsFiniteSet(S), S # {}
  PROVE  Max(S) \in S /\ \A y \in S : y <= Max(S)
<1> DEFINE f == [x \in S |-> x]
<1>1. f \in [S -> Nat]
  OBVIOUS
<1>2. \E x \in S : \A y \in S : f[x] >= f[y]
  BY <1>1, GreatestAt
<1>3. \E x \in S : \A y \in S : x >= y
  BY <1>2
<1>4. Max(S) \in S /\ \A y \in S : Max(S) >= y
  BY <1>3 DEF Max
<1> QED BY <1>4

LEMMA MaxIterIsGreatest ==
  ASSUME AutoTypes, NEW S \in SUBSET DOMAIN steps
  PROVE  maxIter(steps, S) \in Nat /\ \A n \in S : steps[n].iter <= maxIter(steps, S)
<1> DEFINE T == {steps[n].iter : n \in S}
           f == [n \in S |-> steps[n].iter]
<1>1. CASE S = {}
  BY <1>1 DEF maxIter
<1>2. CASE S # {}
  <2>1. IsFiniteSet(S)
    BY StagesFinite, FS_Subset
  <2>2. f \in [S -> Nat]
    BY StageFields
  <2> HIDE DEF T
  <2>3. \E x \in S : \A y \in S : f[x] >= f[y]
    BY <1>2, <2>1, <2>2, GreatestAt
  <2>4. \E x \in T : \A y \in T : x >= y
    BY <2>3 DEF T
  <2>5. Max(T) \in T /\ \A y \in T : Max(T) >= y
    BY <2>4 DEF Max
  <2>6. maxIter(steps, S) = Max(T)
    BY <1>2 DEF maxIter, T
  <2>7. (\A n \in S : steps[n].iter \in T) /\ T \subseteq Nat
    BY StageFields DEF T
  <2> QED BY <2>5, <2>6, <2>7
<1> QED BY <1>1, <1>2

\* A new Stage.
LEMMA StageAppended ==
  ASSUME AutoTypes, NEW r \in AutoRecord, steps' = Append(steps, r)
  PROVE  /\ steps' \in Seq(AutoRecord) /\ Len(steps') = Len(steps) + 1 /\ DOMAIN steps' = 1..(Len(steps) + 1)
         /\ \A n \in DOMAIN steps : n \in DOMAIN steps' /\ steps'[n] = steps[n]
         /\ \A n \in DOMAIN steps' : n \in DOMAIN steps \/ n = Len(steps) + 1
         /\ steps'[Len(steps) + 1] = r /\ last' = r
<1>1. steps \in Seq(AutoRecord)
  BY DEF AutoTypes
<1> HIDE DEF AutoRecord
<1>2. steps' \in Seq(AutoRecord) /\ Len(steps') = Len(steps) + 1 /\ Len(steps) \in Nat
  BY <1>1
<1>3. DOMAIN steps' = 1..(Len(steps) + 1) /\ DOMAIN steps = 1..Len(steps)
  BY <1>1, <1>2
<1>4. \A n \in DOMAIN steps : n \in DOMAIN steps' /\ steps'[n] = steps[n]
  BY <1>1, <1>3
<1>5. steps'[Len(steps) + 1] = r
  BY <1>1
<1>6. \A n \in DOMAIN steps' : n \in DOMAIN steps \/ n = Len(steps) + 1
  BY <1>2, <1>3
<1> QED BY <1>2, <1>3, <1>4, <1>5, <1>6 DEF last

LEMMA SeqChanged ==
  ASSUME NEW S, NEW q \in Seq(S), NEW i \in DOMAIN q, NEW e \in S
  PROVE  [q EXCEPT ![i] = e] \in Seq(S) /\ Len([q EXCEPT ![i] = e]) = Len(q) /\ DOMAIN [q EXCEPT ![i] = e] = DOMAIN q
  OBVIOUS

\* A Stage gets another status and output.
LEMMA StageChanged ==
  ASSUME AutoTypes, NEW n \in DOMAIN steps, NEW s \in {"running", "completed", "failed"}, NEW o \in {0, 1},
         steps' = [steps EXCEPT ![n].status = s, ![n].out = o]
  PROVE  /\ steps' \in Seq(AutoRecord) /\ Len(steps') = Len(steps) /\ DOMAIN steps' = DOMAIN steps
         /\ \A m \in DOMAIN steps : m # n => steps'[m] = steps[m]
         /\ steps'[n].role = steps[n].role /\ steps'[n].iter = steps[n].iter /\ steps'[n].status = s /\ steps'[n].out = o
<1> DEFINE r == steps[n]
           new == [role |-> r.role, iter |-> r.iter, status |-> s, out |-> o]
           half == [role |-> r.role, iter |-> r.iter, status |-> s, out |-> r.out]
<1>1. r = [role |-> r.role, iter |-> r.iter, status |-> r.status, out |-> r.out]
  BY StageFields
<1>2. [r EXCEPT !.status = s] = half
  BY <1>1
<1>3. [half EXCEPT !.out = o] = new
  OBVIOUS
<1>4. steps' = [[steps EXCEPT ![n] = [steps[n] EXCEPT !.status = s]] EXCEPT ![n] = [@ EXCEPT !.out = o]]
  OBVIOUS
<1>5. steps' = [[steps EXCEPT ![n] = half] EXCEPT ![n] = [@ EXCEPT !.out = o]]
  BY <1>2, <1>4
<1> HIDE DEF half
<1>6. steps' = [steps EXCEPT ![n] = [half EXCEPT !.out = o]]
  BY <1>5
<1>7. new \in AutoRecord
  BY StageFields DEF AutoRecord
<1>8. new.role = r.role /\ new.iter = r.iter /\ new.status = s /\ new.out = o
  OBVIOUS
<1> HIDE DEF new
<1>9. steps \in Seq(AutoRecord) /\ steps' = [steps EXCEPT ![n] = new]
  BY <1>3, <1>6 DEF AutoTypes
<1>10. steps' \in Seq(AutoRecord) /\ Len(steps') = Len(steps) /\ DOMAIN steps' = DOMAIN steps
  <2>1. new \in AutoRecord /\ steps \in Seq(AutoRecord) /\ n \in DOMAIN steps
    BY <1>7, <1>9
  <2>2. [steps EXCEPT ![n] = new] \in Seq(AutoRecord) /\ Len([steps EXCEPT ![n] = new]) = Len(steps)
        /\ DOMAIN [steps EXCEPT ![n] = new] = DOMAIN steps
    BY <2>1, SeqChanged
  <2> QED BY <1>9, <2>2
<1>11. steps'[n] = new /\ \A m \in DOMAIN steps : m # n => steps'[m] = steps[m]
  BY <1>9
<1> QED BY <1>8, <1>10, <1>11

\* The completed Stages of the loop are the same ones.
SameWork == work' = work /\ \A m \in work : steps'[m].role = steps[m].role /\ steps'[m].iter = steps[m].iter

\* Every Stage is kept, in its place.
StagesKept == \A n \in DOMAIN steps : n \in DOMAIN steps' /\ steps'[n].role = steps[n].role /\ steps'[n].iter = steps[n].iter

LEMMA OnceKept == ASSUME SameWork, IterationsRunOnce PROVE IterationsRunOnce'
  BY DEF SameWork, IterationsRunOnce

LEMMA AdvanceKept ==
  ASSUME SameWork, StagesKept, IterationsAdvance,
         \A n \in DOMAIN steps' \ DOMAIN steps : steps'[n].role \in loopRoles => steps'[n].iter \in 1..MaxIterations /\ newestIteration(steps'[n].iter)
  PROVE  IterationsAdvance'
<1> SUFFICES ASSUME NEW n \in DOMAIN steps', steps'[n].role \in loopRoles
             PROVE  steps'[n].iter \in 1..MaxIterations /\ \A m \in work : m < n => steps'[m].iter <= steps'[n].iter
  BY DEF IterationsAdvance, SameWork
<1>1. CASE n \in DOMAIN steps
  BY <1>1 DEF IterationsAdvance, SameWork, StagesKept
<1>2. CASE n \notin DOMAIN steps
  BY <1>2 DEF newestIteration, SameWork
<1> QED BY <1>1, <1>2

LEMMA CountsFinite ==
  ASSUME AutoTypes
  PROVE  /\ IsFiniteSet(work) /\ IsFiniteSet(passed) /\ IsFiniteSet(human) /\ IsFiniteSet(finals)
         /\ {Cardinality(work), Cardinality(passed), Cardinality(human), Cardinality(finals)} \subseteq Nat
<1>1. IsFiniteSet(DOMAIN steps)
  BY StagesFinite
<1>2. work \in SUBSET DOMAIN steps /\ passed \in SUBSET DOMAIN steps /\ human \in SUBSET DOMAIN steps /\ finals \in SUBSET DOMAIN steps
  BY DEF work, passed, human, finals
<1>3. IsFiniteSet(work) /\ IsFiniteSet(passed) /\ IsFiniteSet(human) /\ IsFiniteSet(finals)
  BY <1>1, <1>2, FS_Subset
<1> QED BY <1>3, FS_CardinalityType

\* Questions, answers and final Stages are never taken back.
LEMMA ExtrasKept ==
  ASSUME AutoTypes, AutoTypes', StagesKept
  PROVE  /\ Cardinality(human) <= Cardinality(human') /\ Cardinality(finals) <= Cardinality(finals')
         /\ Cardinality(human') \in Nat /\ Cardinality(finals') \in Nat
<1>1. human \in SUBSET human' /\ finals \in SUBSET finals'
  BY DEF StagesKept, human, finals
<1>2. IsFiniteSet(human') /\ IsFiniteSet(finals')
  <2>1. IsFiniteSet(DOMAIN steps')
    <3>1. steps' \in Seq(AutoRecord)
      BY DEF AutoTypes
    <3> HIDE DEF AutoRecord
    <3>2. Len(steps') \in Nat /\ DOMAIN steps' = 1..Len(steps')
      BY <3>1
    <3> QED BY <3>2, FS_Interval
  <2>2. human' \in SUBSET DOMAIN steps' /\ finals' \in SUBSET DOMAIN steps'
    BY DEF human, finals
  <2> QED BY <2>1, <2>2, FS_Subset
<1>3. Cardinality(human) <= Cardinality(human') /\ Cardinality(finals) <= Cardinality(finals')
  BY <1>1, <1>2, FS_Subset
<1> QED BY <1>2, <1>3, FS_CardinalityType

LEMMA LoopFields ==
  ASSUME AutoTypes
  PROVE  /\ loop = [pc |-> loop.pc, iter |-> loop.iter, chars |-> loop.chars, step |-> loop.step, key |-> loop.key]
         /\ {loop.iter, loop.chars, loop.step, loop.key} \subseteq Nat
         /\ loop.pc \in places \cup {"off", "asked", "final", "emit", "resumed"}
  BY DEF AutoTypes

LEMMA OffFields == Off.pc = "off" /\ Off.step = 0 /\ Off.chars = 0 /\ Off \in [pc : {"off"}, iter : Nat, chars : Nat, step : Nat, key : Nat]
  BY DEF Off

LEMMA NotPlaces == \A p \in {"off", "asked", "final", "emit", "resumed"} : p \notin places /\ (p = "final" \/ p \notin loopRoles)
  BY LoopRoles DEF places

\* The Stage in flight is the last one.
LEMMA FlightIsLast ==
  ASSUME AutoTypes, Underway, loop.step # 0
  PROVE  loop.step \in DOMAIN steps /\ loop.step = Len(steps) /\ last = steps[loop.step] /\ last.status = "running"
<1>1. loop.step = Len(steps) /\ last.status = "running"
  BY DEF Underway
<1>2. Len(steps) \in DOMAIN steps
  BY <1>1, StagesFinite
<1> QED BY <1>1, <1>2 DEF last

LEMMA SameSteps ==
  ASSUME AutoInv, UNCHANGED steps
  PROVE  SameWork /\ StagesKept /\ Recounted' /\ IterationsRunOnce' /\ IterationsAdvance' /\ limitNeverAsks
<1>1. SameWork /\ StagesKept
  BY DEF SameWork, StagesKept, work, done
<1>2. Recounted'
  BY DEF AutoInv, Recounted, done
<1> QED BY <1>1, <1>2, OnceKept, AdvanceKept DEF AutoInv, limitNeverAsks

\* The Stage in flight fails, is canceled, or only its question does.
LEMMA FailedSteps ==
  ASSUME AutoInv, loop.step # 0, NEW o \in {0, 1}, o = 0 \/ last.role = "human_input",
         steps' = [steps EXCEPT ![loop.step].status = "failed", ![loop.step].out = o]
  PROVE  /\ SameWork /\ StagesKept /\ Recounted' /\ IterationsRunOnce' /\ IterationsAdvance' /\ steps' \in Seq(AutoRecord)
         /\ last'.role = last.role
<1>0. AutoTypes /\ Underway
  BY DEF AutoInv
<1>1. loop.step \in DOMAIN steps /\ loop.step = Len(steps) /\ last = steps[loop.step] /\ last.status = "running"
  BY <1>0, FlightIsLast
<1>2. /\ steps' \in Seq(AutoRecord) /\ Len(steps') = Len(steps) /\ DOMAIN steps' = DOMAIN steps
      /\ \A m \in DOMAIN steps : m # loop.step => steps'[m] = steps[m]
      /\ steps'[loop.step].role = last.role /\ steps'[loop.step].iter = last.iter
      /\ steps'[loop.step].status = "failed" /\ steps'[loop.step].out = o
  BY <1>0, <1>1, StageChanged
<1>3. StagesKept
  BY <1>1, <1>2 DEF StagesKept
<1>4. SameWork
  BY <1>1, <1>2 DEF SameWork, work, done
<1>5. Recounted'
  <2> SUFFICES ASSUME NEW n \in DOMAIN steps, steps'[n].role \in loopRoles \cup {"final"}
               PROVE  steps'[n].out = 1 <=> steps'[n].status = "completed"
    BY <1>2 DEF Recounted, done
  <2>1. CASE n = loop.step
    <3>1. last.role # "human_input"
      BY <1>2, <2>1, LoopRoles
    <3> QED BY <1>2, <2>1, <3>1
  <2>2. CASE n # loop.step
    BY <1>2, <2>2 DEF AutoInv, Recounted, done
  <2> QED BY <2>1, <2>2
<1>6. IterationsRunOnce' /\ IterationsAdvance'
  BY <1>2, <1>3, <1>4, OnceKept, AdvanceKept DEF AutoInv
<1>7. last'.role = last.role
  BY <1>1, <1>2 DEF last
<1> QED BY <1>2, <1>3, <1>4, <1>5, <1>6, <1>7

\* The loop stops.
LEMMA Stopped ==
  ASSUME AutoTypes, loop' = Off, steps' \in Seq(AutoRecord),
         autoRun' # "waiting" \/ (UNCHANGED <<autoRun, autoPending>> /\ loop.pc # "off")
  PROVE  AutoTypes' /\ Underway' /\ Progressing'
<1>1. loop'.pc = "off" /\ loop'.step = 0
  BY OffFields
<1>2. AutoTypes'
  BY <1>1, OffFields DEF AutoTypes
<1>3. Progressing'
  BY <1>1, NotPlaces DEF Progressing
<1>4. autoRun' # "waiting"
  BY DEF AutoTypes
<1>5. Underway'
  BY <1>1, <1>4 DEF Underway
<1> QED BY <1>2, <1>3, <1>5

LEMMA Asking ==
  ASSUME AutoInv, loop.step # 0, last.role = "human_input"
  PROVE  ~limitReached(loop.chars)
  BY LoopRoles DEF AutoInv, Underway, ActOpen

LEMMA CancelStops == ASSUME AutoInv, stopIfCanceled PROVE AutoInv' /\ limitNeverAsks
<1>1. loop' = Off /\ autoRun' = "canceled" /\ loop.pc # "off"
  BY DEF stopIfCanceled
<1>2. CASE loop.step = 0
  <2>1. UNCHANGED steps
    BY <1>2 DEF stopIfCanceled
  <2>2. steps' \in Seq(AutoRecord)
    BY <2>1 DEF AutoInv, AutoTypes
  <2>3. Recounted' /\ IterationsRunOnce' /\ IterationsAdvance' /\ limitNeverAsks
    BY <2>1, SameSteps
  <2>4. AutoTypes' /\ Underway' /\ Progressing'
    BY <1>1, <2>2, Stopped DEF AutoInv
  <2> QED BY <2>3, <2>4 DEF AutoInv
<1>3. CASE loop.step # 0
  <2>1. steps' = [steps EXCEPT ![loop.step].status = "failed", ![loop.step].out = 0]
    BY <1>3 DEF stopIfCanceled
  <2>2. /\ Recounted' /\ IterationsRunOnce' /\ IterationsAdvance' /\ steps' \in Seq(AutoRecord) /\ last'.role = last.role
    BY <1>3, <2>1, FailedSteps
  <2>3. limitNeverAsks
    BY <1>3, <2>2, Asking DEF limitNeverAsks, last
  <2> QED BY <1>1, <2>2, <2>3, Stopped DEF AutoInv
<1> QED BY <1>2, <1>3

LEMMA FailStops == ASSUME AutoInv, FailStage PROVE AutoInv' /\ limitNeverAsks
<1>1. loop' = Off /\ autoRun' # "waiting" /\ loop.step # 0
      /\ steps' = [steps EXCEPT ![loop.step].status = "failed", ![loop.step].out = 0]
  BY DEF FailStage
<1>2. /\ Recounted' /\ IterationsRunOnce' /\ IterationsAdvance' /\ steps' \in Seq(AutoRecord) /\ last'.role = last.role
  BY <1>1, FailedSteps
<1>3. limitNeverAsks
  BY <1>1, <1>2, Asking DEF limitNeverAsks, last
<1>4. AutoTypes
  BY DEF AutoInv
<1>5. /\ loop' = Off /\ steps' \in Seq(AutoRecord)
      /\ autoRun' # "waiting" \/ (UNCHANGED <<autoRun, autoPending>> /\ loop.pc # "off")
  BY <1>1, <1>2
<1>6. AutoTypes' /\ Underway' /\ Progressing'
  BY <1>4, <1>5, Stopped
<1> QED BY <1>2, <1>3, <1>6 DEF AutoInv

\* The loop goes on within the same iteration or to the next one, and no Stage changes.
LEMMA Recounting ==
  ASSUME AutoInv, UNCHANGED <<steps, autoRun, autoPending>>, loop'.pc \in places, loop'.step = 0,
         loop' \in [pc : places, iter : Nat, chars : Nat, step : Nat, key : Nat], loop.pc # "off"
  PROVE  AutoTypes' /\ Underway' /\ Recounted' /\ IterationsRunOnce' /\ IterationsAdvance' /\ limitNeverAsks
<1>1. AutoTypes'
  BY NotPlaces DEF AutoInv, AutoTypes
<1>2. Underway'
  <2>1. loop'.pc \notin {"asked", "resumed"} /\ autoRun' # "waiting"
    BY NotPlaces DEF AutoInv, AutoTypes
  <2> QED BY <2>1 DEF Underway
<1> QED BY <1>1, <1>2, SameSteps

LEMMA IterateGoesOn == ASSUME AutoInv, Iterate PROVE AutoInv' /\ limitNeverAsks
<1>1. /\ loop.pc = "top" /\ autoRun = "running" /\ UNCHANGED <<autoRun, steps, autoPending>>
      /\ loop' = [loop EXCEPT !.pc = IF loop.iter > MaxIterations \/ limitReached(loop.chars) THEN "final" ELSE "observe",
                              !.iter = IF @ > MaxIterations THEN MaxIterations ELSE @]
  BY DEF Iterate
<1>0. AutoTypes /\ loop.step = 0 /\ MaxIterations \in Nat \ {0}
  BY <1>1, NotPlaces, LoopRoles, IterationLimits DEF AutoInv, Underway
<1> DEFINE p == IF loop.iter > MaxIterations \/ limitReached(loop.chars) THEN "final" ELSE "observe"
           i == IF loop.iter > MaxIterations THEN MaxIterations ELSE loop.iter
           new == [pc |-> p, iter |-> i, chars |-> loop.chars, step |-> loop.step, key |-> loop.key]
<1>2. loop' = new
  <2> DEFINE half == [pc |-> p, iter |-> loop.iter, chars |-> loop.chars, step |-> loop.step, key |-> loop.key]
  <2>1. [loop EXCEPT !.pc = p] = half
    BY <1>0, LoopFields
  <2>2. loop' = [[loop EXCEPT !.pc = p] EXCEPT !.iter = IF @ > MaxIterations THEN MaxIterations ELSE @]
    BY <1>1
  <2>3. [half EXCEPT !.iter = IF @ > MaxIterations THEN MaxIterations ELSE @] = new
    OBVIOUS
  <2> HIDE DEF half, new
  <2> QED BY <2>1, <2>2, <2>3
<1>3. i \in Nat /\ p \in {"final", "observe"}
  BY <1>0, LoopFields
<1>4. loop' \in [pc : {"final", "observe"}, iter : Nat, chars : Nat, step : Nat, key : Nat]
  BY <1>0, <1>2, <1>3, LoopFields
<1>5. CASE p = "final"
  <2>1. AutoTypes'
    BY <1>0, <1>1, <1>2, <1>4, <1>5 DEF AutoTypes
  <2>2. Underway'
    BY <1>0, <1>1, <1>2, <1>5 DEF Underway
  <2>3. Progressing'
    BY <1>2, <1>5, NotPlaces DEF Progressing
  <2> QED BY <1>1, <2>1, <2>2, <2>3, SameSteps DEF AutoInv
<1>6. CASE p = "observe"
  <2>1. loop.iter <= MaxIterations /\ i = loop.iter /\ loop.iter \in Nat
    BY <1>0, <1>6, LoopFields
  <2>2. /\ loop'.pc = "observe" /\ loop'.iter = loop.iter /\ loop'.chars = loop.chars /\ loop'.step = 0 /\ loop'.key = loop.key
    BY <1>0, <1>2, <1>6, <2>1
  <2>3. "observe" \in places /\ "observe" \in loopRoles
    BY LoopRoles DEF places
  <2>4. loop' \in [pc : places, iter : Nat, chars : Nat, step : Nat, key : Nat]
    BY <1>4, <2>2, <2>3
  <2>5. AutoTypes' /\ Underway' /\ Recounted' /\ IterationsRunOnce' /\ IterationsAdvance' /\ limitNeverAsks
    BY <1>1, <2>2, <2>3, <2>4, Recounting
  <2>6. passed' = passed
    <3>1. \A n \in work : rankOf[steps[n].role] >= 1
      BY LoopRoles, Ranks DEF work
    <3> QED BY <1>1, <2>2, <3>1, LoopRoles, Ranks DEF passed, work, done
  <2>7. work' = work /\ human' = human /\ finals' = finals
    BY <1>1 DEF work, human, finals, done
  <2>8. Progressing'
    <3>1. Progressing /\ loop.pc \in places
      BY <1>1 DEF AutoInv, places
    <3>2. \A q \in loopRoles : rankOf[q] >= 1
      BY LoopRoles, Ranks
    <3>3. passedBefore(loop.iter, loop.pc)'
      BY <2>2, <3>2, Ranks, LoopRoles DEF passedBefore
    <3>4. loop'.iter >= 1 /\ loop'.key <= loop'.iter /\ newestIteration(loop.iter)' /\ loop'.iter <= MaxIterations
      BY <1>1, <2>1, <2>2, <2>7, <3>1 DEF Progressing, newestIteration
    <3>5. loop'.key # loop'.iter => \A m \in work' : steps'[m].iter = loop'.iter => rankOf[steps'[m].role] < rankOf[loop'.pc]
      BY <1>1, <2>2, <2>7, <3>1, Ranks, LoopRoles DEF Progressing, work
    <3>6. Cardinality(passed') <= loop'.chars /\ loop'.chars <= Cardinality(passed') + 2 * Cardinality(human') + Cardinality(finals')
      BY <2>2, <2>6, <2>7, <3>1 DEF Progressing
    <3> QED BY <2>2, <3>3, <3>4, <3>5, <3>6 DEF Progressing
  <2> QED BY <2>5, <2>8 DEF AutoInv
<1> QED BY <1>3, <1>5, <1>6

LEMMA StageAt ==
  ASSUME AutoInv, NEW r \in loopRoles \cup {"final"}, atStage(r)
  PROVE  /\ AutoTypes /\ loop.pc = r /\ loop.step = 0 /\ autoRun = "running" /\ loop.pc # "off" /\ (r \in loopRoles => r \in places)
         /\ (r \in loopRoles => Progressing /\ loop.iter <= MaxIterations /\ loop.iter >= 1)
<1>1. loop.pc = r /\ loop.step = 0 /\ autoRun = "running" /\ AutoTypes /\ Progressing
  BY DEF atStage, AutoInv
<1>2. r # "off" /\ (r \in loopRoles => r \in places /\ r # "top")
  BY LoopRoles DEF places
<1> QED BY <1>1, <1>2 DEF Progressing

\* A completed Stage of the resumed iteration is counted and passed.
LEMMA ReuseGoesOn == ASSUME AutoInv, NEW r \in loopRoles \cup {"final"}, Reuse(r), r \in loopRoles PROVE AutoInv' /\ limitNeverAsks
<1>1. /\ atStage(r) /\ reusable(r) # {} /\ UNCHANGED <<autoRun, steps, autoPending>>
      /\ loop' = [loop EXCEPT !.pc = after(r), !.chars = @ + steps[Max(reusable(r))].out]
  BY DEF Reuse
<1>2. /\ AutoTypes /\ loop.pc = r /\ loop.step = 0 /\ autoRun = "running" /\ loop.pc # "off" /\ r \in places
      /\ Progressing /\ loop.iter <= MaxIterations /\ loop.iter >= 1
  BY <1>1, StageAt
<1>3. reusable(r) = {n \in work : steps[n].role = r /\ steps[n].iter = loop.iter} /\ loop.key = loop.iter
  BY <1>1 DEF reusable, completedOf, work, done
<1>4. PICK x \in work : steps[x].role = r /\ steps[x].iter = loop.iter
  BY <1>1, <1>3
<1>5. reusable(r) = {x}
  BY <1>3, <1>4 DEF AutoInv, IterationsRunOnce
<1>6. x \in DOMAIN steps /\ x \in Nat /\ steps[x].out = 1
  BY <1>2, <1>4, StagesFinite DEF work, AutoInv, Recounted
<1>7. Max(reusable(r)) = x
  BY <1>5, <1>6 DEF Max
<1> DEFINE p == after(r)
<1>8. p \in places /\ rankOf[p] = rankOf[r] + 1
  BY NextStage DEF places
<1>9. loop' = [pc |-> p, iter |-> loop.iter, chars |-> loop.chars + 1, step |-> loop.step, key |-> loop.key]
  <2> DEFINE half == [pc |-> p, iter |-> loop.iter, chars |-> loop.chars, step |-> loop.step, key |-> loop.key]
  <2>1. [loop EXCEPT !.pc = p] = half
    BY <1>2, LoopFields
  <2>2. loop' = [[loop EXCEPT !.pc = p] EXCEPT !.chars = @ + 1]
    BY <1>1, <1>6, <1>7
  <2> HIDE DEF p
  <2>3. [half EXCEPT !.chars = @ + 1] = [pc |-> p, iter |-> loop.iter, chars |-> loop.chars + 1, step |-> loop.step, key |-> loop.key]
    OBVIOUS
  <2> HIDE DEF half
  <2> QED BY <2>1, <2>2, <2>3
<1> HIDE DEF p
<1>10. /\ loop'.pc = p /\ loop'.iter = loop.iter /\ loop'.chars = loop.chars + 1 /\ loop'.step = 0 /\ loop'.key = loop.key
       /\ loop' \in [pc : places, iter : Nat, chars : Nat, step : Nat, key : Nat]
  BY <1>2, <1>8, <1>9, LoopFields
<1>11. AutoTypes' /\ Underway' /\ Recounted' /\ IterationsRunOnce' /\ IterationsAdvance' /\ limitNeverAsks
  BY <1>1, <1>2, <1>8, <1>10, Recounting
<1>12. work' = work /\ human' = human /\ finals' = finals
  BY <1>1 DEF work, human, finals, done
<1>13. \A q \in loopRoles : rankOf[q] \in Nat /\ (rankOf[q] = rankOf[r] => q = r)
  BY LoopRoles, Ranks
<1>14. passed' = passed \cup {x} /\ x \notin passed
  <2>1. \A n \in work : steps[n].role = r /\ steps[n].iter = loop.iter => n = x
    BY <1>4 DEF AutoInv, IterationsRunOnce
  <2>2. \A n \in work : steps[n].role \in loopRoles
    BY DEF work
  <2>3. \A n \in work : rankOf[steps[n].role] < rankOf[p] <=> rankOf[steps[n].role] < rankOf[r] \/ steps[n].role = r
    BY <1>8, <1>13, <2>2
  <2>4. passed' = {n \in work : steps[n].iter < loop.iter \/ (steps[n].iter = loop.iter /\ rankOf[steps[n].role] < rankOf[p])}
    BY <1>1, <1>10, <1>12 DEF passed
  <2>5. passed = {n \in work : steps[n].iter < loop.iter \/ (steps[n].iter = loop.iter /\ rankOf[steps[n].role] < rankOf[r])}
    BY <1>2 DEF passed
  <2>6. x \notin passed
    BY <1>4, <1>13, <2>5, <1>2, LoopFields
  <2> QED BY <1>4, <2>1, <2>3, <2>4, <2>5, <2>6
<1>15. Cardinality(passed') = Cardinality(passed) + 1 /\ Cardinality(passed) \in Nat
  BY <1>2, <1>14, CountsFinite, FS_AddElement
<1>16. Progressing'
  <2>1. passedBefore(loop.iter, loop.pc)'
    <3> SUFFICES ASSUME NEW q \in loopRoles, rankOf[q] < rankOf[p]
                 PROVE  \E m \in work : steps[m].role = q /\ steps[m].iter = loop.iter
      BY <1>1, <1>10, <1>12 DEF passedBefore
    <3>1. q = r \/ rankOf[q] < rankOf[r]
      BY <1>8, <1>13
    <3> QED BY <1>2, <1>4, <3>1 DEF Progressing, passedBefore
  <2>2. newestIteration(loop.iter)'
    BY <1>1, <1>2, <1>10, <1>12 DEF Progressing, newestIteration
  <2>3. loop'.key = loop'.iter
    BY <1>3, <1>10
  <2>4. Cardinality(passed') <= loop'.chars /\ loop'.chars <= Cardinality(passed') + 2 * Cardinality(human') + Cardinality(finals')
    <3>1. Cardinality(passed) <= loop.chars /\ loop.chars <= Cardinality(passed) + 2 * Cardinality(human) + Cardinality(finals)
      BY <1>2 DEF Progressing
    <3>2. {loop.chars, Cardinality(passed), Cardinality(human), Cardinality(finals)} \subseteq Nat
      BY <1>2, LoopFields, CountsFinite
    <3> QED BY <1>10, <1>12, <1>15, <3>1, <3>2
  <2>5. loop'.iter >= 1 /\ loop'.iter <= MaxIterations /\ loop'.key <= loop'.iter
    BY <1>2, <1>10 DEF Progressing
  <2> QED BY <1>10, <2>1, <2>2, <2>3, <2>4, <2>5 DEF Progressing
<1> QED BY <1>11, <1>16 DEF AutoInv

\* The loop is past its iterations.
LEMMA Leaving ==
  ASSUME AutoInv, loop.pc # "off", UNCHANGED <<autoRun, autoPending>>, steps' \in Seq(AutoRecord),
         loop' \in [pc : {"final", "emit"}, iter : Nat, chars : Nat, step : Nat, key : Nat], loop'.step = 0
  PROVE  AutoTypes' /\ Underway' /\ Progressing'
<1>1. AutoTypes /\ autoRun' \in {"running", "canceling"}
  BY DEF AutoInv, AutoTypes
<1>2. loop'.pc \in {"final", "emit"} /\ loop'.pc \notin places
  BY NotPlaces
<1>3. loop' \in [pc : places \cup {"off", "asked", "final", "emit", "resumed"}, iter : Nat, chars : Nat, step : Nat, key : Nat]
  OBVIOUS
<1>4. AutoTypes'
  BY <1>1, <1>2, <1>3 DEF AutoTypes
<1>5. Underway'
  BY <1>1, <1>2 DEF Underway
<1>6. Progressing'
  BY <1>2 DEF Progressing
<1> QED BY <1>4, <1>5, <1>6

\* A committed final Stage is reused.
LEMMA ReuseFinal == ASSUME AutoInv, Reuse("final") PROVE AutoInv' /\ limitNeverAsks
<1>1. /\ atStage("final") /\ reusable("final") # {} /\ UNCHANGED <<autoRun, steps, autoPending>>
      /\ loop' = [loop EXCEPT !.pc = after("final"), !.chars = @ + steps[Max(reusable("final"))].out]
  BY DEF Reuse
<1>2. AutoTypes /\ loop.pc = "final" /\ loop.step = 0
  BY <1>1 DEF atStage, AutoInv
<1>3. reusable("final") \in SUBSET DOMAIN steps
  BY DEF reusable, completedOf
<1>4. Max(reusable("final")) \in DOMAIN steps
  <2>1. IsFiniteSet(reusable("final")) /\ reusable("final") \in SUBSET Nat
    BY <1>2, <1>3, StagesFinite, FS_Subset
  <2>2. Max(reusable("final")) \in reusable("final")
    BY <1>1, <2>1, GreatestOf
  <2> QED BY <1>3, <2>2
<1> DEFINE o == steps[Max(reusable("final"))].out
<1>5. o \in Nat
  BY <1>2, <1>4, StageFields
<1>6. loop' = [loop EXCEPT !.pc = "emit", !.chars = @ + o]
  BY <1>1, NextStage
<1> HIDE DEF o
<1>7. loop' = [pc |-> "emit", iter |-> loop.iter, chars |-> loop.chars + o, step |-> loop.step, key |-> loop.key]
  BY <1>2, <1>6, LoopFields
<1>8. loop' \in [pc : {"final", "emit"}, iter : Nat, chars : Nat, step : Nat, key : Nat] /\ loop'.step = 0
  BY <1>2, <1>5, <1>7, LoopFields
<1>9. steps' \in Seq(AutoRecord) /\ loop.pc # "off"
  BY <1>1, <1>2 DEF AutoTypes
<1>10. AutoTypes' /\ Underway' /\ Progressing'
  BY <1>1, <1>8, <1>9, Leaving
<1> QED BY <1>1, <1>10, SameSteps DEF AutoInv

LEMMA MadeStage ==
  ASSUME NEW r \in loopRoles \cup {"final", "human_input", "recovery"}, NEW i \in Nat,
         NEW s \in {"running", "completed", "failed"}, NEW o \in {0, 1}
  PROVE  /\ AutoStep(r, i, s, o) \in AutoRecord
         /\ AutoStep(r, i, s, o).role = r /\ AutoStep(r, i, s, o).iter = i
         /\ AutoStep(r, i, s, o).status = s /\ AutoStep(r, i, s, o).out = o
  BY DEF AutoStep, AutoRecord

\* A new Stage that is not a completed one of the loop.
LEMMA Adding ==
  ASSUME AutoInv, NEW r \in loopRoles \cup {"final", "human_input", "recovery"}, NEW i \in Nat,
         NEW s \in {"running", "completed"}, NEW o \in {0, 1},
         steps' = Append(steps, AutoStep(r, i, s, o)),
         r \in loopRoles => s = "running" /\ i \in 1..MaxIterations /\ newestIteration(i),
         r \in loopRoles \cup {"final"} => (o = 1 <=> s = "completed")
  PROVE  /\ SameWork /\ StagesKept /\ Recounted' /\ IterationsRunOnce' /\ IterationsAdvance'
         /\ steps' \in Seq(AutoRecord) /\ Len(steps') = Len(steps) + 1 /\ steps' # steps
         /\ last'.role = r /\ last'.iter = i /\ last'.status = s /\ last'.out = o
         /\ r # "human_input" => limitNeverAsks
<1> DEFINE new == AutoStep(r, i, s, o)
<1>1. new \in AutoRecord /\ new.role = r /\ new.iter = i /\ new.status = s /\ new.out = o
  BY MadeStage
<1>2. AutoTypes /\ steps' = Append(steps, new)
  BY DEF AutoInv
<1> HIDE DEF new
<1>3. /\ steps' \in Seq(AutoRecord) /\ Len(steps') = Len(steps) + 1 /\ DOMAIN steps' = 1..(Len(steps) + 1)
      /\ \A n \in DOMAIN steps : n \in DOMAIN steps' /\ steps'[n] = steps[n]
      /\ \A n \in DOMAIN steps' : n \in DOMAIN steps \/ n = Len(steps) + 1
      /\ steps'[Len(steps) + 1] = new /\ last' = new
  BY <1>1, <1>2, StageAppended
<1>4. Len(steps) \in Nat /\ Len(steps) + 1 \notin DOMAIN steps
  BY <1>2, StagesFinite
<1>5. StagesKept
  BY <1>3 DEF StagesKept
<1>6. SameWork
  BY <1>1, <1>3 DEF SameWork, work, done
<1>7. Recounted'
  BY <1>1, <1>3 DEF AutoInv, Recounted, done
<1>8. IterationsRunOnce'
  BY <1>6, OnceKept DEF AutoInv
<1>9. IterationsAdvance'
  <2>1. \A n \in DOMAIN steps' \ DOMAIN steps : steps'[n].role \in loopRoles => steps'[n].iter \in 1..MaxIterations /\ newestIteration(steps'[n].iter)
    BY <1>1, <1>3
  <2> QED BY <1>5, <1>6, <2>1, AdvanceKept DEF AutoInv
<1>10. r # "human_input" => limitNeverAsks
  BY <1>1, <1>3 DEF limitNeverAsks
<1>11. steps' # steps
  BY <1>3, <1>4
<1> QED BY <1>1, <1>3, <1>5, <1>6, <1>7, <1>8, <1>9, <1>10, <1>11

\* emitAutonomousFinal
LEMMA FinalLeaves == ASSUME AutoInv, Final PROVE AutoInv' /\ limitNeverAsks
<1>1. /\ loop.pc = "final" /\ UNCHANGED <<autoRun, autoPending>> /\ autoRun \in {"running", "canceling"}
      /\ steps' = Append(steps, AutoStep("final", loop.iter, "completed", 1)) /\ loop' = [loop EXCEPT !.pc = "emit"]
  BY DEF Final
<1>2. AutoTypes /\ loop.iter \in Nat
  BY LoopFields DEF AutoInv
<1>3. Recounted' /\ IterationsRunOnce' /\ IterationsAdvance' /\ steps' \in Seq(AutoRecord) /\ limitNeverAsks
  BY <1>1, <1>2, Adding, LoopRoles
<1>4. loop' = [pc |-> "emit", iter |-> loop.iter, chars |-> loop.chars, step |-> loop.step, key |-> loop.key]
  BY <1>1, <1>2, LoopFields
<1>5. loop.step = 0
  BY <1>1, LoopRoles DEF AutoInv, Underway, Final
<1>6. loop' \in [pc : {"final", "emit"}, iter : Nat, chars : Nat, step : Nat, key : Nat] /\ loop'.step = 0
  BY <1>2, <1>4, <1>5, LoopFields
<1>7. AutoTypes' /\ Underway' /\ Progressing'
  BY <1>1, <1>3, <1>6, Leaving
<1> QED BY <1>3, <1>7 DEF AutoInv

\* The Run completed or canceled, and the process that dies.
LEMMA LoopEnds == ASSUME AutoInv, Complete \/ AutoCrash PROVE AutoInv' /\ limitNeverAsks
<1>1. loop' = Off /\ UNCHANGED <<steps, autoPending>> /\ loop.pc # "off" /\ (autoRun' # "waiting" \/ UNCHANGED autoRun)
  BY DEF Complete, AutoCrash
<1>2. AutoTypes /\ steps' \in Seq(AutoRecord)
  BY <1>1 DEF AutoInv, AutoTypes
<1>3. AutoTypes' /\ Underway' /\ Progressing'
  BY <1>1, <1>2, Stopped
<1> QED BY <1>1, <1>3, SameSteps DEF AutoInv

\* Nothing but the Run's status moves.
LEMMA StatusMoves ==
  ASSUME AutoInv, UNCHANGED <<steps, loop>>, autoRun' # "waiting" \/ UNCHANGED <<autoRun, autoPending>>,
         loop.pc # "off" => autoRun' \in {"running", "canceling"}
  PROVE  AutoInv' /\ limitNeverAsks
<1>1. AutoTypes' /\ Underway'
  BY DEF AutoInv, AutoTypes, Underway, ActOpen, last, newestIteration, passedBefore, unfinished, work, done
<1>2. work' = work /\ human' = human /\ finals' = finals
  BY DEF work, human, finals, done
<1>3. passed' = passed /\ newestIteration(loop.iter)' = newestIteration(loop.iter)
      /\ passedBefore(loop.iter, loop.pc)' = passedBefore(loop.iter, loop.pc)
      /\ unfinished(loop.iter, loop.pc)' = unfinished(loop.iter, loop.pc)
  BY <1>2 DEF passed, newestIteration, passedBefore, unfinished
<1>4. Progressing'
  BY <1>2, <1>3 DEF AutoInv, Progressing
<1> QED BY <1>1, <1>4, SameSteps DEF AutoInv

LEMMA StopOrRepair == ASSUME AutoInv, Stop \/ ColdStart PROVE AutoInv' /\ limitNeverAsks
<1>1. UNCHANGED <<steps, loop>> /\ autoRun' # "waiting"
  BY DEF Stop, ColdStart
<1>2. loop.pc # "off" => autoRun' \in {"running", "canceling"}
  BY DEF AutoInv, AutoTypes, Stop, ColdStart
<1> QED BY <1>1, <1>2, StatusMoves

LEMMA AutoStutter == ASSUME AutoInv, UNCHANGED autoVars PROVE AutoInv' /\ limitNeverAsks
<1>1. UNCHANGED <<steps, loop, autoRun, autoPending>>
  BY DEF autoVars
<1>2. loop.pc # "off" => autoRun' \in {"running", "canceling"}
  BY <1>1 DEF AutoInv, AutoTypes
<1> QED BY <1>1, <1>2, StatusMoves

\* A Stage of the loop starts: its iteration is the newest and has not completed it.
LEMMA StartGoesOn == ASSUME AutoInv, NEW r \in loopRoles, StartStage(r) PROVE AutoInv' /\ limitNeverAsks
<1>1. /\ atStage(r) /\ reusable(r) = {} /\ UNCHANGED <<autoRun, autoPending>>
      /\ steps' = Append(steps, AutoStep(r, loop.iter, "running", 0)) /\ loop' = [loop EXCEPT !.step = Len(steps) + 1]
  BY DEF StartStage
<1>2. /\ AutoTypes /\ loop.pc = r /\ loop.step = 0 /\ autoRun = "running" /\ loop.pc # "off" /\ r \in places
      /\ Progressing /\ loop.iter <= MaxIterations /\ loop.iter >= 1
  BY <1>1, StageAt
<1>3. loop.iter \in Nat /\ Len(steps) \in Nat /\ loop.iter \in 1..MaxIterations /\ newestIteration(loop.iter)
  <2>1. loop.iter \in Nat /\ Len(steps) \in Nat /\ MaxIterations \in Nat
    BY <1>2, LoopFields, StagesFinite, IterationLimits
  <2>2. newestIteration(loop.iter)
    BY <1>2 DEF Progressing
  <2> QED BY <1>2, <2>1, <2>2
<1>4. r # "human_input" /\ r # "top"
  BY LoopRoles
<1>5. /\ SameWork /\ StagesKept /\ Recounted' /\ IterationsRunOnce' /\ IterationsAdvance'
      /\ steps' \in Seq(AutoRecord) /\ Len(steps') = Len(steps) + 1
      /\ last'.role = r /\ last'.iter = loop.iter /\ last'.status = "running" /\ limitNeverAsks
  BY <1>1, <1>3, <1>4, Adding
<1>6. loop' = [pc |-> loop.pc, iter |-> loop.iter, chars |-> loop.chars, step |-> Len(steps) + 1, key |-> loop.key]
  BY <1>1, <1>2, LoopFields
<1>7. /\ loop'.pc = r /\ loop'.iter = loop.iter /\ loop'.chars = loop.chars /\ loop'.step = Len(steps) + 1 /\ loop'.key = loop.key
      /\ loop' \in [pc : places, iter : Nat, chars : Nat, step : Nat, key : Nat]
  BY <1>2, <1>3, <1>6, LoopFields
<1>8. AutoTypes'
  BY <1>1, <1>2, <1>5, <1>7 DEF AutoTypes
<1>9. Underway'
  BY <1>1, <1>2, <1>4, <1>5, <1>7, NotPlaces DEF Underway
<1>10. unfinished(loop.iter, r)
  <2> SUFFICES ASSUME NEW m \in work, steps[m].role = r, steps[m].iter = loop.iter PROVE FALSE
    BY DEF unfinished
  <2>1. CASE loop.key = loop.iter
    BY <1>1, <2>1 DEF reusable, completedOf, work, done
  <2>2. CASE loop.key # loop.iter
    <3>1. rankOf[r] < rankOf[r]
      BY <1>2, <2>2 DEF Progressing
    <3> QED BY <3>1, Ranks, LoopRoles
  <2> QED BY <2>1, <2>2
<1>11. passed' = passed /\ work' = work
  BY <1>5, <1>7, <1>2 DEF passed, SameWork
<1>12. Cardinality(human) <= Cardinality(human') /\ Cardinality(finals) <= Cardinality(finals')
       /\ Cardinality(human') \in Nat /\ Cardinality(finals') \in Nat
  BY <1>2, <1>5, <1>8, ExtrasKept
<1>13. Progressing'
  <2>1. unfinished(loop.iter, loop.pc)' /\ newestIteration(loop.iter)' /\ passedBefore(loop.iter, loop.pc)'
    <3>1. passedBefore(loop.iter, r)
      BY <1>2 DEF Progressing
    <3> QED BY <1>3, <1>5, <1>7, <1>10, <3>1 DEF SameWork, unfinished, newestIteration, passedBefore
  <2>2. loop'.key # loop'.iter => \A m \in work' : steps'[m].iter = loop'.iter => rankOf[steps'[m].role] < rankOf[loop'.pc]
    BY <1>2, <1>5, <1>7 DEF Progressing, SameWork
  <2>3. Cardinality(passed') <= loop'.chars /\ loop'.chars <= Cardinality(passed') + 2 * Cardinality(human') + Cardinality(finals')
    <3>1. Cardinality(passed) <= loop.chars /\ loop.chars <= Cardinality(passed) + 2 * Cardinality(human) + Cardinality(finals)
      BY <1>2 DEF Progressing
    <3>2. {loop.chars, Cardinality(passed), Cardinality(human), Cardinality(finals)} \subseteq Nat
      BY <1>2, LoopFields, CountsFinite
    <3> QED BY <1>7, <1>11, <1>12, <3>1, <3>2
  <2>4. loop'.iter >= 1 /\ loop'.iter <= MaxIterations /\ loop'.key <= loop'.iter
    BY <1>2, <1>7 DEF Progressing
  <2> QED BY <1>7, <2>1, <2>2, <2>3, <2>4 DEF Progressing
<1> QED BY <1>5, <1>8, <1>9, <1>13 DEF AutoInv

\* The final Stage of a contracted Run starts.
LEMMA StartFinal == ASSUME AutoInv, StartStage("final") PROVE AutoInv' /\ limitNeverAsks
<1>1. /\ loop.pc = "final" /\ Contracted /\ autoRun = "running" /\ UNCHANGED <<autoRun, autoPending>>
      /\ steps' = Append(steps, AutoStep("final", loop.iter, "running", 0)) /\ loop' = [loop EXCEPT !.step = Len(steps) + 1]
  BY LoopRoles DEF StartStage, atStage
<1>2. AutoTypes /\ loop.iter \in Nat /\ Len(steps) \in Nat
  BY LoopFields, StagesFinite DEF AutoInv
<1>3. /\ Recounted' /\ IterationsRunOnce' /\ IterationsAdvance' /\ steps' \in Seq(AutoRecord) /\ limitNeverAsks
      /\ Len(steps') = Len(steps) + 1 /\ last'.role = "final" /\ last'.iter = loop.iter /\ last'.status = "running"
  BY <1>1, <1>2, Adding, LoopRoles
<1>4. loop' = [pc |-> "final", iter |-> loop.iter, chars |-> loop.chars, step |-> Len(steps) + 1, key |-> loop.key]
  BY <1>1, <1>2, LoopFields
<1>5. /\ loop'.pc = "final" /\ loop'.iter = loop.iter /\ loop'.step = Len(steps) + 1
      /\ loop' \in [pc : {"final"}, iter : Nat, chars : Nat, step : Nat, key : Nat]
  BY <1>2, <1>4, LoopFields
<1>6. AutoTypes'
  BY <1>1, <1>3, <1>5 DEF AutoTypes
<1>7. Underway'
  BY <1>1, <1>3, <1>5 DEF Underway
<1>8. Progressing'
  BY <1>5, NotPlaces DEF Progressing
<1> QED BY <1>3, <1>6, <1>7, <1>8 DEF AutoInv

\* The last Stage, of the newest iteration and the first of its role there, completes.
LEMMA StageDone ==
  ASSUME AutoInv, loop.step # 0, last.role \in loopRoles,
         newestIteration(last.iter), passedBefore(last.iter, last.role), unfinished(last.iter, last.role),
         steps' = [steps EXCEPT ![loop.step].status = "completed", ![loop.step].out = 1]
  PROVE  /\ StagesKept /\ Recounted' /\ IterationsRunOnce' /\ IterationsAdvance' /\ limitNeverAsks
         /\ steps' \in Seq(AutoRecord) /\ DOMAIN steps' = DOMAIN steps /\ steps # <<>>
         /\ loop.step \notin work /\ work' = work \cup {loop.step} /\ loop.step \in DOMAIN steps
         /\ \A m \in work : steps'[m].role = steps[m].role /\ steps'[m].iter = steps[m].iter
         /\ steps'[loop.step].role = last.role /\ steps'[loop.step].iter = last.iter
         /\ human' = human /\ finals' = finals
<1> DEFINE n == loop.step
<1>0. AutoTypes /\ Underway
  BY DEF AutoInv
<1>1. n \in DOMAIN steps /\ n = Len(steps) /\ last = steps[n] /\ last.status = "running"
  BY <1>0, FlightIsLast
<1>2. /\ steps' \in Seq(AutoRecord) /\ Len(steps') = Len(steps) /\ DOMAIN steps' = DOMAIN steps
      /\ \A m \in DOMAIN steps : m # n => steps'[m] = steps[m]
      /\ steps'[n].role = last.role /\ steps'[n].iter = last.iter /\ steps'[n].status = "completed" /\ steps'[n].out = 1
  BY <1>0, <1>1, StageChanged
<1> HIDE DEF n
<1>3. StagesKept
  BY <1>1, <1>2 DEF StagesKept
<1>4. n \notin work /\ work' = work \cup {n}
  BY <1>1, <1>2 DEF work, done
<1>5. \A m \in work : steps'[m].role = steps[m].role /\ steps'[m].iter = steps[m].iter /\ m # n /\ m \in DOMAIN steps
  BY <1>2, <1>4 DEF work
<1>6. Recounted'
  <2> SUFFICES ASSUME NEW m \in DOMAIN steps, steps'[m].role \in loopRoles \cup {"final"}
               PROVE  steps'[m].out = 1 <=> steps'[m].status = "completed"
    BY <1>2 DEF Recounted, done
  <2>1. CASE m = n
    BY <1>2, <2>1
  <2>2. CASE m # n
    BY <1>2, <2>2 DEF AutoInv, Recounted, done
  <2> QED BY <2>1, <2>2
<1>7. \A m \in work : m < n
  BY <1>0, <1>1, <1>5, StagesFinite
<1>8. \A i \in 1..5 : \A j \in 1..(i - 1) : last.role = Order[i] =>
        \E m \in work : m < n /\ steps[m].role = Order[j] /\ steps[m].iter = last.iter
  <2> TAKE i \in 1..5
  <2> TAKE j \in 1..(i - 1)
  <2> HAVE last.role = Order[i]
  <2>1. j \in 1..5 /\ j < i
    OBVIOUS
  <2>2. Order[j] \in loopRoles /\ rankOf[Order[j]] < rankOf[last.role]
    BY <2>1, Places
  <2> QED BY <1>7, <2>2 DEF passedBefore
<1>9. \A m \in work : ~(steps[m].role = last.role /\ steps[m].iter = last.iter)
  BY DEF unfinished
<1>10. IterationsRunOnce'
  <2> SUFFICES ASSUME NEW k \in work'
               PROVE  /\ \A m \in work' : steps'[m].role = steps'[k].role /\ steps'[m].iter = steps'[k].iter => m = k
                      /\ \A i \in 1..5 : \A j \in 1..(i - 1) :
                           steps'[k].role = Order[i] => \E m \in work' : m < k /\ steps'[m].role = Order[j] /\ steps'[m].iter = steps'[k].iter
    BY DEF IterationsRunOnce
  <2>1. CASE k = n
    <3>1. \A m \in work' : steps'[m].role = steps'[k].role /\ steps'[m].iter = steps'[k].iter => m = k
      BY <1>2, <1>4, <1>5, <1>9, <2>1
    <3>2. \A i \in 1..5 : \A j \in 1..(i - 1) :
            steps'[k].role = Order[i] => \E m \in work' : m < k /\ steps'[m].role = Order[j] /\ steps'[m].iter = steps'[k].iter
      <4> TAKE i \in 1..5
      <4> TAKE j \in 1..(i - 1)
      <4> HAVE steps'[k].role = Order[i]
      <4>1. PICK m \in work : m < n /\ steps[m].role = Order[j] /\ steps[m].iter = last.iter
        BY <1>2, <1>8, <2>1
      <4> QED BY <1>2, <1>4, <1>5, <2>1, <4>1
    <3> QED BY <3>1, <3>2
  <2>2. CASE k \in work
    <3>1. \A m \in work' : steps'[m].role = steps'[k].role /\ steps'[m].iter = steps'[k].iter => m = k
      BY <1>2, <1>4, <1>5, <1>9, <2>2 DEF AutoInv, IterationsRunOnce
    <3>2. \A i \in 1..5 : \A j \in 1..(i - 1) :
            steps[k].role = Order[i] => \E m \in work : m < k /\ steps[m].role = Order[j] /\ steps[m].iter = steps[k].iter
      BY <2>2 DEF AutoInv, IterationsRunOnce
    <3>3. \A i \in 1..5 : \A j \in 1..(i - 1) :
            steps'[k].role = Order[i] => \E m \in work' : m < k /\ steps'[m].role = Order[j] /\ steps'[m].iter = steps'[k].iter
      BY <1>4, <1>5, <2>2, <3>2
    <3> QED BY <3>1, <3>3
  <2> QED BY <1>4, <2>1, <2>2
<1>11. IterationsAdvance'
  <2> SUFFICES ASSUME NEW k \in DOMAIN steps, steps'[k].role \in loopRoles
               PROVE  steps'[k].iter \in 1..MaxIterations /\ \A m \in work' : m < k => steps'[m].iter <= steps'[k].iter
    BY <1>2 DEF IterationsAdvance
  <2>1. steps'[k].role = steps[k].role /\ steps'[k].iter = steps[k].iter
    BY <1>3 DEF StagesKept
  <2>2. ~(n < k)
    BY <1>0, <1>1, StagesFinite
  <2>3. steps[k].iter \in 1..MaxIterations /\ \A m \in work : m < k => steps[m].iter <= steps[k].iter
    BY <2>1 DEF AutoInv, IterationsAdvance
  <2> QED BY <1>4, <1>5, <2>1, <2>2, <2>3
<1>12. limitNeverAsks
  BY <1>1, <1>2, LoopRoles DEF limitNeverAsks
<1>13. human' = human /\ finals' = finals
  BY <1>2, <1>3 DEF StagesKept, human, finals
<1>14. steps # <<>>
  BY <1>1
<1> QED BY <1>1, <1>2, <1>3, <1>4, <1>5, <1>6, <1>10, <1>11, <1>12, <1>13, <1>14 DEF n

\* The Turn of a Stage of the loop ends.
LEMMA CompleteGoesOn == ASSUME AutoInv, CompleteStage, loop.pc \in loopRoles PROVE AutoInv' /\ limitNeverAsks
<1>1. /\ loop.step # 0 /\ autoRun = "running" /\ UNCHANGED <<autoRun, autoPending>>
      /\ steps' = [steps EXCEPT ![loop.step].status = "completed", ![loop.step].out = 1]
      /\ loop' = [loop EXCEPT !.step = 0, !.pc = after(loop.pc), !.chars = @ + 1]
  BY DEF CompleteStage
<1> DEFINE r == loop.pc
           n == loop.step
           p == after(r)
<1>2. AutoTypes /\ Underway /\ Progressing /\ r \in places /\ r # "off" /\ r # "top" /\ r # "asked" /\ r # "resumed"
  BY LoopRoles DEF AutoInv, places
<1>3. last.role = r /\ last.iter = loop.iter
  BY <1>1, <1>2 DEF Underway
<1>4. newestIteration(last.iter) /\ passedBefore(last.iter, last.role) /\ unfinished(last.iter, last.role)
  BY <1>1, <1>2, <1>3 DEF Progressing
<1>5. /\ StagesKept /\ Recounted' /\ IterationsRunOnce' /\ IterationsAdvance' /\ limitNeverAsks
      /\ steps' \in Seq(AutoRecord) /\ DOMAIN steps' = DOMAIN steps
      /\ n \notin work /\ work' = work \cup {n} /\ n \in DOMAIN steps
      /\ \A m \in work : steps'[m].role = steps[m].role /\ steps'[m].iter = steps[m].iter
      /\ steps'[n].role = r /\ steps'[n].iter = loop.iter /\ human' = human /\ finals' = finals
  BY <1>1, <1>3, <1>4, StageDone
<1>6. p \in places /\ rankOf[p] = rankOf[r] + 1
  BY NextStage DEF places
<1>7. loop' = [pc |-> p, iter |-> loop.iter, chars |-> loop.chars + 1, step |-> 0, key |-> loop.key]
  <2> DEFINE half == [pc |-> r, iter |-> loop.iter, chars |-> loop.chars, step |-> 0, key |-> loop.key]
             most == [pc |-> p, iter |-> loop.iter, chars |-> loop.chars, step |-> 0, key |-> loop.key]
             all == [pc |-> p, iter |-> loop.iter, chars |-> loop.chars + 1, step |-> 0, key |-> loop.key]
  <2>1. [loop EXCEPT !.step = 0] = half
    BY <1>2, LoopFields
  <2>2. loop' = [[[loop EXCEPT !.step = 0] EXCEPT !.pc = p] EXCEPT !.chars = @ + 1]
    BY <1>1
  <2> HIDE DEF p, r
  <2>3. [half EXCEPT !.pc = p] = most
    OBVIOUS
  <2>4. [most EXCEPT !.chars = @ + 1] = all
    OBVIOUS
  <2> HIDE DEF half, most, all
  <2>5. loop' = [[half EXCEPT !.pc = p] EXCEPT !.chars = @ + 1]
    BY <2>1, <2>2
  <2>6. loop' = [most EXCEPT !.chars = @ + 1]
    BY <2>3, <2>5
  <2> QED BY <2>4, <2>6 DEF all
<1>8. /\ loop'.pc = p /\ loop'.iter = loop.iter /\ loop'.chars = loop.chars + 1 /\ loop'.step = 0 /\ loop'.key = loop.key
      /\ loop' \in [pc : places, iter : Nat, chars : Nat, step : Nat, key : Nat]
  <2>1. {loop.iter, loop.chars, loop.key} \subseteq Nat
    BY <1>2, LoopFields
  <2> HIDE DEF p, r
  <2> QED BY <1>6, <1>7, <2>1
<1>9. loop'.pc # "off" /\ loop'.pc # "asked" /\ loop'.pc # "resumed"
  BY <1>6, <1>8, NotPlaces
<1>10. AutoTypes'
  BY <1>1, <1>5, <1>8, <1>9 DEF AutoTypes
<1>11. Underway'
  BY <1>1, <1>8, <1>9 DEF Underway
<1>12. \A q \in loopRoles : rankOf[q] \in Nat /\ (rankOf[q] = rankOf[r] => q = r)
  BY LoopRoles, Ranks
<1>13. \A m \in work : steps[m].role \in loopRoles /\ ~(steps[m].role = r /\ steps[m].iter = loop.iter)
  BY <1>3, <1>4 DEF work, unfinished
<1> HIDE DEF n, p
<1>14. passed' = passed \cup {n} /\ n \notin passed
  <2>1. \A m \in work : steps[m].iter = loop.iter => (rankOf[steps[m].role] < rankOf[p] <=> rankOf[steps[m].role] < rankOf[r])
    BY <1>6, <1>12, <1>13
  <2>2. passed' = {m \in work' : steps'[m].iter < loop.iter \/ (steps'[m].iter = loop.iter /\ rankOf[steps'[m].role] < rankOf[p])}
    BY <1>8 DEF passed
  <2>3. passed = {m \in work : steps[m].iter < loop.iter \/ (steps[m].iter = loop.iter /\ rankOf[steps[m].role] < rankOf[r])}
    BY DEF passed
  <2>4. rankOf[r] < rankOf[p]
    BY <1>6, <1>12
  <2> QED BY <1>5, <2>1, <2>2, <2>3, <2>4
<1>15. Cardinality(passed') = Cardinality(passed) + 1
  BY <1>2, <1>14, CountsFinite, FS_AddElement
<1>16. Progressing'
  <2>1. passedBefore(loop.iter, loop.pc)'
    <3> SUFFICES ASSUME NEW q \in loopRoles, rankOf[q] < rankOf[p]
                 PROVE  \E m \in work' : steps'[m].role = q /\ steps'[m].iter = loop.iter
      BY <1>8 DEF passedBefore
    <3>1. q = r \/ rankOf[q] < rankOf[r]
      BY <1>6, <1>12
    <3> QED BY <1>3, <1>4, <1>5, <3>1 DEF passedBefore
  <2>2. newestIteration(loop.iter)'
    <3>1. loop.iter \in Nat
      BY <1>2, LoopFields
    <3> QED BY <1>3, <1>4, <1>5, <1>8, <3>1 DEF newestIteration
  <2>3. loop'.key # loop'.iter => \A m \in work' : steps'[m].iter = loop'.iter => rankOf[steps'[m].role] < rankOf[loop'.pc]
    <3> SUFFICES ASSUME loop.key # loop.iter, NEW m \in work', steps'[m].iter = loop.iter
                 PROVE  rankOf[steps'[m].role] < rankOf[p]
      BY <1>8
    <3>1. m = n \/ rankOf[steps'[m].role] < rankOf[r]
      BY <1>2, <1>5 DEF Progressing
    <3>2. steps'[m].role \in loopRoles
      BY <1>5, <1>13
    <3> QED BY <1>5, <1>6, <1>12, <3>1, <3>2
  <2>4. Cardinality(passed') <= loop'.chars /\ loop'.chars <= Cardinality(passed') + 2 * Cardinality(human') + Cardinality(finals')
    <3>1. Cardinality(passed) <= loop.chars /\ loop.chars <= Cardinality(passed) + 2 * Cardinality(human) + Cardinality(finals)
      BY <1>2 DEF Progressing
    <3>2. {loop.chars, Cardinality(passed), Cardinality(human), Cardinality(finals)} \subseteq Nat
      BY <1>2, LoopFields, CountsFinite
    <3> QED BY <1>5, <1>8, <1>15, <3>1, <3>2
  <2>5. loop'.iter >= 1 /\ loop'.iter <= MaxIterations /\ loop'.key <= loop'.iter
    BY <1>2, <1>8 DEF Progressing
  <2> QED BY <1>8, <2>1, <2>2, <2>3, <2>4, <2>5 DEF Progressing
<1> QED BY <1>5, <1>10, <1>11, <1>16 DEF AutoInv

\* The Turn of the contracted final Stage ends.
LEMMA CompleteFinal == ASSUME AutoInv, CompleteStage, loop.pc = "final" PROVE AutoInv' /\ limitNeverAsks
<1>1. /\ loop.step # 0 /\ UNCHANGED <<autoRun, autoPending>>
      /\ steps' = [steps EXCEPT ![loop.step].status = "completed", ![loop.step].out = 1]
      /\ loop' = [loop EXCEPT !.step = 0, !.pc = "emit", !.chars = @ + 1]
  BY NextStage DEF CompleteStage
<1>2. AutoTypes /\ Underway /\ last.role = "final" /\ "final" \notin loopRoles
  BY <1>1, LoopRoles DEF AutoInv, Underway
<1>3. loop.step \in DOMAIN steps /\ loop.step = Len(steps) /\ last = steps[loop.step] /\ last.status = "running"
  BY <1>1, <1>2, FlightIsLast
<1>4. /\ steps' \in Seq(AutoRecord) /\ Len(steps') = Len(steps) /\ DOMAIN steps' = DOMAIN steps
      /\ \A m \in DOMAIN steps : m # loop.step => steps'[m] = steps[m]
      /\ steps'[loop.step].role = last.role /\ steps'[loop.step].iter = last.iter
      /\ steps'[loop.step].status = "completed" /\ steps'[loop.step].out = 1
  BY <1>1, <1>2, <1>3, StageChanged
<1>5. StagesKept
  BY <1>3, <1>4 DEF StagesKept
<1>6. SameWork
  BY <1>2, <1>3, <1>4 DEF SameWork, work, done
<1>7. Recounted'
  <2> SUFFICES ASSUME NEW m \in DOMAIN steps, steps'[m].role \in loopRoles \cup {"final"}
               PROVE  steps'[m].out = 1 <=> steps'[m].status = "completed"
    BY <1>4 DEF Recounted, done
  <2>1. CASE m = loop.step
    BY <1>4, <2>1
  <2>2. CASE m # loop.step
    BY <1>4, <2>2 DEF AutoInv, Recounted, done
  <2> QED BY <2>1, <2>2
<1>8. IterationsRunOnce' /\ IterationsAdvance'
  BY <1>4, <1>5, <1>6, OnceKept, AdvanceKept DEF AutoInv
<1>9. limitNeverAsks
  BY <1>2, <1>3, <1>4 DEF limitNeverAsks
<1>10. loop' = [pc |-> "emit", iter |-> loop.iter, chars |-> loop.chars + 1, step |-> 0, key |-> loop.key]
  BY <1>1, <1>2, LoopFields
<1>11. loop' \in [pc : {"final", "emit"}, iter : Nat, chars : Nat, step : Nat, key : Nat] /\ loop'.step = 0
  BY <1>2, <1>10, LoopFields
<1>12. loop.pc # "off"
  OBVIOUS
<1>13. AutoTypes' /\ Underway' /\ Progressing'
  BY <1>1, <1>4, <1>11, <1>12, Leaving
<1> QED BY <1>7, <1>8, <1>9, <1>13 DEF AutoInv

\* Act's Tool asks: the Stage stays open.
LEMMA SuspendStops == ASSUME AutoInv, Suspend PROVE AutoInv' /\ limitNeverAsks
<1>1. /\ loop.pc = "act" /\ loop.step # 0 /\ autoRun' = "waiting" /\ autoPending' = "tool" /\ loop' = Off /\ UNCHANGED steps
  BY DEF Suspend
<1>2. AutoTypes /\ Underway /\ Progressing /\ "act" \in loopRoles /\ "act" \in places
  BY LoopRoles DEF AutoInv, places
<1>3. last.role = "act" /\ last.iter = loop.iter /\ last.status = "running"
  BY <1>1, <1>2 DEF Underway
<1>4. steps # <<>>
  <2>1. loop.step \in DOMAIN steps
    BY <1>1, <1>2, FlightIsLast
  <2> QED BY <2>1
<1>5. loop.iter \in 1..MaxIterations
  <2>1. loop.iter \in Nat /\ MaxIterations \in Nat /\ loop.iter >= 1 /\ loop.iter <= MaxIterations
    BY <1>1, <1>2, LoopFields, IterationLimits DEF Progressing
  <2> QED BY <2>1
<1>6. newestIteration(loop.iter) /\ passedBefore(loop.iter, "act") /\ unfinished(loop.iter, "act")
  BY <1>1, <1>2 DEF Progressing
<1>7. ActOpen
  BY <1>3, <1>5, <1>6 DEF ActOpen
<1>8. ActOpen' /\ last' = last /\ steps' # <<>>
  BY <1>1, <1>4, <1>7 DEF ActOpen, last, newestIteration, passedBefore, unfinished, work, done
<1>9. loop'.pc = "off" /\ loop'.step = 0
  BY <1>1, OffFields
<1>10. AutoTypes'
  BY <1>1, <1>2, <1>9, OffFields DEF AutoTypes
<1>11. Underway'
  BY <1>1, <1>3, <1>8, <1>9 DEF Underway
<1>12. Progressing'
  BY <1>9, NotPlaces DEF Progressing
<1> QED BY <1>1, <1>10, <1>11, <1>12, SameSteps DEF AutoInv

\* A question: its Stage is the one in flight.
LEMMA Questions ==
  ASSUME AutoInv, loop.pc = "decided", ~limitReached(loop.chars), UNCHANGED <<autoRun, autoPending>>,
         loop' = [loop EXCEPT !.pc = "asked", !.step = Len(steps) + 1],
         steps' = Append(steps, AutoStep("human_input", loop.iter, "running", 1))
  PROVE  AutoInv' /\ limitNeverAsks
<1>1. AutoTypes /\ loop.iter \in Nat /\ Len(steps) \in Nat /\ "human_input" \notin loopRoles
  BY LoopFields, StagesFinite, LoopRoles DEF AutoInv
<1>2. /\ Recounted' /\ IterationsRunOnce' /\ IterationsAdvance' /\ steps' \in Seq(AutoRecord)
      /\ Len(steps') = Len(steps) + 1 /\ last'.role = "human_input" /\ last'.iter = loop.iter /\ last'.status = "running"
  BY <1>1, Adding
<1>3. loop' = [pc |-> "asked", iter |-> loop.iter, chars |-> loop.chars, step |-> Len(steps) + 1, key |-> loop.key]
  BY <1>1, LoopFields
<1>4. /\ loop'.pc = "asked" /\ loop'.iter = loop.iter /\ loop'.chars = loop.chars /\ loop'.step = Len(steps) + 1
      /\ loop' \in [pc : {"asked"}, iter : Nat, chars : Nat, step : Nat, key : Nat]
  BY <1>1, <1>3, LoopFields
<1>5. autoRun \in {"running", "canceling"}
  BY <1>1 DEF AutoTypes
<1>6. AutoTypes'
  BY <1>2, <1>4, <1>5 DEF AutoTypes
<1>7. Underway'
  <2>1. ~limitReached(loop'.chars)
    BY <1>4
  <2> QED BY <1>1, <1>2, <1>4, <1>5, <2>1 DEF Underway, limitReached
<1>8. Progressing'
  BY <1>4, NotPlaces DEF Progressing
<1>9. limitNeverAsks
  BY DEF limitNeverAsks
<1> QED BY <1>2, <1>6, <1>7, <1>8, <1>9 DEF AutoInv

\* The next iteration: everything completed so far was passed.
LEMMA NextIteration ==
  ASSUME AutoInv, loop.pc = "decided", UNCHANGED <<autoRun, autoPending, steps>>,
         loop' = [loop EXCEPT !.pc = "top", !.iter = @ + 1]
  PROVE  AutoInv' /\ limitNeverAsks
<1>1. AutoTypes /\ Progressing /\ loop.step = 0 /\ "decided" \in places /\ "top" \in places
  BY LoopRoles DEF AutoInv, places, Underway
<1>2. loop' = [pc |-> "top", iter |-> loop.iter + 1, chars |-> loop.chars, step |-> loop.step, key |-> loop.key]
  BY <1>1, LoopFields
<1>3. /\ loop'.pc = "top" /\ loop'.iter = loop.iter + 1 /\ loop'.chars = loop.chars /\ loop'.step = 0 /\ loop'.key = loop.key
      /\ loop' \in [pc : places, iter : Nat, chars : Nat, step : Nat, key : Nat] /\ loop.iter \in Nat /\ loop.key \in Nat
  BY <1>1, <1>2, LoopFields
<1>4. AutoTypes' /\ Underway' /\ Recounted' /\ IterationsRunOnce' /\ IterationsAdvance' /\ limitNeverAsks
  BY <1>1, <1>3, Recounting
<1>5. work' = work /\ human' = human /\ finals' = finals
  BY DEF work, human, finals, done
<1>6. newestIteration(loop.iter)
  BY <1>1 DEF Progressing
<1>7. \A m \in work : steps[m].iter \in Nat /\ steps[m].iter <= loop.iter /\ rankOf[steps[m].role] \in Nat
                      /\ rankOf[steps[m].role] < 6
  <2>1. \A m \in work : steps[m].iter \in Nat
    BY <1>1, StageFields DEF work
  <2>2. \A m \in work : rankOf[steps[m].role] \in Nat /\ rankOf[steps[m].role] < 6
    BY LoopRoles, Ranks DEF work
  <2> QED BY <1>6, <2>1, <2>2 DEF newestIteration
<1>8. passed = work /\ passed' = work
  <2>1. passed = work
    BY <1>3, <1>7, Ranks DEF passed
  <2>2. passed' = {m \in work : steps[m].iter < loop.iter + 1 \/ (steps[m].iter = loop.iter + 1 /\ rankOf[steps[m].role] < 0)}
    BY <1>3, <1>5, Ranks DEF passed
  <2> QED BY <1>3, <1>7, <2>1, <2>2
<1>9. Progressing'
  <2>1. passedBefore(loop.iter, loop.pc)'
    BY <1>3, Ranks, LoopRoles DEF passedBefore
  <2>2. newestIteration(loop.iter)'
    BY <1>3, <1>5, <1>7 DEF newestIteration
  <2>3. \A m \in work' : steps'[m].iter # loop'.iter
    BY <1>3, <1>5, <1>7
  <2>4. Cardinality(passed') <= loop'.chars /\ loop'.chars <= Cardinality(passed') + 2 * Cardinality(human') + Cardinality(finals')
    BY <1>1, <1>3, <1>5, <1>8 DEF Progressing
  <2>5. loop'.iter >= 1 /\ loop'.key <= loop'.iter
    BY <1>1, <1>3 DEF Progressing
  <2> QED BY <1>3, <2>1, <2>2, <2>3, <2>4, <2>5 DEF Progressing
<1> QED BY <1>4, <1>9 DEF AutoInv

LEMMA DecideGoesOn == ASSUME AutoInv, NEW d, NEW need \in BOOLEAN, Decide(d, need) PROVE AutoInv' /\ limitNeverAsks
<1> DEFINE choice == decision(fallback(parseAutonomousDecision(d)), need)
<1>1. /\ loop.pc = "decided" /\ UNCHANGED <<autoRun, autoPending>>
      /\ \/ choice = "ask_user" /\ loop' = [loop EXCEPT !.pc = "asked", !.step = Len(steps) + 1]
            /\ steps' = Append(steps, AutoStep("human_input", loop.iter, "running", 1))
         \/ choice # "ask_user" /\ UNCHANGED steps
            /\ IF choice = "stop" \/ loop.iter = MaxIterations THEN loop' = [loop EXCEPT !.pc = "final"]
               ELSE loop' = [loop EXCEPT !.pc = "top", !.iter = @ + 1]
  BY DEF Decide
<1>2. choice = "ask_user" => ~limitReached(loop.chars)
  BY DEF decision
<1> HIDE DEF choice
<1>3. CASE choice = "ask_user"
  BY <1>1, <1>2, <1>3, Questions
<1>4. CASE loop' = [loop EXCEPT !.pc = "final"] /\ UNCHANGED steps
  <2>1. AutoTypes /\ loop.step = 0 /\ loop.pc # "off" /\ steps' \in Seq(AutoRecord)
    BY <1>1, <1>4, LoopRoles DEF AutoInv, Underway, AutoTypes
  <2>2. loop' = [pc |-> "final", iter |-> loop.iter, chars |-> loop.chars, step |-> loop.step, key |-> loop.key]
    BY <1>4, <2>1, LoopFields
  <2>3. loop' \in [pc : {"final", "emit"}, iter : Nat, chars : Nat, step : Nat, key : Nat] /\ loop'.step = 0
    BY <2>1, <2>2, LoopFields
  <2>4. AutoTypes' /\ Underway' /\ Progressing'
    BY <1>1, <2>1, <2>3, Leaving
  <2> QED BY <1>4, <2>4, SameSteps DEF AutoInv
<1>5. CASE loop' = [loop EXCEPT !.pc = "top", !.iter = @ + 1] /\ UNCHANGED steps
  BY <1>1, <1>5, NextIteration
<1> QED BY <1>1, <1>3, <1>4, <1>5

\* The question's Run waits, or its Stage fails with a canceled Run.
LEMMA QuestionStops == ASSUME AutoInv, suspendHumanInput PROVE AutoInv' /\ limitNeverAsks
<1>1. loop.pc = "asked" /\ loop' = Off /\ loop'.pc = "off" /\ loop'.step = 0
  BY OffFields DEF suspendHumanInput
<1>2. AutoTypes /\ Underway /\ loop.step # 0 /\ last.role = "human_input" /\ ~limitReached(loop.chars)
  BY <1>1, LoopRoles DEF AutoInv, Underway
<1>3. loop.step \in DOMAIN steps /\ last = steps[loop.step]
  BY <1>2, FlightIsLast
<1>4. CASE autoRun' = "waiting" /\ autoPending' = "human" /\ UNCHANGED steps
  <2>1. AutoTypes'
    BY <1>1, <1>2, <1>4, OffFields DEF AutoTypes
  <2>2. ~limitReached(0)
    BY <1>2, LoopFields, IterationLimits DEF limitReached
  <2>3. steps' # <<>> /\ last'.role = "human_input"
    BY <1>2, <1>3, <1>4 DEF last
  <2>4. Underway'
    BY <1>1, <1>4, <2>2, <2>3 DEF Underway, limitReached
  <2>5. Progressing'
    BY <1>1, NotPlaces DEF Progressing
  <2> QED BY <1>4, <2>1, <2>4, <2>5, SameSteps DEF AutoInv
<1>5. CASE autoRun' = "canceled" /\ steps' = [steps EXCEPT ![loop.step].status = "failed"]
  <2> DEFINE o == steps[loop.step].out
             r == steps[loop.step]
             half == [role |-> r.role, iter |-> r.iter, status |-> "failed", out |-> r.out]
  <2>1. o \in {0, 1} /\ r = [role |-> r.role, iter |-> r.iter, status |-> r.status, out |-> r.out] /\ steps \in Seq(AutoRecord)
    BY <1>2, <1>3, StageFields DEF AutoTypes
  <2>2. [r EXCEPT !.status = "failed"] = half
    BY <2>1
  <2>3. [half EXCEPT !.out = o] = half
    OBVIOUS
  <2>4. steps' = [steps EXCEPT ![loop.step] = half]
    BY <1>5, <2>2
  <2>5. [steps EXCEPT ![loop.step].status = "failed", ![loop.step].out = o] = [[steps EXCEPT ![loop.step] = [steps[loop.step] EXCEPT !.status = "failed"]] EXCEPT ![loop.step] = [@ EXCEPT !.out = o]]
    OBVIOUS
  <2>6. [steps EXCEPT ![loop.step].status = "failed", ![loop.step].out = o] = [[steps EXCEPT ![loop.step] = half] EXCEPT ![loop.step] = [@ EXCEPT !.out = o]]
    BY <2>2, <2>5
  <2> HIDE DEF half
  <2>7. [[steps EXCEPT ![loop.step] = half] EXCEPT ![loop.step] = [@ EXCEPT !.out = o]] = [steps EXCEPT ![loop.step] = [half EXCEPT !.out = o]]
    BY <1>3
  <2>8. steps' = [steps EXCEPT ![loop.step].status = "failed", ![loop.step].out = o]
    BY <2>3, <2>4, <2>6, <2>7
  <2> HIDE DEF o
  <2>9. /\ Recounted' /\ IterationsRunOnce' /\ IterationsAdvance' /\ steps' \in Seq(AutoRecord)
    BY <1>2, <2>1, <2>8, FailedSteps
  <2>10. /\ loop' = Off /\ steps' \in Seq(AutoRecord)
         /\ autoRun' # "waiting" \/ (UNCHANGED <<autoRun, autoPending>> /\ loop.pc # "off")
    BY <1>1, <1>5, <2>9
  <2>11. AutoTypes' /\ Underway' /\ Progressing'
    BY <1>2, <2>10, Stopped
  <2>12. limitNeverAsks
    BY <1>2 DEF limitNeverAsks
  <2> QED BY <2>9, <2>11, <2>12 DEF AutoInv
<1> QED BY <1>4, <1>5 DEF suspendHumanInput

\* The output of Stages that are work, questions, answers, notes or final Stages.
LEMMA CountedOutput ==
  ASSUME NEW ss, NEW S, IsFiniteSet(S), \A n \in S : ss[n].out \in {0, 1},
         NEW A \in SUBSET S, \A n \in A : ss[n].out = 1,
         NEW H, NEW F, IsFiniteSet(H), IsFiniteSet(F), \A n \in S : ss[n].out = 1 => n \in A \cup H \cup F
  PROVE  /\ written(ss, S) \in Nat /\ Cardinality(A) <= written(ss, S)
         /\ written(ss, S) <= Cardinality(A) + Cardinality(H) + Cardinality(F)
<1> DEFINE W == {n \in S : ss[n].out = 1}
<1>1. written(ss, S) = Cardinality(W)
  BY WrittenCounts
<1>2. A \subseteq W /\ W \subseteq (A \cup H) \cup F /\ W \subseteq S
  OBVIOUS
<1> HIDE DEF W
<1>3. IsFiniteSet(W) /\ IsFiniteSet(A)
  BY <1>2, FS_Subset
<1>4. IsFiniteSet(A \cup H) /\ Cardinality(A \cup H) <= Cardinality(A) + Cardinality(H)
  <2>1. IsFiniteSet(A \cup H) /\ Cardinality(A \cup H) = Cardinality(A) + Cardinality(H) - Cardinality(A \cap H)
    BY <1>3, FS_Union
  <2>2. IsFiniteSet(A \cap H)
    BY <1>3, FS_Subset
  <2>3. {Cardinality(A), Cardinality(H), Cardinality(A \cap H)} \subseteq Nat
    BY <1>3, <2>2, FS_CardinalityType
  <2> QED BY <2>1, <2>3
<1> DEFINE B == A \cup H
<1>5. IsFiniteSet(B) /\ Cardinality(B) <= Cardinality(A) + Cardinality(H) /\ W \subseteq B \cup F
  BY <1>2, <1>4
<1> HIDE DEF B
<1>6. IsFiniteSet(B \cup F) /\ Cardinality(B \cup F) <= Cardinality(B) + Cardinality(F)
  <2>1. IsFiniteSet(B \cup F) /\ Cardinality(B \cup F) = Cardinality(B) + Cardinality(F) - Cardinality(B \cap F)
    BY <1>5, FS_Union
  <2>2. IsFiniteSet(B \cap F)
    BY <1>5, FS_Subset
  <2>3. {Cardinality(B), Cardinality(F), Cardinality(B \cap F)} \subseteq Nat
    BY <1>5, <2>2, FS_CardinalityType
  <2> QED BY <2>1, <2>3
<1>7. Cardinality(W) <= Cardinality(B \cup F) /\ Cardinality(A) <= Cardinality(W)
  <2>1. Cardinality(W) <= Cardinality(B \cup F)
    BY <1>5, <1>6, FS_Subset
  <2>2. Cardinality(A) <= Cardinality(W)
    BY <1>2, <1>3, FS_Subset
  <2> QED BY <2>1, <2>2
<1>8. {Cardinality(W), Cardinality(A), Cardinality(H), Cardinality(F), Cardinality(B), Cardinality(B \cup F)} \subseteq Nat
  BY <1>3, <1>5, <1>6, FS_CardinalityType
<1> QED BY <1>1, <1>5, <1>6, <1>7, <1>8

\* What is in the counter when the loop is rebuilt from its Stages.
LEMMA Rebuilt ==
  ASSUME AutoTypes, Recounted, NEW S \in SUBSET DOMAIN steps, work \subseteq S
  PROVE  /\ maxIter(steps, S) \in Nat /\ newestIteration(maxIter(steps, S))
         /\ written(steps, S) \in Nat /\ Cardinality(work) <= written(steps, S)
         /\ written(steps, S) <= Cardinality(work) + Cardinality(human) + Cardinality(finals)
<1>1. maxIter(steps, S) \in Nat /\ newestIteration(maxIter(steps, S))
  BY MaxIterIsGreatest DEF newestIteration
<1>2. IsFiniteSet(S) /\ IsFiniteSet(human) /\ IsFiniteSet(finals)
  BY StagesFinite, CountsFinite, FS_Subset
<1>3. \A n \in S : steps[n].out \in {0, 1}
  BY StageFields
<1>4. \A n \in work : steps[n].out = 1
  BY DEF work, Recounted
<1>5. \A n \in S : steps[n].out = 1 => n \in work \cup human \cup finals
  BY StageFields DEF Recounted, work, human, finals
<1> QED BY <1>1, <1>2, <1>3, <1>4, <1>5, CountedOutput

\* A rebuilt loop is at the head of an iteration nobody has begun.
LEMMA LoopFrom ==
  ASSUME NEW i \in Nat, NEW c \in Nat, NEW k \in Nat, loop' = loopFrom(i, c, k)
  PROVE  /\ loop'.pc = "top" /\ loop'.iter = i /\ loop'.chars = c /\ loop'.step = 0 /\ loop'.key = k
         /\ loop' \in [pc : places, iter : Nat, chars : Nat, step : Nat, key : Nat]
  BY DEF loopFrom, places

LEMMA Rebuilding ==
  ASSUME AutoInv, steps' \in Seq(AutoRecord), autoRun' = "running", SameWork,
         NEW i \in Nat, newestIteration(i), NEW c \in Nat, loop' = loopFrom(i + 1, c, 0),
         Cardinality(work) <= c, c <= Cardinality(work) + 2 * Cardinality(human') + Cardinality(finals')
  PROVE  AutoTypes' /\ Underway' /\ Progressing'
<1>1. /\ loop'.pc = "top" /\ loop'.iter = i + 1 /\ loop'.chars = c /\ loop'.step = 0 /\ loop'.key = 0
      /\ loop' \in [pc : places, iter : Nat, chars : Nat, step : Nat, key : Nat]
  BY LoopFrom
<1>2. AutoTypes'
  BY <1>1 DEF AutoTypes
<1>3. Underway'
  BY <1>1 DEF Underway
<1>4. \A m \in work : steps[m].iter \in Nat /\ steps[m].iter <= i
  <2>1. \A m \in work : steps[m].iter \in Nat
    BY StageFields DEF AutoInv, work
  <2> QED BY <2>1 DEF newestIteration
<1>5. work' = work /\ \A m \in work : steps'[m].role = steps[m].role /\ steps'[m].iter = steps[m].iter
  BY DEF SameWork
<1>6. passed' = work
  BY <1>1, <1>4, <1>5 DEF passed
<1>7. newestIteration(loop.iter)' /\ \A m \in work' : steps'[m].iter # loop'.iter
  BY <1>1, <1>4, <1>5 DEF newestIteration
<1>8. passedBefore(loop.iter, loop.pc)'
  BY <1>1, Ranks, LoopRoles DEF passedBefore
<1>9. loop'.iter >= 1 /\ loop'.key <= loop'.iter
  BY <1>1
<1>10. Progressing'
  BY <1>1, <1>6, <1>7, <1>8, <1>9 DEF Progressing
<1> QED BY <1>2, <1>3, <1>10

\* The answer completes the question, which is the last Stage.
LEMMA AnswerGoesOn == ASSUME AutoInv, ResumeHumanInput PROVE AutoInv' /\ limitNeverAsks
<1>1. /\ autoRun = "waiting" /\ autoPending = "human" /\ autoRun' = "running"
      /\ steps' = [steps EXCEPT ![latestHumanInputStep].status = "completed", ![latestHumanInputStep].out = 1]
      /\ loop' = loopFrom(maxIter(steps, DOMAIN steps) + 1, 1 + written(steps, DOMAIN steps), 0)
  BY DEF ResumeHumanInput, rebuildAutonomousState
<1>2. AutoTypes /\ Recounted /\ steps # <<>> /\ last.role = "human_input" /\ ~limitReached(0) /\ loop = Off
  BY <1>1 DEF AutoInv, Underway, AutoTypes
<1> DEFINE n == Len(steps)
<1>3. n \in Nat /\ DOMAIN steps = 1..n /\ n \in DOMAIN steps /\ steps[n].role = "human_input"
  <2>1. n \in Nat /\ DOMAIN steps = 1..n
    BY <1>2, StagesFinite
  <2>2. n # 0
    <3>1. steps \in Seq(AutoRecord)
      BY <1>2 DEF AutoTypes
    <3> HIDE DEF AutoRecord
    <3> QED BY <1>2, <3>1
  <2> QED BY <1>2, <2>1, <2>2 DEF last
<1> HIDE DEF n
<1>4. latestHumanInputStep = n
  <2> DEFINE Latest(k) == steps[k].role = "human_input" /\ \A m \in (k + 1)..n : steps[m].role # "human_input"
  <2>1. Latest(n)
    BY <1>3
  <2>2. \A k \in DOMAIN steps : Latest(k) => k = n
    BY <1>3
  <2>3. latestHumanInputStep = CHOOSE k \in DOMAIN steps : Latest(k)
    BY DEF latestHumanInputStep, n
  <2> HIDE DEF Latest
  <2> QED BY <1>3, <2>1, <2>2, <2>3
<1>5. /\ steps' \in Seq(AutoRecord) /\ Len(steps') = n /\ DOMAIN steps' = DOMAIN steps
      /\ \A m \in DOMAIN steps : m # n => steps'[m] = steps[m]
      /\ steps'[n].role = "human_input" /\ steps'[n].iter = steps[n].iter
  BY <1>1, <1>2, <1>3, <1>4, StageChanged DEF n
<1>6. "human_input" \notin loopRoles
  BY LoopRoles
<1>7. StagesKept
  BY <1>3, <1>5 DEF StagesKept
<1>8. SameWork
  BY <1>3, <1>5, <1>6 DEF SameWork, work, done
<1>9. Recounted'
  BY <1>2, <1>5, <1>6 DEF Recounted, done
<1>10. IterationsRunOnce' /\ IterationsAdvance'
  BY <1>5, <1>7, <1>8, OnceKept, AdvanceKept DEF AutoInv
<1>11. limitNeverAsks
  BY <1>2, OffFields DEF limitNeverAsks
<1>12. human' = human /\ finals' = finals /\ n \in human
  BY <1>3, <1>5, <1>7 DEF StagesKept, human, finals
<1> DEFINE i == maxIter(steps, DOMAIN steps)
           c == written(steps, DOMAIN steps)
<1>13. /\ i \in Nat /\ newestIteration(i) /\ c \in Nat /\ Cardinality(work) <= c
       /\ c <= Cardinality(work) + Cardinality(human) + Cardinality(finals)
  <2>1. work \subseteq DOMAIN steps
    BY DEF work
  <2> QED BY <1>2, <2>1, Rebuilt
<1>14. loop' = loopFrom(i + 1, 1 + c, 0)
  BY <1>1
<1> HIDE DEF i, c
<1>15. Cardinality(human) >= 1 /\ {Cardinality(work), Cardinality(human), Cardinality(finals)} \subseteq Nat
  <2>1. IsFiniteSet(human) /\ {Cardinality(work), Cardinality(human), Cardinality(finals)} \subseteq Nat
    BY <1>2, CountsFinite
  <2>2. Cardinality(human) # 0
    BY <1>12, <2>1, FS_EmptySet
  <2> QED BY <2>1, <2>2
<1>16. 1 + c \in Nat /\ Cardinality(work) <= 1 + c /\ 1 + c <= Cardinality(work) + 2 * Cardinality(human') + Cardinality(finals')
  BY <1>12, <1>13, <1>15
<1>17. AutoTypes' /\ Underway' /\ Progressing'
  BY <1>1, <1>5, <1>8, <1>13, <1>14, <1>16, Rebuilding
<1> QED BY <1>9, <1>10, <1>11, <1>17 DEF AutoInv

\* The suspended Turn of Act continues: its Stage is the last one.
LEMMA ToolGoesOn == ASSUME AutoInv, ResumeTool PROVE AutoInv' /\ limitNeverAsks
<1> DEFINE n == Len(steps)
           Latest(k) == steps[k].role = "act" /\ \A m \in (k + 1)..n : steps[m].role # "act"
           act == CHOOSE k \in DOMAIN steps : Latest(k)
<1>1. /\ autoRun = "waiting" /\ autoPending = "tool" /\ autoRun' = "running" /\ UNCHANGED steps
      /\ loop' = [Off EXCEPT !.pc = "resumed", !.step = act]
  BY DEF ResumeTool
<1>2. AutoTypes /\ steps # <<>> /\ last.status = "running" /\ ActOpen
  BY <1>1 DEF AutoInv, Underway
<1>3. n \in Nat /\ DOMAIN steps = 1..n /\ n \in DOMAIN steps /\ steps[n].role = "act"
  <2>1. n \in Nat /\ DOMAIN steps = 1..n
    BY <1>2, StagesFinite
  <2>2. n # 0
    <3>1. steps \in Seq(AutoRecord)
      BY <1>2 DEF AutoTypes
    <3> HIDE DEF AutoRecord
    <3> QED BY <1>2, <3>1
  <2> QED BY <1>2, <2>1, <2>2 DEF last, ActOpen
<1> HIDE DEF n
<1>4. act = n
  <2>1. Latest(n)
    BY <1>3
  <2>2. \A k \in DOMAIN steps : Latest(k) => k = n
    BY <1>3
  <2> HIDE DEF Latest
  <2> QED BY <1>3, <2>1, <2>2
<1> HIDE DEF act
<1>5. loop' = [pc |-> "resumed", iter |-> 0, chars |-> 0, step |-> n, key |-> 0]
  BY <1>1, <1>4 DEF Off
<1>6. /\ loop'.pc = "resumed" /\ loop'.step = n /\ loop' \in [pc : {"resumed"}, iter : Nat, chars : Nat, step : Nat, key : Nat]
  BY <1>3, <1>5
<1>7. AutoTypes'
  BY <1>1, <1>2, <1>6 DEF AutoTypes
<1>8. last' = last /\ ActOpen'
  BY <1>1, <1>2 DEF ActOpen, last, newestIteration, passedBefore, unfinished, work, done
<1>9. Underway'
  BY <1>1, <1>2, <1>6, <1>8 DEF Underway, n
<1>10. Progressing'
  BY <1>6, NotPlaces DEF Progressing
<1> QED BY <1>1, <1>7, <1>9, <1>10, SameSteps DEF AutoInv

\* Act completes, and its iteration begins again with what it has completed.
LEMMA ToolContinues == ASSUME AutoInv, resumeClarificationAutonomous PROVE AutoInv' /\ limitNeverAsks
<1> DEFINE n == loop.step
           i == last.iter
           S == counted(steps', i)
           c == written(steps', S)
<1>1. /\ loop.pc = "resumed" /\ autoRun = "running" /\ UNCHANGED <<autoRun, autoPending>>
      /\ steps' = [steps EXCEPT ![n].status = "completed", ![n].out = 1]
      /\ loop' = loopFrom(steps[n].iter, written(steps', counted(steps', steps[n].iter)), steps[n].iter)
  BY DEF resumeClarificationAutonomous
<1>2. AutoTypes /\ Underway /\ n # 0 /\ ActOpen
  BY <1>1, LoopRoles DEF AutoInv, Underway
<1>3. last = steps[n]
  BY <1>2, FlightIsLast
<1>4. /\ last.role = "act" /\ "act" \in loopRoles /\ i \in 1..MaxIterations /\ newestIteration(i)
      /\ passedBefore(i, "act") /\ unfinished(i, "act")
  BY <1>2, LoopRoles DEF ActOpen
<1>5. /\ StagesKept /\ Recounted' /\ IterationsRunOnce' /\ IterationsAdvance' /\ limitNeverAsks
      /\ steps' \in Seq(AutoRecord) /\ DOMAIN steps' = DOMAIN steps
      /\ n \notin work /\ work' = work \cup {n} /\ n \in DOMAIN steps
      /\ \A m \in work : steps'[m].role = steps[m].role /\ steps'[m].iter = steps[m].iter
      /\ steps'[n].role = "act" /\ steps'[n].iter = i /\ human' = human /\ finals' = finals
  BY <1>1, <1>2, <1>4, StageDone
<1>6. i \in Nat /\ i >= 1
  BY <1>4, IterationLimits
<1> HIDE DEF n, i
<1>7. IsFiniteSet(DOMAIN steps) /\ IsFiniteSet(human) /\ IsFiniteSet(finals)
      /\ {Cardinality(human), Cardinality(finals)} \subseteq Nat
  BY <1>2, StagesFinite, CountsFinite
<1>8. \A m \in DOMAIN steps' : steps'[m].out \in {0, 1} /\ steps'[m].iter \in Nat /\ steps'[m].role \in loopRoles \cup {"final", "human_input", "recovery"}
  <2>1. \A m \in DOMAIN steps' : steps'[m] \in AutoRecord
    <3> HIDE DEF AutoRecord
    <3> QED BY <1>5
  <2> QED BY <2>1 DEF AutoRecord
<1> DEFINE A == {m \in work' : steps'[m].iter < i}
<1>9. S \in SUBSET DOMAIN steps /\ A \in SUBSET S /\ \A m \in A : steps'[m].out = 1
  BY <1>5 DEF counted, work, done, Recounted
<1>10. \A m \in S : steps'[m].out = 1 => m \in A \cup human \cup finals
  <2> SUFFICES ASSUME NEW m \in S, steps'[m].out = 1, steps'[m].role \in loopRoles PROVE m \in A
    <3>1. \A m \in S : m \in DOMAIN steps'
      BY DEF counted
    <3>2. human' = {m \in DOMAIN steps' : steps'[m].role \in {"human_input", "recovery"}} /\ finals' = {m \in DOMAIN steps' : steps'[m].role = "final"}
      BY DEF human, finals
    <3> HIDE DEF S, A
    <3> QED BY <1>5, <1>8, <3>1, <3>2
  <2> QED BY DEF counted, work, done
<1>11. IsFiniteSet(S)
  BY <1>7, <1>9, FS_Subset
<1>12. \A m \in S : steps'[m].out \in {0, 1}
  BY <1>5, <1>8, <1>9
<1> HIDE DEF A, S
<1>13. c \in Nat /\ Cardinality(A) <= c /\ c <= Cardinality(A) + Cardinality(human) + Cardinality(finals)
  BY <1>7, <1>9, <1>10, <1>11, <1>12, CountedOutput
<1>14. loop' = loopFrom(i, c, i)
  BY <1>1, <1>3 DEF i, n, S
<1> HIDE DEF c
<1>15. /\ loop'.pc = "top" /\ loop'.iter = i /\ loop'.chars = c /\ loop'.step = 0 /\ loop'.key = i
       /\ loop' \in [pc : places, iter : Nat, chars : Nat, step : Nat, key : Nat]
  BY <1>6, <1>13, <1>14, LoopFrom
<1>16. AutoTypes'
  BY <1>1, <1>5, <1>15 DEF AutoTypes
<1>17. Underway'
  BY <1>1, <1>15 DEF Underway
<1>18. passed' = A
  <2>1. \A m \in work' : rankOf[steps'[m].role] \in Nat
    BY LoopRoles, Ranks DEF work
  <2>2. passed' = {m \in work' : steps'[m].iter < i \/ (steps'[m].iter = i /\ rankOf[steps'[m].role] < 0)}
    BY <1>15, Ranks DEF passed
  <2> QED BY <2>1, <2>2 DEF A
<1>19. Progressing'
  <2>1. newestIteration(loop.iter)'
    BY <1>4, <1>5, <1>6, <1>15 DEF newestIteration
  <2>2. passedBefore(loop.iter, loop.pc)'
    BY <1>15, Ranks, LoopRoles DEF passedBefore
  <2>3. Cardinality(A) \in Nat
    <3>1. IsFiniteSet(A)
      BY <1>9, <1>11, FS_Subset
    <3> QED BY <3>1, FS_CardinalityType
  <2>4. Cardinality(passed') <= loop'.chars /\ loop'.chars <= Cardinality(passed') + 2 * Cardinality(human') + Cardinality(finals')
    BY <1>5, <1>7, <1>13, <1>15, <1>18, <2>3
  <2>5. loop'.iter >= 1 /\ loop'.key <= loop'.iter /\ loop'.key = loop'.iter
    BY <1>6, <1>15
  <2> QED BY <1>15, <2>1, <2>2, <2>4, <2>5 DEF Progressing
<1> QED BY <1>5, <1>16, <1>17, <1>19 DEF AutoInv

\* A recovery note, and the iteration after the last completed one.
LEMMA RecoverGoesOn == ASSUME AutoInv, NEW note \in {0, 1}, ResumeRecoverable(note) PROVE AutoInv' /\ limitNeverAsks
<1> DEFINE S == {n \in DOMAIN steps : steps[n].status = "completed" /\ steps[n].role # "recovery"}
           i == maxIter(steps, S)
           c == written(steps, S)
           j == maxIter(steps, DOMAIN steps) + 1
<1>1. /\ autoRun' = "running" /\ steps' = Append(steps, AutoStep("recovery", j, "completed", note))
      /\ loop' = loopFrom(i + 1, note + c, 0)
  BY DEF ResumeRecoverable, rebuildRecoverableAutonomousState, nextAutonomousIteration
<1>2. AutoTypes /\ Recounted /\ "recovery" \notin loopRoles \cup {"final"}
  BY LoopRoles DEF AutoInv
<1>3. S \in SUBSET DOMAIN steps /\ work \subseteq S /\ work \subseteq DOMAIN steps
  BY <1>2 DEF work, done
<1> HIDE DEF S
<1>4. /\ i \in Nat /\ newestIteration(i) /\ c \in Nat /\ Cardinality(work) <= c
      /\ c <= Cardinality(work) + Cardinality(human) + Cardinality(finals)
  BY <1>2, <1>3, Rebuilt
<1>5. j \in Nat
  BY <1>2, MaxIterIsGreatest
<1> HIDE DEF i, c, j
<1>6. /\ SameWork /\ StagesKept /\ Recounted' /\ IterationsRunOnce' /\ IterationsAdvance' /\ limitNeverAsks
      /\ steps' \in Seq(AutoRecord) /\ Len(steps') = Len(steps) + 1 /\ last'.role = "recovery"
  <2>1. AutoInv /\ "recovery" \in loopRoles \cup {"final", "human_input", "recovery"} /\ "completed" \in {"running", "completed"}
    OBVIOUS
  <2> QED BY <1>1, <1>2, <1>5, <2>1, Adding
<1>7. Len(steps) \in Nat /\ DOMAIN steps = 1..Len(steps) /\ DOMAIN steps' = 1..(Len(steps) + 1)
  <2>1. Len(steps) \in Nat /\ DOMAIN steps = 1..Len(steps)
    BY <1>2, StagesFinite
  <2> HIDE DEF AutoRecord
  <2>2. DOMAIN steps' = 1..Len(steps')
    BY <1>6
  <2> QED BY <1>6, <2>1, <2>2
<1>8. Len(steps) + 1 \in human' /\ Len(steps) + 1 \notin human /\ human \subseteq human' /\ finals \subseteq finals'
  BY <1>6, <1>7 DEF last, human, finals, StagesKept
<1>9. IsFiniteSet(human') /\ IsFiniteSet(finals')
  <2>1. Len(steps) + 1 \in Int
    BY <1>7
  <2>2. IsFiniteSet(1..(Len(steps) + 1))
    BY <2>1, FS_Interval
  <2>3. human' \in SUBSET DOMAIN steps' /\ finals' \in SUBSET DOMAIN steps'
    BY DEF human, finals
  <2> QED BY <1>7, <2>2, <2>3, FS_Subset
<1>10. Cardinality(human) <= Cardinality(human') /\ Cardinality(finals) <= Cardinality(finals')
  BY <1>8, <1>9, FS_Subset
<1>11. {Cardinality(work), Cardinality(human), Cardinality(finals), Cardinality(human'), Cardinality(finals')} \subseteq Nat
  BY <1>2, <1>9, CountsFinite, FS_CardinalityType
<1>12. Cardinality(human') # 0
  BY <1>8, <1>9, FS_EmptySet
<1>13. note + c \in Nat /\ Cardinality(work) <= note + c /\ note + c <= Cardinality(work) + 2 * Cardinality(human') + Cardinality(finals')
  BY <1>4, <1>10, <1>11, <1>12
<1>14. AutoTypes' /\ Underway' /\ Progressing'
  BY <1>1, <1>4, <1>6, <1>13, Rebuilding
<1> QED BY <1>6, <1>14 DEF AutoInv

LEMMA AutoStarts == AutoInit => AutoInv
<1> SUFFICES ASSUME AutoInit PROVE AutoInv
  OBVIOUS
<1>1. autoRun = "running" /\ steps = <<>> /\ loop = loopFrom(1, 0, 0)
  BY DEF AutoInit
<1>2. /\ loop.pc = "top" /\ loop.iter = 1 /\ loop.chars = 0 /\ loop.step = 0 /\ loop.key = 0
      /\ loop \in [pc : places, iter : Nat, chars : Nat, step : Nat, key : Nat]
  BY <1>1 DEF loopFrom, places
<1>3. DOMAIN steps = {} /\ steps \in Seq(AutoRecord)
  <2> HIDE DEF AutoRecord
  <2> QED BY <1>1
<1>4. AutoTypes
  BY <1>1, <1>2, <1>3 DEF AutoTypes
<1>5. work = {} /\ human = {} /\ finals = {} /\ passed = {}
  BY <1>3 DEF work, human, finals, passed
<1>6. Recounted /\ IterationsRunOnce /\ IterationsAdvance
  BY <1>3, <1>5 DEF Recounted, IterationsRunOnce, IterationsAdvance
<1>7. Underway
  BY <1>1, <1>2 DEF Underway
<1>8. Progressing
  <2>1. passedBefore(loop.iter, loop.pc) /\ newestIteration(loop.iter)
    BY <1>2, <1>5, Ranks, LoopRoles DEF passedBefore, newestIteration
  <2>2. Cardinality({}) = 0
    BY FS_EmptySet
  <2>3. Cardinality(passed) <= loop.chars /\ loop.chars <= Cardinality(passed) + 2 * Cardinality(human) + Cardinality(finals)
    BY <1>2, <1>5, <2>2
  <2> QED BY <1>2, <1>5, <2>1, <2>3 DEF Progressing
<1> QED BY <1>4, <1>6, <1>7, <1>8 DEF AutoInv

LEMMA AutoInductive == AutoInv /\ [AutoNext]_autoVars => AutoInv' /\ limitNeverAsks
<1> SUFFICES ASSUME AutoInv, [AutoNext]_autoVars PROVE AutoInv' /\ limitNeverAsks
  OBVIOUS
<1>1. ASSUME NEW r \in loopRoles \cup {"final"}, Reuse(r) \/ StartStage(r) PROVE AutoInv' /\ limitNeverAsks
  <2>1. CASE r \in loopRoles
    BY <1>1, <2>1, ReuseGoesOn, StartGoesOn
  <2>2. CASE r = "final"
    BY <1>1, <2>2, ReuseFinal, StartFinal
  <2> QED BY <2>1, <2>2
<1>2. CASE CompleteStage
  <2>1. loop.pc \in loopRoles \cup {"final"}
    BY <1>2 DEF CompleteStage
  <2> QED BY <1>2, <2>1, CompleteGoesOn, CompleteFinal
<1>3. CASE stopIfCanceled \/ Iterate \/ Suspend \/ suspendHumanInput \/ Final \/ Complete \/ resumeClarificationAutonomous
  BY <1>3, CancelStops, IterateGoesOn, SuspendStops, QuestionStops, FinalLeaves, LoopEnds, ToolContinues
<1>4. ASSUME NEW d, NEW need \in BOOLEAN, Decide(d, need) PROVE AutoInv' /\ limitNeverAsks
  BY <1>4, DecideGoesOn
<1>5. CASE FailStage \/ Stop \/ AutoCrash \/ ColdStart \/ ResumeHumanInput \/ ResumeTool
  BY <1>5, FailStops, StopOrRepair, LoopEnds, AnswerGoesOn, ToolGoesOn
<1>6. ASSUME NEW note \in {0, 1}, ResumeRecoverable(note) PROVE AutoInv' /\ limitNeverAsks
  BY <1>6, RecoverGoesOn
<1>7. CASE UNCHANGED autoVars
  BY <1>7, AutoStutter
<1>8. CASE Work
  BY <1>1, <1>2, <1>3, <1>4, <1>8 DEF Work
<1> QED BY <1>5, <1>6, <1>7, <1>8 DEF AutoNext

\* The counter covers what the loop has passed: at the head, the iterations before.
LEMMA OutputFollows == AutoInv => OutputIsCounted
<1> SUFFICES ASSUME AutoInv, loop.pc = "top"
             PROVE  /\ loop.chars >= written(steps, before)
                    /\ loop.chars <= written(steps, before) + 2 * Cardinality(human) + Cardinality(finals)
  BY DEF OutputIsCounted, finals
<1>1. AutoTypes /\ Recounted /\ Progressing /\ "top" \in places
  BY DEF AutoInv, places
<1>2. passed = before
  <2>1. \A m \in work : rankOf[steps[m].role] \in Nat
    BY LoopRoles, Ranks DEF work
  <2> QED BY <2>1, Ranks DEF passed, before
<1>3. IsFiniteSet(before) /\ \A n \in before : steps[n].out = 1
  BY <1>1, <1>2, CountsFinite DEF before, work, Recounted
<1>4. written(steps, before) = Cardinality(before)
  <2>1. written(steps, before) = Cardinality({n \in before : steps[n].out = 1})
    BY <1>3, WrittenCounts
  <2>2. {n \in before : steps[n].out = 1} = before
    BY <1>3
  <2> QED BY <2>1, <2>2
<1>5. Cardinality(before) <= loop.chars /\ loop.chars <= Cardinality(before) + 2 * Cardinality(human) + Cardinality(finals)
  BY <1>1, <1>2 DEF Progressing
<1>6. {loop.chars, Cardinality(before)} \subseteq Nat
  BY <1>1, <1>2, LoopFields, CountsFinite
<1> QED BY <1>4, <1>5, <1>6

\* IterationsSafe: across suspensions, crashes and every way back into the loop no Stage of an
\* iteration completes twice, iterations never go back, the rebuilt output counter covers what
\* was written, and a Run at its limit asks no question.
THEOREM IterationsCorrect == AutoSpec => IterationsSafe
<1>1. AutoInit => AutoInv
  BY AutoStarts
<1>2. AutoInv /\ [AutoNext]_autoVars => AutoInv'
  BY AutoInductive
<1>3. AutoInv => IterationsRunOnce /\ IterationsAdvance /\ OutputIsCounted
  BY OutputFollows DEF AutoInv
<1>4. AutoInv /\ [AutoNext]_autoVars => [limitNeverAsks]_autoVars
  BY AutoInductive
<1> QED BY <1>1, <1>2, <1>3, <1>4, PTL DEF AutoSpec, IterationsSafe

----------------------------------------------------------------------------
(* The Run Budget.  The ledger is a fold over the entries that count; amount *)
(* is that fold over any finite set of entries.  The invariant (LedgerInv)   *)
(* has four parts: accounts (no operation is recorded twice and a settlement *)
(* has its reservation), Reserved (what a call has in the ledger at each     *)
(* step of it), CountedIn (one model call per reservation, one tool call per *)
(* execution) and Sequential (what the limits leave the call under way).     *)

amount(log, resource, S) == MapThenSumSet(LAMBDA i : log[i][resource], S)

\* The entry such a fold takes next, and the function it is.
chosenOf(s) == CHOOSE i \in s : TRUE
amounting(h, log, resource, S) ==
  h = [s \in SUBSET S |-> IF s = {} THEN 0 ELSE log[chosenOf(s)][resource] + h[s \ {chosenOf(s)}]]
natural(log, resource, S) == \A i \in S : log[i][resource] \in Nat

LEMMA AmountFunction ==
  ASSUME NEW log, NEW resource, NEW S, IsFiniteSet(S)
  PROVE  \E h : amounting(h, log, resource, S)
<1> DEFINE value(h, s) == IF s = {} THEN 0 ELSE log[chosenOf(s)][resource] + h[s \ {chosenOf(s)}]
           upTo(h, n) == \A s \in SUBSET S : Cardinality(s) <= n => h[s] = value(h, s)
           Without == {n \in Nat : ~\E h : h = [s \in SUBSET S |-> h[s]] /\ upTo(h, n)}
<1>1. \A s \in SUBSET S : IsFiniteSet(s) /\ Cardinality(s) \in Nat
  BY FS_Subset, FS_CardinalityType
<1>2. \A s \in SUBSET S : s # {} => /\ chosenOf(s) \in s /\ s \ {chosenOf(s)} \in SUBSET S
                                   /\ Cardinality(s \ {chosenOf(s)}) = Cardinality(s) - 1
  <2> TAKE s \in SUBSET S
  <2> HAVE s # {}
  <2>1. chosenOf(s) \in s
    BY DEF chosenOf
  <2> QED BY <1>1, <2>1, FS_RemoveElement
<1>3. Without = {}
  <2> SUFFICES ASSUME Without # {} PROVE FALSE
    OBVIOUS
  <2>1. IsWellFoundedOn(fewer, Nat)
    BY NatLessThanWellFounded DEF OpToRel, fewer
  <2>2. PICK n \in Without : \A m \in Without : ~(<<m, n>> \in fewer)
    <3>1. Without \subseteq Nat
      OBVIOUS
    <3> HIDE DEF Without
    <3> QED BY <2>1, <3>1, WFMin
  <2>3. \A m \in Nat : m < n => m \notin Without
    BY <2>2 DEF fewer
  <2>4. n # 0
    <3> DEFINE h == [s \in SUBSET S |-> 0]
    <3>1. \A s \in SUBSET S : Cardinality(s) <= 0 => s = {}
      BY <1>1, FS_EmptySet
    <3>2. upTo(h, 0) /\ h = [s \in SUBSET S |-> h[s]]
      BY <3>1
    <3> HIDE DEF h, upTo
    <3> QED BY <2>2, <3>2
  <2>5. n - 1 \in Nat /\ n - 1 < n
    BY <2>4
  <2>6. PICK h : h = [s \in SUBSET S |-> h[s]] /\ upTo(h, n - 1)
    <3>1. n - 1 \notin Without
      BY <2>3, <2>5
    <3> HIDE DEF upTo
    <3> QED BY <2>5, <3>1
  <2> DEFINE k == [s \in SUBSET S |-> IF Cardinality(s) = n THEN value(h, s) ELSE h[s]]
  <2>7. upTo(k, n)
    <3> SUFFICES ASSUME NEW s \in SUBSET S, Cardinality(s) <= n PROVE k[s] = value(k, s)
      OBVIOUS
    <3>1. s # {} => k[s \ {chosenOf(s)}] = h[s \ {chosenOf(s)}]
      BY <1>1, <1>2
    <3>2. value(k, s) = value(h, s)
      BY <3>1
    <3>3. CASE Cardinality(s) = n
      <4> HIDE DEF value
      <4> QED BY <3>2, <3>3
    <3>4. CASE Cardinality(s) # n
      <4>1. Cardinality(s) <= n - 1
        BY <1>1, <3>4
      <4> HIDE DEF value
      <4> QED BY <2>6, <3>2, <3>4, <4>1
    <3> QED BY <3>3, <3>4
  <2>8. k = [s \in SUBSET S |-> k[s]]
    OBVIOUS
  <2> HIDE DEF k, upTo
  <2> QED BY <2>2, <2>7, <2>8
<1>4. Cardinality(S) \in Nat /\ \A s \in SUBSET S : Cardinality(s) <= Cardinality(S)
  BY FS_Subset, FS_CardinalityType
<1>5. PICK h : h = [s \in SUBSET S |-> h[s]] /\ upTo(h, Cardinality(S))
  <2>1. Cardinality(S) \notin Without
    BY <1>3
  <2> HIDE DEF upTo
  <2> QED BY <1>4, <2>1
<1>6. \A s \in SUBSET S : h[s] = value(h, s)
  BY <1>4, <1>5
<1>7. h = [s \in SUBSET S |-> value(h, s)]
  <2> HIDE DEF value
  <2> QED BY <1>5, <1>6
<1> QED BY <1>7 DEF amounting

\* Two such functions agree where both are defined.
LEMMA AmountsAgree ==
  ASSUME NEW log, NEW new, NEW resource, NEW S, NEW T \in SUBSET S, IsFiniteSet(S), \A i \in T : new[i] = log[i],
         NEW h, amounting(h, log, resource, S), NEW k, amounting(k, new, resource, T)
  PROVE  \A s \in SUBSET T : h[s] = k[s]
<1> DEFINE Differ == {n \in Nat : \E s \in SUBSET T : Cardinality(s) = n /\ h[s] # k[s]}
<1> SUFFICES ASSUME NEW r \in SUBSET T, h[r] # k[r] PROVE FALSE
  OBVIOUS
<1>1. \A s \in SUBSET T : IsFiniteSet(s) /\ Cardinality(s) \in Nat
  BY FS_Subset, FS_CardinalityType
<1>2. Differ \subseteq Nat /\ Differ # {}
  BY <1>1
<1>3. IsWellFoundedOn(fewer, Nat)
  BY NatLessThanWellFounded DEF OpToRel, fewer
<1>4. PICK n \in Differ : \A m \in Differ : ~(<<m, n>> \in fewer)
  <2> HIDE DEF Differ
  <2> QED BY <1>2, <1>3, WFMin
<1>5. PICK s \in SUBSET T : Cardinality(s) = n /\ h[s] # k[s]
  OBVIOUS
<1>6. s # {}
  BY <1>5 DEF amounting
<1> DEFINE x == chosenOf(s)
           u == s \ {x}
<1>7. x \in s /\ u \in SUBSET T
  BY <1>6 DEF chosenOf
<1>8. Cardinality(u) = n - 1 /\ n - 1 \in Nat /\ n - 1 < n
  <2>1. IsFiniteSet(s) /\ Cardinality(s) \in Nat /\ IsFiniteSet(u) /\ Cardinality(u) \in Nat
    BY <1>1, <1>7
  <2>2. Cardinality(u) = Cardinality(s) - 1
    BY <1>7, <2>1, FS_RemoveElement
  <2> QED BY <1>5, <2>1, <2>2
<1>9. h[u] = k[u]
  <2>1. n - 1 \notin Differ
    BY <1>2, <1>4, <1>8 DEF fewer
  <2> QED BY <1>7, <1>8, <2>1
<1>10. h[s] = log[x][resource] + h[u] /\ k[s] = new[x][resource] + k[u]
  BY <1>5, <1>6, <1>7 DEF amounting
<1>11. log[x] = new[x]
  BY <1>7
<1> QED BY <1>5, <1>9, <1>10, <1>11

\* Such a function adds up in any order.
LEMMA AmountOrder ==
  ASSUME NEW log, NEW resource, NEW S, IsFiniteSet(S), natural(log, resource, S),
         NEW h, amounting(h, log, resource, S)
  PROVE  \A s \in SUBSET S : h[s] \in Nat /\ \A x \in s : h[s] = log[x][resource] + h[s \ {x}]
<1> DEFINE adds(s) == h[s] \in Nat /\ \A x \in s : h[s] = log[x][resource] + h[s \ {x}]
           Wrong == {n \in Nat : \E s \in SUBSET S : Cardinality(s) = n /\ ~adds(s)}
<1> SUFFICES ASSUME NEW r \in SUBSET S, ~adds(r) PROVE FALSE
  OBVIOUS
<1>1. \A s \in SUBSET S : IsFiniteSet(s) /\ Cardinality(s) \in Nat
  BY FS_Subset, FS_CardinalityType
<1>2. Wrong \subseteq Nat /\ Wrong # {}
  <2> HIDE DEF adds
  <2> QED BY <1>1
<1>3. IsWellFoundedOn(fewer, Nat)
  BY NatLessThanWellFounded DEF OpToRel, fewer
<1>4. PICK n \in Wrong : \A m \in Wrong : ~(<<m, n>> \in fewer)
  <2> HIDE DEF Wrong
  <2> QED BY <1>2, <1>3, WFMin
<1>5. PICK s \in SUBSET S : Cardinality(s) = n /\ ~adds(s)
  <2> HIDE DEF adds
  <2> QED OBVIOUS
<1>6. s # {}
  BY <1>5 DEF amounting
<1> DEFINE y == chosenOf(s)
<1>7. y \in s
  BY <1>6 DEF chosenOf
<1>8. \A x \in s : s \ {x} \in SUBSET S /\ adds(s \ {x})
  <2> TAKE x \in s
  <2>1. s \ {x} \in SUBSET S /\ IsFiniteSet(s) /\ Cardinality(s) \in Nat /\ Cardinality(s \ {x}) \in Nat
    BY <1>1
  <2>2. Cardinality(s \ {x}) = Cardinality(s) - 1
    BY <2>1, FS_RemoveElement
  <2>3. n \in Nat /\ Cardinality(s \ {x}) < n /\ Cardinality(s \ {x}) \notin Wrong
    <3>1. Cardinality(s \ {x}) < n /\ n \in Nat
      BY <1>5, <2>1, <2>2
    <3> HIDE DEF Wrong
    <3> QED BY <1>4, <2>1, <3>1 DEF fewer
  <2> HIDE DEF adds
  <2> QED BY <2>1, <2>3
<1>9. h[s] = log[y][resource] + h[s \ {y}]
  BY <1>6 DEF amounting
<1>10. h[s] \in Nat
  <2>1. log[y][resource] \in Nat
    BY <1>7 DEF natural
  <2>2. h[s \ {y}] \in Nat
    BY <1>7, <1>8
  <2> HIDE DEF y
  <2> QED BY <1>9, <2>1, <2>2
<1>11. ASSUME NEW x \in s PROVE h[s] = log[x][resource] + h[s \ {x}]
  <2>1. CASE x = y
    BY <1>9, <2>1
  <2>2. CASE x # y
    <3> DEFINE w == (s \ {y}) \ {x}
    <3>1. w = (s \ {x}) \ {y} /\ x \in s \ {y} /\ y \in s \ {x}
      BY <1>7, <2>2
    <3>2. h[s \ {y}] = log[x][resource] + h[w]
      BY <1>7, <1>8, <3>1
    <3>3. h[s \ {x}] = log[y][resource] + h[w]
      <4> HIDE DEF w
      <4> QED BY <1>8, <3>1
    <3>4. log[x][resource] \in Nat /\ log[y][resource] \in Nat /\ h[w] \in Nat
      <4>1. h[s \ {y}] \in Nat /\ w \in SUBSET S
        BY <1>7, <1>8
      <4>2. log[x][resource] \in Nat /\ log[y][resource] \in Nat
        BY <1>7 DEF natural
      <4>3. h[w] \in Nat
        <5>1. Cardinality(s \ {y}) \in Nat /\ Cardinality(w) \in Nat /\ Cardinality(s) \in Nat /\ IsFiniteSet(s) /\ IsFiniteSet(s \ {y})
          BY <1>1, <1>7, <1>8, <4>1
        <5>2. Cardinality(s \ {y}) = Cardinality(s) - 1 /\ Cardinality(w) = Cardinality(s \ {y}) - 1
          BY <1>7, <3>1, <5>1, FS_RemoveElement
        <5>3. Cardinality(w) < n /\ n \in Nat
          BY <1>5, <5>1, <5>2
        <5>4. Cardinality(w) \notin Wrong
          <6> HIDE DEF Wrong
          <6> QED BY <1>4, <5>1, <5>3 DEF fewer
        <5>5. adds(w)
          <6> HIDE DEF adds
          <6> QED BY <4>1, <5>1, <5>4
        <5> QED BY <5>5
      <4> QED BY <4>2, <4>3
    <3> HIDE DEF w
    <3> QED BY <1>9, <3>2, <3>3, <3>4
  <2> QED BY <2>1, <2>2
<1> QED BY <1>5, <1>10, <1>11

LEMMA AmountIs ==
  ASSUME NEW log, NEW resource, NEW S, IsFiniteSet(S)
  PROVE  \E h : amounting(h, log, resource, S) /\ amount(log, resource, S) = h[S]
<1> DEFINE h == CHOOSE f : amounting(f, log, resource, S)
<1>1. amount(log, resource, S) = h[S]
  BY DEF amount, MapThenSumSet, MapThenFoldSet, amounting, chosenOf
<1>2. amounting(h, log, resource, S)
  BY AmountFunction
<1> QED BY <1>1, <1>2

\* Removing one entry takes its amount away.
LEMMA AmountOf ==
  ASSUME NEW log, NEW resource, NEW S, IsFiniteSet(S), natural(log, resource, S)
  PROVE  /\ amount(log, resource, S) \in Nat
         /\ \A x \in S : amount(log, resource, S) = log[x][resource] + amount(log, resource, S \ {x})
<1>1. PICK h : amounting(h, log, resource, S) /\ amount(log, resource, S) = h[S]
  BY AmountIs
<1>2. h[S] \in Nat /\ \A x \in S : h[S] = log[x][resource] + h[S \ {x}]
  BY <1>1, AmountOrder
<1>3. ASSUME NEW x \in S PROVE amount(log, resource, S \ {x}) = h[S \ {x}]
  <2> DEFINE T == S \ {x}
  <2>1. IsFiniteSet(T) /\ T \in SUBSET S
    BY FS_Subset
  <2> HIDE DEF T
  <2>2. PICK k : amounting(k, log, resource, T) /\ amount(log, resource, T) = k[T]
    BY <2>1, AmountIs
  <2>3. h[T] = k[T]
    BY <1>1, <2>1, <2>2, AmountsAgree
  <2> QED BY <2>2, <2>3 DEF T
<1> QED BY <1>1, <1>2, <1>3

LEMMA AmountSame ==
  ASSUME NEW log, NEW new, NEW resource, NEW S, IsFiniteSet(S), \A i \in S : new[i] = log[i]
  PROVE  amount(new, resource, S) = amount(log, resource, S)
<1>1. PICK h : amounting(h, log, resource, S) /\ amount(log, resource, S) = h[S]
  BY AmountIs
<1>2. PICK k : amounting(k, new, resource, S) /\ amount(new, resource, S) = k[S]
  BY AmountIs
<1>3. S \in SUBSET S
  OBVIOUS
<1>4. \A s \in SUBSET S : h[s] = k[s]
  BY <1>1, <1>2, <1>3, AmountsAgree
<1> QED BY <1>1, <1>2, <1>3, <1>4

LEMMA AmountOfNothing == \A log, resource : amount(log, resource, {}) = 0
<1> TAKE log, resource
<1>1. PICK h : amounting(h, log, resource, {}) /\ amount(log, resource, {}) = h[{}]
  BY AmountIs, FS_EmptySet
<1> QED BY <1>1 DEF amounting

\* The ledger's cost is the sum of the costs, capped: addCost saturates.
cap(micros) == IF micros > MaxInt64 THEN MaxInt64 ELSE micros

LEMMA AddCostCaps ==
  ASSUME NEW left \in 0..MaxInt64, NEW right \in Nat
  PROVE  addCost(left, cap(right)) = cap(left + right)
  BY PricesAssumption DEF addCost, cap

\* The same for the saturated costs.
costing(g, log, S) ==
  g = [s \in SUBSET S |-> IF s = {} THEN 0 ELSE addCost(log[chosenOf(s)].cost, g[s \ {chosenOf(s)}])]

LEMMA CostsAgree ==
  ASSUME NEW log, NEW S, IsFiniteSet(S), NEW g, costing(g, log, S), NEW k, costing(k, log, S)
  PROVE  \A s \in SUBSET S : g[s] = k[s]
<1> DEFINE Differ == {n \in Nat : \E s \in SUBSET S : Cardinality(s) = n /\ g[s] # k[s]}
<1> SUFFICES ASSUME NEW r \in SUBSET S, g[r] # k[r] PROVE FALSE
  OBVIOUS
<1>1. \A s \in SUBSET S : IsFiniteSet(s) /\ Cardinality(s) \in Nat
  BY FS_Subset, FS_CardinalityType
<1>2. Differ \subseteq Nat /\ Differ # {}
  BY <1>1
<1>3. IsWellFoundedOn(fewer, Nat)
  BY NatLessThanWellFounded DEF OpToRel, fewer
<1>4. PICK n \in Differ : \A m \in Differ : ~(<<m, n>> \in fewer)
  <2> HIDE DEF Differ
  <2> QED BY <1>2, <1>3, WFMin
<1>5. PICK s \in SUBSET S : Cardinality(s) = n /\ g[s] # k[s]
  OBVIOUS
<1>6. s # {}
  BY <1>5 DEF costing
<1> DEFINE x == chosenOf(s)
           u == s \ {x}
<1>7. x \in s /\ u \in SUBSET S
  BY <1>6 DEF chosenOf
<1>8. Cardinality(u) = n - 1 /\ n - 1 \in Nat /\ n - 1 < n
  <2>1. IsFiniteSet(s) /\ Cardinality(s) \in Nat /\ IsFiniteSet(u) /\ Cardinality(u) \in Nat
    BY <1>1, <1>7
  <2>2. Cardinality(u) = Cardinality(s) - 1
    BY <1>7, <2>1, FS_RemoveElement
  <2> QED BY <1>5, <2>1, <2>2
<1>9. g[u] = k[u]
  <2>1. n - 1 \notin Differ
    BY <1>2, <1>4, <1>8 DEF fewer
  <2> QED BY <1>7, <1>8, <2>1
<1>10. g[s] = addCost(log[x].cost, g[u]) /\ k[s] = addCost(log[x].cost, k[u])
  BY <1>5, <1>6, <1>7 DEF costing
<1> QED BY <1>5, <1>9, <1>10

LEMMA CostIsCapped ==
  ASSUME NEW log, IsFiniteSet(counting(log)), \A i \in counting(log) : log[i].cost \in 0..MaxInt64
  PROVE  costOf(log) = cap(sum(log, "cost"))
<1> DEFINE S == counting(log)
           g == CHOOSE f : costing(f, log, S)
<1>1. costOf(log) = g[S]
  BY DEF costOf, MapThenFoldSet, costing, chosenOf
<1>2. sum(log, "cost") = amount(log, "cost", S)
  BY DEF sum, amount
<1> HIDE DEF S
<1>3. IsFiniteSet(S) /\ \A i \in S : log[i].cost \in 0..MaxInt64 /\ log[i]["cost"] = log[i].cost
  BY DEF S
<1>4. natural(log, "cost", S)
  BY <1>3, PricesAssumption DEF natural
<1>5. PICK h : amounting(h, log, "cost", S) /\ amount(log, "cost", S) = h[S]
  BY <1>3, AmountIs
<1>6. \A s \in SUBSET S : h[s] \in Nat /\ \A x \in s : h[s] = log[x]["cost"] + h[s \ {x}]
  BY <1>3, <1>4, <1>5, AmountOrder
<1> DEFINE k == [s \in SUBSET S |-> cap(h[s])]
<1>7. costing(k, log, S)
  <2>1. ASSUME NEW s \in SUBSET S
        PROVE  k[s] = IF s = {} THEN 0 ELSE addCost(log[chosenOf(s)].cost, k[s \ {chosenOf(s)}])
    <3>1. CASE s = {}
      <4>1. h[s] = 0
        BY <1>5, <3>1 DEF amounting
      <4> QED BY <3>1, <4>1, PricesAssumption DEF cap
    <3>2. CASE s # {}
      <4>1. PICK x \in s : x = chosenOf(s)
        BY <3>2 DEF chosenOf
      <4>2. h[s] = log[x].cost + h[s \ {x}] /\ h[s \ {x}] \in Nat /\ log[x].cost \in 0..MaxInt64
        BY <1>3, <1>6
      <4>3. addCost(log[x].cost, cap(h[s \ {x}])) = cap(log[x].cost + h[s \ {x}])
        BY <4>2, AddCostCaps
      <4>4. k[s] = cap(h[s]) /\ k[s \ {x}] = cap(h[s \ {x}])
        OBVIOUS
      <4> HIDE DEF k
      <4> QED BY <3>2, <4>1, <4>2, <4>3, <4>4
    <3> QED BY <3>1, <3>2
  <2>2. k = [s \in SUBSET S |-> k[s]]
    OBVIOUS
  <2> HIDE DEF k
  <2>3. k = [s \in SUBSET S |-> IF s = {} THEN 0 ELSE addCost(log[chosenOf(s)].cost, k[s \ {chosenOf(s)}])]
    BY <2>1, <2>2
  <2> QED BY <2>3 DEF costing
<1> HIDE DEF k
<1>8. costing(g, log, S)
  BY <1>7
<1> HIDE DEF g
<1>9. S \in SUBSET S
  OBVIOUS
<1>10. \A s \in SUBSET S : g[s] = k[s]
  BY <1>3, <1>7, <1>8, CostsAgree
<1> QED BY <1>1, <1>2, <1>5, <1>9, <1>10 DEF k

\* A limit of 0 is none.
within(amountUsed, limit) == limit > 0 => amountUsed <= limit

\* What a call of p prompt tokens reserves.
reservationOf(c, p) == modelEntry("reservation", c, p, 1, p + 1, usageCost(p, 1, 0))

\* The rows of the ledger.
Entry == [kind : {"reservation", "settlement", "tool"}, op : Calls \cup Tools, modelCalls : Nat, toolCalls : Nat,
          prompt : Nat, completion : Nat, total : Nat, cost : 0..MaxInt64]

\* An operation's entry of a kind is there; it is there once; a settlement has its reservation.
has(log, kind, op) == \E i \in DOMAIN log : log[i].kind = kind /\ log[i].op = op
once(log) == \A i, j \in DOMAIN log : log[i].kind = log[j].kind /\ log[i].op = log[j].op => i = j
founded(log) == \A op : has(log, "settlement", op) => has(log, "reservation", op)

\* Prices.  A price is rounded up to the microdollar.
ceiling(q) == (q + Million - 1) \div Million

LEMMA CancelFactor ==
  ASSUME NEW m \in Nat, m > 0, NEW x \in Int, NEW y \in Int, m * x < m * y
  PROVE  x < y
<1> SUFFICES ASSUME y <= x PROVE FALSE
  OBVIOUS
<1>1. PICK d \in Nat : x = y + d
  <2>1. x - y \in Nat /\ x = y + (x - y)
    OBVIOUS
  <2> QED BY <2>1
<1>2. m * x = m * y + m * d
  BY <1>1
<1>3. m * d \in Nat /\ m * y \in Int
  OBVIOUS
<1> QED BY <1>2, <1>3

LEMMA CeilingIs ==
  ASSUME NEW q \in Nat
  PROVE  ceiling(q) \in Nat /\ q <= Million * ceiling(q) /\ Million * ceiling(q) <= q + Million - 1
<1> DEFINE n == q + Million - 1
<1>1. Million \in Nat /\ Million > 0 /\ n \in Nat
  BY PricesAssumption
<1> HIDE DEF n
<1>2. n \div Million \in Nat /\ n = Million * (n \div Million) + (n % Million) /\ (n % Million) \in 0..(Million - 1)
  BY <1>1
<1>3. Million * (n \div Million) \in Nat
  BY <1>1, <1>2
<1> QED BY <1>1, <1>2, <1>3 DEF ceiling, n

LEMMA CeilingMonotone ==
  ASSUME NEW a \in Nat, NEW b \in Nat, a <= b
  PROVE  ceiling(a) <= ceiling(b)
<1>1. Million \in Nat /\ Million > 0
  BY PricesAssumption
<1>2. /\ ceiling(a) \in Nat /\ Million * ceiling(a) <= a + Million - 1
      /\ ceiling(b) \in Nat /\ b <= Million * ceiling(b)
  BY CeilingIs
<1> DEFINE x == ceiling(a)
           y == ceiling(b)
<1> HIDE DEF x, y
<1>3. Million * (y + 1) = Million * y + Million /\ Million * x \in Nat /\ Million * y \in Nat
  BY <1>1, <1>2 DEF x, y
<1>4. Million * x < Million * (y + 1)
  BY <1>1, <1>2, <1>3 DEF x, y
<1>5. x < y + 1
  BY <1>1, <1>2, <1>4, CancelFactor DEF x, y
<1> QED BY <1>2, <1>5 DEF x, y

LEMMA CeilingOfWhole ==
  ASSUME NEW x \in Nat
  PROVE  x * Million \in Nat /\ ceiling(x * Million) <= x
<1>1. Million \in Nat /\ Million > 0 /\ x * Million \in Nat
  BY PricesAssumption
<1> DEFINE y == ceiling(x * Million)
<1>2. y \in Nat /\ Million * y <= x * Million + Million - 1
  BY <1>1, CeilingIs
<1> HIDE DEF y
<1>3. Million * (x + 1) = x * Million + Million /\ Million * y \in Nat
  BY <1>1, <1>2
<1>4. Million * y < Million * (x + 1)
  BY <1>1, <1>2, <1>3
<1>5. y < x + 1
  BY <1>1, <1>2, <1>4, CancelFactor
<1> QED BY <1>1, <1>2, <1>5 DEF y

LEMMA PriceIs ==
  ASSUME NEW count \in Nat, NEW rate \in Nat
  PROVE  /\ count * rate \in Nat /\ tokenCostMicros(count, rate) = cap(ceiling(count * rate))
         /\ tokenCostMicros(count, rate) \in 0..MaxInt64
<1>1. Million \in Nat /\ Million > 0 /\ MaxInt64 \in Nat
  BY PricesAssumption
<1>2. count * rate \in Nat
  OBVIOUS
<1>3. ceiling(count * rate) \in Nat
  BY <1>2, CeilingIs
<1>4. CASE count = 0 \/ rate = 0
  <2>1. count * rate = 0
    BY <1>4
  <2>2. ceiling(0) <= 0
    <3>1. ceiling(0 * Million) <= 0
      BY CeilingOfWhole
    <3>2. 0 * Million = 0
      BY <1>1
    <3> QED BY <3>1, <3>2
  <2>3. ceiling(count * rate) = 0
    BY <1>3, <2>1, <2>2
  <2> QED BY <1>1, <1>2, <1>4, <2>3 DEF tokenCostMicros, cap
<1>5. CASE count > 0 /\ rate > 0
  <2> DEFINE n == ceiling(count * rate)
  <2>1. tokenCostMicros(count, rate) = Min({MaxInt64, n})
    BY <1>5 DEF tokenCostMicros, ceiling
  <2>2. n \in Nat
    BY <1>3
  <2> HIDE DEF n
  <2>3. \E m \in {MaxInt64, n} : \A k \in {MaxInt64, n} : m <= k
    BY <1>1, <2>2
  <2>4. Min({MaxInt64, n}) \in {MaxInt64, n} /\ \A k \in {MaxInt64, n} : Min({MaxInt64, n}) <= k
    BY <2>3 DEF Min
  <2>5. Min({MaxInt64, n}) = cap(n)
    BY <1>1, <2>2, <2>4 DEF cap
  <2> QED BY <1>1, <1>2, <2>1, <2>2, <2>5 DEF cap, n
<1> QED BY <1>4, <1>5

LEMMA PriceMonotone ==
  ASSUME NEW t \in Nat, NEW u \in Nat, t <= u, NEW rate \in Nat
  PROVE  tokenCostMicros(t, rate) <= tokenCostMicros(u, rate)
<1>1. t * rate <= u * rate
  <2>1. PICK d \in Nat : u = t + d
    <3>1. u - t \in Nat /\ u = t + (u - t)
      OBVIOUS
    <3> QED BY <3>1
  <2>2. u * rate = t * rate + d * rate /\ d * rate \in Nat /\ t * rate \in Nat
    BY <2>1
  <2> QED BY <2>2
<1>2. /\ tokenCostMicros(t, rate) = cap(ceiling(t * rate)) /\ tokenCostMicros(u, rate) = cap(ceiling(u * rate))
      /\ t * rate \in Nat /\ u * rate \in Nat
  BY PriceIs
<1>3. ceiling(t * rate) <= ceiling(u * rate) /\ ceiling(t * rate) \in Nat /\ ceiling(u * rate) \in Nat
  BY <1>1, <1>2, CeilingMonotone, CeilingIs
<1> QED BY <1>2, <1>3, PricesAssumption DEF cap

\* What a budget of x pays for costs no more than x.
LEMMA PriceOfAffordable ==
  ASSUME NEW x \in Nat, NEW rate \in Nat, rate > 0, NEW k \in Nat, k <= (x * Million) \div rate
  PROVE  tokenCostMicros(k, rate) <= x
<1>1. Million \in Nat /\ x * Million \in Nat /\ MaxInt64 \in Nat
  BY PricesAssumption, CeilingOfWhole
<1> DEFINE q == x * Million
           n == q \div rate
<1>2. q \in Nat
  BY <1>1
<1> HIDE DEF q
<1>3. n \in Nat /\ q = rate * n + (q % rate) /\ (q % rate) \in 0..(rate - 1)
  BY <1>2
<1>4. k <= n
  BY DEF q
<1> HIDE DEF n
<1>5. k * rate <= q /\ k * rate \in Nat
  <2>1. PICK d \in Nat : n = k + d
    <3>1. n - k \in Nat /\ n = k + (n - k)
      BY <1>3, <1>4
    <3> QED BY <3>1
  <2>2. rate * n = k * rate + d * rate /\ d * rate \in Nat /\ k * rate \in Nat
    BY <2>1
  <2> QED BY <1>2, <1>3, <2>2
<1>6. ceiling(k * rate) <= ceiling(q) /\ ceiling(q) <= x /\ ceiling(k * rate) \in Nat /\ ceiling(q) \in Nat
  <2>1. ceiling(k * rate) <= ceiling(q)
    BY <1>2, <1>5, CeilingMonotone
  <2>2. ceiling(q) <= x
    BY CeilingOfWhole DEF q
  <2> QED BY <1>2, <1>5, <2>1, <2>2, CeilingIs
<1>7. tokenCostMicros(k, rate) = cap(ceiling(k * rate))
  BY PriceIs
<1> QED BY <1>1, <1>6, <1>7 DEF cap

LEMMA UsageCostIs ==
  ASSUME NEW p \in Nat, NEW k \in Nat, NEW ch \in 0..p
  PROVE  /\ usageCost(p, k, ch) =
              cap(tokenCostMicros(p - ch, InputRate) + tokenCostMicros(k, OutputRate) + tokenCostMicros(ch, CachedRate))
         /\ usageCost(p, k, ch) \in 0..MaxInt64
<1>1. MaxInt64 \in Nat /\ InputRate \in Nat /\ OutputRate \in Nat /\ CachedRate \in Nat
  BY PricesAssumption
<1>2. PICK a \in 0..MaxInt64 : a = tokenCostMicros(p - ch, InputRate)
  <2>1. p - ch \in Nat
    OBVIOUS
  <2> QED BY <1>1, <2>1, PriceIs
<1>3. PICK b \in 0..MaxInt64 : b = tokenCostMicros(k, OutputRate)
  BY <1>1, PriceIs
<1>4. PICK d \in 0..MaxInt64 : d = tokenCostMicros(ch, CachedRate)
  <2>1. ch \in Nat
    OBVIOUS
  <2> QED BY <1>1, <2>1, PriceIs
<1>5. usageCost(p, k, ch) = addCost(addCost(a, b), d)
  BY <1>2, <1>3, <1>4 DEF usageCost
<1>6. addCost(addCost(a, b), d) = cap(a + b + d) /\ cap(a + b + d) \in 0..MaxInt64
  BY <1>1 DEF addCost, cap
<1> QED BY <1>2, <1>3, <1>4, <1>5, <1>6

LEMMA NothingIsFree == \A rate \in Nat : tokenCostMicros(0, rate) = 0
  BY DEF tokenCostMicros

\* The allowance of a call.
LEMMA LargerOf == \A a, b \in Int : Max({a, b}) = IF a < b THEN b ELSE a
<1> TAKE a, b \in Int
<1>1. \E m \in {a, b} : \A k \in {a, b} : m >= k
  OBVIOUS
<1>2. Max({a, b}) \in {a, b} /\ \A k \in {a, b} : Max({a, b}) >= k
  BY <1>1 DEF Max
<1> QED BY <1>2

LEMMA LeastOfThree ==
  ASSUME NEW x \in Int, NEW y \in Int, NEW z \in Int, NEW S \in SUBSET {x, y, z}, S # {}
  PROVE  Min(S) \in S /\ \A k \in S : Min(S) <= k
<1>1. \E m \in S : \A k \in S : m <= k
  <2>1. PICK a \in S : TRUE
    OBVIOUS
  <2>2. PICK e \in S, f \in S, g \in S : S \subseteq {e, f, g} /\ e \in Int /\ f \in Int /\ g \in Int
    <3> DEFINE of(v) == IF v \in S THEN v ELSE a
    <3>1. of(x) \in S /\ of(y) \in S /\ of(z) \in S /\ S \subseteq {of(x), of(y), of(z)} /\ S \subseteq Int
      OBVIOUS
    <3> HIDE DEF of
    <3> QED BY <3>1
  <2>3. (e <= f /\ e <= g) \/ (f <= e /\ f <= g) \/ (g <= e /\ g <= f)
    BY <2>2
  <2> QED BY <2>2, <2>3
<1> QED BY <1>1 DEF Min

LEMMA AllowanceIs ==
  ASSUME NEW C \in Nat, NEW T \in Nat, NEW Q \in Nat, NEW p \in Estimates, NEW c, NEW used,
         used.completion = C + 1, used.total = T + p + 1, used.cost = cap(Q + usageCost(p, 1, 0)),
         within(C + 1, MaxCompletionTokens), within(T + p + 1, MaxTotalTokens),
         within(Q + usageCost(p, 1, 0), MaxEstimatedCost),
         NEW A, A = maxCompletionTokens(used, reservationOf(c, p))
  PROVE  /\ A \in Nat
         /\ \A k \in Nat : A = 0 \/ k <= A =>
              /\ within(C + k, MaxCompletionTokens) /\ within(T + p + k, MaxTotalTokens)
              /\ within(Q + tokenCostMicros(p, InputRate) + tokenCostMicros(k, OutputRate), MaxEstimatedCost)
<1>1. /\ MaxCompletionTokens \in Nat /\ MaxTotalTokens \in Nat /\ MaxEstimatedCost \in Nat /\ MaxInt64 \in Nat
      /\ MaxEstimatedCost < MaxInt64 /\ InputRate \in Nat /\ OutputRate \in Nat /\ p \in Nat /\ Million \in Nat
  BY PricesAssumption
<1> DEFINE res == reservationOf(c, p)
<1>2. /\ res.completion = 1 /\ res.total = p + 1 /\ res.prompt = p /\ res.cost = usageCost(p, 1, 0)
  <2>1. p + 1 \in Int /\ Max({p + 1, p + 1}) = p + 1
    BY <1>1, LargerOf
  <2> QED BY <2>1 DEF reservationOf, modelEntry
<1>3. PICK u \in 0..MaxInt64 : u = usageCost(p, 1, 0)
  <2>1. 1 \in Nat /\ 0 \in 0..p
    BY <1>1
  <2> QED BY <1>1, <2>1, UsageCostIs
<1>4. PICK q \in 0..MaxInt64 : q = tokenCostMicros(p, InputRate)
  BY <1>1, PriceIs
<1>5. PICK one \in 0..MaxInt64 : one = tokenCostMicros(1, OutputRate)
  BY <1>1, PriceIs
<1>6. u = cap(q + one)
  <2>1. 1 \in Nat /\ 0 \in 0..p /\ p - 0 = p /\ CachedRate \in Nat
    BY <1>1, PricesAssumption
  <2>2. usageCost(p, 1, 0) = cap(q + one + 0)
    BY <1>1, <1>4, <1>5, <2>1, UsageCostIs, NothingIsFree
  <2> QED BY <1>3, <2>2
<1> DEFINE left == MaxEstimatedCost - addCost(cap(Q + u) - u, q)
           x == MaxCompletionTokens - C
           y == MaxTotalTokens - T - p
           z == (Max({0, left}) * Million) \div (IF OutputRate > 0 THEN OutputRate ELSE 1)
           bounds == {v \in {x} : MaxCompletionTokens > 0} \cup {v \in {y} : MaxTotalTokens > 0}
                     \cup {v \in {z} : MaxEstimatedCost > 0 /\ OutputRate > 0}
<1>7. A = IF bounds = {} THEN 0 ELSE Max({1, Min(bounds)})
  <2>1. /\ MaxCompletionTokens - (used.completion - res.completion) = x
        /\ MaxTotalTokens - (used.total - res.total) - res.prompt = y
        /\ used.cost - res.cost = cap(Q + u) - u
    BY <1>1, <1>2, <1>3
  <2>2. tokenCostMicros(res.prompt, InputRate) = q
    BY <1>2, <1>4
  <2>3. A = maxCompletionTokens(used, res)
    OBVIOUS
  <2> HIDE DEF res
  <2> QED BY <2>1, <2>2, <2>3 DEF maxCompletionTokens
<1>8. x \in Int /\ y \in Int /\ z \in Nat /\ left \in Int
  <2>1. left \in Int
    BY <1>1, <1>3, <1>4 DEF cap, addCost
  <2> HIDE DEF left
  <2>2. PICK m \in Nat : m = Max({0, left})
    BY <2>1, LargerOf
  <2>3. m * Million \in Nat /\ (IF OutputRate > 0 THEN OutputRate ELSE 1) \in Nat \ {0}
    BY <1>1
  <2>4. PICK d \in Nat, e \in Nat : d = m * Million /\ e = (IF OutputRate > 0 THEN OutputRate ELSE 1) /\ e > 0
    BY <2>3
  <2>5. d \div e \in Nat
    BY <2>4
  <2> QED BY <1>1, <2>1, <2>2, <2>4, <2>5
<1>9. MaxEstimatedCost > 0 => left = MaxEstimatedCost - Q - q /\ left \in Nat /\ u = q + one
  BY <1>1, <1>3, <1>4, <1>5, <1>6 DEF cap, addCost, within
<1> DEFINE least == Min(bounds)
<1>10. bounds # {} => least \in Int /\ \A k \in bounds : least <= k
  <2>1. bounds \in SUBSET {x, y, z}
    OBVIOUS
  <2> HIDE DEF bounds, x, y, z
  <2> SUFFICES ASSUME bounds # {} PROVE least \in Int /\ \A k \in bounds : least <= k
    OBVIOUS
  <2>2. x \in Int /\ y \in Int /\ z \in Int
    BY <1>8
  <2>3. Min(bounds) \in bounds /\ \A k \in bounds : Min(bounds) <= k
    BY <2>1, <2>2, LeastOfThree
  <2>4. bounds \subseteq Int
    BY <2>1, <2>2
  <2> QED BY <2>3, <2>4
<1>11. /\ MaxCompletionTokens > 0 => x \in bounds
       /\ MaxTotalTokens > 0 => y \in bounds
       /\ MaxEstimatedCost > 0 /\ OutputRate > 0 => z \in bounds
  <2> HIDE DEF x, y, z
  <2> QED OBVIOUS
<1>12. A \in Nat /\ \A k \in Nat : A = 0 \/ k <= A => \A m \in bounds : k <= 1 \/ k <= m
  <2>1. CASE bounds = {}
    BY <1>7, <2>1
  <2>2. CASE bounds # {}
    <3>1. least \in Int /\ \A k \in bounds : least <= k
      BY <1>10, <2>2
    <3>2. A = Max({1, least})
      BY <1>7, <2>2
    <3>3. bounds \subseteq Int
      <4> HIDE DEF x, y, z
      <4> QED BY <1>8
    <3> HIDE DEF bounds, least
    <3>4. A = IF 1 < least THEN least ELSE 1
      BY <3>1, <3>2, LargerOf
    <3> QED BY <3>1, <3>3, <3>4
  <2> QED BY <2>1, <2>2
<1>13. ASSUME NEW k \in Nat, A = 0 \/ k <= A
       PROVE  /\ within(C + k, MaxCompletionTokens) /\ within(T + p + k, MaxTotalTokens)
              /\ within(Q + q + tokenCostMicros(k, OutputRate), MaxEstimatedCost)
  <2>1. /\ MaxCompletionTokens > 0 => k <= 1 \/ k <= x
        /\ MaxTotalTokens > 0 => k <= 1 \/ k <= y
        /\ MaxEstimatedCost > 0 /\ OutputRate > 0 => k <= 1 \/ k <= z
    <3> HIDE DEF bounds, x, y, z
    <3> QED BY <1>11, <1>12, <1>13
  <2>2. within(C + k, MaxCompletionTokens) /\ within(T + p + k, MaxTotalTokens)
    <3> HIDE DEF z
    <3> QED BY <1>1, <2>1 DEF within
  <2>8. tokenCostMicros(k, OutputRate) \in Nat
    <3>1. tokenCostMicros(k, OutputRate) \in 0..MaxInt64
      BY <1>1, PriceIs
    <3> QED BY <1>1, <3>1
  <2>3. ASSUME MaxEstimatedCost > 0 PROVE tokenCostMicros(k, OutputRate) <= IF one > left THEN one ELSE left
    <3>1. left \in Nat
      BY <1>9, <2>3
    <3> HIDE DEF left
    <3>2. CASE OutputRate = 0
      <4>1. tokenCostMicros(k, OutputRate) = 0
        BY <3>2 DEF tokenCostMicros
      <4> QED BY <3>1, <4>1, <1>5
    <3>3. CASE OutputRate > 0 /\ k <= 1
      <4>1. tokenCostMicros(k, OutputRate) <= one
        BY <1>1, <1>5, <3>3, PriceMonotone
      <4> QED BY <3>1, <4>1, <2>8, <1>5
    <3>4. CASE OutputRate > 0 /\ k <= z
      <4>1. Max({0, left}) = left
        BY <3>1, LargerOf
      <4>2. k <= (left * Million) \div OutputRate
        BY <3>4, <4>1
      <4>3. tokenCostMicros(k, OutputRate) <= left
        BY <1>1, <3>1, <3>4, <4>2, PriceOfAffordable
      <4> HIDE DEF z
      <4> QED BY <3>1, <4>3, <2>8, <1>5
    <3> HIDE DEF z
    <3> QED BY <1>1, <2>1, <2>3, <3>2, <3>3, <3>4
  <2>4. within(Q + q + tokenCostMicros(k, OutputRate), MaxEstimatedCost)
    <3> SUFFICES ASSUME MaxEstimatedCost > 0 PROVE Q + q + tokenCostMicros(k, OutputRate) <= MaxEstimatedCost
      BY DEF within
    <3>1. PICK b \in Nat : b = tokenCostMicros(k, OutputRate)
      BY <2>8
    <3>2. b <= IF one > left THEN one ELSE left
      BY <2>3, <3>1
    <3>3. left = MaxEstimatedCost - Q - q /\ u = q + one
      BY <1>9
    <3> HIDE DEF left
    <3>4. Q + u <= MaxEstimatedCost
      BY <1>3 DEF within
    <3> QED BY <1>1, <1>3, <1>4, <1>5, <3>1, <3>2, <3>3, <3>4
  <2> QED BY <2>2, <2>4
<1> QED BY <1>4, <1>12, <1>13

\* One more entry.
\* What the ledger adds up.
resources == {"modelCalls", "toolCalls", "prompt", "completion", "total", "cost"}


\* new is log and one entry more.
grown(log, new, e, n) ==
  /\ n \notin DOMAIN log /\ DOMAIN new = DOMAIN log \cup {n} /\ new[n] = e /\ \A i \in DOMAIN log : new[i] = log[i]
  /\ \A i \in DOMAIN new : new[i].kind \in {"reservation", "settlement", "tool"}

accounts(log) == once(log) /\ founded(log)

LEMMA OneMore ==
  ASSUME NEW log \in Seq(Entry), NEW e \in Entry
  PROVE  grown(log, Append(log, e), e, Len(log) + 1) /\ Append(log, e) \in Seq(Entry) /\ IsFiniteSet(DOMAIN log)
<1>1. /\ Len(log) \in Nat /\ DOMAIN log = 1..Len(log) /\ DOMAIN Append(log, e) = 1..(Len(log) + 1)
      /\ Append(log, e)[Len(log) + 1] = e /\ \A i \in 1..Len(log) : Append(log, e)[i] = log[i] /\ log[i] \in Entry
      /\ Append(log, e) \in Seq(Entry)
  <2> HIDE DEF Entry
  <2> QED OBVIOUS
<1>2. \A d \in Entry : d.kind \in {"reservation", "settlement", "tool"}
  BY DEF Entry
<1>3. Len(log) + 1 \notin DOMAIN log /\ DOMAIN Append(log, e) = DOMAIN log \cup {Len(log) + 1}
  BY <1>1
<1>4. IsFiniteSet(DOMAIN log)
  BY <1>1, FS_Interval
<1> DEFINE new == Append(log, e)
           n == Len(log) + 1
<1>5. \A i \in DOMAIN new : new[i] \in Entry
  BY <1>1
<1>6. /\ n \notin DOMAIN log /\ DOMAIN new = DOMAIN log \cup {n} /\ new[n] = e
      /\ (\A i \in DOMAIN log : new[i] = log[i]) /\ \A i \in DOMAIN new : new[i].kind \in {"reservation", "settlement", "tool"}
  <2>1. DOMAIN log = 1..Len(log)
    BY <1>1
  <2> HIDE DEF Entry
  <2> QED BY <1>1, <1>2, <1>3, <1>5, <2>1
<1> HIDE DEF new, n
<1>7. grown(log, new, e, n)
  BY <1>6 DEF grown
<1> QED BY <1>1, <1>4, <1>7 DEF new, n

LEMMA StillAccounts ==
  ASSUME NEW log, NEW new, NEW e, NEW n, grown(log, new, e, n), accounts(log), ~has(log, e.kind, e.op),
         e.kind = "settlement" => has(log, "reservation", e.op)
  PROVE  /\ accounts(new)
         /\ \A kind, op : has(new, kind, op) <=> has(log, kind, op) \/ (kind = e.kind /\ op = e.op)
<1>1. \A kind, op : has(new, kind, op) <=> has(log, kind, op) \/ (kind = e.kind /\ op = e.op)
  BY DEF grown, has
<1>2. once(new)
  <2> SUFFICES ASSUME NEW i \in DOMAIN new, NEW j \in DOMAIN new, new[i].kind = new[j].kind, new[i].op = new[j].op
               PROVE  i = j
    BY DEF once
  <2>1. CASE i = n /\ j \in DOMAIN log
    BY <2>1 DEF grown, has
  <2>2. CASE j = n /\ i \in DOMAIN log
    BY <2>2 DEF grown, has
  <2>3. CASE i \in DOMAIN log /\ j \in DOMAIN log
    BY <2>3 DEF grown, once, accounts
  <2> QED BY <2>1, <2>2, <2>3 DEF grown
<1>3. founded(new)
  BY <1>1 DEF founded, accounts
<1> QED BY <1>1, <1>2, <1>3 DEF accounts

\* Whether entry i counts.
countsIn(log, i) ==
  \/ log[i].kind = "tool"
  \/ log[i].kind = "settlement" /\ has(log, "reservation", log[i].op)
  \/ log[i].kind = "reservation" /\ ~has(log, "settlement", log[i].op)

LEMMA CountedIs == \A log : counting(log) = {i \in DOMAIN log : countsIn(log, i)}
  BY DEF counting, countsIn, has

LEMMA CountedMore ==
  ASSUME NEW log, NEW new, NEW e, NEW n, grown(log, new, e, n), accounts(log), ~has(log, e.kind, e.op),
         e.kind \in {"reservation", "tool"}
  PROVE  counting(new) = counting(log) \cup {n}
<1>1. \A kind, op : has(new, kind, op) <=> has(log, kind, op) \/ (kind = e.kind /\ op = e.op)
  BY DEF grown, has
<1>2. countsIn(new, n)
  <2>1. new[n] = e
    BY DEF grown
  <2>2. e.kind = "reservation" => ~has(new, "settlement", e.op)
    BY <1>1 DEF accounts, founded
  <2> QED BY <2>1, <2>2 DEF countsIn
<1>3. ASSUME NEW i \in DOMAIN log PROVE countsIn(new, i) <=> countsIn(log, i)
  <2>1. new[i] = log[i]
    BY DEF grown
  <2>2. has(new, "settlement", log[i].op) <=> has(log, "settlement", log[i].op)
    BY <1>1
  <2>3. log[i].kind = "settlement" => (has(new, "reservation", log[i].op) <=> has(log, "reservation", log[i].op))
    <3> SUFFICES ASSUME log[i].kind = "settlement" PROVE has(log, "reservation", log[i].op) /\ has(new, "reservation", log[i].op)
      OBVIOUS
    <3>1. has(log, "settlement", log[i].op)
      BY DEF has
    <3> QED BY <1>1, <3>1 DEF accounts, founded
  <2> QED BY <2>1, <2>2, <2>3 DEF countsIn
<1>4. DOMAIN new = DOMAIN log \cup {n}
  BY DEF grown
<1> QED BY <1>2, <1>3, <1>4, CountedIs

LEMMA CountedSettled ==
  ASSUME NEW log, NEW new, NEW e, NEW n, grown(log, new, e, n), accounts(log), ~has(log, e.kind, e.op),
         e.kind = "settlement", NEW j \in DOMAIN log, log[j].kind = "reservation", log[j].op = e.op
  PROVE  counting(new) = (counting(log) \ {j}) \cup {n} /\ j \in counting(log)
<1>1. \A kind, op : has(new, kind, op) <=> has(log, kind, op) \/ (kind = e.kind /\ op = e.op)
  BY DEF grown, has
<1>2. has(log, "reservation", e.op)
  BY DEF has
<1>3. countsIn(new, n)
  <2>1. new[n] = e
    BY DEF grown
  <2> QED BY <1>1, <1>2, <2>1 DEF countsIn
<1>4. ASSUME NEW i \in DOMAIN log PROVE countsIn(new, i) <=> countsIn(log, i) /\ i # j
  <2>1. new[i] = log[i]
    BY DEF grown
  <2>2. CASE i = j
    <3>1. has(new, "settlement", log[j].op)
      BY <1>1
    <3> QED BY <2>1, <2>2, <3>1 DEF countsIn
  <2>3. CASE i # j
    <3>1. log[i].kind = "reservation" => log[i].op # e.op
      BY <2>3 DEF accounts, once
    <3>2. has(new, "reservation", log[i].op) <=> has(log, "reservation", log[i].op)
      BY <1>1
    <3>3. log[i].kind = "reservation" => (has(new, "settlement", log[i].op) <=> has(log, "settlement", log[i].op))
      BY <1>1, <3>1
    <3> QED BY <2>1, <2>3, <3>2, <3>3 DEF countsIn
  <2> QED BY <2>2, <2>3
<1>5. countsIn(log, j)
  BY DEF countsIn
<1>6. DOMAIN new = DOMAIN log \cup {n}
  BY DEF grown
<1>7. n \notin DOMAIN log
  BY DEF grown
<1> HIDE DEF countsIn
<1> QED BY <1>3, <1>4, <1>5, <1>6, <1>7, CountedIs

LEMMA EntryAmounts == \A e \in Entry : \A r \in resources : e[r] \in Nat
<1> TAKE e \in Entry
<1>1. /\ e["modelCalls"] \in Nat /\ e["toolCalls"] \in Nat /\ e["prompt"] \in Nat /\ e["completion"] \in Nat
      /\ e["total"] \in Nat /\ e["cost"] \in Nat
  BY PricesAssumption DEF Entry
<1> QED BY <1>1 DEF resources

LEMMA SumIs ==
  ASSUME NEW log \in Seq(Entry), NEW r \in resources
  PROVE  /\ sum(log, r) = amount(log, r, counting(log)) /\ IsFiniteSet(counting(log)) /\ counting(log) \subseteq DOMAIN log
         /\ natural(log, r, counting(log)) /\ sum(log, r) \in Nat
<1>1. sum(log, r) = amount(log, r, counting(log))
  BY DEF sum, amount
<1>2. counting(log) \subseteq DOMAIN log
  BY CountedIs
<1>3. IsFiniteSet(DOMAIN log) /\ \A i \in DOMAIN log : log[i] \in Entry
  <2>1. DOMAIN log = 1..Len(log) /\ Len(log) \in Nat /\ \A i \in 1..Len(log) : log[i] \in Entry
    OBVIOUS
  <2> QED BY <2>1, FS_Interval
<1>4. IsFiniteSet(counting(log))
  BY <1>2, <1>3, FS_Subset
<1>5. natural(log, r, counting(log))
  BY <1>2, <1>3, EntryAmounts DEF natural
<1> QED BY <1>1, <1>2, <1>4, <1>5, AmountOf

LEMMA SumMore ==
  ASSUME NEW log \in Seq(Entry), NEW e \in Entry, accounts(log), ~has(log, e.kind, e.op),
         e.kind \in {"reservation", "tool"}, NEW r \in resources
  PROVE  sum(Append(log, e), r) = sum(log, r) + e[r]
<1> DEFINE new == Append(log, e)
           n == Len(log) + 1
<1>1. grown(log, new, e, n) /\ new \in Seq(Entry)
  BY OneMore
<1> HIDE DEF new, n
<1>2. counting(new) = counting(log) \cup {n}
  BY <1>1, CountedMore
<1>3. /\ sum(log, r) = amount(log, r, counting(log)) /\ IsFiniteSet(counting(log)) /\ counting(log) \subseteq DOMAIN log
      /\ sum(log, r) \in Nat
  BY SumIs
<1>4. /\ sum(new, r) = amount(new, r, counting(new)) /\ IsFiniteSet(counting(new)) /\ natural(new, r, counting(new))
  BY <1>1, SumIs
<1>5. amount(new, r, counting(new)) = new[n][r] + amount(new, r, counting(new) \ {n})
  BY <1>2, <1>4, AmountOf
<1>6. counting(new) \ {n} = counting(log) /\ new[n] = e /\ \A i \in counting(log) : new[i] = log[i]
  BY <1>1, <1>2, <1>3 DEF grown
<1>7. amount(new, r, counting(log)) = amount(log, r, counting(log))
  BY <1>3, <1>6, AmountSame
<1>8. e[r] \in Nat
  BY EntryAmounts
<1>9. sum(new, r) = e[r] + sum(log, r)
  BY <1>3, <1>4, <1>5, <1>6, <1>7
<1> QED BY <1>3, <1>8, <1>9 DEF new

LEMMA SumSettled ==
  ASSUME NEW log \in Seq(Entry), NEW e \in Entry, accounts(log), ~has(log, e.kind, e.op), e.kind = "settlement",
         NEW j \in DOMAIN log, log[j].kind = "reservation", log[j].op = e.op, NEW r \in resources
  PROVE  sum(Append(log, e), r) = sum(log, r) - log[j][r] + e[r]
<1> DEFINE new == Append(log, e)
           n == Len(log) + 1
           rest == counting(log) \ {j}
<1>1. grown(log, new, e, n) /\ new \in Seq(Entry)
  BY OneMore
<1> HIDE DEF new, n
<1>2. counting(new) = rest \cup {n} /\ j \in counting(log)
  BY <1>1, CountedSettled
<1>3. /\ sum(log, r) = amount(log, r, counting(log)) /\ IsFiniteSet(counting(log)) /\ counting(log) \subseteq DOMAIN log
      /\ natural(log, r, counting(log)) /\ sum(log, r) \in Nat
  BY SumIs
<1>4. /\ sum(new, r) = amount(new, r, counting(new)) /\ IsFiniteSet(counting(new)) /\ natural(new, r, counting(new))
  BY <1>1, SumIs
<1>5. amount(new, r, counting(new)) = new[n][r] + amount(new, r, counting(new) \ {n})
  BY <1>2, <1>4, AmountOf
<1>6. amount(log, r, counting(log)) = log[j][r] + amount(log, r, rest)
  BY <1>2, <1>3, AmountOf
<1>7. counting(new) \ {n} = rest /\ new[n] = e /\ \A i \in rest : new[i] = log[i]
  BY <1>1, <1>2, <1>3 DEF grown
<1>8. IsFiniteSet(rest) /\ natural(log, r, rest)
  BY <1>3, FS_Subset DEF natural
<1> HIDE DEF rest
<1>9. amount(new, r, rest) = amount(log, r, rest) /\ amount(log, r, rest) \in Nat
  BY <1>7, <1>8, AmountSame, AmountOf
<1>10. e[r] \in Nat /\ log[j][r] \in Nat
  <2>1. log[j] \in Entry
    OBVIOUS
  <2> QED BY <2>1, EntryAmounts
<1>11. sum(new, r) = e[r] + amount(log, r, rest) /\ sum(log, r) = log[j][r] + amount(log, r, rest)
  BY <1>3, <1>4, <1>5, <1>6, <1>7, <1>9
<1> QED BY <1>9, <1>10, <1>11 DEF new

\* What holds of the ledger between any two steps.
Reported == [prompt : Nat, completion : Nat, total : Nat, cached : Nat]

LedgerTypeOK ==
  /\ ledgerEntries \in Seq(Entry)
  /\ ledgerPc \in [Calls -> {"idle", "refused", "calling", "answered", "settled", "abandoned"}]
  /\ estimate \in [Calls -> Nat] /\ allowance \in [Calls -> Nat] /\ attempts \in [Calls -> Nat]
  /\ usage \in [Calls -> Reported] /\ executed \subseteq Tools /\ overlapped \in BOOLEAN

\* A call has its reservation from Begin to the end, and nothing settled until it is settled.
unsettled == {"calling", "answered", "abandoned"}
ReservedIn(log, c, step, p, tried, reported) ==
  /\ step \in {"idle", "refused"} => ~has(log, "reservation", c)
  /\ step \in unsettled => /\ p \in Estimates /\ ~has(log, "settlement", c)
                         /\ \E i \in DOMAIN log : log[i] = reservationOf(c, p)
  /\ tried > 0 => has(log, "reservation", c)
  /\ step = "answered" => reported \in Reports
Reserved(c) == ReservedIn(ledgerEntries, c, ledgerPc[c], estimate[c], attempts[c], usage[c])

\* The ledger counts one model call per reservation and one tool call per execution.
reservedCalls(log) == {c \in Calls : has(log, "reservation", c)}
CountedIn(log, tools) ==
  /\ IsFiniteSet(reservedCalls(log)) /\ sum(log, "modelCalls") = Cardinality(reservedCalls(log))
  /\ within(sum(log, "modelCalls"), MaxModelCalls)
  /\ IsFiniteSet(tools) /\ sum(log, "toolCalls") = Cardinality(tools)
  /\ within(sum(log, "toolCalls"), MaxToolCalls)
  /\ \A t \in Tools : t \in tools <=> has(log, "tool", t)

\* What the newest entry reports beyond an estimate p and an allowance k (beyond).
pledge(p, k) ==
  [modelCalls |-> 1, toolCalls |-> 0, prompt |-> p, completion |-> k, total |-> p + k,
   cost |-> tokenCostMicros(p, InputRate) + tokenCostMicros(k, OutputRate)]
excess(e, p, k, r) == Max({0, e[r] - pledge(p, k)[r]})
slack(log, est, allowed, r) ==
  IF log # <<>> /\ Last(log).kind = "settlement"
  THEN excess(Last(log), est[Last(log).op], allowed[Last(log).op], r) ELSE 0

\* A sum is within its limit but for that.
nearly(amountUsed, limit, more) == more \in Nat /\ (limit > 0 => amountUsed <= limit + more)
Fits(log, est, allowed) ==
  /\ nearly(sum(log, "prompt"), MaxPromptTokens, slack(log, est, allowed, "prompt"))
  /\ nearly(sum(log, "completion"), MaxCompletionTokens, slack(log, est, allowed, "completion"))
  /\ nearly(sum(log, "total"), MaxTotalTokens, slack(log, est, allowed, "total"))
  /\ nearly(sum(log, "cost"), MaxEstimatedCost, slack(log, est, allowed, "cost"))

\* The limits leave a call of p prompt tokens k completion tokens.
leaves(log, p, k) ==
  /\ within(sum(log, "prompt"), MaxPromptTokens)
  /\ within(sum(log, "completion") - 1 + k, MaxCompletionTokens)
  /\ within(sum(log, "total") - 1 + k, MaxTotalTokens)
  /\ within(sum(log, "cost") - usageCost(p, 1, 0) + tokenCostMicros(p, InputRate) + tokenCostMicros(k, OutputRate),
            MaxEstimatedCost)

\* While calls follow each other, one is unsettled at most, and the limits leave room for its
\* estimate and its allowance.
Sequential ==
  ~overlapped =>
    /\ \A c, d \in Calls : ledgerPc[c] \in unsettled /\ ledgerPc[d] \in unsettled => c = d
    /\ Fits(ledgerEntries, estimate, allowance)
    /\ \A c \in Calls : ledgerPc[c] \in {"calling", "answered"} => leaves(ledgerEntries, estimate[c], allowance[c])

LedgerInv ==
  /\ LedgerTypeOK /\ accounts(ledgerEntries) /\ \A c \in Calls : Reserved(c)
  /\ CountedIn(ledgerEntries, executed) /\ Sequential

LEMMA LimitsAre ==
  /\ MaxModelCalls \in Nat /\ MaxToolCalls \in Nat /\ MaxPromptTokens \in Nat /\ MaxCompletionTokens \in Nat
  /\ MaxTotalTokens \in Nat /\ MaxEstimatedCost \in Nat /\ MaxInt64 \in Nat /\ MaxEstimatedCost < MaxInt64 /\ Estimates \subseteq Nat
  /\ InputRate \in Nat /\ OutputRate \in Nat /\ CachedRate \in Nat
  BY PricesAssumption

LEMMA LedgerFields ==
  LedgerTypeOK => /\ ledgerEntries \in Seq(Entry)
                  /\ \A c \in Calls : estimate[c] \in Nat /\ allowance[c] \in Nat /\ attempts[c] \in Nat
  BY DEF LedgerTypeOK

LEMMA TokensCost ==
  ASSUME NEW t \in Nat
  PROVE  tokenCostMicros(t, InputRate) \in Nat /\ tokenCostMicros(t, OutputRate) \in Nat
<1>1. tokenCostMicros(t, InputRate) \in 0..MaxInt64 /\ tokenCostMicros(t, OutputRate) \in 0..MaxInt64
  BY LimitsAre, PriceIs
<1> QED BY <1>1, LimitsAre

\* The newest entry.
LEMMA LastIs ==
  ASSUME NEW log \in Seq(Entry), NEW e \in Entry
  PROVE  Append(log, e) # <<>> /\ Last(Append(log, e)) = e
<1>1. Len(Append(log, e)) = Len(log) + 1 /\ Append(log, e)[Len(log) + 1] = e /\ Len(log) \in Nat
  <2> HIDE DEF Entry
  <2> QED OBVIOUS
<1>2. Len(<<>>) = 0
  OBVIOUS
<1> HIDE DEF Entry
<1> QED BY <1>1, <1>2 DEF Last

LEMMA NoSlack ==
  ASSUME NEW log \in Seq(Entry), NEW e \in Entry, e.kind # "settlement", NEW est, NEW allowed
  PROVE  \A r : slack(Append(log, e), est, allowed, r) = 0
<1>1. Last(Append(log, e)) = e
  BY LastIs
<1> HIDE DEF Entry
<1> QED BY <1>1 DEF slack

\* What is admitted fits.
LEMMA WithinFits ==
  ASSUME NEW log \in Seq(Entry), NEW e \in Entry, e.kind # "settlement", NEW est, NEW allowed,
         NEW P \in Nat, NEW C \in Nat, NEW T \in Nat, NEW Q \in Nat,
         sum(Append(log, e), "prompt") = P, sum(Append(log, e), "completion") = C,
         sum(Append(log, e), "total") = T, sum(Append(log, e), "cost") = Q,
         within(P, MaxPromptTokens), within(C, MaxCompletionTokens), within(T, MaxTotalTokens), within(Q, MaxEstimatedCost)
  PROVE  Fits(Append(log, e), est, allowed)
<1> DEFINE new == Append(log, e)
<1>1. \A r : slack(new, est, allowed, r) = 0
  BY NoSlack
<1> HIDE DEF new
<1>2. /\ nearly(P, MaxPromptTokens, 0) /\ nearly(C, MaxCompletionTokens, 0) /\ nearly(T, MaxTotalTokens, 0)
      /\ nearly(Q, MaxEstimatedCost, 0)
  BY LimitsAre DEF nearly, within
<1>3. sum(new, "prompt") = P /\ sum(new, "completion") = C /\ sum(new, "total") = T /\ sum(new, "cost") = Q
  BY DEF new
<1>4. Fits(new, est, allowed)
  BY <1>1, <1>2, <1>3 DEF Fits
<1> QED BY <1>4 DEF new

LEMMA ExcessIs ==
  ASSUME NEW e, NEW p, NEW k, NEW r, e[r] \in Nat, pledge(p, k)[r] \in Nat
  PROVE  excess(e, p, k, r) \in Nat /\ e[r] <= pledge(p, k)[r] + excess(e, p, k, r)
<1>1. PICK x \in Nat, y \in Nat : x = e[r] /\ y = pledge(p, k)[r]
  OBVIOUS
<1>2. Max({0, x - y}) = IF 0 < x - y THEN x - y ELSE 0
  BY <1>1, LargerOf
<1> QED BY <1>1, <1>2 DEF excess

LEMMA ReservationIs ==
  ASSUME NEW c \in Calls, NEW p \in Estimates
  PROVE  /\ reservationOf(c, p) \in Entry /\ p \in Nat /\ usageCost(p, 1, 0) \in 0..MaxInt64
         /\ reservationOf(c, p).kind = "reservation" /\ reservationOf(c, p).op = c
         /\ reservationOf(c, p)["modelCalls"] = 1 /\ reservationOf(c, p)["toolCalls"] = 0
         /\ reservationOf(c, p)["prompt"] = p
         /\ reservationOf(c, p)["completion"] = 1 /\ reservationOf(c, p)["total"] = p + 1
         /\ reservationOf(c, p)["cost"] = usageCost(p, 1, 0)
<1>1. p \in Nat
  BY PricesAssumption
<1>2. usageCost(p, 1, 0) \in 0..MaxInt64
  <2>1. 1 \in Nat /\ 0 \in 0..p
    BY <1>1
  <2> QED BY <1>1, <2>1, UsageCostIs
<1> DEFINE u == usageCost(p, 1, 0)
<1> HIDE DEF u
<1>3. reservationOf(c, p) = [kind |-> "reservation", op |-> c, modelCalls |-> 1, toolCalls |-> 0, prompt |-> p,
                             completion |-> 1, total |-> p + 1, cost |-> u]
  <2>1. p + 1 \in Int /\ Max({p + 1, p + 1}) = p + 1
    BY <1>1, LargerOf
  <2> QED BY <2>1 DEF reservationOf, modelEntry, u
<1>4. u \in 0..MaxInt64
  BY <1>2 DEF u
<1>5. reservationOf(c, p) \in Entry
  BY <1>1, <1>3, <1>4 DEF Entry
<1> QED BY <1>1, <1>2, <1>3, <1>5 DEF u

LEMMA SettlementIs ==
  ASSUME NEW c \in Calls, NEW p \in Nat, NEW k \in Nat, NEW t \in Nat, NEW u \in 0..MaxInt64
  PROVE  LET e == modelEntry("settlement", c, p, k, t, u) IN
         /\ e \in Entry /\ e.kind = "settlement" /\ e.op = c /\ e["modelCalls"] = 1 /\ e["toolCalls"] = 0
         /\ e["prompt"] = p /\ e["completion"] = k /\ e["total"] \in Nat /\ e["cost"] = u
<1>1. PICK m \in Nat : m = Max({t, p + k})
  BY LargerOf
<1>2. modelEntry("settlement", c, p, k, t, u) =
        [kind |-> "settlement", op |-> c, modelCalls |-> 1, toolCalls |-> 0, prompt |-> p,
         completion |-> k, total |-> m, cost |-> u]
  BY <1>1 DEF modelEntry
<1> QED BY <1>1, <1>2 DEF Entry

LEMMA ToolEntryIs ==
  ASSUME NEW t \in Tools
  PROVE  /\ toolEntry(t) \in Entry /\ toolEntry(t).kind = "tool" /\ toolEntry(t).op = t
         /\ toolEntry(t)["modelCalls"] = 0 /\ toolEntry(t)["toolCalls"] = 1 /\ toolEntry(t)["prompt"] = 0
         /\ toolEntry(t)["completion"] = 0 /\ toolEntry(t)["total"] = 0 /\ toolEntry(t)["cost"] = 0
  BY PricesAssumption DEF toolEntry, Entry

LEMMA NotOver ==
  \A used, request, limit \in Nat : ~over(used, request, limit) => within(used + request, limit)
  BY DEF over, within

\* What a passed Check says.
LEMMA ChecksOut ==
  ASSUME NEW log \in Seq(Entry), NEW e \in Entry, Check(BuildLedger(log), [f \in DOMAIN limits |-> e[f]])
  PROVE  /\ within(sum(log, "modelCalls") + e["modelCalls"], MaxModelCalls)
         /\ within(sum(log, "toolCalls") + e["toolCalls"], MaxToolCalls)
         /\ within(sum(log, "prompt") + e["prompt"], MaxPromptTokens)
         /\ within(sum(log, "completion") + e["completion"], MaxCompletionTokens)
         /\ within(sum(log, "total") + e["total"], MaxTotalTokens)
         /\ within(sum(log, "cost") + e["cost"], MaxEstimatedCost)
<1> DEFINE L == BuildLedger(log)
           q == [f \in DOMAIN limits |-> e[f]]
<1>1. DOMAIN limits = resources
  BY DEF limits, resources
<1>2. /\ sum(log, "modelCalls") \in Nat /\ sum(log, "toolCalls") \in Nat /\ sum(log, "prompt") \in Nat /\ sum(log, "completion") \in Nat
      /\ sum(log, "total") \in Nat /\ sum(log, "cost") \in Nat
  BY SumIs DEF resources
<1>3. /\ e["modelCalls"] \in Nat /\ e["toolCalls"] \in Nat /\ e["prompt"] \in Nat /\ e["completion"] \in Nat /\ e["total"] \in Nat
      /\ e["cost"] \in Nat
  BY EntryAmounts DEF resources
<1>4. \A r \in resources : ~over(L[r], q[r], limits[r]) /\ q[r] = e[r]
  <2> HIDE DEF L
  <2> QED BY <1>1 DEF Check, L
<1>5. /\ L["modelCalls"] = sum(log, "modelCalls") /\ L["toolCalls"] = sum(log, "toolCalls")
      /\ L["prompt"] = sum(log, "prompt") /\ L["completion"] = sum(log, "completion") /\ L["total"] = sum(log, "total") /\ L["cost"] = costOf(log)
  BY DEF BuildLedger
<1>6. /\ limits["modelCalls"] = MaxModelCalls /\ limits["toolCalls"] = MaxToolCalls
      /\ limits["prompt"] = MaxPromptTokens /\ limits["completion"] = MaxCompletionTokens /\ limits["total"] = MaxTotalTokens /\ limits["cost"] = MaxEstimatedCost
  BY DEF limits
<1>7. costOf(log) = cap(sum(log, "cost"))
  <2>1. IsFiniteSet(counting(log)) /\ counting(log) \subseteq DOMAIN log
    BY SumIs DEF resources
  <2>2. \A i \in DOMAIN log : log[i] \in Entry
    OBVIOUS
  <2>3. \A d \in Entry : d.cost \in 0..MaxInt64
    BY DEF Entry
  <2> QED BY <2>1, <2>2, <2>3, CostIsCapped
<1>8. /\ ~over(sum(log, "modelCalls"), e["modelCalls"], MaxModelCalls)
      /\ ~over(sum(log, "toolCalls"), e["toolCalls"], MaxToolCalls)
      /\ ~over(sum(log, "prompt"), e["prompt"], MaxPromptTokens)
      /\ ~over(sum(log, "completion"), e["completion"], MaxCompletionTokens)
      /\ ~over(sum(log, "total"), e["total"], MaxTotalTokens)
      /\ ~over(cap(sum(log, "cost")), e["cost"], MaxEstimatedCost)
  <2> HIDE DEF L, q
  <2> QED BY <1>4, <1>5, <1>6, <1>7 DEF resources
<1> HIDE DEF L, q
<1>9. /\ within(sum(log, "modelCalls") + e["modelCalls"], MaxModelCalls)
      /\ within(sum(log, "toolCalls") + e["toolCalls"], MaxToolCalls)
      /\ within(sum(log, "prompt") + e["prompt"], MaxPromptTokens)
      /\ within(sum(log, "completion") + e["completion"], MaxCompletionTokens)
      /\ within(sum(log, "total") + e["total"], MaxTotalTokens)
  BY <1>2, <1>3, <1>8, LimitsAre, NotOver
<1>10. within(sum(log, "cost") + e["cost"], MaxEstimatedCost)
  <2>1. cap(sum(log, "cost")) \in Nat
    BY <1>2, LimitsAre DEF cap
  <2>2. within(cap(sum(log, "cost")) + e["cost"], MaxEstimatedCost)
    BY <1>3, <1>8, <2>1, LimitsAre, NotOver
  <2> QED BY <1>2, <1>3, <2>2, LimitsAre DEF within, cap
<1> QED BY <1>9, <1>10

LEMMA StillReserved ==
  ASSUME NEW log, NEW new, NEW c, NEW step, NEW p, NEW tried, NEW reported,
         ReservedIn(log, c, step, p, tried, reported), \A kind : has(new, kind, c) <=> has(log, kind, c),
         \A i \in DOMAIN log : i \in DOMAIN new /\ new[i] = log[i]
  PROVE  ReservedIn(new, c, step, p, tried, reported)
  BY DEF ReservedIn

LEMMA LedgerInitially == LedgerInit => LedgerInv
<1> SUFFICES ASSUME LedgerInit PROVE LedgerInv
  OBVIOUS
<1> USE DEF LedgerInit
<1>1. LedgerTypeOK
  <2>1. <<>> \in Seq(Entry)
    OBVIOUS
  <2>2. NoUsage \in Reported
    BY DEF NoUsage, Reported
  <2> HIDE DEF Entry, Reported
  <2> QED BY <2>1, <2>2 DEF LedgerTypeOK
<1>2. \A kind, op : ~has(<<>>, kind, op)
  BY DEF has
<1>3. accounts(ledgerEntries)
  BY <1>2 DEF accounts, once, founded
<1>4. \A c \in Calls : Reserved(c)
  BY <1>2 DEF Reserved, ReservedIn, unsettled
<1>5. \A r \in resources : sum(ledgerEntries, r) = 0
  <2>1. counting(<<>>) = {}
    <3>1. DOMAIN <<>> = {}
      OBVIOUS
    <3> QED BY <3>1, CountedIs
  <2>2. ledgerEntries = <<>>
    OBVIOUS
  <2>3. <<>> \in Seq(Entry)
    OBVIOUS
  <2>4. \A r \in resources : sum(<<>>, r) = amount(<<>>, r, {})
    BY <2>1, <2>3, SumIs
  <2> QED BY <2>2, <2>4, AmountOfNothing
<1>6. CountedIn(ledgerEntries, executed)
  <2>1. reservedCalls(<<>>) = {}
    BY <1>2 DEF reservedCalls
  <2>2. sum(ledgerEntries, "modelCalls") = 0 /\ sum(ledgerEntries, "toolCalls") = 0
    BY <1>5 DEF resources
  <2>3. IsFiniteSet({}) /\ Cardinality({}) = 0
    BY FS_EmptySet
  <2>4. ledgerEntries = <<>> /\ executed = {}
    OBVIOUS
  <2>5. within(0, MaxModelCalls) /\ within(0, MaxToolCalls)
    BY LimitsAre DEF within
  <2> QED BY <1>2, <2>1, <2>2, <2>3, <2>4, <2>5 DEF CountedIn
<1>7. Sequential
  <2>1. /\ sum(ledgerEntries, "prompt") = 0 /\ sum(ledgerEntries, "completion") = 0
        /\ sum(ledgerEntries, "total") = 0 /\ sum(ledgerEntries, "cost") = 0
    BY <1>5 DEF resources
  <2>2. Fits(ledgerEntries, estimate, allowance)
    <3>1. ledgerEntries = <<>>
      OBVIOUS
    <3>2. \A r : slack(ledgerEntries, estimate, allowance, r) = 0
      BY <3>1 DEF slack
    <3> QED BY <2>1, <3>2, LimitsAre DEF Fits, nearly
  <2>3. \A c \in Calls : ledgerPc[c] = "idle"
    OBVIOUS
  <2> QED BY <2>2, <2>3 DEF Sequential, unsettled
<1> QED BY <1>1, <1>3, <1>4, <1>6, <1>7 DEF LedgerInv

LEMMA CostOfIs == \A log \in Seq(Entry) : costOf(log) = cap(sum(log, "cost"))
<1> TAKE log \in Seq(Entry)
<1>1. IsFiniteSet(counting(log)) /\ counting(log) \subseteq DOMAIN log
  BY SumIs DEF resources
<1>2. \A i \in DOMAIN log : log[i] \in Entry
  OBVIOUS
<1>3. \A d \in Entry : d.cost \in 0..MaxInt64
  BY DEF Entry
<1> QED BY <1>1, <1>2, <1>3, CostIsCapped

LEMMA RecordedIs ==
  \A kind, op : (recorded(kind, op) = {} <=> ~has(ledgerEntries, kind, op))
  BY DEF recorded, has

\* A refused call leaves the ledger alone.
LEMMA RefusalKeepsLedger ==
  ASSUME LedgerInv, NEW c \in Calls, ledgerPc[c] = "idle", ledgerPc' = [ledgerPc EXCEPT ![c] = "refused"],
         UNCHANGED <<ledgerEntries, estimate, allowance, attempts, usage, executed>>,
         overlapped' = (overlapped \/ open # {} \/ \E d \in Calls : ledgerPc[d] = "abandoned")
  PROVE  LedgerInv'
<1> DEFINE L == ledgerEntries
<1>1. LedgerTypeOK /\ accounts(L) /\ (\A d \in Calls : Reserved(d)) /\ CountedIn(L, executed) /\ Sequential
  BY DEF LedgerInv
<1>2. LedgerTypeOK'
  <2>1. overlapped' \in BOOLEAN
    BY <1>1 DEF LedgerTypeOK
  <2>2. ledgerPc' \in [Calls -> {"idle", "refused", "calling", "answered", "settled", "abandoned"}]
    BY <1>1 DEF LedgerTypeOK
  <2> HIDE DEF Entry, Reported
  <2> QED BY <1>1, <2>1, <2>2 DEF LedgerTypeOK
<1>3. ledgerPc'[c] = "refused" /\ \A d \in Calls : d # c => ledgerPc'[d] = ledgerPc[d]
  BY <1>1 DEF LedgerTypeOK
<1>4. ASSUME NEW d \in Calls PROVE Reserved(d)'
  <2>1. CASE d = c
    BY <1>1, <1>3, <2>1 DEF Reserved, ReservedIn, unsettled
  <2>2. CASE d # c
    BY <1>1, <1>3, <2>2 DEF Reserved
  <2> QED BY <2>1, <2>2
<1>5. Sequential'
  <2>1. ~overlapped' => ~overlapped
    BY <1>1 DEF LedgerTypeOK
  <2>2. \A d \in Calls : ledgerPc'[d] \in unsettled => d # c /\ ledgerPc[d] = ledgerPc'[d]
    BY <1>3 DEF unsettled
  <2>3. \A d \in Calls : ledgerPc'[d] \in {"calling", "answered"} => d # c /\ ledgerPc[d] = ledgerPc'[d]
    BY <1>3
  <2> QED BY <1>1, <2>1, <2>2, <2>3 DEF Sequential
<1> QED BY <1>1, <1>2, <1>4, <1>5 DEF LedgerInv

LEMMA ReservationKeepsLedger ==
  ASSUME LedgerInv, NEW c \in Calls, NEW p \in Estimates, NEW l \in {"calling", "abandoned"}, ledgerPc[c] = "idle",
         Check(BuildLedger(ledgerEntries), [f \in DOMAIN limits |-> reservationOf(c, p)[f]]),
         ledgerEntries' = Append(ledgerEntries, reservationOf(c, p)),
         estimate' = [estimate EXCEPT ![c] = p],
         allowance' = [allowance EXCEPT ![c] = maxCompletionTokens(BuildLedger(ledgerEntries'), reservationOf(c, p))],
         ledgerPc' = [ledgerPc EXCEPT ![c] = l],
         UNCHANGED <<attempts, usage, executed>>,
         overlapped' = (overlapped \/ open # {} \/ \E d \in Calls : ledgerPc[d] = "abandoned")
  PROVE  LedgerInv'
<1> DEFINE L == ledgerEntries
           e == reservationOf(c, p)
           new == Append(L, e)
           n == Len(L) + 1
           u == usageCost(p, 1, 0)
           A == maxCompletionTokens(BuildLedger(new), e)
<1>1. LedgerTypeOK /\ accounts(L) /\ (\A d \in Calls : Reserved(d)) /\ CountedIn(L, executed) /\ Sequential
  BY DEF LedgerInv
<1>2. L \in Seq(Entry)
  BY <1>1 DEF LedgerTypeOK
<1>3. /\ e \in Entry /\ p \in Nat /\ u \in 0..MaxInt64 /\ e.kind = "reservation" /\ e.op = c
      /\ e["modelCalls"] = 1 /\ e["toolCalls"] = 0 /\ e["prompt"] = p /\ e["completion"] = 1 /\ e["total"] = p + 1 /\ e["cost"] = u
  BY ReservationIs
<1>4. ~has(L, "reservation", c) /\ ~has(L, "settlement", c)
  <2>1. ~has(L, "reservation", c)
    BY <1>1 DEF Reserved, ReservedIn
  <2> QED BY <1>1, <2>1 DEF accounts, founded
<1>5. grown(L, new, e, n) /\ new \in Seq(Entry)
  BY <1>2, <1>3, OneMore
<1>6. /\ accounts(new)
      /\ \A kind, op : has(new, kind, op) <=> has(L, kind, op) \/ (kind = "reservation" /\ op = c)
  <2> HIDE DEF new, n, e
  <2> QED BY <1>1, <1>3, <1>4, <1>5, StillAccounts
<1>7. /\ within(sum(L, "modelCalls") + 1, MaxModelCalls) /\ within(sum(L, "toolCalls"), MaxToolCalls)
      /\ within(sum(L, "prompt") + p, MaxPromptTokens)
      /\ within(sum(L, "completion") + 1, MaxCompletionTokens) /\ within(sum(L, "total") + p + 1, MaxTotalTokens)
      /\ within(sum(L, "cost") + u, MaxEstimatedCost)
  <2>1. PICK s \in Nat, w \in Nat : s = sum(L, "toolCalls") /\ w = sum(L, "total")
    BY <1>2, SumIs DEF resources
  <2>2. s + 0 = s /\ w + (p + 1) = w + p + 1
    <3>1. p \in Nat
      BY <1>3
    <3> QED BY <3>1
  <2>3. Check(BuildLedger(L), [f \in DOMAIN limits |-> e[f]])
    OBVIOUS
  <2> HIDE DEF e, L, u
  <2> QED BY <1>2, <1>3, <2>1, <2>2, <2>3, ChecksOut
<1>8. /\ sum(new, "modelCalls") = sum(L, "modelCalls") + 1 /\ sum(new, "toolCalls") = sum(L, "toolCalls") + 0
      /\ sum(new, "prompt") = sum(L, "prompt") + p
      /\ sum(new, "completion") = sum(L, "completion") + 1 /\ sum(new, "total") = sum(L, "total") + (p + 1)
      /\ sum(new, "cost") = sum(L, "cost") + u
  <2>1. \A r \in resources : sum(new, r) = sum(L, r) + e[r]
    <3> HIDE DEF e, L
    <3> QED BY <1>1, <1>2, <1>3, <1>4, SumMore
  <2> HIDE DEF e, L, u, new
  <2> QED BY <1>3, <2>1 DEF resources
<1>9. /\ sum(L, "modelCalls") \in Nat /\ sum(L, "toolCalls") \in Nat /\ sum(L, "prompt") \in Nat /\ sum(L, "completion") \in Nat
      /\ sum(L, "total") \in Nat /\ sum(L, "cost") \in Nat
  BY <1>2, SumIs DEF resources
<1>10. /\ A \in Nat
       /\ \A k \in Nat : A = 0 \/ k <= A =>
            /\ within(sum(L, "completion") + k, MaxCompletionTokens) /\ within(sum(L, "total") + p + k, MaxTotalTokens)
            /\ within(sum(L, "cost") + tokenCostMicros(p, InputRate) + tokenCostMicros(k, OutputRate), MaxEstimatedCost)
  <2> DEFINE used == BuildLedger(new)
  <2>1. /\ used.completion = sum(L, "completion") + 1 /\ used.total = sum(L, "total") + p + 1
        /\ used.cost = cap(sum(L, "cost") + u)
    <3>1. used.completion = sum(new, "completion") /\ used.total = sum(new, "total") /\ used.cost = costOf(new)
      BY DEF BuildLedger
    <3>2. costOf(new) = cap(sum(new, "cost"))
      BY <1>5, CostOfIs
    <3>3. sum(L, "total") + (p + 1) = sum(L, "total") + p + 1
      BY <1>3, <1>9
    <3> HIDE DEF used, new, L, u
    <3> QED BY <1>8, <3>1, <3>2, <3>3
  <2>2. A = maxCompletionTokens(used, reservationOf(c, p))
    OBVIOUS
  <2> HIDE DEF used, new, L, e, A
  <2> QED BY <1>7, <1>9, <2>1, <2>2, AllowanceIs
<1>11. /\ ledgerEntries' = new /\ ledgerPc'[c] = l /\ estimate'[c] = p /\ allowance'[c] = A
       /\ \A d \in Calls : d # c => /\ ledgerPc'[d] = ledgerPc[d] /\ estimate'[d] = estimate[d]
                                    /\ allowance'[d] = allowance[d]
  <2> HIDE DEF A
  <2> QED BY <1>1 DEF LedgerTypeOK, A
<1>12. LedgerTypeOK'
  <2>1. overlapped' \in BOOLEAN
    BY <1>1 DEF LedgerTypeOK
  <2>2. ledgerPc' \in [Calls -> {"idle", "refused", "calling", "answered", "settled", "abandoned"}]
    BY <1>1 DEF LedgerTypeOK
  <2>3. estimate' \in [Calls -> Nat] /\ allowance' \in [Calls -> Nat]
    <3>1. allowance' = [allowance EXCEPT ![c] = A]
      OBVIOUS
    <3> HIDE DEF A
    <3> QED BY <1>1, <1>3, <1>10, <3>1 DEF LedgerTypeOK
  <2> HIDE DEF new, e, A
  <2> QED BY <1>1, <1>5, <1>11, <2>1, <2>2, <2>3 DEF LedgerTypeOK
<1>13. ASSUME NEW d \in Calls PROVE Reserved(d)'
  <2>1. CASE d = c
    <3>1. ReservedIn(new, c, l, p, attempts[c], usage[c])
      <4>1. l \in unsettled /\ l \notin {"idle", "refused"} /\ l # "answered"
        BY DEF unsettled
      <4>2. n \in DOMAIN new /\ new[n] = reservationOf(c, p)
        BY <1>5 DEF grown
      <4>3. has(new, "reservation", c) /\ ~has(new, "settlement", c)
        BY <1>4, <1>6
      <4> HIDE DEF new, n, e, A
      <4> QED BY <4>1, <4>2, <4>3 DEF ReservedIn
    <3> HIDE DEF new, A
    <3> QED BY <1>11, <2>1, <3>1 DEF Reserved
  <2>2. CASE d # c
    <3>1. ReservedIn(L, d, ledgerPc[d], estimate[d], attempts[d], usage[d])
      BY <1>1 DEF Reserved
    <3>2. \A kind : has(new, kind, d) <=> has(L, kind, d)
      BY <1>6, <2>2
    <3>3. \A i \in DOMAIN L : i \in DOMAIN new /\ new[i] = L[i]
      BY <1>5 DEF grown
    <3> HIDE DEF new, L
    <3>4. ReservedIn(new, d, ledgerPc[d], estimate[d], attempts[d], usage[d])
      BY <3>1, <3>2, <3>3, StillReserved
    <3> QED BY <1>11, <2>2, <3>4 DEF Reserved
  <2> QED BY <2>1, <2>2
<1>14. CountedIn(new, executed)
  <2>1. reservedCalls(new) = reservedCalls(L) \cup {c} /\ c \notin reservedCalls(L)
    BY <1>4, <1>6 DEF reservedCalls
  <2>2. \A t \in Tools : has(new, "tool", t) <=> has(L, "tool", t)
    BY <1>6
  <2> HIDE DEF new, L
  <2>3. IsFiniteSet(reservedCalls(L)) /\ sum(L, "modelCalls") = Cardinality(reservedCalls(L))
    BY <1>1 DEF CountedIn
  <2>4. IsFiniteSet(reservedCalls(new)) /\ sum(new, "modelCalls") = Cardinality(reservedCalls(new))
    BY <1>8, <2>1, <2>3, FS_AddElement
  <2> QED BY <1>1, <1>7, <1>8, <1>9, <2>2, <2>4 DEF CountedIn
<1>15. Sequential'
  <2> SUFFICES ASSUME ~overlapped' PROVE
        /\ \A d, b \in Calls : ledgerPc'[d] \in unsettled /\ ledgerPc'[b] \in unsettled => d = b
        /\ Fits(new, estimate', allowance')
        /\ \A d \in Calls : ledgerPc'[d] \in {"calling", "answered"} => leaves(new, estimate'[d], allowance'[d])
    <3> HIDE DEF new
    <3> QED BY <1>11 DEF Sequential
  <2>1. \A d \in Calls : d # c => ledgerPc'[d] \notin unsettled /\ ledgerPc'[d] \notin {"calling", "answered"}
    BY <1>1, <1>11 DEF open, unsettled, LedgerTypeOK
  <2>2. PICK P \in Nat, C \in Nat, T \in Nat, Q \in Nat :
          P = sum(L, "prompt") /\ C = sum(L, "completion") /\ T = sum(L, "total") /\ Q = sum(L, "cost")
    BY <1>9
  <2>3. u \in Nat /\ p \in Nat
    BY <1>3, LimitsAre
  <2>4. PICK O \in Nat, D \in Nat, U \in Nat, R \in Nat :
          /\ O = sum(new, "prompt") /\ D = sum(new, "completion") /\ U = sum(new, "total") /\ R = sum(new, "cost")
          /\ O = P + p /\ D = C + 1 /\ U = T + (p + 1) /\ R = Q + u
    <3> HIDE DEF new, L, u
    <3>1. P + p \in Nat /\ C + 1 \in Nat /\ T + (p + 1) \in Nat /\ Q + u \in Nat
      BY <2>3
    <3>2. /\ sum(new, "prompt") = P + p /\ sum(new, "completion") = C + 1 /\ sum(new, "total") = T + (p + 1)
          /\ sum(new, "cost") = Q + u
      BY <1>8, <2>2
    <3> QED BY <3>1, <3>2
  <2>5. /\ within(O, MaxPromptTokens) /\ within(D, MaxCompletionTokens) /\ within(U, MaxTotalTokens)
        /\ within(R, MaxEstimatedCost)
    <3>1. T + p + 1 = T + (p + 1)
      BY <2>3
    <3> HIDE DEF new, L, u
    <3> QED BY <1>7, <2>2, <2>4, <3>1
  <2>6. Fits(new, estimate', allowance')
    <3>1. e \in Entry /\ e.kind # "settlement"
      BY <1>3
    <3> DEFINE est == estimate'
               allowed == allowance'
    <3> HIDE DEF L, e, u, est, allowed
    <3>2. Fits(Append(L, e), est, allowed)
      BY <1>2, <2>4, <2>5, <3>1, WithinFits DEF new
    <3> QED BY <3>2 DEF est, allowed
  <2>7. leaves(new, p, A)
    <3>1. PICK k \in Nat : k = A
      <4> HIDE DEF A
      <4> QED BY <1>10
    <3>2. PICK a \in Nat, b \in Nat : a = tokenCostMicros(p, InputRate) /\ b = tokenCostMicros(k, OutputRate)
      BY <2>3, TokensCost
    <3>3. /\ within(C + k, MaxCompletionTokens) /\ within(T + p + k, MaxTotalTokens)
          /\ within(Q + a + b, MaxEstimatedCost)
      <4> HIDE DEF A, L
      <4> QED BY <1>10, <2>2, <3>1, <3>2
    <3> HIDE DEF new, L, u, A
    <3>4. D - 1 + k = C + k /\ U - 1 + k = T + p + k /\ R - u + a + b = Q + a + b
      <4>1. D = C + 1 /\ U = T + (p + 1) /\ R = Q + u
        BY <2>4
      <4> QED BY <2>3, <4>1
    <3>5. /\ within(D - 1 + k, MaxCompletionTokens) /\ within(U - 1 + k, MaxTotalTokens)
          /\ within(R - u + a + b, MaxEstimatedCost)
      BY <3>3, <3>4
    <3> QED BY <2>4, <2>5, <3>1, <3>2, <3>5 DEF leaves, u
  <2> HIDE DEF new, A
  <2> QED BY <1>11, <2>1, <2>6, <2>7
<1> HIDE DEF new, A, e
<1> QED BY <1>6, <1>11, <1>12, <1>13, <1>14, <1>15 DEF LedgerInv

LEMMA AttemptKeepsLedger ==
  ASSUME LedgerInv, NEW c \in Calls, Attempt(c)
  PROVE  LedgerInv'
<1> DEFINE L == ledgerEntries
<1>1. LedgerTypeOK /\ accounts(L) /\ (\A d \in Calls : Reserved(d)) /\ CountedIn(L, executed) /\ Sequential
  BY DEF LedgerInv
<1>2. /\ ledgerPc[c] = "calling" /\ attempts' = [attempts EXCEPT ![c] = @ + 1]
      /\ UNCHANGED <<ledgerEntries, estimate, allowance, executed, overlapped>>
  BY DEF Attempt
<1>3. PICK l \in {"answered", "abandoned", "calling"}, v \in Reported :
        /\ ledgerPc' = [ledgerPc EXCEPT ![c] = l] /\ usage' = [usage EXCEPT ![c] = v]
        /\ l = "answered" => v \in Reports
  <2>1. CASE /\ ledgerPc' = [ledgerPc EXCEPT ![c] = "answered"]
             /\ \E w \in Reports : usage' = [usage EXCEPT ![c] = w]
    <3>1. Reports \subseteq Reported
      BY PricesAssumption DEF Reported
    <3> HIDE DEF Reported
    <3> QED BY <2>1, <3>1
  <2>2. CASE /\ UNCHANGED usage
             /\ \E l \in {"abandoned"} \cup (IF attempts[c] + 1 < MaxAttempts THEN {"calling"} ELSE {}) :
                  ledgerPc' = [ledgerPc EXCEPT ![c] = l]
    <3>1. usage[c] \in Reported /\ usage' = [usage EXCEPT ![c] = usage[c]]
      <4> HIDE DEF Reported
      <4> QED BY <1>1, <2>2 DEF LedgerTypeOK
    <3>2. PICK l \in {"abandoned", "calling"} : ledgerPc' = [ledgerPc EXCEPT ![c] = l]
      BY <2>2
    <3> HIDE DEF Reported
    <3> QED BY <3>1, <3>2
  <2> QED BY <2>1, <2>2 DEF Attempt
<1>4. /\ ledgerPc'[c] = l /\ attempts'[c] = attempts[c] + 1 /\ usage'[c] = v
      /\ \A d \in Calls : d # c => ledgerPc'[d] = ledgerPc[d] /\ attempts'[d] = attempts[d] /\ usage'[d] = usage[d]
  BY <1>1, <1>2, <1>3 DEF LedgerTypeOK
<1>5. LedgerTypeOK'
  <2>1. ledgerPc' \in [Calls -> {"idle", "refused", "calling", "answered", "settled", "abandoned"}]
    BY <1>1, <1>3 DEF LedgerTypeOK
  <2>2. attempts' \in [Calls -> Nat]
    BY <1>1, <1>2 DEF LedgerTypeOK
  <2>3. usage' \in [Calls -> Reported]
    <3> HIDE DEF Reported
    <3> QED BY <1>1, <1>3 DEF LedgerTypeOK
  <2> HIDE DEF Entry, Reported
  <2> QED BY <1>1, <1>2, <2>1, <2>2, <2>3 DEF LedgerTypeOK
<1>6. ASSUME NEW d \in Calls PROVE Reserved(d)'
  <2>1. CASE d # c
    BY <1>1, <1>2, <1>4, <2>1 DEF Reserved
  <2>2. CASE d = c
    <3>1. /\ estimate[c] \in Estimates /\ ~has(L, "settlement", c)
          /\ \E i \in DOMAIN L : L[i] = reservationOf(c, estimate[c])
      BY <1>1, <1>2 DEF Reserved, ReservedIn, unsettled
    <3>2. has(L, "reservation", c)
      BY <3>1, ReservationIs DEF has
    <3>3. ReservedIn(L, c, l, estimate[c], attempts'[c], usage'[c])
      <4>1. l \notin {"idle", "refused"}
        OBVIOUS
      <4> QED BY <1>3, <1>4, <3>1, <3>2, <4>1 DEF ReservedIn
    <3> QED BY <1>2, <1>4, <2>2, <3>3 DEF Reserved
  <2> QED BY <2>1, <2>2
<1>7. Sequential'
  <2>1. \A d \in Calls : ledgerPc'[d] \in unsettled => ledgerPc[d] \in unsettled
    BY <1>2, <1>4 DEF unsettled
  <2>2. \A d \in Calls : ledgerPc'[d] \in {"calling", "answered"} => ledgerPc[d] \in {"calling", "answered"}
    BY <1>2, <1>4
  <2> QED BY <1>1, <1>2, <2>1, <2>2 DEF Sequential
<1> QED BY <1>1, <1>2, <1>5, <1>6, <1>7 DEF LedgerInv

LEMMA SettlementKeepsLedger ==
  ASSUME LedgerInv, NEW c \in Calls, SettleModelCall(c)
  PROVE  LedgerInv'
<1> DEFINE L == ledgerEntries
           p == estimate[c]
           u == usageCost(p, 1, 0)
<1>1. LedgerTypeOK /\ accounts(L) /\ (\A d \in Calls : Reserved(d)) /\ CountedIn(L, executed) /\ Sequential
  BY DEF LedgerInv
<1>2. L \in Seq(Entry)
  BY <1>1 DEF LedgerTypeOK
<1>3. /\ ledgerPc[c] = "answered" /\ ledgerPc' = [ledgerPc EXCEPT ![c] = "settled"]
      /\ UNCHANGED <<estimate, allowance, attempts, usage, executed, overlapped>>
  BY DEF SettleModelCall
<1>4. /\ p \in Estimates /\ ~has(L, "settlement", c) /\ usage[c] \in Reports
      /\ \E i \in DOMAIN L : L[i] = reservationOf(c, p)
  BY <1>1, <1>3 DEF Reserved, ReservedIn, unsettled
<1>5. PICK m \in Nat, k \in Nat, o \in Nat, ch \in Nat :
        /\ m = usage[c].prompt /\ k = usage[c].completion /\ o = usage[c].total /\ ch = usage[c].cached
        /\ ch \in 0..m
  BY <1>4, PricesAssumption
<1>6. PICK j \in DOMAIN L : L[j] = reservationOf(c, p)
  BY <1>4
<1>7. PICK s \in 0..MaxInt64 : s = usageCost(m, k, ch)
  <2>1. ch \in 0..m
    BY <1>5
  <2> QED BY <2>1, UsageCostIs
<1> DEFINE e == modelEntry("settlement", c, m, k, o, s)
           new == Append(L, e)
           n == Len(L) + 1
<1>8. ledgerEntries' = new
  <2>1. ledgerEntries' = IF recorded(e.kind, e.op) = {} THEN Append(ledgerEntries, e) ELSE ledgerEntries
    BY <1>4, <1>5, <1>7 DEF SettleModelCall, ApplyRunUsage
  <2>2. e.kind = "settlement" /\ e.op = c
    BY DEF modelEntry
  <2>3. recorded("settlement", c) = {}
    BY <1>4, RecordedIs
  <2> HIDE DEF e
  <2> QED BY <2>1, <2>2, <2>3
<1>9. /\ p \in Nat /\ u \in 0..MaxInt64 /\ L[j].kind = "reservation" /\ L[j].op = c
      /\ L[j]["modelCalls"] = 1 /\ L[j]["toolCalls"] = 0 /\ L[j]["prompt"] = p /\ L[j]["completion"] = 1 /\ L[j]["total"] = p + 1
      /\ L[j]["cost"] = u
  BY <1>4, <1>6, ReservationIs
<1>10. /\ e \in Entry /\ e.kind = "settlement" /\ e.op = c /\ e["modelCalls"] = 1 /\ e["toolCalls"] = 0
       /\ e["prompt"] = m /\ e["completion"] = k /\ e["total"] \in Nat /\ e["cost"] = s
  BY SettlementIs
<1> HIDE DEF e
<1>11. grown(L, new, e, n) /\ new \in Seq(Entry)
  BY <1>2, <1>10, OneMore
<1>12. has(L, "reservation", c)
  BY <1>9 DEF has
<1>13. /\ accounts(new)
       /\ \A kind, op : has(new, kind, op) <=> has(L, kind, op) \/ (kind = "settlement" /\ op = c)
  <2> HIDE DEF new, n, L
  <2> QED BY <1>1, <1>4, <1>10, <1>11, <1>12, StillAccounts
<1>14. /\ sum(new, "modelCalls") = sum(L, "modelCalls") - 1 + 1 /\ sum(new, "toolCalls") = sum(L, "toolCalls") - 0 + 0
       /\ sum(new, "prompt") = sum(L, "prompt") - p + e["prompt"]
       /\ sum(new, "completion") = sum(L, "completion") - 1 + e["completion"]
       /\ sum(new, "total") = sum(L, "total") - (p + 1) + e["total"]
       /\ sum(new, "cost") = sum(L, "cost") - u + e["cost"]
  <2>1. \A r \in resources : sum(new, r) = sum(L, r) - L[j][r] + e[r]
    <3> HIDE DEF L
    <3> QED BY <1>1, <1>2, <1>4, <1>9, <1>10, SumSettled
  <2> HIDE DEF L, u, new, p
  <2> QED BY <1>9, <1>10, <2>1 DEF resources
<1>15. /\ sum(L, "modelCalls") \in Nat /\ sum(L, "toolCalls") \in Nat /\ sum(L, "prompt") \in Nat
       /\ sum(L, "completion") \in Nat /\ sum(L, "total") \in Nat /\ sum(L, "cost") \in Nat
  BY <1>2, SumIs DEF resources
<1>16. ledgerPc'[c] = "settled" /\ \A d \in Calls : d # c => ledgerPc'[d] = ledgerPc[d]
  BY <1>1, <1>3 DEF LedgerTypeOK
<1>17. LedgerTypeOK'
  <2>1. ledgerPc' \in [Calls -> {"idle", "refused", "calling", "answered", "settled", "abandoned"}]
    BY <1>1, <1>3 DEF LedgerTypeOK
  <2> HIDE DEF new
  <2> QED BY <1>1, <1>3, <1>8, <1>11, <2>1 DEF LedgerTypeOK
<1>18. ASSUME NEW d \in Calls PROVE Reserved(d)'
  <2>1. CASE d = c
    <3>1. ReservedIn(new, c, "settled", estimate[c], attempts[c], usage[c])
      BY <1>12, <1>13 DEF ReservedIn, unsettled
    <3> HIDE DEF new
    <3> QED BY <1>3, <1>8, <1>16, <2>1, <3>1 DEF Reserved
  <2>2. CASE d # c
    <3>1. ReservedIn(L, d, ledgerPc[d], estimate[d], attempts[d], usage[d])
      BY <1>1 DEF Reserved
    <3>2. \A kind : has(new, kind, d) <=> has(L, kind, d)
      BY <1>13, <2>2
    <3>3. \A i \in DOMAIN L : i \in DOMAIN new /\ new[i] = L[i]
      BY <1>11 DEF grown
    <3> HIDE DEF new, L
    <3>4. ReservedIn(new, d, ledgerPc[d], estimate[d], attempts[d], usage[d])
      BY <3>1, <3>2, <3>3, StillReserved
    <3> QED BY <1>3, <1>8, <1>16, <2>2, <3>4 DEF Reserved
  <2> QED BY <2>1, <2>2
<1>19. CountedIn(new, executed)
  <2>1. reservedCalls(new) = reservedCalls(L)
    BY <1>13 DEF reservedCalls
  <2>2. \A t \in Tools : has(new, "tool", t) <=> has(L, "tool", t)
    BY <1>13
  <2>3. sum(new, "modelCalls") = sum(L, "modelCalls") /\ sum(new, "toolCalls") = sum(L, "toolCalls")
    <3> HIDE DEF new, L
    <3>1. PICK a \in Nat, b \in Nat : a = sum(L, "modelCalls") /\ b = sum(L, "toolCalls")
      BY <1>15
    <3>2. a - 1 + 1 = a /\ b - 0 + 0 = b
      OBVIOUS
    <3> QED BY <1>14, <3>1, <3>2
  <2> HIDE DEF new, L
  <2> QED BY <1>1, <2>1, <2>2, <2>3 DEF CountedIn
<1>20. Sequential'
  <2> SUFFICES ASSUME ~overlapped PROVE
        /\ \A d, b \in Calls : ledgerPc'[d] \in unsettled /\ ledgerPc'[b] \in unsettled => d = b
        /\ Fits(new, estimate, allowance)
        /\ \A d \in Calls : ledgerPc'[d] \in {"calling", "answered"} => leaves(new, estimate[d], allowance[d])
    <3> HIDE DEF new
    <3> QED BY <1>3, <1>8 DEF Sequential
  <2>1. \A d \in Calls : ledgerPc'[d] \notin unsettled /\ ledgerPc'[d] \notin {"calling", "answered"}
    <3> TAKE d \in Calls
    <3>1. CASE d = c
      BY <1>16, <3>1 DEF unsettled
    <3>2. CASE d # c
      <4>1. ledgerPc[d] \notin unsettled
        BY <1>1, <1>3, <3>2 DEF Sequential, unsettled
      <4> QED BY <1>16, <3>2, <4>1 DEF unsettled
    <3> QED BY <3>1, <3>2
  <2> DEFINE A == allowance[c]
             I == tokenCostMicros(p, InputRate)
             O == tokenCostMicros(A, OutputRate)
             g(r) == excess(e, p, A, r)
  <2>2. leaves(L, p, A)
    BY <1>1, <1>3 DEF Sequential
  <2>3. p \in Nat /\ u \in Nat /\ A \in Nat /\ I \in Nat /\ O \in Nat
    <3>1. p \in Nat /\ u \in Nat /\ A \in Nat
      BY <1>1, <1>9, LedgerFields, LimitsAre
    <3> HIDE DEF p, A, u
    <3> QED BY <3>1, TokensCost
  <2>4. /\ pledge(p, A)["prompt"] = p /\ pledge(p, A)["completion"] = A /\ pledge(p, A)["total"] = p + A
        /\ pledge(p, A)["cost"] = I + O
    BY DEF pledge
  <2>5. e["prompt"] \in Nat /\ e["completion"] \in Nat /\ e["total"] \in Nat /\ e["cost"] \in Nat
    BY <1>10, LimitsAre
  <2> HIDE DEF p, A, I, O, u, L, new
  <2>6. /\ g("prompt") \in Nat /\ e["prompt"] <= p + g("prompt")
        /\ g("completion") \in Nat /\ e["completion"] <= A + g("completion")
        /\ g("total") \in Nat /\ e["total"] <= p + A + g("total")
        /\ g("cost") \in Nat /\ e["cost"] <= I + O + g("cost")
    BY <2>3, <2>4, <2>5, ExcessIs
  <2>7. \A r : slack(new, estimate, allowance, r) = g(r)
    <3>1. new # <<>> /\ Last(new) = e
      BY <1>2, <1>10, LastIs DEF new
    <3> QED BY <1>10, <3>1 DEF slack, p, A
  <2> HIDE DEF g
  <2>8. /\ nearly(sum(new, "prompt"), MaxPromptTokens, g("prompt"))
        /\ nearly(sum(new, "completion"), MaxCompletionTokens, g("completion"))
    BY <1>14, <1>15, <2>2, <2>3, <2>5, <2>6, LimitsAre DEF leaves, nearly, within
  <2>9. nearly(sum(new, "total"), MaxTotalTokens, g("total"))
    BY <1>14, <1>15, <2>2, <2>3, <2>5, <2>6, LimitsAre DEF leaves, nearly, within
  <2>10. nearly(sum(new, "cost"), MaxEstimatedCost, g("cost"))
    <3>1. within(sum(L, "cost") - u + I + O, MaxEstimatedCost)
      BY <2>2 DEF leaves, u, I, O
    <3> QED BY <1>14, <1>15, <2>3, <2>5, <2>6, <3>1, LimitsAre DEF nearly, within
  <2>11. Fits(new, estimate, allowance)
    BY <2>7, <2>8, <2>9, <2>10 DEF Fits
  <2> QED BY <2>1, <2>11 DEF unsettled
<1> HIDE DEF new
<1> QED BY <1>3, <1>8, <1>13, <1>17, <1>18, <1>19, <1>20 DEF LedgerInv

LEMMA ToolKeepsLedger ==
  ASSUME LedgerInv, NEW t \in Tools, RecordToolCall(t)
  PROVE  LedgerInv'
<1> DEFINE L == ledgerEntries
           e == toolEntry(t)
           new == Append(L, e)
           n == Len(L) + 1
<1>1. LedgerTypeOK /\ accounts(L) /\ (\A d \in Calls : Reserved(d)) /\ CountedIn(L, executed) /\ Sequential
  BY DEF LedgerInv
<1>2. L \in Seq(Entry)
  BY <1>1 DEF LedgerTypeOK
<1>3. /\ executed' = executed \cup {t}
      /\ UNCHANGED <<ledgerPc, estimate, allowance, attempts, usage, overlapped>>
  BY DEF RecordToolCall
<1>4. /\ e \in Entry /\ e.kind = "tool" /\ e.op = t /\ e["modelCalls"] = 0 /\ e["toolCalls"] = 1
      /\ e["prompt"] = 0 /\ e["completion"] = 0 /\ e["total"] = 0 /\ e["cost"] = 0
  BY ToolEntryIs
<1>5. /\ recorded("tool", t) # {} \/ Check(BuildLedger(L), [f \in DOMAIN limits |-> e[f]])
      /\ ledgerEntries' = IF recorded("tool", t) = {} THEN new ELSE L
  <2>1. /\ recorded(e.kind, e.op) # {} \/ Check(BuildLedger(L), [f \in DOMAIN limits |-> e[f]])
        /\ ledgerEntries' = IF recorded(e.kind, e.op) = {} THEN new ELSE L
    <3> HIDE DEF L, new
    <3> QED BY DEF RecordToolCall, admitted, ApplyRunUsage, L, new
  <2> HIDE DEF e, L, new
  <2> QED BY <1>4, <2>1
<1> HIDE DEF e
<1>6. CASE has(L, "tool", t)
  <2>1. ledgerEntries' = L
    BY <1>5, <1>6, RecordedIs
  <2>2. executed' = executed
    BY <1>1, <1>3, <1>6 DEF CountedIn
  <2>3. LedgerTypeOK'
    <3> HIDE DEF Entry, Reported
    <3> QED BY <1>1, <1>3, <2>1, <2>2 DEF LedgerTypeOK
  <2>4. \A d \in Calls : Reserved(d)'
    BY <1>1, <1>3, <2>1 DEF Reserved
  <2>5. Sequential'
    BY <1>1, <1>3, <2>1 DEF Sequential
  <2> QED BY <1>1, <2>1, <2>2, <2>3, <2>4, <2>5 DEF LedgerInv
<1>7. CASE ~has(L, "tool", t)
  <2>1. /\ ledgerEntries' = new /\ Check(BuildLedger(L), [f \in DOMAIN limits |-> e[f]])
    BY <1>5, <1>7, RecordedIs
  <2>2. grown(L, new, e, n) /\ new \in Seq(Entry)
    BY <1>2, <1>4, OneMore
  <2>3. /\ accounts(new)
        /\ \A kind, op : has(new, kind, op) <=> has(L, kind, op) \/ (kind = "tool" /\ op = t)
    <3> HIDE DEF new, n, L
    <3> QED BY <1>1, <1>4, <1>7, <2>2, StillAccounts
  <2>4. /\ sum(new, "modelCalls") = sum(L, "modelCalls") + 0 /\ sum(new, "toolCalls") = sum(L, "toolCalls") + 1
        /\ sum(new, "prompt") = sum(L, "prompt") + 0 /\ sum(new, "completion") = sum(L, "completion") + 0 /\ sum(new, "total") = sum(L, "total") + 0
        /\ sum(new, "cost") = sum(L, "cost") + 0
    <3>1. \A r \in resources : sum(new, r) = sum(L, r) + e[r]
      <4> HIDE DEF L
      <4> QED BY <1>1, <1>2, <1>4, <1>7, SumMore
    <3> HIDE DEF L, new
    <3> QED BY <1>4, <3>1 DEF resources
  <2>5. /\ sum(L, "modelCalls") \in Nat /\ sum(L, "toolCalls") \in Nat /\ sum(L, "prompt") \in Nat /\ sum(L, "completion") \in Nat
        /\ sum(L, "total") \in Nat /\ sum(L, "cost") \in Nat
    BY <1>2, SumIs DEF resources
  <2>6. /\ within(sum(L, "toolCalls") + 1, MaxToolCalls)
        /\ within(sum(L, "prompt") + 0, MaxPromptTokens) /\ within(sum(L, "completion") + 0, MaxCompletionTokens)
        /\ within(sum(L, "total") + 0, MaxTotalTokens) /\ within(sum(L, "cost") + 0, MaxEstimatedCost)
    <3> HIDE DEF L
    <3> QED BY <1>2, <1>4, <2>1, ChecksOut
  <2> HIDE DEF new, n, L
  <2>7. /\ sum(new, "modelCalls") = sum(L, "modelCalls") /\ sum(new, "prompt") = sum(L, "prompt")
        /\ sum(new, "completion") = sum(L, "completion") /\ sum(new, "total") = sum(L, "total") /\ sum(new, "cost") = sum(L, "cost")
    BY <2>4, <2>5
  <2>8. LedgerTypeOK'
    <3> HIDE DEF Entry, Reported
    <3> QED BY <1>1, <1>3, <2>1, <2>2 DEF LedgerTypeOK
  <2>9. ASSUME NEW d \in Calls PROVE Reserved(d)'
    <3>1. ReservedIn(L, d, ledgerPc[d], estimate[d], attempts[d], usage[d])
      BY <1>1 DEF Reserved, L
    <3>2. ReservedIn(L, d, ledgerPc[d], estimate[d], attempts[d], usage[d])
            => ReservedIn(new, d, ledgerPc[d], estimate[d], attempts[d], usage[d])
      <4>1. /\ \A kind \in {"reservation", "settlement"} : has(new, kind, d) <=> has(L, kind, d)
            /\ \A i \in DOMAIN L : i \in DOMAIN new /\ new[i] = L[i]
        BY <2>2, <2>3 DEF grown
      <4> QED BY <4>1 DEF ReservedIn
    <3> QED BY <1>3, <2>1, <3>1, <3>2 DEF Reserved
  <2>10. CountedIn(new, executed')
    <3>1. reservedCalls(new) = reservedCalls(L)
      BY <2>3 DEF reservedCalls
    <3>2. t \notin executed
      BY <1>1, <1>7 DEF CountedIn, L
    <3>3. /\ IsFiniteSet(executed) /\ sum(L, "toolCalls") = Cardinality(executed)
          /\ \A b \in Tools : b \in executed <=> has(L, "tool", b)
      BY <1>1 DEF CountedIn, L
    <3>4. IsFiniteSet(executed') /\ Cardinality(executed') = Cardinality(executed) + 1
      BY <1>3, <3>2, <3>3, FS_AddElement
    <3>5. \A b \in Tools : b \in executed' <=> has(new, "tool", b)
      BY <1>3, <2>3, <3>3
    <3>6. /\ IsFiniteSet(reservedCalls(L)) /\ sum(L, "modelCalls") = Cardinality(reservedCalls(L))
          /\ within(sum(L, "modelCalls"), MaxModelCalls)
      BY <1>1 DEF CountedIn, L
    <3>7. sum(new, "toolCalls") = Cardinality(executed') /\ within(sum(new, "toolCalls"), MaxToolCalls)
      BY <2>4, <2>6, <3>3, <3>4
    <3> QED BY <2>7, <3>1, <3>4, <3>5, <3>6, <3>7 DEF CountedIn
  <2>11. Sequential'
    <3> SUFFICES ASSUME ~overlapped PROVE
          /\ \A d, b \in Calls : ledgerPc[d] \in unsettled /\ ledgerPc[b] \in unsettled => d = b
          /\ Fits(new, estimate, allowance)
          /\ \A d \in Calls : ledgerPc[d] \in {"calling", "answered"} => leaves(new, estimate[d], allowance[d])
      BY <1>3, <2>1 DEF Sequential
    <3>1. /\ \A d, b \in Calls : ledgerPc[d] \in unsettled /\ ledgerPc[b] \in unsettled => d = b
          /\ \A d \in Calls : ledgerPc[d] \in {"calling", "answered"} => leaves(L, estimate[d], allowance[d])
      BY <1>1 DEF Sequential, L
    <3>2. Fits(new, estimate, allowance)
      <4>1. e.kind # "settlement" /\ new = Append(L, e)
        BY <1>4 DEF new
      <4> QED BY <1>2, <1>4, <2>4, <2>5, <2>6, <4>1, WithinFits
    <3>3. \A p, a : leaves(L, p, a) => leaves(new, p, a)
      BY <2>7 DEF leaves
    <3> QED BY <3>1, <3>2, <3>3
  <2> QED BY <2>1, <2>3, <2>8, <2>9, <2>10, <2>11 DEF LedgerInv
<1> QED BY <1>6, <1>7

LEMMA LedgerKept == LedgerInv /\ [LedgerNext]_ledgerVars => LedgerInv'
<1> SUFFICES ASSUME LedgerInv, [LedgerNext]_ledgerVars PROVE LedgerInv'
  OBVIOUS
<1>1. ASSUME NEW c \in Calls, BeginModelCall(c) PROVE LedgerInv'
  <2>1. /\ ledgerPc[c] = "idle" /\ UNCHANGED <<attempts, usage, executed>>
        /\ overlapped' = (overlapped \/ open # {} \/ \E d \in Calls : ledgerPc[d] = "abandoned")
    BY <1>1 DEF BeginModelCall
  <2>2. PICK p \in Estimates :
          \/ /\ admitted(reservationOf(c, p)) /\ ApplyRunUsage(reservationOf(c, p))
             /\ estimate' = [estimate EXCEPT ![c] = p]
             /\ allowance' = [allowance EXCEPT ![c] = maxCompletionTokens(BuildLedger(ledgerEntries'), reservationOf(c, p))]
             /\ \E l \in {"calling", "abandoned"} : ledgerPc' = [ledgerPc EXCEPT ![c] = l]
          \/ /\ ledgerPc' = [ledgerPc EXCEPT ![c] = "refused"]
             /\ UNCHANGED <<ledgerEntries, estimate, allowance>>
    BY <1>1 DEF BeginModelCall, reservationOf
  <2>3. CASE /\ ledgerPc' = [ledgerPc EXCEPT ![c] = "refused"]
             /\ UNCHANGED <<ledgerEntries, estimate, allowance>>
    BY <2>1, <2>3, RefusalKeepsLedger
  <2>4. CASE /\ admitted(reservationOf(c, p)) /\ ApplyRunUsage(reservationOf(c, p))
             /\ estimate' = [estimate EXCEPT ![c] = p]
             /\ allowance' = [allowance EXCEPT ![c] = maxCompletionTokens(BuildLedger(ledgerEntries'), reservationOf(c, p))]
             /\ \E l \in {"calling", "abandoned"} : ledgerPc' = [ledgerPc EXCEPT ![c] = l]
    <3>1. PICK l \in {"calling", "abandoned"} : ledgerPc' = [ledgerPc EXCEPT ![c] = l]
      BY <2>4
    <3>2. reservationOf(c, p).kind = "reservation" /\ reservationOf(c, p).op = c
      BY ReservationIs
    <3>3. recorded("reservation", c) = {}
      <4>1. Reserved(c)
        BY DEF LedgerInv
      <4>2. ~has(ledgerEntries, "reservation", c)
        BY <2>1, <4>1 DEF Reserved, ReservedIn
      <4> QED BY <4>2, RecordedIs
    <3>4. /\ ledgerEntries' = Append(ledgerEntries, reservationOf(c, p))
          /\ Check(BuildLedger(ledgerEntries), [f \in DOMAIN limits |-> reservationOf(c, p)[f]])
      BY <2>4, <3>2, <3>3 DEF admitted, ApplyRunUsage
    <3> QED BY <2>1, <2>4, <3>1, <3>4, ReservationKeepsLedger
  <2> QED BY <2>2, <2>3, <2>4
<1>2. CASE UNCHANGED ledgerVars
  BY <1>2 DEF ledgerVars, LedgerInv, LedgerTypeOK, Reserved, Sequential
<1>3. CASE RuntimePasses
  BY <1>3 DEF RuntimePasses, LedgerInv, LedgerTypeOK, Reserved, Sequential
<1> QED BY <1>1, <1>2, <1>3, AttemptKeepsLedger, SettlementKeepsLedger, ToolKeepsLedger DEF LedgerNext

LEMMA LedgerAccounts == LedgerInv => EachOperationCountedOnce
<1> SUFFICES ASSUME LedgerInv PROVE CheckRuntimeInvariants(ledgerEntries) = {}
  BY DEF EachOperationCountedOnce
<1>1. DOMAIN ledgerEntries = 1..Len(ledgerEntries) /\ Len(ledgerEntries) \in Nat
  <2>1. ledgerEntries \in Seq(Entry)
    BY DEF LedgerInv, LedgerTypeOK
  <2> HIDE DEF Entry
  <2> QED BY <2>1
<1>2. once(ledgerEntries) /\ founded(ledgerEntries)
  BY DEF LedgerInv, accounts
<1>3. ASSUME NEW i \in DOMAIN ledgerEntries
      PROVE  ~\E j \in 1..(i - 1) : ledgerEntries[j].kind = ledgerEntries[i].kind /\ ledgerEntries[j].op = ledgerEntries[i].op
  <2> SUFFICES ASSUME NEW j \in 1..(i - 1), ledgerEntries[j].kind = ledgerEntries[i].kind,
                      ledgerEntries[j].op = ledgerEntries[i].op
               PROVE  FALSE
    OBVIOUS
  <2>1. j \in DOMAIN ledgerEntries /\ j # i
    BY <1>1
  <2> QED BY <1>2, <2>1 DEF once
<1>4. ASSUME NEW i \in DOMAIN ledgerEntries, ledgerEntries[i].kind = "settlement"
      PROVE  \E j \in DOMAIN ledgerEntries : ledgerEntries[j].kind = "reservation" /\ ledgerEntries[j].op = ledgerEntries[i].op
  BY <1>2, <1>4 DEF founded, has
<1> QED BY <1>3, <1>4 DEF CheckRuntimeInvariants

LEMMA LedgerLimitsCalls == LedgerInv => CallsWithinLimits
<1> SUFFICES ASSUME LedgerInv PROVE CallsWithinLimits
  OBVIOUS
<1>1. CountedIn(ledgerEntries, executed) /\ LedgerTypeOK /\ \A c \in Calls : Reserved(c)
  BY DEF LedgerInv
<1> DEFINE tried == {c \in Calls : attempts[c] > 0}
           R == reservedCalls(ledgerEntries)
<1>2. tried \subseteq R
  BY <1>1 DEF Reserved, ReservedIn, reservedCalls
<1>3. IsFiniteSet(R) /\ within(Cardinality(R), MaxModelCalls) /\ within(Cardinality(executed), MaxToolCalls)
  BY <1>1 DEF CountedIn
<1> HIDE DEF R
<1>4. Cardinality(tried) <= Cardinality(R) /\ Cardinality(tried) \in Nat /\ Cardinality(R) \in Nat
  <2> HIDE DEF tried
  <2>1. IsFiniteSet(tried) /\ Cardinality(tried) <= Cardinality(R)
    BY <1>2, <1>3, FS_Subset
  <2> QED BY <1>3, <2>1, FS_CardinalityType
<1>5. MaxModelCalls > 0 => Cardinality(tried) <= MaxModelCalls
  <2> HIDE DEF tried
  <2> QED BY <1>3, <1>4, LimitsAre DEF within
<1>6. MaxToolCalls > 0 => Cardinality(executed) <= MaxToolCalls
  BY <1>3 DEF within
<1> QED BY <1>5, <1>6 DEF CallsWithinLimits

LEMMA LimitsOf ==
  /\ limits["modelCalls"] = MaxModelCalls /\ limits["toolCalls"] = MaxToolCalls /\ limits["prompt"] = MaxPromptTokens
  /\ limits["completion"] = MaxCompletionTokens /\ limits["total"] = MaxTotalTokens /\ limits["cost"] = MaxEstimatedCost
  /\ DOMAIN limits = resources
  BY DEF limits, resources

LEMMA LedgerLimitsUsage == LedgerInv => SequentialWithinBudget
<1> SUFFICES ASSUME LedgerInv, ~overlapped, NEW r \in resources, limits[r] > 0
             PROVE  totals[r] <= limits[r] + beyond(r)
  BY LimitsOf DEF SequentialWithinBudget
<1>1. /\ Fits(ledgerEntries, estimate, allowance) /\ ledgerEntries \in Seq(Entry)
      /\ within(sum(ledgerEntries, "modelCalls"), MaxModelCalls) /\ within(sum(ledgerEntries, "toolCalls"), MaxToolCalls)
  BY DEF LedgerInv, Sequential, LedgerTypeOK, CountedIn
<1>2. sum(ledgerEntries, r) \in Nat /\ limits[r] \in Nat
  BY <1>1, SumIs, LimitsOf, LimitsAre DEF resources
<1>3. totals[r] <= sum(ledgerEntries, r)
  <2>1. CASE r # "cost"
    BY <1>2, <2>1 DEF totals, BuildLedger, resources
  <2>2. CASE r = "cost"
    <3>1. totals[r] = costOf(ledgerEntries)
      BY <2>2 DEF totals, BuildLedger
    <3> QED BY <1>1, <1>2, <2>2, <3>1, CostOfIs, LimitsAre DEF cap
  <2> QED BY <2>1, <2>2
<1>4. totals[r] \in Int
  <2>1. CASE r # "cost"
    BY <1>2, <2>1 DEF totals, BuildLedger, resources
  <2>2. CASE r = "cost"
    <3>1. totals[r] = costOf(ledgerEntries)
      BY <2>2 DEF totals, BuildLedger
    <3> QED BY <1>1, <1>2, <2>2, <3>1, CostOfIs, LimitsAre DEF cap
  <2> QED BY <2>1, <2>2
<1>5. CASE r \in {"modelCalls", "toolCalls"}
  <2>1. sum(ledgerEntries, r) <= limits[r]
    BY <1>1, <1>5, LimitsOf DEF within
  <2>2. beyond(r) \in Nat
    <3>1. CASE ledgerEntries # <<>>
      <4>1. Last(ledgerEntries) \in Entry
        <5> HIDE DEF Entry
        <5> QED BY <1>1, <3>1 DEF Last
      <4>2. PICK x \in Nat : x = Last(ledgerEntries)[r]
        BY <4>1, EntryAmounts
      <4>3. PICK y \in Nat : y = promised(Last(ledgerEntries).op)[r]
        BY <1>5 DEF promised
      <4>4. Max({0, x - y}) \in Nat
        BY LargerOf
      <4> QED BY <4>2, <4>3, <4>4 DEF beyond
    <3>2. CASE ledgerEntries = <<>>
      BY <3>2 DEF beyond
    <3> QED BY <3>1, <3>2
  <2> QED BY <1>2, <1>3, <1>4, <2>1, <2>2
<1>6. CASE r \notin {"modelCalls", "toolCalls"}
  <2>1. beyond(r) = slack(ledgerEntries, estimate, allowance, r)
    BY DEF beyond, slack, excess, promised, pledge
  <2>2. nearly(sum(ledgerEntries, r), limits[r], beyond(r))
    BY <1>1, <1>6, <2>1, LimitsOf DEF Fits, resources
  <2> QED BY <1>2, <1>3, <1>4, <2>2 DEF nearly
<1> QED BY <1>5, <1>6

\* Nothing is admitted to a ledger that is over a limit.
LEMMA AdmittedWithinLimits ==
  ASSUME LedgerInv, NEW e \in Entry, Check(BuildLedger(ledgerEntries), [f \in DOMAIN limits |-> e[f]])
  PROVE  ~exceeded(totals) /\ ~(MaxEstimatedCost > 0 /\ trueCost > MaxEstimatedCost)
<1>1. ledgerEntries \in Seq(Entry)
  BY DEF LedgerInv, LedgerTypeOK
<1>2. /\ sum(ledgerEntries, "modelCalls") \in Nat /\ sum(ledgerEntries, "toolCalls") \in Nat
      /\ sum(ledgerEntries, "prompt") \in Nat /\ sum(ledgerEntries, "completion") \in Nat
      /\ sum(ledgerEntries, "total") \in Nat /\ sum(ledgerEntries, "cost") \in Nat
  BY <1>1, SumIs DEF resources
<1>3. /\ e["modelCalls"] \in Nat /\ e["toolCalls"] \in Nat /\ e["prompt"] \in Nat /\ e["completion"] \in Nat
      /\ e["total"] \in Nat /\ e["cost"] \in Nat
  BY EntryAmounts DEF resources
<1>4. \A r \in resources : limits[r] > 0 => sum(ledgerEntries, r) <= limits[r]
  <2>1. /\ within(sum(ledgerEntries, "modelCalls"), MaxModelCalls) /\ within(sum(ledgerEntries, "toolCalls"), MaxToolCalls)
        /\ within(sum(ledgerEntries, "prompt"), MaxPromptTokens)
        /\ within(sum(ledgerEntries, "completion"), MaxCompletionTokens)
        /\ within(sum(ledgerEntries, "total"), MaxTotalTokens) /\ within(sum(ledgerEntries, "cost"), MaxEstimatedCost)
    <3>1. \A x, y, limit \in Nat : within(x + y, limit) => within(x, limit)
      BY DEF within
    <3> QED BY <1>1, <1>2, <1>3, <3>1, ChecksOut, LimitsAre
  <2> QED BY <2>1, LimitsOf DEF within, resources
<1>5. MaxEstimatedCost > 0 => cap(sum(ledgerEntries, "cost")) <= MaxEstimatedCost
  BY <1>2, <1>4, LimitsOf, LimitsAre DEF cap, resources
<1>6. ASSUME NEW r \in resources, limits[r] > 0 PROVE ~(totals[r] > limits[r])
  <2>1. CASE r # "cost"
    <3>1. totals[r] = sum(ledgerEntries, r)
      BY <2>1 DEF totals, BuildLedger, resources
    <3>2. sum(ledgerEntries, r) \in Nat /\ limits[r] \in Nat
      BY <1>2, LimitsOf, LimitsAre DEF resources
    <3> QED BY <1>4, <1>6, <3>1, <3>2
  <2>2. CASE r = "cost"
    <3>1. totals[r] = cap(sum(ledgerEntries, "cost"))
      BY <1>1, <2>2, CostOfIs DEF totals, BuildLedger
    <3>2. cap(sum(ledgerEntries, "cost")) \in Nat
      BY <1>2, LimitsAre DEF cap
    <3> QED BY <1>5, <1>6, <2>2, <3>1, <3>2, LimitsOf, LimitsAre
  <2> QED BY <2>1, <2>2
<1>7. ~(MaxEstimatedCost > 0 /\ trueCost > MaxEstimatedCost)
  BY <1>2, <1>4, LimitsOf, LimitsAre DEF trueCost, resources
<1> QED BY <1>6, <1>7, LimitsOf DEF exceeded

LEMMA OverrunStops == LedgerInv /\ [LedgerNext]_ledgerVars => overrunStopsWork
<1> SUFFICES ASSUME LedgerInv, [LedgerNext]_ledgerVars,
                    exceeded(totals) \/ (MaxEstimatedCost > 0 /\ trueCost > MaxEstimatedCost)
             PROVE  \A i \in DOMAIN ledgerEntries' \ DOMAIN ledgerEntries : ledgerEntries'[i].kind = "settlement"
  BY DEF overrunStopsWork
<1>1. ASSUME NEW e \in Entry, admitted(e), ApplyRunUsage(e) PROVE ledgerEntries' = ledgerEntries
  <2>1. recorded(e.kind, e.op) # {}
    BY <1>1, AdmittedWithinLimits DEF admitted
  <2> QED BY <1>1, <2>1 DEF ApplyRunUsage
<1>2. CASE \E c \in Calls : BeginModelCall(c)
  <2>1. PICK c \in Calls, p \in Estimates :
          \/ admitted(reservationOf(c, p)) /\ ApplyRunUsage(reservationOf(c, p))
          \/ UNCHANGED ledgerEntries
    BY <1>2 DEF BeginModelCall, reservationOf
  <2>2. ledgerEntries' = ledgerEntries
    BY <1>1, <2>1, ReservationIs
  <2> QED BY <2>2
<1>3. CASE \E t \in Tools : RecordToolCall(t)
  <2>1. ledgerEntries' = ledgerEntries
    BY <1>1, <1>3, ToolEntryIs DEF RecordToolCall
  <2> QED BY <2>1
<1>4. CASE \E c \in Calls : SettleModelCall(c)
  <2>1. PICK c, k, m, o, u :
          LET e == modelEntry("settlement", c, k, m, o, u) IN
          ledgerEntries' = Append(ledgerEntries, e) \/ ledgerEntries' = ledgerEntries
    BY <1>4 DEF SettleModelCall, ApplyRunUsage
  <2> DEFINE e == modelEntry("settlement", c, k, m, o, u)
  <2>2. e.kind = "settlement"
    BY DEF modelEntry
  <2>3. ledgerEntries' = Append(ledgerEntries, e) \/ ledgerEntries' = ledgerEntries
    BY <2>1
  <2> HIDE DEF e
  <2>4. ledgerEntries \in Seq(Entry)
    BY DEF LedgerInv, LedgerTypeOK
  <2>5. \A i \in DOMAIN Append(ledgerEntries, e) \ DOMAIN ledgerEntries : Append(ledgerEntries, e)[i] = e
    <3> HIDE DEF Entry
    <3> QED BY <2>4
  <2> QED BY <2>2, <2>3, <2>5
<1>5. CASE \/ UNCHANGED ledgerVars
           \/ \E c \in Calls : Attempt(c)
  BY <1>5 DEF ledgerVars, Attempt
<1>6. CASE RuntimePasses
  BY <1>6 DEF RuntimePasses
<1> QED BY <1>2, <1>3, <1>4, <1>5, <1>6 DEF LedgerNext

\* The ledger of a Run is an exact account: no operation counts twice, the calls that reach a
\* provider or a tool stay within the limits however they overlap, a Run whose calls follow
\* each other overruns a limit only by what a provider reported for the last call beyond what
\* that was let go with, and once a limit is overrun nothing more is admitted.
THEOREM BudgetCorrect == LedgerSpec => BudgetHolds
<1> DEFINE Parts == EachOperationCountedOnce /\ CallsWithinLimits /\ SequentialWithinBudget
<1>1. LedgerInv => Parts
  BY LedgerAccounts, LedgerLimitsCalls, LedgerLimitsUsage
<1>2. LedgerInv /\ [LedgerNext]_ledgerVars => [overrunStopsWork]_ledgerVars
  BY OverrunStops
<1> HIDE DEF Parts
<1>3. LedgerSpec => []LedgerInv
  BY LedgerInitially, LedgerKept, PTL DEF LedgerSpec
<1>4. LedgerSpec => []Parts /\ [][overrunStopsWork]_ledgerVars
  BY <1>1, <1>2, <1>3, PTL DEF LedgerSpec
<1> QED BY <1>4 DEF Parts, BudgetHolds
=============================================================================
