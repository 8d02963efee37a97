---------------------------- MODULE RunAdmission ----------------------------
(***************************************************************************)
(* Admission of Run commands: a reservation takes a place in the bounded    *)
(* queue, becomes the one writer of its Conversation, then takes an active  *)
(* slot; a deadline ends either wait.  The shutdown of the application      *)
(* stops admission, waits for the reservations it accepted and closes the   *)
(* Store only if they all ended.                                            *)
(*                                                                          *)
(* A channel used as a semaphore is the set of the reservations whose token *)
(* it holds; a writerEntry is an object shared through the entries map, so  *)
(* one that left the map may still be referred to.                          *)
(***************************************************************************)
EXTENDS Naturals, FiniteSets

CONSTANTS Reservations, Conversations,
          Entries,        \* writerEntry objects (a fresh one is one nobody refers to)
          None,           \* neither a reservation nor an entry
          MaxConcurrent, QueueSize

ASSUME ConstantsAssumption ==
  /\ None \notin Reservations \cup Entries
  /\ MaxConcurrent \in Nat \ {0} /\ QueueSize \in Nat

VARIABLES pc,       \* where each reservation is
          conv,     \* the Conversation it wants to write
          entry,    \* the writerEntry it refers to
          started,  \* the reservations whose Start returned a release function
          capacity, pending, active,  \* RunController: two channels and the WaitGroup
          entries,  \* conversationWriters.entries
          refs,     \* references counted by each writerEntry
          token,    \* the reservation that holds each writerEntry's token
          shutdown  \* open, closing, drained (the Store is closed) or expired
vars == <<pc, conv, entry, started, capacity, pending, active, entries, refs, token, shutdown>>
writers == <<conv, entry, entries, refs, token>>


Init ==
  /\ pc = [r \in Reservations |-> "out"]
  /\ conv \in [Reservations -> Conversations]
  /\ entry = [r \in Reservations |-> None]
  /\ started = {} /\ capacity = {} /\ pending = {} /\ active = {}
  /\ entries = [c \in Conversations |-> None]
  /\ refs = [e \in Entries |-> {}] /\ token = [e \in Entries |-> None]
  /\ shutdown = "open"

Goto(r, l) == pc' = [pc EXCEPT ![r] = l]

----------------------------------------------------------------------------

admits == shutdown = "open"

room(channel, size) == Cardinality(channel) < size

\* Reserve, in one critical section; a full or closing controller refuses.
Reserve(r) ==
  /\ pc[r] = "out" /\ admits
  /\ room(capacity, MaxConcurrent + QueueSize)
  /\ capacity' = capacity \cup {r} /\ pending' = pending \cup {r}
  /\ \E c \in Conversations : conv' = [conv EXCEPT ![r] = c]
  /\ Goto(r, "reserved") /\ UNCHANGED <<entry, started, active, entries, refs, token, shutdown>>

\* The command gives up before Start: its deferred Cancel runs.
GiveUp(r) ==
  /\ pc[r] = "reserved" /\ Goto(r, "cancel")
  /\ UNCHANGED <<started, capacity, pending, active, shutdown>> /\ UNCHANGED writers

unused(e) == \A r \in Reservations : entry[r] # e

\* acquire, its critical section: refer to the Conversation's entry or a new one.
Refer(r) ==
  /\ pc[r] = "reserved"
  /\ \E e \in Entries :
       /\ IF entries[conv[r]] # None THEN e = entries[conv[r]] ELSE unused(e)
       /\ entry' = [entry EXCEPT ![r] = e]
       /\ entries' = [entries EXCEPT ![conv[r]] = e]
       /\ IF entries[conv[r]] # None
          THEN refs' = [refs EXCEPT ![e] = refs[e] \cup {r}] /\ UNCHANGED token
          ELSE refs' = [refs EXCEPT ![e] = {r}] /\ token' = [token EXCEPT ![e] = None]
  /\ Goto(r, "writer") /\ UNCHANGED <<conv, started, capacity, pending, active, shutdown>>

\* acquire, its select: the token, or the deadline.
TakeToken(r) ==
  /\ pc[r] = "writer" /\ token[entry[r]] = None
  /\ token' = [token EXCEPT ![entry[r]] = r] /\ Goto(r, "slot")
  /\ UNCHANGED <<conv, entry, started, capacity, pending, active, entries, refs, shutdown>>

TakeSlot(r) ==
  /\ pc[r] = "slot" /\ room(active, MaxConcurrent)
  /\ active' = active \cup {r} /\ started' = started \cup {r} /\ Goto(r, "run")
  /\ UNCHANGED <<capacity, pending, shutdown>> /\ UNCHANGED writers

expiredTo(r) == IF pc[r] = "slot" THEN "untoken" ELSE "unref"

\* The wait timeout or the caller's context ends either wait.
Expire(r) ==
  /\ pc[r] \in {"writer", "slot"} /\ Goto(r, expiredTo(r))
  /\ UNCHANGED <<started, capacity, pending, active, shutdown>> /\ UNCHANGED writers

\* The release function: the slot, the token, the reference, the reservation.
Finish(r) ==
  /\ pc[r] = "run" /\ active' = active \ {r} /\ Goto(r, "untoken")
  /\ UNCHANGED <<started, capacity, pending, shutdown>> /\ UNCHANGED writers

ReleaseToken(r) ==
  /\ pc[r] = "untoken" /\ token' = [token EXCEPT ![entry[r]] = None] /\ Goto(r, "unref")
  /\ UNCHANGED <<conv, entry, started, capacity, pending, active, entries, refs, shutdown>>

\* Mutant: the entry leaves the map with whoever leaves first.
lastReferenceAny(r) == TRUE

lastReference(r) == refs[entry[r]] \ {r} = {}

\* releaseRef deletes the Conversation's map entry when nobody refers to this one.
ReleaseRef(r) ==
  /\ pc[r] = "unref"
  /\ refs' = [refs EXCEPT ![entry[r]] = refs[entry[r]] \ {r}]
  /\ entries' = IF lastReference(r) THEN [entries EXCEPT ![conv[r]] = None] ELSE entries
  /\ entry' = [entry EXCEPT ![r] = None] /\ Goto(r, "cancel")
  /\ UNCHANGED <<conv, token, started, capacity, pending, active, shutdown>>

\* Cancel: the place in the queue, then the WaitGroup.
Cancel(r) ==
  /\ pc[r] = "cancel" /\ capacity' = capacity \ {r} /\ Goto(r, "done")
  /\ UNCHANGED <<started, pending, active, shutdown>> /\ UNCHANGED writers

\* afterRelease follows a release; a follow-up that started no Run skips it.
Leave(r) ==
  /\ \E l \in {"out"} \cup (IF r \in started THEN {"after"} ELSE {}) : Goto(r, l)
  /\ started' = started \ {r}

\* Mutant: Cancel gives the place back but not the WaitGroup's count.
DoneForgotten(r) ==
  /\ pc[r] = "done" /\ Leave(r)
  /\ UNCHANGED <<capacity, pending, active, shutdown>> /\ UNCHANGED writers

Done(r) ==
  /\ pc[r] = "done" /\ pending' = pending \ {r} /\ Leave(r)
  /\ UNCHANGED <<capacity, active, shutdown>> /\ UNCHANGED writers

\* afterRelease looks in the Store for a follow-up of the Conversation; the
\* command it dispatches reserves for itself.
AfterRelease(r) ==
  /\ pc[r] = "after" /\ Goto(r, "out")
  /\ UNCHANGED <<started, capacity, pending, active, shutdown>> /\ UNCHANGED writers

----------------------------------------------------------------------------
\* CloseAndWait: no reservation is accepted from here on.
Close ==
  /\ shutdown = "open" /\ shutdown' = "closing"
  /\ UNCHANGED <<pc, started, capacity, pending, active>> /\ UNCHANGED writers

\* The WaitGroup is empty and the Store is closed, or the deadline leaves it open.
Drained ==
  /\ shutdown = "closing" /\ pending = {} /\ shutdown' = "drained"
  /\ UNCHANGED <<pc, started, capacity, pending, active>> /\ UNCHANGED writers

DrainExpires ==
  /\ shutdown = "closing" /\ shutdown' = "expired"
  /\ UNCHANGED <<pc, started, capacity, pending, active>> /\ UNCHANGED writers

\* The steps an accepted command takes once it is able to.
Proceed(r) ==
  \/ Refer(r) \/ Finish(r) \/ ReleaseToken(r) \/ ReleaseRef(r)
  \/ Cancel(r) \/ Done(r) \/ AfterRelease(r)

Next ==
  \/ \E r \in Reservations :
       Reserve(r) \/ GiveUp(r) \/ TakeToken(r) \/ TakeSlot(r) \/ Expire(r) \/ Proceed(r)
  \/ Close \/ Drained \/ DrainExpires

Spec == Init /\ [][Next]_vars

\* A Go channel serves its blocked senders in order, so a waiter that is again and
\* again able to send does send: strong fairness.  The rest of a command runs on,
\* and the drain notices its end.  No deadline has to fire for any of it.
FairSpec ==
  /\ Spec /\ WF_vars(Drained)
  /\ \A r \in Reservations :
       WF_vars(Proceed(r)) /\ SF_vars(TakeToken(r)) /\ SF_vars(TakeSlot(r))

----------------------------------------------------------------------------
PC == {"out", "reserved", "writer", "slot", "run", "untoken", "unref", "cancel", "done", "after"}

TypeOK ==
  /\ pc \in [Reservations -> PC] /\ conv \in [Reservations -> Conversations]
  /\ entry \in [Reservations -> Entries \cup {None}]
  /\ started \subseteq Reservations /\ capacity \subseteq Reservations
  /\ pending \subseteq Reservations /\ active \subseteq Reservations
  /\ entries \in [Conversations -> Entries \cup {None}]
  /\ refs \in [Entries -> SUBSET Reservations] /\ token \in [Entries -> Reservations \cup {None}]
  /\ Cardinality(capacity) <= MaxConcurrent + QueueSize /\ Cardinality(active) <= MaxConcurrent
  /\ shutdown \in {"open", "closing", "drained", "expired"}

\* At most one command writes a Conversation, although its writerEntry is
\* deleted and created again while others wait, time out and leave.
OneWriter ==
  \A r, s \in Reservations :
    pc[r] \in {"slot", "run"} /\ pc[s] \in {"slot", "run"} /\ conv[r] = conv[s] => r = s

\* The entries map holds exactly the Conversations somebody refers to: it
\* neither loses an entry in use nor keeps one for ever.
WritersTracked ==
  \A c \in Conversations :
    entries[c] # None <=>
      \E r \in Reservations : pc[r] \in {"writer", "slot", "run", "untoken", "unref"} /\ conv[r] = c

\* Once the drain has succeeded, and the Store is closed, no accepted command
\* is under way, and none ever will be.
DrainIsFinal == shutdown = "drained" => \A r \in Reservations : pc[r] \in {"out", "after"}

\* "Close drains background work before closing the persistence adapter": the
\* follow-up dispatch after a release is such work.
StoreOutlivesWork == shutdown = "drained" => \A r \in Reservations : pc[r] = "out"

\* Every accepted command leaves, without help from a deadline: the writer tokens
\* and the active slots, waited for in this order, never wait on each other.
AcceptedLeaves == \A r \in Reservations : pc[r] = "reserved" ~> pc[r] = "out"

\* A shutdown whose deadline never fires still ends: every accepted command
\* counts itself out of the WaitGroup.
DrainCompletes == shutdown = "closing" ~> shutdown \in {"drained", "expired"}

\* Admission at its limits: bounded queue and slots, one writer per Conversation, no
\* entry lost or kept, and a drain that is final: the four parts above.
AdmissionSafe == TypeOK /\ OneWriter /\ WritersTracked /\ DrainIsFinal
=============================================================================
