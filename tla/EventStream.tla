----------------------------- MODULE EventStream -----------------------------
(***************************************************************************)
(* One Run's events on their way to an observer.  Writers commit events with *)
(* consecutive sequences and publish them after the commit, in any order; the *)
(* Hub puts them back in order for each subscriber and cuts off the slow      *)
(* ones; the observation endpoint replays, sends a snapshot and then the live *)
(* stream over a connection that may break; the headless client acknowledges  *)
(* only what it has printed, and reconnects from there.                       *)
(***************************************************************************)
EXTENDS Naturals, Sequences, FiniteSets, SequencesExt

CONSTANTS MaxEvents,      \* durable events of the Run
          BufferSize,     \* Hub buffer of a subscriber (256 in the code)
          MaxConnections, \* connections of one Observe (6 in the code)
          MaxBreaks,      \* connections the network breaks
          MaxLive,        \* live-only events
          Compacts        \* whether the Run's context is compacted

ASSUME FeedAssumption == BufferSize \in Nat \ {0} /\ MaxConnections \in Nat

VARIABLES log,       \* run_events: the type of each sequence
          unsent,    \* sequences committed and not yet handed to the Hub
          sub,       \* the Hub's subscriber: afterSequence, pending, events, and whether it lagged
          wire,      \* frames written by the endpoint and not yet read
          conn,      \* the connection: closed, open, or ended by the endpoint
          client,    \* after, the attempts made and where Observe stands
          printed,   \* what the client printed
          breaks, lives
feedVars == <<log, unsent, sub, wire, conn, client, printed, breaks, lives>>

NoSub == [on |-> FALSE, after |-> 0, pending |-> {}, events |-> <<>>, lagged |-> FALSE]
Event(n) == [frame |-> "event", sequence |-> n]
Snapshot(n, stopped) == [frame |-> "run.snapshot", sequence |-> n, stopped |-> stopped]
ErrorFrame == [frame |-> "error", sequence |-> 0]
\* "completed" stands for every end a worker commits, "repaired" for the end that the repair of
\* an interrupted Run commits.
runEventStopsObservation(type) == type \in {"completed", "waiting", "repaired"}
runObservationStopped(type) == type \in {"completed", "waiting", "repaired"}
lastType == IF log = <<>> THEN "none" ELSE Last(log)

FeedInit ==
  /\ log = <<>> /\ unsent = {} /\ sub = NoSub /\ wire = <<>> /\ conn = "closed"
  /\ client = [after |-> 0, attempt |-> 0, at |-> "connect"]
  /\ printed = <<>> /\ breaks = 0 /\ lives = 0

----------------------------------------------------------------------------
\* observableStore publishes what the operations it wraps commit.  CommitContextCompaction and
\* RepairInterruptedRun append inside operations that it does not wrap, and their callers drop
\* the events.
published(type) == type \notin {"compaction", "repaired"}

\* A store operation appends an event under the Run's lock.  Execution ends with
\* completed; a suspended or repaired Run is resumed.
CommitEvent(type) ==
  /\ Len(log) < MaxEvents /\ lastType # "completed"
  /\ lastType \in {"waiting", "repaired"} <=> type = "resumed"
  /\ type = "compaction" => Compacts
  /\ log' = Append(log, type)
  /\ unsent' = IF published(type) THEN unsent \cup {Len(log) + 1} ELSE unsent
  /\ UNCHANGED <<sub, wire, conn, client, printed, breaks, lives>>

\* The last event that can be delivered: no gap after afterSequence up to it.
consecutive(s) == Max({n \in s.after..Len(log) : \A k \in (s.after + 1)..n : k \in s.pending})

\* Delivering as many as the buffer holds; one too many disconnects the subscriber.
deliver(s) ==
  LET due == consecutive(s)
      sent == Min({due, s.after + BufferSize - Len(s.events)})
  IN [s EXCEPT !.events = @ \o [k \in 1..(sent - s.after) |-> Event(s.after + k)],
               !.pending = {n \in @ : n > sent}, !.after = sent,
               !.on = sent = due, !.lagged = sent < due]

hubPublish(n) ==
  IF ~sub.on \/ n <= sub.after THEN sub
  ELSE LET s == [sub EXCEPT !.pending = @ \cup {n}] IN
       IF Cardinality(s.pending) > BufferSize THEN [s EXCEPT !.on = FALSE, !.lagged = TRUE]
       ELSE deliver(s)

PublishCommitted(n) ==
  /\ n \in unsent /\ unsent' = unsent \ {n} /\ sub' = hubPublish(n)
  /\ UNCHANGED <<log, wire, conn, client, printed, breaks, lives>>

PublishLive ==
  /\ lives < MaxLive /\ lives' = lives + 1 /\ ~runObservationStopped(lastType)
  /\ sub' = IF ~sub.on THEN sub
            ELSE IF Len(sub.events) < BufferSize
            THEN [sub EXCEPT !.events = Append(@, Event(0))]
            ELSE [sub EXCEPT !.on = FALSE, !.lagged = TRUE]
  /\ UNCHANGED <<log, unsent, wire, conn, client, printed, breaks>>

----------------------------------------------------------------------------
\* Mutant: the replay was read before the snapshot, outside the gate.
replayEarlier(after) == [k \in 1..(Len(log) - after - 1) |-> Event(after + k)]

replayFrom(after) == [k \in 1..(Len(log) - after) |-> Event(after + k)]
subscriber == [NoSub EXCEPT !.on = TRUE, !.after = Len(log)]

\* observeRunEvents: snapshot, subscription, replay after the cursor, and the snapshot frame.  The
\* snapshot's two reads, of the events and then of the row, are one step here (RunReplay separates
\* them): a Run that ends between them is shown as stopped by a stream without its last event.
observeRunEvents ==
  LET stopped == runObservationStopped(lastType) IN
  /\ client.at = "connect" /\ client.attempt < MaxConnections
  /\ client.after <= Len(log)
  /\ wire' = Append(replayFrom(client.after), Snapshot(Len(log), stopped))
  /\ sub' = IF stopped THEN NoSub ELSE subscriber
  /\ conn' = IF stopped THEN "ended" ELSE "open"
  /\ client' = [client EXCEPT !.at = "read", !.attempt = @ + 1]
  /\ UNCHANGED <<log, unsent, printed, breaks, lives>>

\* The endpoint's loop writes the next buffered event, and returns after a stopping one.
WriteEvent ==
  /\ conn = "open" /\ sub.events # <<>>
  /\ LET item == Head(sub.events)
         stops == item.sequence > 0 /\ runEventStopsObservation(log[item.sequence])
     IN /\ wire' = Append(wire, item)
        /\ conn' = IF stops THEN "ended" ELSE "open"
        /\ sub' = IF stops THEN NoSub ELSE [sub EXCEPT !.events = Tail(@)]
  /\ UNCHANGED <<log, unsent, client, printed, breaks, lives>>

\* A lagged subscription: the error is reported, or the closed event channel seen first.
WriteLagged ==
  /\ conn = "open" /\ sub.lagged
  /\ \/ wire' = Append(wire, ErrorFrame)
     \/ sub.events = <<>> /\ UNCHANGED wire
  /\ conn' = "ended" /\ sub' = NoSub
  /\ UNCHANGED <<log, unsent, client, printed, breaks, lives>>

\* The network breaks: unread frames are lost and the endpoint's context ends.
Break ==
  /\ conn # "closed" /\ breaks < MaxBreaks /\ breaks' = breaks + 1
  /\ conn' = "ended" /\ wire' = <<>> /\ sub' = NoSub
  /\ UNCHANGED <<log, unsent, client, printed, lives>>

----------------------------------------------------------------------------
alreadyPrinted(n) == n <= client.after

reconnects(c) == [c EXCEPT !.at = IF c.attempt < MaxConnections THEN "connect" ELSE "observation_lost"]
closesAs(c) == /\ client' = c /\ conn' = "closed" /\ wire' = <<>> /\ sub' = NoSub

\* The client's visit of one complete frame.
ReadEvent ==
  /\ client.at = "read" /\ wire # <<>> /\ Head(wire).frame = "event"
  /\ LET n == Head(wire).sequence
         stopped == n > 0 /\ runEventStopsObservation(log[n])
     IN \/ /\ n > 0 /\ alreadyPrinted(n)
           /\ wire' = Tail(wire) /\ UNCHANGED <<client, conn, sub, printed>>
        \/ /\ n > 0 /\ ~alreadyPrinted(n) /\ n > client.after + 1
           /\ closesAs(reconnects(client)) /\ UNCHANGED printed
        \/ /\ n = 0 \/ (~alreadyPrinted(n) /\ n <= client.after + 1)
           /\ printed' = IF n = 0 THEN printed ELSE Append(printed, n)
           /\ IF stopped THEN closesAs([client EXCEPT !.after = n, !.at = "stopped"])
              ELSE /\ wire' = Tail(wire) /\ UNCHANGED <<conn, sub>>
                   /\ client' = IF n = 0 THEN client ELSE [client EXCEPT !.after = n]
  /\ UNCHANGED <<log, unsent, breaks, lives>>

ReadSnapshot ==
  /\ client.at = "read" /\ wire # <<>> /\ Head(wire).frame = "run.snapshot"
  /\ IF Head(wire).sequence # client.after THEN closesAs([client EXCEPT !.at = "protocol_error"])
     ELSE IF Head(wire).stopped THEN closesAs([client EXCEPT !.at = "stopped"])
     ELSE wire' = Tail(wire) /\ UNCHANGED <<client, conn, sub>>
  /\ UNCHANGED <<log, unsent, printed, breaks, lives>>

\* A lagged stream, or its end without a stopping frame, is reconnected.
ReadEnd ==
  /\ client.at = "read"
  /\ \/ wire # <<>> /\ Head(wire).frame = "error"
     \/ wire = <<>> /\ conn = "ended"
  /\ closesAs(reconnects(client))
  /\ UNCHANGED <<log, unsent, printed, breaks, lives>>

Writers == \/ \E type \in {"fact", "compaction", "completed", "waiting", "repaired", "resumed"} : CommitEvent(type)
           \/ PublishLive
Delivery == \/ \E n \in 1..MaxEvents : PublishCommitted(n)
            \/ observeRunEvents \/ WriteEvent \/ WriteLagged
            \/ ReadEvent \/ ReadSnapshot \/ ReadEnd
FeedNext == Writers \/ Delivery \/ Break

FeedSpec == FeedInit /\ [][FeedNext]_feedVars
\* A goroutine that committed publishes; the endpoint and the client keep reading.
FeedFairSpec == /\ FeedSpec
            /\ \A n \in 1..MaxEvents : WF_feedVars(PublishCommitted(n))
            /\ WF_feedVars(observeRunEvents) /\ WF_feedVars(WriteEvent \/ WriteLagged)
            /\ WF_feedVars(ReadEvent \/ ReadSnapshot \/ ReadEnd)

----------------------------------------------------------------------------
(* Whatever order commits are published in, wherever the connection breaks and however    *)
(* often the client lags, it prints every durable event exactly once, in sequence, up to   *)
(* the cursor it would resume from (hub.go publish, runclient/events.go Observe).         *)
PrintsEveryEventOnce ==
  printed = [k \in 1..client.after |-> k]

(* The snapshot closes the replay: no event committed while a client connects is missing    *)
(* from both, so the client never meets a snapshot or a cursor it must call a protocol error *)
(* (SnapshotAndSubscribe's publication gate).                                             *)
SnapshotMeetsCursor == client.at # "protocol_error" /\ client.after <= Len(log)

(* The Hub never shows its subscriber an event before an earlier one: the client's gap       *)
(* detection is for lost frames alone, which a broken connection ends anyway.              *)
StreamHasNoGap ==
  \A k \in 1..Len(wire) : wire[k].frame = "event" /\ wire[k].sequence > 0 =>
    \A n \in (client.after + 1)..(wire[k].sequence - 1) :
      \E h \in 1..(k - 1) : wire[h].frame = "event" /\ wire[h].sequence = n

\* The client is subscribed before the end that the repair commits: the Hub waits for it.
behindRepair == sub.on /\ \E n \in (sub.after + 1)..Len(log) : log[n] = "repaired"

(* A client that observes a Run learns that it ended, or says that it lost the stream: unless *)
(* the Run was repaired while the client was subscribed, it never waits on a live connection  *)
(* for an event that will not come.                                                        *)
ObserverLearnsTheEnd ==
  (lastType \in {"completed", "repaired"})
    ~> (client.at \in {"stopped", "observation_lost"} \/ lastType = "resumed" \/ behindRepair)

\* What a client is shown of a Run is its durable history, whole and in order: the first three
\* parts above.
FeedIsExact == PrintsEveryEventOnce /\ SnapshotMeetsCursor /\ StreamHasNoGap
=============================================================================
