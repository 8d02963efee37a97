------------------------------ MODULE RunSession ------------------------------
(***************************************************************************)
(* The chat view of the web application: commands and their event streams,    *)
(* the observation of the displayed Run, history loads, cancellation requests  *)
(* and navigation, each guarded by a lease of a latest-request controller.     *)
(* The server admits a command, says so, and only then makes or claims the     *)
(* Run; both go on when the page has gone.  React runs the observation effect  *)
(* some time after the state it depends on changed; responses and frames       *)
(* arrive at any time.                                                         *)
(***************************************************************************)
EXTENDS Naturals, Sequences, FiniteSets, SequencesExt

CONSTANTS Convs, MaxRuns, MaxSessionLog,
          ObserveAttempts, \* connections of one observation (4 in the code)
          MaxActs,     \* user actions of an execution
          MaxFaults    \* failed requests, broken streams and Runs the server fails to prepare

VARIABLES runs,     \* the server's Runs: conversation and event log
          stored,   \* the server's messages per conversation
          pending, admitted, \* commands the server has admitted: not yet settled, and all of them
          sessionActive, sessionRun, msgs, outs,  \* conversation, Run, messages and partial outputs on display
          strays,   \* Runs put on display by an observation that outlived a change of conversation
          activity, canceling,
          sessionCommand, adrift, \* the command that holds the lease; requests on their way without one
          loads, cancels, obs,
          acts, faults
sessionServer == <<runs, stored, pending, admitted>>
view == <<sessionActive, sessionRun, msgs, outs, strays>>
sessionVars == <<runs, stored, pending, admitted, sessionActive, sessionRun, msgs, outs, strays, activity, canceling, sessionCommand, adrift, loads, cancels, obs, acts, faults>>

SessionNoRun == [id |-> 0, status |-> "none"]
NoOut == [run |-> 0, seq |-> 0, shown |-> 0]      \* shown: the Run whose outputs are listed
NoCommand == [pc |-> "none"]
NoObs == [live |-> FALSE, key |-> <<>>]
isTerminalRunStatus(s) == s \in {"completed", "failed_recoverable", "canceled"}
isStoppedRunStatus(s) == s = "waiting_for_user" \/ isTerminalRunStatus(s)
\* What the repair of an interrupted Run appends reaches no subscriber.
Unpublished == {"repaired", "repaired_canceled"}
told(e) == IF e = "repaired" THEN "failed_recoverable" ELSE IF e = "repaired_canceled" THEN "canceled" ELSE e
\* The Run's status after the first p entries of its log; "output" entries are checkpoints.
statusAt(r, p) == LET said == SelectSeq(SubSeq(runs[r].log, 1, p), LAMBDA e : e # "output") IN IF said = <<>> THEN "none" ELSE told(Last(said))
statusOf(r) == statusAt(r, Len(runs[r].log))
hasOutput(r, p) == \E n \in 1..p : runs[r].log[n] = "output"

SessionInit ==
  /\ runs = <<>> /\ stored = [c \in Convs |-> 0] /\ pending = {} /\ admitted = {}
  /\ sessionActive \in Convs /\ sessionRun = SessionNoRun /\ msgs = [conv |-> sessionActive, upto |-> 0, drafts |-> {}] /\ outs = NoOut /\ strays = {}
  /\ activity = "idle" /\ canceling = FALSE /\ sessionCommand = NoCommand /\ adrift = {} /\ loads = {} /\ cancels = {} /\ obs = NoObs
  /\ acts = 0 /\ faults = 0

userActs == acts < MaxActs /\ acts' = acts + 1
fault == faults < MaxFaults /\ faults' = faults + 1

----------------------------------------------------------------------------
\* The server. A Run appends events while it executes; a conversation executes one command at a time.
executing(r) == statusOf(r) \in {"running", "canceling"}
convOf(q) == IF q.kind = "submitting" THEN q.conv ELSE runs[q.run].conv
busy(c) == (\E a \in pending : convOf(a) = c) \/ \E r \in DOMAIN runs : runs[r].conv = c /\ executing(r)
roomForRun == Len(runs) + Cardinality({a \in pending : a.kind = "submitting"}) < MaxRuns
appended(r, e) == [runs EXCEPT ![r].log = Append(@, e)]
RunStep ==
  \E r \in DOMAIN runs :
    /\ Len(runs[r].log) < MaxSessionLog
    /\ \/ \E e \in {"output", "waiting_for_user", "completed", "failed_recoverable"} :
            /\ statusOf(r) = "running" /\ runs' = appended(r, e)
            /\ stored' = IF e = "completed" THEN [stored EXCEPT ![runs[r].conv] = @ + 1] ELSE stored
       \/ statusOf(r) = "canceling" /\ runs' = appended(r, "canceled") /\ UNCHANGED stored
    /\ UNCHANGED <<pending, admitted, view, activity, canceling, sessionCommand, adrift, loads, cancels, obs, acts, faults>>
\* The process that executed a Run is gone, with the streams it served; the repair ends the Run.
Repair ==
  \E r \in DOMAIN runs :
    /\ Len(runs[r].log) < MaxSessionLog /\ executing(r) /\ fault
    /\ runs' = appended(r, IF statusOf(r) = "canceling" THEN "repaired_canceled" ELSE "repaired")
    /\ UNCHANGED <<stored, pending, admitted, view, activity, canceling, sessionCommand, adrift, loads, cancels, obs, acts>>
\* Another client starts a Run in a conversation.
OtherClient ==
  \E c \in Convs :
    /\ roomForRun /\ ~busy(c) /\ userActs
    /\ runs' = Append(runs, [conv |-> c, log |-> <<"running">>]) /\ stored' = [stored EXCEPT ![c] = @ + 1]
    /\ UNCHANGED <<pending, admitted, view, activity, canceling, sessionCommand, adrift, loads, cancels, obs, faults>>

\* Admission of a request: the conversation is free and a Run to resume can be resumed; a Run to
\* continue is looked at when it is claimed.
resumable(q) == statusOf(q.run) = "waiting_for_user" \/ (q.kind = "resuming" /\ statusOf(q.run) = "failed_recoverable")
admissible(q) ==
  /\ ~busy(convOf(q)) /\ (q.kind = "submitting" => roomForRun)
  /\ q.kind = "resuming" => resumable(q)
admits(q) ==
  /\ admissible(q) /\ pending' = pending \cup {[id |-> q.id, kind |-> q.kind, conv |-> q.conv, run |-> q.run]} /\ admitted' = admitted \cup {q.id}
  /\ stored' = IF q.kind = "submitting" THEN [stored EXCEPT ![q.conv] = @ + 1] ELSE stored
  /\ UNCHANGED runs
\* The stream of the command, when the page still reads it, tells what became of it.
feeds(a, run, pos, feed) ==
  sessionCommand' = IF sessionCommand.pc \in {"opened", "stream"} /\ sessionCommand.id = a.id
                    THEN [sessionCommand EXCEPT !.run = run, !.pos = pos, !.feed = feed] ELSE sessionCommand
\* The Run of an admitted command is made or claimed, or that fails.
PrepareRun(a) ==
  /\ pending' = pending \ {a}
  /\ \/ /\ a.kind = "submitting" /\ feeds(a, Len(runs) + 1, 0, "events") /\ UNCHANGED faults
        /\ runs' = Append(runs, [conv |-> a.conv, log |-> <<"running">>])
     \/ /\ a.kind # "submitting" /\ resumable(a) /\ Len(runs[a.run].log) < MaxSessionLog
        /\ runs' = appended(a.run, "running") /\ feeds(a, a.run, Len(runs[a.run].log), "events") /\ UNCHANGED faults
     \/ /\ a.kind # "submitting" /\ feeds(a, a.run, 0, "refused") /\ UNCHANGED <<runs, faults>>
     \/ a.kind = "submitting" /\ fault /\ (\E feed \in {"missing", "refused"} : feeds(a, 0, 0, feed)) /\ UNCHANGED runs
  /\ UNCHANGED <<stored, admitted, view, activity, canceling, adrift, loads, cancels, obs, acts>>

----------------------------------------------------------------------------
\* Leases: begin and cancel of a controller end the leases it gave before.
stale(tasks) == {[t EXCEPT !.live = FALSE] : t \in tasks}
isCurrent(t) == t.live
\* The command loses its lease: nothing it hears is applied, but its request may arrive.
streamsCancel ==
  /\ sessionCommand' = NoCommand
  /\ adrift' = IF sessionCommand.pc # "request" THEN adrift
               ELSE adrift \cup {[id |-> sessionCommand.id, kind |-> sessionCommand.kind, conv |-> sessionCommand.conv, run |-> sessionCommand.run]}
\* setRunState also ends a pending Stop when there is nothing left to stop.
setRunState(r) == sessionRun' = r /\ canceling' = (canceling /\ r # SessionNoRun /\ ~isTerminalRunStatus(r.status))
\* restoreOutputs of a snapshot of Run r at p, given the Run on display.
restoreOutputs(o, shownRun, r, p) ==
  IF r # shownRun \/ (o.run = r /\ o.seq > p) THEN o
  ELSE [run |-> r, seq |-> p, shown |-> IF statusAt(r, p) # "completed" /\ hasOutput(r, p) THEN r ELSE 0]

newLoad(c, by) == [conv |-> c, by |-> by, pc |-> "fetch", live |-> TRUE]
creating == \E l \in loads : l.by = "create"
\* The page turns to conversation c with nothing of it on display.
turnsTo(c) ==
  /\ sessionActive' = c /\ sessionRun' = SessionNoRun /\ outs' = NoOut /\ canceling' = FALSE
  /\ msgs' = [conv |-> c, upto |-> 0, drafts |-> {}] /\ cancels' = stale(cancels) /\ UNCHANGED strays
\* activateConversation: detach, clearRun.
activates(c) == turnsTo(c) /\ activity' = "idle" /\ streamsCancel /\ obs' = NoObs
openConversation(c) ==
  /\ userActs /\ c # sessionActive /\ activates(c) /\ loads' = stale(loads) \cup {newLoad(c, "nav")}
  /\ UNCHANGED <<sessionServer, faults>>
\* startNewConversation: the page lets go of its requests while it still shows the old conversation;
\* the observation starts again only when something it depends on changes.
startNewConversation ==
  /\ userActs /\ activity = "idle" /\ ~creating
  /\ cancels' = stale(cancels) /\ canceling' = FALSE /\ outs' = NoOut /\ obs' = [live |-> FALSE, key |-> obs.key]
  /\ loads' = stale(loads) \cup {newLoad(sessionActive, "create")}
  /\ UNCHANGED <<sessionServer, strays, sessionActive, sessionRun, msgs, activity, sessionCommand, adrift, faults>>
CreateConversation(l) ==
  /\ l.by = "create" /\ loads' = loads \ {l}
  /\ \/ /\ UNCHANGED faults
        /\ IF isCurrent(l)
           THEN \E c \in Convs \ {sessionActive} : stored[c] = 0 /\ turnsTo(c)
           ELSE UNCHANGED <<view, canceling, cancels>>
     \/ fault /\ UNCHANGED <<view, canceling, cancels>>
  /\ UNCHANGED <<sessionServer, activity, sessionCommand, adrift, obs, acts>>

----------------------------------------------------------------------------
\* loadConversation: messages and Run list, then the projection, applied together.
put(old, new) == loads' = (loads \ {old}) \cup {new}
readRunTrace(l) ==
  LET mine == {r \in DOMAIN runs : runs[r].conv = l.conv}
      newest == IF mine = {} THEN 0 ELSE CHOOSE r \in mine : \A q \in mine : q <= r
  IN  [conv |-> l.conv, by |-> l.by, pc |-> IF newest = 0 THEN "apply" ELSE "projection", live |-> l.live,
       upto |-> stored[l.conv], run |-> newest, status |-> IF newest = 0 THEN "none" ELSE statusOf(newest), at |-> 0]
\* The reload of an observation that outlived a change of conversation turns the page back.
LoadFetch(l) ==
  /\ l.pc = "fetch" /\ l.by # "create" /\ put(l, readRunTrace(l))
  /\ IF isCurrent(l) /\ l.conv # sessionActive THEN activates(l.conv)
     ELSE UNCHANGED <<view, activity, canceling, sessionCommand, adrift, cancels, obs>>
  /\ UNCHANGED <<sessionServer, acts, faults>>
LoadProjection(l) ==
  /\ l.pc = "projection"
  /\ \/ put(l, [l EXCEPT !.pc = "apply", !.at = Len(runs[l.run].log)]) /\ UNCHANGED faults
     \/ fault /\ put(l, [l EXCEPT !.pc = "apply"])
  /\ UNCHANGED <<sessionServer, view, activity, canceling, sessionCommand, adrift, cancels, obs, acts>>
\* The load a command waits for returns, applied or not.
returned(l) == IF l.by = "command" /\ isCurrent(l) THEN [sessionCommand EXCEPT !.pc = "end"] ELSE sessionCommand
LoadApply(l) ==
  /\ l.pc = "apply" /\ loads' = loads \ {l} /\ sessionCommand' = returned(l)
  /\ IF isCurrent(l)
     THEN /\ msgs' = [conv |-> l.conv, upto |-> l.upto, drafts |-> {}]
          /\ setRunState(IF l.run = 0 THEN SessionNoRun ELSE [id |-> l.run, status |-> l.status])
          /\ outs' = IF l.run = 0 THEN NoOut ELSE IF l.at = 0 THEN outs ELSE restoreOutputs(outs, l.run, l.run, l.at)
          /\ cancels' = IF l.run = 0 THEN stale(cancels) ELSE cancels
     ELSE UNCHANGED <<msgs, sessionRun, outs, canceling, cancels>>
  /\ UNCHANGED <<sessionServer, strays, sessionActive, activity, adrift, obs, acts, faults>>
LoadFail(l) ==
  /\ l.pc = "fetch" /\ l.by # "create" /\ fault /\ loads' = loads \ {l} /\ sessionCommand' = returned(l)
  /\ UNCHANGED <<sessionServer, view, activity, canceling, adrift, cancels, obs, acts>>

----------------------------------------------------------------------------
\* execute: admission by the page, handoff of history and observation, optimistic drafts.
draftsOf(id, kind) == {<<id, role>> : role \in IF kind = "submitting" THEN {"user", "assistant"} ELSE {"assistant"}}
mayExecute(kind) ==
  IF kind = "submitting" THEN sessionRun.status # "waiting_for_user" /\ ~creating
  ELSE sessionRun.status = "waiting_for_user" \/ (kind = "resuming" /\ sessionRun.status = "failed_recoverable")
execute(kind) ==
  /\ activity = "idle" /\ mayExecute(kind) /\ userActs
  /\ activity' = kind /\ obs' = NoObs /\ loads' = stale(loads)
  /\ sessionCommand' = [pc |-> "request", id |-> acts, kind |-> kind, conv |-> sessionActive, run |-> sessionRun.id, pos |-> 0, status |-> "none",
                 feed |-> "none", accepted |-> FALSE, prev |-> [run |-> sessionRun, outs |-> outs]]
  /\ msgs' = [msgs EXCEPT !.drafts = @ \cup draftsOf(acts, kind)]
  /\ \/ kind = "submitting" /\ setRunState(SessionNoRun) /\ outs' = NoOut /\ cancels' = stale(cancels)
     \/ kind = "continuing" /\ UNCHANGED <<sessionRun, canceling, outs, cancels>>
     \/ kind = "resuming" /\ setRunState([sessionRun EXCEPT !.status = "running"]) /\ UNCHANGED <<outs, cancels>>
  /\ UNCHANGED <<sessionServer, strays, sessionActive, adrift, faults>>
\* The server admits or refuses the command; its answer may be lost.
ReceiveCommand ==
  /\ sessionCommand.pc = "request"
  /\ \/ /\ admits(sessionCommand)
        /\ \/ /\ UNCHANGED faults
              /\ sessionCommand' = [sessionCommand EXCEPT !.pc = "opened", !.status = IF sessionCommand.kind = "submitting" THEN "none" ELSE statusOf(sessionCommand.run)]
           \/ fault /\ sessionCommand' = [sessionCommand EXCEPT !.pc = "error"]
     \/ sessionCommand' = [sessionCommand EXCEPT !.pc = "error"] /\ UNCHANGED <<sessionServer, faults>>
  /\ UNCHANGED <<view, activity, canceling, adrift, loads, cancels, obs, acts>>
\* A request whose command has lost its lease arrives, or is aborted before.
ReceiveAdrift(q) ==
  /\ adrift' = adrift \ {q} /\ (admits(q) \/ UNCHANGED sessionServer)
  /\ UNCHANGED <<view, activity, canceling, sessionCommand, loads, cancels, obs, acts, faults>>

\* The first frame says that the command is admitted: the conversation, or the Run as it stands.
FirstFrame ==
  /\ sessionCommand.pc = "opened" /\ sessionCommand' = [sessionCommand EXCEPT !.pc = "stream", !.accepted = TRUE]
  /\ IF sessionCommand.kind = "submitting" THEN UNCHANGED <<sessionRun, canceling>>
     ELSE setRunState([id |-> sessionCommand.run, status |-> sessionCommand.status])
  /\ UNCHANGED <<sessionServer, strays, sessionActive, msgs, outs, activity, adrift, loads, cancels, obs, acts, faults>>
\* One more frame of the command stream; it closes when the Run stops.
Frame ==
  /\ sessionCommand.pc = "stream" /\ sessionCommand.feed = "events" /\ sessionCommand.pos < Len(runs[sessionCommand.run].log)
  /\ LET p == sessionCommand.pos + 1
         e == runs[sessionCommand.run].log[p]
     IN  /\ e \notin Unpublished
         /\ sessionCommand' = [sessionCommand EXCEPT !.pos = p, !.pc = IF isStoppedRunStatus(e) THEN "done" ELSE @]
         /\ IF e # "output" THEN setRunState([id |-> sessionCommand.run, status |-> e]) ELSE UNCHANGED <<sessionRun, canceling>>
  /\ UNCHANGED <<sessionServer, strays, sessionActive, msgs, outs, activity, adrift, loads, cancels, obs, acts, faults>>
\* A refusal after the first frame: a missing entity is thrown, any other error frame ends the stream as it ends well.
RefusalFrame ==
  /\ sessionCommand.pc = "stream" /\ sessionCommand.feed \in {"missing", "refused"}
  /\ sessionCommand' = [sessionCommand EXCEPT !.pc = IF sessionCommand.feed = "missing" THEN "error" ELSE "done"]
  /\ UNCHANGED <<sessionServer, view, activity, canceling, adrift, loads, cancels, obs, acts, faults>>
\* The stream breaks, by itself or with the process that executed the Run.
orphaned == sessionCommand.feed = "events" /\ \E p \in DOMAIN runs[sessionCommand.run].log : p > sessionCommand.pos /\ runs[sessionCommand.run].log[p] \in Unpublished
StreamBreaks ==
  /\ sessionCommand.pc \in {"opened", "stream"} /\ sessionCommand' = [sessionCommand EXCEPT !.pc = "error"]
  /\ fault \/ (orphaned /\ UNCHANGED faults)
  /\ UNCHANGED <<sessionServer, view, activity, canceling, adrift, loads, cancels, obs, acts>>
reload == sessionCommand' = [sessionCommand EXCEPT !.pc = "reload"] /\ loads' = stale(loads) \cup {newLoad(sessionCommand.conv, "command")}
without(drafts) == [msgs EXCEPT !.drafts = @ \ drafts]
\* The stream ended: reload.
Finish ==
  /\ sessionCommand.pc = "done" /\ reload
  /\ UNCHANGED <<sessionServer, view, activity, canceling, adrift, cancels, obs, acts, faults>>
\* It failed before it was accepted: roll back and reload.
RollBack ==
  /\ sessionCommand.pc = "error" /\ ~sessionCommand.accepted /\ reload
  /\ msgs' = without(draftsOf(sessionCommand.id, sessionCommand.kind))
  /\ IF sessionCommand.kind = "continuing" THEN UNCHANGED <<sessionRun, canceling>> ELSE setRunState(sessionCommand.prev.run)
  /\ outs' = IF sessionCommand.kind = "submitting" THEN sessionCommand.prev.outs ELSE outs
  /\ UNCHANGED <<sessionServer, strays, sessionActive, activity, adrift, cancels, obs, acts, faults>>
\* It failed after: the outputs of the Run on display, if any, are read; they replace the draft of the answer.
Recover ==
  /\ sessionCommand.pc = "error" /\ sessionCommand.accepted /\ sessionCommand' = [sessionCommand EXCEPT !.pc = "end"]
  /\ \/ /\ sessionRun # SessionNoRun /\ UNCHANGED faults
        /\ LET p == Len(runs[sessionRun.id].log) IN
           /\ outs' = restoreOutputs(outs, sessionRun.id, sessionRun.id, p)
           /\ msgs' = IF hasOutput(sessionRun.id, p) THEN without({<<sessionCommand.id, "assistant">>}) ELSE msgs
     \/ /\ UNCHANGED <<outs, msgs>>
        /\ IF sessionRun = SessionNoRun THEN UNCHANGED faults ELSE fault
  /\ UNCHANGED <<sessionServer, strays, sessionActive, sessionRun, activity, canceling, adrift, loads, cancels, obs, acts>>
CommandEnds ==
  /\ sessionCommand.pc = "end" /\ sessionCommand' = NoCommand /\ activity' = "idle"
  /\ UNCHANGED <<sessionServer, view, canceling, adrift, loads, cancels, obs, acts, faults>>

----------------------------------------------------------------------------
\* cancel: one request at a time; the answer carries the Run's status.
cancel ==
  /\ userActs /\ sessionRun # SessionNoRun /\ ~canceling /\ ~isTerminalRunStatus(sessionRun.status)
  /\ canceling' = TRUE /\ cancels' = stale(cancels) \cup {[run |-> sessionRun.id, live |-> TRUE, status |-> "none"]}
  /\ UNCHANGED <<sessionServer, view, activity, sessionCommand, adrift, loads, obs, faults>>
CancelRun(x) ==
  /\ x.status = "none" /\ Len(runs[x.run].log) < MaxSessionLog
  /\ LET s == IF isTerminalRunStatus(statusOf(x.run)) THEN statusOf(x.run) ELSE IF statusOf(x.run) = "waiting_for_user" THEN "canceled" ELSE "canceling" IN
     /\ runs' = IF s = statusOf(x.run) THEN runs ELSE appended(x.run, s)
     /\ cancels' = (cancels \ {x}) \cup {[x EXCEPT !.status = s]}
  /\ UNCHANGED <<stored, pending, admitted, view, activity, canceling, sessionCommand, adrift, loads, obs, acts, faults>>
\* Mutant: the answer is applied although the Run has ended meanwhile.
answersLate(x) == isCurrent(x) /\ sessionRun.id = x.run
answers(x) == isCurrent(x) /\ sessionRun.id = x.run /\ ~isTerminalRunStatus(sessionRun.status)
CancelAnswer(x) ==
  /\ cancels' = cancels \ {x}
  /\ \/ /\ x.status # "none" /\ UNCHANGED faults
        /\ IF answers(x) THEN setRunState([id |-> x.run, status |-> x.status]) ELSE UNCHANGED <<sessionRun, canceling>>
     \/ fault /\ canceling' = (canceling /\ ~answers(x)) /\ UNCHANGED sessionRun
  /\ UNCHANGED <<sessionServer, strays, sessionActive, msgs, outs, activity, sessionCommand, adrift, loads, obs, acts>>

----------------------------------------------------------------------------
\* The observation effect: its inputs, and what it starts.
\* Mutant: the end of a command does not start the observation anew.
keyWithoutActivity == <<sessionActive, sessionRun.id, sessionRun.status>>
key == <<sessionActive, activity, sessionRun.id, sessionRun.status>>
Effect ==
  /\ obs.key # key
  /\ obs' = IF sessionRun.status \in {"running", "canceling"}
            THEN [live |-> TRUE, key |-> key, run |-> sessionRun.id, conv |-> sessionActive, idle |-> activity = "idle", pc |-> "connect", pos |-> 0,
                  refreshed |-> FALSE, attempt |-> 0]
            ELSE [live |-> FALSE, key |-> key]
  /\ UNCHANGED <<sessionServer, view, activity, canceling, sessionCommand, adrift, loads, cancels, acts, faults>>
\* observeRunEvents: history, a snapshot, then live events.
SessionObserve ==
  /\ obs.live /\ obs.pc = "connect"
  /\ obs' = [obs EXCEPT !.pc = "snapshot", !.pos = Len(runs[obs.run].log)]
  /\ UNCHANGED <<sessionServer, view, activity, canceling, sessionCommand, adrift, loads, cancels, acts, faults>>
\* The Run is shown as observed, in whatever conversation is open by now.
observes(s) == setRunState([id |-> obs.run, status |-> s]) /\ strays' = IF runs[obs.run].conv = sessionActive THEN strays ELSE strays \cup {obs.run}
sessionStops(s) == isStoppedRunStatus(s) /\ obs.idle /\ ~obs.refreshed
observed(s) == loads' = IF sessionStops(s) THEN stale(loads) \cup {newLoad(obs.conv, "observed")} ELSE loads
SessionSnapshot ==
  /\ obs.live /\ obs.pc = "snapshot"
  /\ LET s == statusAt(obs.run, obs.pos)
         applies == runs[obs.run].conv = obs.conv
     IN
     /\ obs' = [obs EXCEPT !.pc = IF isStoppedRunStatus(s) THEN "closed" ELSE "live", !.refreshed = @ \/ (applies /\ sessionStops(s))]
     /\ IF applies THEN observed(s) ELSE UNCHANGED loads
     /\ IF obs.idle /\ applies
        THEN observes(s) /\ outs' = restoreOutputs(outs, obs.run, obs.run, obs.pos)
        ELSE UNCHANGED <<sessionRun, strays, canceling, outs>>
  /\ UNCHANGED <<sessionServer, sessionActive, msgs, activity, sessionCommand, adrift, cancels, acts, faults>>
LiveEvent ==
  /\ obs.live /\ obs.pc = "live" /\ obs.pos < Len(runs[obs.run].log)
  /\ LET p == obs.pos + 1
         e == runs[obs.run].log[p]
     IN  /\ e \notin Unpublished
         /\ obs' = [obs EXCEPT !.pos = p, !.pc = IF isStoppedRunStatus(e) THEN "closed" ELSE @, !.refreshed = @ \/ sessionStops(e)]
         /\ observed(e)
         /\ IF ~obs.idle THEN UNCHANGED <<sessionRun, strays, canceling, outs>>
            ELSE IF e # "output" THEN observes(e) /\ UNCHANGED outs
            ELSE /\ outs' = IF obs.run # sessionRun.id \/ (outs.run = obs.run /\ outs.seq >= p) THEN outs
                            ELSE [run |-> obs.run, seq |-> p, shown |-> obs.run]
                 /\ UNCHANGED <<sessionRun, strays, canceling>>
  /\ UNCHANGED <<sessionServer, sessionActive, msgs, activity, sessionCommand, adrift, cancels, acts, faults>>
\* A connection is refused or breaks: the next attempt, while there is one, unless the error is final.
ObserveFails ==
  /\ obs.live /\ obs.pc \in {"connect", "live"} /\ fault
  /\ \/ obs.attempt + 1 < ObserveAttempts /\ obs' = [obs EXCEPT !.pc = "connect", !.attempt = @ + 1]
     \/ obs' = [obs EXCEPT !.pc = "lost"]
  /\ UNCHANGED <<sessionServer, view, activity, canceling, sessionCommand, adrift, loads, cancels, acts>>

Browser ==
  \/ \E l \in loads : LoadFetch(l) \/ LoadProjection(l) \/ LoadApply(l) \/ CreateConversation(l)
  \/ ReceiveCommand \/ FirstFrame \/ Frame \/ RefusalFrame \/ StreamBreaks \/ Finish \/ RollBack \/ Recover \/ CommandEnds
  \/ \E x \in cancels : CancelRun(x) \/ CancelAnswer(x)
  \/ Effect \/ SessionObserve \/ SessionSnapshot \/ LiveEvent
Server == RunStep \/ \E a \in pending : PrepareRun(a)
SessionNext ==
  \/ Browser \/ Server \/ Repair \/ OtherClient
  \/ \E q \in adrift : ReceiveAdrift(q)
  \/ \E c \in Convs : openConversation(c)
  \/ \E kind \in {"submitting", "continuing", "resuming"} : execute(kind)
  \/ \E l \in loads : LoadFail(l)
  \/ cancel \/ startNewConversation \/ ObserveFails
SessionSpec == SessionInit /\ [][SessionNext]_sessionVars

-----------------------------------------------------------------------------
(* Properties *)

\* Whatever arrives late, the Run and the messages on display belong to the open conversation; the
\* one way in for another Run is an observation that started while a new conversation was being
\* created and is heard once more before React ends it.
ShowsOneConversation == msgs.conv = sessionActive /\ (sessionRun # SessionNoRun => runs[sessionRun.id].conv = sessionActive \/ sessionRun.id \in strays)

\* "Late cancellation responses cannot overwrite a terminal Run": a Run shown as ended is shown
\* otherwise again only by its own stream, observation, load or resumption, never by an answer
\* to a Stop, however many Stops, navigations and resumptions lie between.
endedStaysEnded ==
  sessionRun # SessionNoRun /\ sessionRun.id = sessionRun'.id /\ isTerminalRunStatus(sessionRun.status) /\ sessionRun'.status # sessionRun.status => cancels' = cancels

\* A command the server has not admitted leaves no draft behind: the drafts on display are of
\* the command in flight or of admitted ones, although requests and answers get lost, the page
\* lets go of a command and its request still arrives, and reloads fail.
DraftsAreOwned == \A d \in msgs.drafts : d[1] \in admitted \/ (sessionCommand # NoCommand /\ d[1] = sessionCommand.id)

\* The page no longer follows the Run it shows as executing: its observation has used up its
\* attempts, waits behind an end that nobody publishes, or was let go for a new conversation.
unfollowed ==
  \/ obs.live /\ obs.pc = "lost"
  \/ obs.live /\ obs.pc = "live" /\ obs.pos < Len(runs[obs.run].log) /\ runs[obs.run].log[obs.pos + 1] \in Unpublished
  \/ ~obs.live /\ obs.key = key

\* A Run that ended on the server while its conversation is open is eventually shown as
\* stopped unless it is resumed or the page no longer follows it, although streams break, loads overtake each other and a Stop is answered late.
StopIsShown ==
  \A r \in 1..MaxRuns :
    (r \in DOMAIN runs /\ isTerminalRunStatus(statusOf(r)) /\ sessionRun.id = r /\ sessionActive = runs[r].conv)
      ~> (sessionRun.id # r \/ sessionActive # runs[r].conv \/ isStoppedRunStatus(sessionRun.status) \/ ~isTerminalRunStatus(statusOf(r)) \/ unfollowed)

\* However late answers come, the page shows one conversation, its own drafts, and an ended Run
\* as ended: the three parts above but StopIsShown.
SessionSafe == [](ShowsOneConversation /\ DraftsAreOwned) /\ [][endedStaysEnded]_sessionVars
=============================================================================
