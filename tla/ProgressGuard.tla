---------------------------- MODULE ProgressGuard ----------------------------
(***************************************************************************)
(* The Run's Tool Progress Guard as the executor uses it.  A round of the    *)
(* model is a batch of calls; read-only calls of a batch run in parallel,    *)
(* each asking the guard before its handler and telling it the outcome       *)
(* after; the batch's terminal events are written in call order once all are *)
(* done.  After a restart the guard is rebuilt from those events.  New user  *)
(* input resets it in memory.                                                *)
(***************************************************************************)
EXTENDS Naturals, Sequences, FiniteSets, SequencesExt

CONSTANTS GuardCalls,        \* call signatures: source, tool, revision and arguments
          Writers,      \* those whose tool keeps a journal
          Results,      \* fingerprints of typed failures and of read-only results
          BlockAfter, HaltAfter, HistoryMax, GuardBatchMax,
          MaxGuardRounds, MaxCrashes, MaxResets

VARIABLES guard,      \* history and blocked attempts
          events,     \* progress decisions of the Run's terminal Tool events
          guardBatch,      \* the calls of the round
          state,      \* per call of the batch: waiting, executing, done
          decisions,  \* per call of the batch
          guardTurn,       \* idle, running, halted
          streak,     \* [call, result, executed, attempts]: what the world saw repeated
          inOrder,    \* the calls of each batch have been answered in call order
          rounds, crashes, resets
guardVars == <<guard, events, guardBatch, state, decisions, guardTurn, streak, inOrder, rounds, crashes, resets>>

key(call, result) == <<call, result>>
Fresh == [history |-> <<>>, blocked |-> [k \in GuardCalls \X Results |-> 0]]
NoDecision == [action |-> "none", call |-> "none", result |-> "none", trackable |-> FALSE, executed |-> FALSE]
NoStreak == [key |-> <<"none", "none">>, executed |-> 0, attempts |-> 0]

GuardInit ==
  /\ guard = Fresh /\ events = <<>> /\ guardBatch = <<>> /\ state = <<>> /\ decisions = <<>>
  /\ guardTurn = "idle" /\ streak = NoStreak /\ inOrder = TRUE /\ rounds = 0 /\ crashes = 0 /\ resets = 0

----------------------------------------------------------------------------
repeatedTail(h, k) == Cardinality({i \in DOMAIN h : \A j \in i..Len(h) : h[j] = k})
alternates(h, i) == i >= 3 /\ h[i] = h[i - 2] /\ h[i] # h[i - 1]
alternatingTail(h) == Cardinality({i \in DOMAIN h : \A j \in i..Len(h) : alternates(h, j)})
\* predict: the outcome seen last for this call, or two calls ago when two alternate, and
\* how often it would then have been seen.
predict(h, call) ==
  LET n == Len(h)
  IN CASE n >= 1 /\ h[n][1] = call -> [key |-> h[n], count |-> repeatedTail(h, h[n]) + 1]
       [] n >= 2 /\ h[n][1] # call /\ h[n - 1][1] = call -> [key |-> h[n - 1], count |-> alternatingTail(h) + 1]
       [] OTHER -> [key |-> <<call, "none">>, count |-> 0]
threshold == BlockAfter
\* Before: the decision and the guard after it.
blocks(g, call) == predict(g.history, call).count >= threshold
beforeAction(g, call) ==
  LET p == predict(g.history, call)
  IN IF p.count + g.blocked[p.key] >= HaltAfter THEN "halt_turn" ELSE "block_call"
\* Mutant: blocked attempts are not counted.
afterBlockUncounted(g, call) == g
afterBlock(g, call) == [g EXCEPT !.blocked[predict(g.history, call).key] = @ + 1]

guardBounded(h) == SubSeq(h, (IF Len(h) > HistoryMax THEN Len(h) - HistoryMax ELSE 0) + 1, Len(h))
\* Observe: an untrackable outcome and a successful write forget everything.
observe(g, call, result) ==
  IF result \notin Results THEN Fresh
  ELSE [history |-> guardBounded(Append(g.history, key(call, result))), blocked |-> [g.blocked EXCEPT ![key(call, result)] = 0]]
\* Restore: the same from the recorded decisions.
restoreStep(d, g) ==
  CASE ~d.trackable -> IF d.executed THEN Fresh ELSE g
    [] d.trackable /\ d.executed -> observe(g, d.call, d.result)
    [] OTHER -> [g EXCEPT !.blocked[key(d.call, d.result)] = @ + 1]
Restore(list) == FoldLeft(LAMBDA g, d : restoreStep(d, g), Fresh, list)

decision(action, call, result, executed) ==
  [action |-> action, call |-> call, result |-> result, trackable |-> result \in Results, executed |-> executed]

----------------------------------------------------------------------------
\* A model round: a batch of calls.  A writer makes the batch sequential.
Round(calls) ==
  /\ guardTurn = "idle" /\ rounds < MaxGuardRounds
  /\ guardBatch' = calls /\ state' = [i \in DOMAIN calls |-> "waiting"]
  /\ decisions' = [i \in DOMAIN calls |-> NoDecision]
  /\ guardTurn' = "running" /\ rounds' = rounds + 1
  /\ UNCHANGED <<guard, events, streak, inOrder, crashes, resets>>
sequential == \E i \in DOMAIN guardBatch : guardBatch[i] \in Writers
mayStart(i) ==
  /\ guardTurn = "running" /\ state[i] = "waiting"
  /\ sequential => \A j \in 1..(i - 1) : state[j] = "done"

seen(call, result, ran) ==
  IF result \notin Results THEN NoStreak
  ELSE LET same == streak.key = key(call, result)
       IN [key |-> key(call, result),
           executed |-> (IF same THEN streak.executed ELSE 0) + (IF ran THEN 1 ELSE 0),
           attempts |-> (IF same THEN streak.attempts ELSE 0) + 1]

\* Call i is done: results are collected by position, whichever call ends first.
answers(i) ==
  /\ state' = [state EXCEPT ![i] = "done"]
  /\ inOrder' = (inOrder /\ \A j \in 1..(i - 1) : state[j] = "done")

\* applyProgressBefore: the call is stopped before budget and handler, or it executes.
Blocked(i) ==
  /\ mayStart(i) /\ blocks(guard, guardBatch[i])
  /\ LET p == predict(guard.history, guardBatch[i])
     IN /\ decisions' = [decisions EXCEPT ![i] = decision(beforeAction(guard, guardBatch[i]), p.key[1], p.key[2], FALSE)]
        /\ streak' = seen(p.key[1], p.key[2], FALSE)
  /\ guard' = afterBlock(guard, guardBatch[i])
  /\ answers(i)
  /\ UNCHANGED <<events, guardBatch, guardTurn, rounds, crashes, resets>>
Execute(i) ==
  /\ mayStart(i) /\ ~blocks(guard, guardBatch[i])
  /\ state' = [state EXCEPT ![i] = "executing"]
  /\ UNCHANGED <<guard, events, guardBatch, decisions, guardTurn, streak, inOrder, rounds, crashes, resets>>
\* The handler answers; observeProgress is deferred to the end of execute.  A writer's
\* success, a cancellation and a budget failure carry no fingerprint.
Finish(i, result) ==
  /\ guardTurn = "running" /\ state[i] = "executing"
  /\ guard' = observe(guard, guardBatch[i], result)
  /\ decisions' = [decisions EXCEPT ![i] = decision("allow", guardBatch[i], result, TRUE)]
  /\ answers(i) /\ streak' = seen(guardBatch[i], result, TRUE)
  /\ UNCHANGED <<events, guardBatch, guardTurn, rounds, crashes, resets>>
\* finishBatch writes the terminal events in call order; a halt ends the Turn.
FinishBatch ==
  /\ guardTurn = "running" /\ \A i \in DOMAIN guardBatch : state[i] = "done"
  /\ events' = events \o decisions
  /\ guardTurn' = IF \E i \in DOMAIN guardBatch : decisions[i].action = "halt_turn" THEN "halted" ELSE "idle"
  /\ guardBatch' = <<>> /\ state' = <<>> /\ decisions' = <<>>
  /\ UNCHANGED <<guard, streak, inOrder, rounds, crashes, resets>>

\* A halted or waiting Run is resumed with new user input.
resetProgressGuard ==
  /\ guardTurn \in {"idle", "halted"} /\ resets < MaxResets /\ resets' = resets + 1
  /\ guard' = Fresh /\ guardTurn' = "idle" /\ streak' = NoStreak
  /\ UNCHANGED <<events, guardBatch, state, decisions, inOrder, rounds, crashes>>
\* The process dies; whoever runs the Run again restores the guard from its events.
CrashAndRestore ==
  /\ crashes < MaxCrashes /\ crashes' = crashes + 1
  /\ guard' = Restore(events)
  /\ guardTurn' = IF guardTurn = "halted" THEN guardTurn ELSE "idle"
  /\ guardBatch' = <<>> /\ state' = <<>> /\ decisions' = <<>>
  /\ UNCHANGED <<events, streak, inOrder, rounds, resets>>

guardBatches == UNION {[1..n -> GuardCalls] : n \in 1..GuardBatchMax}
GuardNext ==
  \/ \E b \in guardBatches : Round(b)
  \/ \E i \in DOMAIN guardBatch : Blocked(i) \/ Execute(i) \/ \E r \in Results \cup {"untracked"} : Finish(i, r)
  \/ FinishBatch \/ resetProgressGuard \/ CrashAndRestore
GuardSpec == GuardInit /\ [][GuardNext]_guardVars

-----------------------------------------------------------------------------
(* Properties *)

\* A crash loses the calls of a batch whose events were not written, and all but one of a
\* parallel batch ask before any has answered.
unrecorded == (GuardBatchMax - 1) + GuardBatchMax * crashes
\* Events stand in call order.  When a parallel batch was answered in another order, a write
\* or an untrackable outcome that came first may be read back last: what repeated before it
\* is forgotten, and the restored guard counts from the beginning.
forgotten == IF inOrder THEN 0 ELSE crashes

\* A call whose outcome stays the same runs its handler at most BlockAfter - 1 times in a
\* row: once more for each further call of a parallel batch, once more for each call a crash
\* lost, and all over again when a restored guard has forgotten the pattern.
RepetitionIsBounded == streak.executed <= (1 + forgotten) * (BlockAfter - 1) + unrecorded

\* A model that keeps asking for it, blocked or not, is halted: fewer than HaltAfter
\* attempts in a row are answered with the Turn still going on, with the same allowances
\* ("Repeated no-progress results": "Existing Progress Guard eventually halts the Turn").
EndlessRepetitionHalts == guardTurn = "idle" => streak.attempts < (1 + forgotten) * HaltAfter + unrecorded

\* While the calls of each batch are answered in call order and no new user input comes, the
\* guard a restarted process rebuilds from terminal Tool events is the one the dead process
\* had when it wrote the last of them.
restoredGuardIsTheLiveOne == crashes' # crashes /\ guardBatch = <<>> /\ inOrder /\ resets = 0 => guard' = guard

\* New user input starts a new pattern: what repeated before it does not count against
\* calls made after it ("New user input resets the Guard before an Autonomous Run
\* resumes"), also when the process restarts afterwards.
ResetSurvivesRestart ==
  [][\A i \in DOMAIN guardBatch :
       resets > 0 /\ state[i] = "waiting" /\ guardBatch' = guardBatch /\ state'[i] = "done" => streak.executed > 0]_guardVars

\* No sequence of calls, blocks, new input and restarts lets a Turn repeat itself for ever:
\* the bound, the halt and the rebuilt guard above.
ProgressIsForced ==
  /\ [](RepetitionIsBounded /\ EndlessRepetitionHalts)
  /\ [][restoredGuardIsTheLiveOne]_guardVars
=============================================================================
