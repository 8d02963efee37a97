--------------------------- MODULE OutputCheckpoint ---------------------------
(***************************************************************************)
(* Durable partial output: a Turn's OutputRecorder coalesces answer and      *)
(* reasoning deltas into model.output_checkpoint replacements, the Turn      *)
(* Engine flushes it at the end of the Turn, and the Run projection shows    *)
(* the newest replacement of each slot.  Text is a sequence of pieces: "w" a *)
(* closed word, "a" the first half of a credential, "b" its closed end.      *)
(***************************************************************************)
EXTENDS Naturals, Sequences, FiniteSets, SequencesExt

CONSTANTS Calls,       \* model calls of a Turn, in order, 1..n
          Attempts,    \* attempts of a call, 1..n
          Adapters,    \* "display": cumulative sanitized copies (display_text); "local": the credential-free fallback, plain deltas of one call
          MaxEntries,  \* MaxPartialOutputEntries
          MaxText,     \* MaxPartialOutputBytes, in pieces
          Threshold,   \* outputCheckpointBytes, in pieces
          MaxPieces, MaxTurns, MaxLog  \* bound the exploration

VARIABLES outputRun,     \* running, completed, failed_recoverable
          turn,    \* number of the current Turn
          engine,  \* the Turn Engine: model, flushed, done
          outcome, \* how the model ended: "", "final", "interrupted"
          adapter, \* what the Turn's route streams through
          call, attempt, said,  \* the model: its call, attempt, and the text of that attempt
          speech,  \* of the attempt: Tool calls have begun, the text was retracted, something was shown, reasoning is
                   \* being shown, and how the attempt ended ("", "ok", "failed")
          items,   \* the recorder's buffers
          failed,  \* the recorder's sticky error; the model's context is canceled
          outputLog      \* durable Run events
outputVars == <<outputRun, turn, engine, outcome, adapter, call, attempt, said, speech, items, failed, outputLog>>

NewStream == [tools |-> FALSE, retracted |-> FALSE, emitted |-> FALSE, thinking |-> FALSE, ended |-> ""]
Empty == [call |-> 0, attempt |-> 0, text |-> <<>>, status |-> ""]
OutputInit ==
  /\ outputRun = "running" /\ turn = 1 /\ engine = "model" /\ outcome = ""
  /\ adapter \in Adapters /\ call = 1 /\ attempt = 1 /\ said = <<>> /\ speech = NewStream /\ items = <<>> /\ failed = FALSE /\ outputLog = <<>>

----------------------------------------------------------------------------
\* Text.  A closed piece ends with white space.
closed(p) == p \in {"w", "b"}
\* The text before the last white space.
safePrefix(s) == SubSeq(s, 1, CHOOSE n \in 0..Len(s) :
  /\ n > 0 => closed(s[n])
  /\ \A k \in (n + 1)..Len(s) : ~closed(s[k]))
\* redaction.Text recognises a whole credential.
redact(s) == [i \in DOMAIN s |->
  IF \/ i < Len(s) /\ s[i] = "a" /\ s[i + 1] = "b"
     \/ i > 1 /\ s[i] = "b" /\ s[i - 1] = "a"
  THEN "R" ELSE s[i]]
utf8Prefix(s, n) == SubSeq(s, 1, IF Len(s) < n THEN Len(s) ELSE n)
\* Mutant: a copy is cut where the stream is, not where white space is.
sanitizedDisplayPrefixOpen(s) == utf8Prefix(redact(s), MaxText)
\* The adapter's cumulative copies: of what an open stream has said, and of what a successful one said.
sanitizedDisplayPrefix(s) == utf8Prefix(redact(safePrefix(s)), MaxText)
sanitizedDisplayText(s) == utf8Prefix(redact(s), MaxText)

----------------------------------------------------------------------------
\* The recorder.  flushLocked: a buffer's status and text at a flush, and its checkpoint.
shown(b, status) == IF b.key = 0 /\ adapter = "local" /\ status = "provisional" THEN safePrefix(b.raw) ELSE b.raw
prepare(b, terminal) ==
  LET st == IF terminal # "" /\ b.value.status = "provisional" THEN terminal ELSE b.value.status
  IN  [b EXCEPT !.dirty = @ \/ st # b.value.status, !.value.status = st,
                !.value.text = utf8Prefix(redact(shown(b, st)), MaxText)]
nothingYet(b) == b.value.text = <<>> /\ b.revision = 0 /\ b.value.status = "provisional"
due(b) == b.dirty /\ ~nothingYet(b) /\ b.value # b.committed
checkpoint(b) ==
  [type |-> "output", turn |-> turn, key |-> b.key, value |-> b.value, revision |-> b.revision + 1]
settled(b) ==
  IF due(b) THEN [b EXCEPT !.dirty = FALSE, !.pending = 0, !.committed = b.value, !.revision = @ + 1]
  ELSE IF b.dirty /\ ~nothingYet(b) THEN [b EXCEPT !.dirty = FALSE, !.pending = 0] ELSE b

prepared(bs, terminal) == [i \in DOMAIN bs |-> prepare(bs[i], terminal)]
\* The checkpoints of a flush, one per due buffer in order.
flushed(bs, terminal) ==
  LET due_ == SelectSeq(prepared(bs, terminal), due) IN [i \in DOMAIN due_ |-> checkpoint(due_[i])]
\* The sink takes them one by one; the first error is sticky and cancels the model.  The row of
\* the failing write may or may not be durable.
flushLocked(bs, terminal, ok) ==
  LET out == flushed(bs, terminal) IN
  \/ ok /\ outputLog' = outputLog \o out /\ failed' = failed
     /\ items' = [i \in DOMAIN bs |-> settled(prepare(bs[i], terminal))]
  \/ ~ok /\ \E n \in 0..Len(out) : out # <<>> /\ outputLog' = outputLog \o SubSeq(out, 1, n)
     /\ failed' = TRUE /\ items' = prepared(bs, terminal)

\* acceptLocked: the slot of a delta, made when there is none; a full recorder drops the oldest
\* slot that is not the answer.
Slot(key) == [key |-> key, raw |-> <<>>, dirty |-> FALSE, pending |-> 0, revision |-> 0,
              committed |-> Empty, value |-> [Empty EXCEPT !.status = "provisional"]]
has(key) == \E i \in DOMAIN items : items[i].key = key
roomFor(key) ==
  IF has(key) THEN items
  ELSE Append(IF Len(items) < MaxEntries THEN items
              ELSE RemoveAt(items, IF items[1].key = 0 THEN 2 ELSE 1), Slot(key))
\* Another call or attempt never continues this one's text.
ownText(key, of) ==
  LET bs == roomFor(key)
      b == bs[CHOOSE j \in DOMAIN bs : bs[j].key = key]
  IN  IF b.value.call = of.call /\ b.value.attempt = of.attempt THEN b.raw ELSE <<>>

\* Writes one buffer and flushes everything at a boundary: the first text of the slot, a reset,
\* a terminal status, or Threshold pending pieces.
accept(key, of, raw, status, bytes) ==
  LET bs == roomFor(key)
      i == CHOOSE j \in DOMAIN bs : bs[j].key = key
      b == [bs[i] EXCEPT !.raw = raw, !.dirty = TRUE, !.pending = @ + bytes,
                         !.value.call = of.call, !.value.attempt = of.attempt, !.value.status = status]
      new == [bs EXCEPT ![i] = b]
  IN  IF status # "provisional" \/ b.revision = 0 \/ b.pending >= Threshold
      THEN \E ok \in BOOLEAN : flushLocked(new, "", ok)
      ELSE items' = new /\ UNCHANGED <<outputLog, failed>>

modelRuns == outputRun = "running" /\ engine = "model" /\ ~failed /\ outcome = ""
streams == modelRuns /\ speech.ended = ""
this == [call |-> call, attempt |-> attempt]
lasting == <<outputRun, turn, engine, outcome, adapter>>
recorded == <<items, failed, outputLog>>

\* The next piece of the model's text.
grows(p) == Len(said) < MaxPieces /\ said' = Append(said, p) /\ (p = "b" <=> said # <<>> /\ Last(said) = "a")
\* An answer delta; the raw text of plain deltas is capped a little above the display limit.
Delta(p) ==
  /\ streams /\ ~speech.tools /\ Len(outputLog) < MaxLog /\ grows(p) /\ speech' = [speech EXCEPT !.emitted = TRUE]
  /\ LET raw == IF adapter = "display" THEN sanitizedDisplayPrefix(said')
                ELSE utf8Prefix(Append(ownText(0, this), p), MaxText + 1)
     IN  accept(0, this, raw, "provisional", 1)
  /\ UNCHANGED <<lasting, call, attempt>>
\* The first fragment of a Tool call retracts the answer deltas of the attempt; text after it is only kept.
ToolCall ==
  /\ streams /\ adapter = "display" /\ ~speech.tools
  /\ speech' = [speech EXCEPT !.tools = TRUE, !.retracted = said # <<>>]
  /\ IF said # <<>> THEN accept(0, this, <<>>, "retracted", 0) ELSE UNCHANGED recorded
  /\ UNCHANGED <<lasting, call, attempt, said>>
Commentary(p) == streams /\ speech.tools /\ grows(p) /\ UNCHANGED <<lasting, call, attempt, speech, recorded>>
\* A reasoning replacement of the current call: that it is being received, then its text.
Reasoning ==
  /\ streams /\ adapter = "display" /\ Len(outputLog) < MaxLog
  /\ speech' = [speech EXCEPT !.thinking = TRUE, !.emitted = TRUE]
  /\ accept(call, this, IF speech.thinking THEN <<"w">> ELSE ownText(call, this), "provisional", 1)
  /\ UNCHANGED <<lasting, call, attempt, said>>

\* The attempt is over.  Unless it was retracted, its text is sent once more: the whole copy of a successful attempt,
\* the closed words of a failed one; text that only followed a Tool call is sent as well.
AttemptEnds ==
  /\ streams /\ adapter = "display"
  /\ \E o \in {"ok", "failed"} : speech' = [speech EXCEPT !.ended = o] /\ (o = "ok" => speech.tools \/ said # <<>>)
  /\ LET raw == IF speech'.ended = "ok" THEN sanitizedDisplayText(said) ELSE sanitizedDisplayPrefix(said)
     IN  IF said = <<>> \/ speech.retracted THEN UNCHANGED recorded ELSE accept(0, this, raw, "provisional", 0)
  /\ UNCHANGED <<lasting, call, attempt, said>>
\* Then its reasoning is complete or interrupted.
ReasoningEnds ==
  /\ modelRuns /\ speech.ended # "" /\ speech.thinking /\ speech' = [speech EXCEPT !.thinking = FALSE]
  /\ IF speech.ended = "ok" THEN accept(call, this, <<"w">>, "final", 0)
     ELSE accept(call, this, ownText(call, this), "interrupted", 0)
  /\ UNCHANGED <<lasting, call, attempt, said>>
over(o) == modelRuns /\ speech.ended = o /\ ~speech.thinking
\* An answer is not accepted when steering has come in: it is retracted by a reset that names no call.
Steered ==
  /\ over("ok") /\ ~speech.tools /\ ~speech.retracted /\ call + 1 \in Calls /\ speech' = [speech EXCEPT !.retracted = TRUE]
  /\ accept(0, [call |-> 0, attempt |-> 0], <<>>, "retracted", 0)
  /\ UNCHANGED <<lasting, call, attempt, said>>
\* The next model call of the Turn, after a Tool round or with the steering.
NextCall ==
  /\ over("ok") /\ (speech.tools \/ speech.retracted)
  /\ call + 1 \in Calls /\ call' = call + 1 /\ attempt' = 1 /\ said' = <<>> /\ speech' = NewStream
  /\ UNCHANGED <<lasting, recorded>>
\* An attempt that failed before anything was shown is retried.
NextAttempt ==
  /\ over("failed") /\ ~speech.emitted
  /\ attempt + 1 \in Attempts /\ attempt' = attempt + 1 /\ said' = <<>> /\ speech' = NewStream
  /\ UNCHANGED <<lasting, call, recorded>>

\* The recorder's ticker.
Tick ==
  /\ engine # "done" /\ ~failed /\ outputRun = "running"
  /\ \E ok \in BOOLEAN : flushLocked(items, "", ok)
  /\ UNCHANGED <<lasting, call, attempt, said, speech>>

----------------------------------------------------------------------------
\* Engine.Execute: the model has answered, or it was canceled or failed at any moment, when what its adapter has
\* last sent may be lost; then the flush, the Turn's terminal event, and Close.
ModelEnds ==
  /\ modelRuns
  /\ \/ outcome' = "final" /\ (adapter = "local" \/ (over("ok") /\ ~speech.tools /\ ~speech.retracted))
     \/ outcome' = "interrupted"
  /\ UNCHANGED <<outputRun, turn, engine, adapter, call, attempt, said, speech, recorded>>
Flush ==
  /\ outputRun = "running" /\ engine = "model" /\ outcome # "" /\ ~failed
  /\ \E ok \in BOOLEAN : flushLocked(items, outcome, ok)
  /\ engine' = "flushed" /\ UNCHANGED <<outputRun, turn, outcome, adapter, call, attempt, said, speech>>
EndTurn ==
  /\ outputRun = "running" /\ engine = "flushed" /\ ~failed
  /\ outputLog' = Append(outputLog, [type |-> "turn_ended", turn |-> turn, key |-> 0, value |-> [Empty EXCEPT !.status = outcome], revision |-> 0])
  /\ engine' = "ended"
  /\ UNCHANGED <<outputRun, turn, outcome, adapter, call, attempt, said, speech, items, failed>>
\* Close flushes what is left, which is nothing unless Flush was not reached; its error is not looked at.
Close ==
  /\ outputRun = "running" /\ engine = "ended"
  /\ \E ok \in BOOLEAN : flushLocked(items, "interrupted", ok)
  /\ engine' = "done" /\ outputRun' = IF outcome = "final" THEN "completed" ELSE "failed_recoverable"
  /\ UNCHANGED <<turn, outcome, adapter, call, attempt, said, speech>>
\* A checkpoint write failed: the Turn returns the error and the Run fails without a terminal
\* Turn event of its own.
Abort ==
  /\ outputRun = "running" /\ failed /\ engine # "done" /\ engine' = "done" /\ outputRun' = "failed_recoverable"
  /\ UNCHANGED <<turn, outcome, adapter, call, attempt, said, speech, recorded>>

\* The process dies; the Run is repaired to failed_recoverable.
Crash ==
  /\ outputRun = "running" /\ outputRun' = "failed_recoverable" /\ engine' = "done"
  /\ UNCHANGED <<turn, outcome, adapter, call, attempt, said, speech, recorded>>
\* Resume continues the Run in a new Turn with a recorder of its own.
Resume ==
  /\ outputRun = "failed_recoverable" /\ turn < MaxTurns /\ turn' = turn + 1 /\ outputRun' = "running"
  /\ engine' = "model" /\ outcome' = "" /\ call' = 1 /\ attempt' = 1 /\ said' = <<>> /\ speech' = NewStream
  /\ items' = <<>> /\ failed' = FALSE /\ UNCHANGED adapter
  /\ outputLog' = Append(outputLog, [type |-> "resumed", turn |-> turn', key |-> 0, value |-> Empty, revision |-> 0])

OutputNext ==
  \/ \E p \in {"w", "a", "b"} : Delta(p) \/ Commentary(p)
  \/ ToolCall \/ Reasoning \/ AttemptEnds \/ ReasoningEnds \/ Steered \/ NextCall \/ NextAttempt \/ Tick
  \/ ModelEnds \/ Flush \/ EndTurn \/ Close \/ Abort \/ Crash \/ Resume
OutputSpec == OutputInit /\ [][OutputNext]_outputVars

----------------------------------------------------------------------------
\* buildPartialOutputs: the newest checkpoint of each slot, in order of sequence.
outputs == {n \in DOMAIN outputLog : outputLog[n].type = "output"}
newest(n) == ~\E k \in outputs : k > n /\ outputLog[k].turn = outputLog[n].turn /\ outputLog[k].key = outputLog[n].key
projectedStatus(n) ==
  IF \/ outputRun = "failed_recoverable"
     \/ outputLog[n].value.status = "provisional" /\ \E k \in DOMAIN outputLog : k > n /\ outputLog[k].type = "resumed"
  THEN "interrupted" ELSE outputLog[n].value.status
visible == {n \in outputs : newest(n) /\ outputLog[n].value.status # "retracted" /\ outputLog[n].value.text # <<>>}
buildPartialOutputs ==
  IF outputRun = "completed" THEN {}
  ELSE {n \in visible : Cardinality({k \in visible : k > n}) < MaxEntries}

-----------------------------------------------------------------------------
(* Properties *)

last(key) == CHOOSE n \in 0..Len(outputLog) :
  /\ n > 0 => n \in outputs /\ outputLog[n].turn = turn /\ outputLog[n].key = key
  /\ \A k \in (n + 1)..Len(outputLog) : ~(k \in outputs /\ outputLog[k].turn = turn /\ outputLog[k].key = key)

\* The durable answer is a prefix of what its own call and attempt has said: no attempt continues another's text;
\* and an answer that was retracted, by a Tool call or by steering, does not reappear, whatever is sent or flushed
\* before the next call speaks ("New calls and attempts never append to another call's answer", "old commentary cannot
\* reappear").
AnswerIsItsOwn ==
  last(0) > 0 /\ ~failed =>
    LET v == outputLog[last(0)].value IN
    /\ v.call = call /\ v.attempt = attempt =>
         Len(v.text) <= Len(said) /\ \A i \in DOMAIN v.text : v.text[i] \in {said[i], "R"}
    /\ speech.retracted => v.status = "retracted" /\ v.text = <<>>

\* No durable answer of an attempt that is still speaking, or that failed, ends inside a credential ("Redact a whole
\* bounded display prefix, not each fragment independently").
CredentialsStayWhole ==
  last(0) > 0 /\ speech.ended # "ok" =>
    LET v == outputLog[last(0)].value IN
    v.call = call /\ v.attempt = attempt /\ v.status = "provisional" /\ v.text # <<>> => v.text[Len(v.text)] # "a"

\* When the Turn's terminal event is durable, so is all it said: the newest checkpoint of every
\* slot has a terminal status, and an accepted answer is whole up to the display limit.
EndedTurnIsDurable ==
  (\E n \in DOMAIN outputLog : outputLog[n].type = "turn_ended" /\ outputLog[n].turn = turn) =>
    /\ \A n \in outputs : outputLog[n].turn = turn /\ newest(n) /\ has(outputLog[n].key) => outputLog[n].value.status # "provisional"
    /\ (said # <<>> /\ (adapter = "display" => outcome = "final")) =>
         /\ last(0) > 0
         /\ Len(outputLog[last(0)].value.text) = (IF Len(said) < MaxText THEN Len(said) ELSE MaxText)

\* The text of an earlier Turn is never shown as active ("Pre-Resume provisional text stays
\* interrupted, never reappears as an active attempt").
NoActiveGhost == \A n \in buildPartialOutputs : projectedStatus(n) = "provisional" => outputLog[n].turn = turn

\* Safe text does not wait for ever: while the Turn runs, closed words become durable.
SafeTextCommits ==
  (modelRuns /\ ~speech.tools /\ safePrefix(said) # <<>>) ~>
    (~modelRuns \/ said = <<>> \/ speech.tools \/ speech.retracted \/
     (last(0) > 0 /\ Len(outputLog[last(0)].value.text) >=
        (IF Len(safePrefix(said)) < MaxText THEN Len(safePrefix(said)) ELSE MaxText)))

\* Partial output that is durable is its own attempt's, whole and never a ghost: the first
\* four parts above.
OutputSafe == AnswerIsItsOwn /\ CredentialsStayWhole /\ EndedTurnIsDurable /\ NoActiveGhost
=============================================================================
