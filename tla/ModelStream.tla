----------------------------- MODULE ModelStream -----------------------------
(***************************************************************************)
(* One logical model call of the OpenAI-compatible adapter: its budget       *)
(* reservation, the retry policy, the physical attempts with their durable   *)
(* request records, request permits and outcome events, the assembly of a    *)
(* streamed answer or of streamed Tool calls, what the consumer of the       *)
(* stream sees meanwhile, and the settlement.  Text is counted in pieces.    *)
(***************************************************************************)
EXTENDS Naturals, Sequences, FiniteSets

CONSTANTS Kinds,        \* the operations: answer, tools, completion, embedding
          Payloads,     \* what a request holds: plain, secret, large
          CaptureMode,  \* MODEL_REQUEST_CAPTURE_MODE
          MaxTries,  \* RetryPolicy.MaxAttempts
          MaxPieces,    \* maxChoiceStreamBytes, in pieces
          Chunks        \* what the provider may put into one stream event

\* What finish_reason may say; an event holds at most one piece of text.
FinishReasons == {"missing", "stop", "tool_calls", "length", "content_filter", "other"}
PartialCall == [index : Nat, id : STRING, whole : BOOLEAN]
ASSUME StreamAssumption ==
  /\ Kinds \subseteq {"answer", "tools", "completion", "embedding"}
  /\ Chunks \subseteq [choices : Nat, text : {0, 1}, reasoning : Nat, call : Seq(PartialCall),
                      finish : FinishReasons, refusal : BOOLEAN]

VARIABLES phase,     \* idle, record, admit, open, stream, after, backoff, settle, finished
          call,      \* the logical call: kind, payload, stream_options.include_usage
          try,       \* attemptNumber of executeWithRetry
          records,   \* the Run's request records in attempt order, with their events
          permit,    \* request permits held
          acc, res,  \* streamedChoice and streamAttemptResult of the attempt
          sent,      \* what the consumer of the stream got
          err,       \* the attempt's error
          callCanceled,  \* the caller's context
          budget,    \* none, reserved, settled
          outcome    \* what the caller gets: "", ok, error
streamVars == <<phase, call, try, records, permit, acc, res, sent, err, callCanceled, budget, outcome>>

NoErr == [kind |-> "none", retryable |-> FALSE]
Empty == [text |-> 0, reasoning |-> 0, calls |-> <<>>, finish |-> "missing", refused |-> FALSE,
          retracted |-> FALSE, display |-> FALSE]
NoResult == [emitted |-> FALSE, answer |-> FALSE, terminal |-> FALSE, choice |-> <<>>, output |-> 0, finish |-> ""]
StreamInit ==
  /\ phase = "idle" /\ call = [kind |-> "none", payload |-> "plain", usage |-> TRUE] /\ try = 1
  /\ records = <<>> /\ permit = 0 /\ acc = Empty /\ res = NoResult /\ sent = <<>>
  /\ err = NoErr /\ callCanceled = FALSE /\ budget = "none" /\ outcome = ""

recorded == call.kind # "embedding"
streaming == call.kind \in {"answer", "tools"}
\* The durable number of the attempt in flight.
attempt == Len(records)

----------------------------------------------------------------------------
\* Errors.
modelError(kind, retryable) == [kind |-> kind, retryable |-> retryable]
invalidResponseError == modelError("invalid_response", TRUE)
withoutRetry(e) == [e EXCEPT !.retryable = FALSE]
\* classifyHTTPFailure, one status of each class.
classifyHTTPFailure == {modelError("rate_limited", TRUE), modelError("authentication", FALSE),
  modelError("stream_usage_unsupported", FALSE)}
ctxErr == modelError("canceled", FALSE)
\* A broken connection or an expired request timeout.
transport == modelError("transport", TRUE)

----------------------------------------------------------------------------
\* Request capture: what the record keeps of the payload, and whether that is the exact request.
capturePayload(p) ==
  IF CaptureMode = "metadata_only" \/ p = "large" THEN [content |-> "none", exact |-> FALSE]
  ELSE IF CaptureMode = "redacted" \/ p = "secret" THEN [content |-> "redacted", exact |-> FALSE]
  ELSE [content |-> p, exact |-> TRUE]
\* CreateModelRequestRecord: the next attempt number of the call.
CreateModelRequestRecord(prepared) ==
  Append(records, [prepared |-> prepared, sent |-> FALSE, outcome |-> "", terminal |-> FALSE,
                   capture |-> capturePayload(call.payload)])

\* Reading the records drops captures past their retention; the envelope stays.
ListModelRequestRecords ==
  /\ phase = "finished"
  /\ \E n \in DOMAIN records :
       /\ records[n].capture.content # "none"
       /\ records' = [records EXCEPT ![n].capture = [content |-> "none", exact |-> FALSE]]
  /\ UNCHANGED <<phase, call, try, permit, acc, res, sent, err, callCanceled, budget, outcome>>

\* The runtime invariant over the Run's records and events.
ValidateReconstructability ==
  \A n \in DOMAIN records : records[n].prepared /\ (records[n].capture.exact => records[n].capture.content = call.payload)

----------------------------------------------------------------------------
\* streamChat, complete, EmbedText: the reservation surrounds the whole retry loop.
Start(kind, payload) ==
  /\ phase = "idle"
  /\ call' = [kind |-> kind, payload |-> payload, usage |-> TRUE]
  /\ \/ phase' = (IF kind = "embedding" THEN "admit" ELSE "record")
        /\ budget' = (IF kind = "embedding" THEN "none" ELSE "reserved") /\ UNCHANGED outcome
     \/ kind # "embedding" /\ phase' = "finished" /\ outcome' = "error" /\ UNCHANGED budget
  /\ UNCHANGED <<try, records, permit, acc, res, sent, err, callCanceled>>

CancelCall ==
  /\ phase \notin {"idle", "finished"} /\ ~callCanceled /\ callCanceled' = TRUE
  /\ UNCHANGED <<phase, call, try, records, permit, acc, res, sent, err, budget, outcome>>

\* recordModelRequest and Recorder.Begin: the record, then its event; either write may fail, and
\* then the attempt ends before anything is sent.
Record ==
  /\ phase = "record"
  /\ acc' = Empty /\ res' = NoResult
  /\ \/ records' = CreateModelRequestRecord(TRUE) /\ phase' = "admit" /\ err' = NoErr
     \/ records' \in {records, CreateModelRequestRecord(FALSE)}
        /\ phase' = "after" /\ err' = withoutRetry(transport)
  /\ UNCHANGED <<call, try, permit, sent, callCanceled, budget, outcome>>

----------------------------------------------------------------------------
\* The deferred functions of an attempt, last first: the final copy of the answer, the reasoning
\* display, the body and with it the permit, the outcome event (whose write may fail).
note(kind) == [kind |-> kind, attempt |-> attempt]
outputDisplay(a) == IF a.retracted \/ a.text = 0 \/ callCanceled THEN <<>> ELSE <<note("output_display")>>
reasoningDisplay(a) == IF a.display THEN <<note("reasoning")>> ELSE <<>>
finishModelAttempt(e, r) ==
  IF ~recorded THEN UNCHANGED records
  ELSE \E ok \in BOOLEAN : records' = [records EXCEPT
    ![attempt].outcome = IF ok THEN (IF e = NoErr THEN "completed" ELSE "failed") ELSE @,
    ![attempt].terminal = r.terminal]
\* An attempt that already showed something is not retried.
\* Mutant: only an answer forbids the retry, not a visible reasoning state.
attemptErrorOfAnswer(e, r) == IF e # NoErr /\ r.answer THEN withoutRetry(e) ELSE e
attemptError(e, r) == IF e # NoErr /\ r.emitted THEN withoutRetry(e) ELSE e
endAttempt(e, r, a) ==
  /\ phase' = "after" /\ err' = attemptError(e, r) /\ res' = [r EXCEPT !.finish = a.finish] /\ acc' = Empty /\ permit' = 0
  /\ sent' = sent \o outputDisplay(a) \o reasoningDisplay(a)
  /\ finishModelAttempt(e, r)

\* doPathRequest and acquireRequestPermit: the permit, or a local refusal that is not retried.
doPathRequest ==
  /\ phase = "admit"
  /\ \/ ~callCanceled /\ permit' = permit + 1 /\ phase' = "open" /\ UNCHANGED <<records, acc, res, sent, err>>
     \/ \E e \in {modelError("model_admission_timeout", FALSE), modelError("request_token_capacity_exceeded", FALSE)}
                   \cup (IF callCanceled THEN {ctxErr} ELSE {}) : endAttempt(e, NoResult, Empty)
  /\ UNCHANGED <<call, try, callCanceled, budget, outcome>>

\* The HTTP exchange: it fails, is refused by status, or opens a body.
Open ==
  /\ phase = "open"
  /\ LET sentRecords == IF recorded THEN [records EXCEPT ![attempt].sent = TRUE] ELSE records IN
     \/ /\ phase' = "stream" /\ records' = sentRecords
        /\ UNCHANGED <<permit, acc, res, sent, err>>
     \/ \E e \in classifyHTTPFailure \cup {IF callCanceled THEN ctxErr ELSE transport} :
          (e.kind = "stream_usage_unsupported" => streaming /\ call.usage)
          /\ phase' = "after" /\ err' = e /\ permit' = 0 /\ acc' = Empty /\ res' = NoResult /\ UNCHANGED sent
          /\ \E ok \in BOOLEAN : records' = (IF recorded
                THEN [records EXCEPT ![attempt].sent = TRUE, ![attempt].outcome = IF ok THEN "failed" ELSE @]
                ELSE records)
  /\ UNCHANGED <<call, try, callCanceled, budget, outcome>>

----------------------------------------------------------------------------
\* The assembly.  A Tool call is known by its index; "part" still lacks an identity field.
pieces(a) == a.text + a.reasoning + Len(a.calls)
\* Content after the finish reason, a second finish reason, a second choice, an unrequested Tool.
protocolError(c) ==
  \/ c.choices > 1
  \/ acc.finish # "missing" /\ (c.text > 0 \/ c.reasoning > 0 \/ c.call # <<>> \/ c.refusal)
  \/ acc.finish # "missing" /\ c.finish # "missing"
  \/ call.kind = "answer" /\ c.call # <<>>
callOf(a, i) == {n \in DOMAIN a.calls : a.calls[n].index = i}
\* streamedChoice.add
addText(c) == [acc EXCEPT !.text = @ + c.text, !.reasoning = @ + c.reasoning, !.refused = @ \/ c.refusal,
                          !.finish = IF c.finish # "missing" THEN c.finish ELSE @]
addCall(d) ==
  IF callOf(acc, d.index) = {} THEN Append(acc.calls, d)
  ELSE [n \in DOMAIN acc.calls |->
          IF n \in callOf(acc, d.index) THEN [acc.calls[n] EXCEPT !.whole = @ \/ d.whole] ELSE acc.calls[n]]
add(c) == IF c.call = <<>> THEN addText(c) ELSE [addText(c) EXCEPT !.calls = addCall(c.call[1])]
\* Too large in aggregate (nothing is added), or a Tool call that changes its identity.
tooLarge(c) == pieces(acc) + c.text + c.reasoning + Len(c.call) > MaxPieces
identityChanged(c) == c.call # <<>> /\ \E n \in callOf(acc, c.call[1].index) : acc.calls[n].id # c.call[1].id
addError(c) == tooLarge(c) \/ identityChanged(c)
\* streamedChoice.finish: indexes contiguous from zero, every identity complete.
finish(a) == \A i \in 0..(Len(a.calls) - 1) :
  \E n \in DOMAIN a.calls : a.calls[n].index = i /\ a.calls[n].whole
\* generationOutcomeError, for an answer (has = FALSE) or Tool calls.
generationOutcomeError(label, has, refused) ==
  IF refused \/ label = "content_filter" THEN modelError("content_policy", FALSE)
  ELSE IF (label \in {"missing", "stop"} /\ ~has) \/ (label = "tool_calls" /\ has) THEN NoErr
  ELSE IF label = "length" THEN modelError("incomplete_output", FALSE)
  ELSE modelError("invalid_response", FALSE)

\* What one event sends: the visible reasoning state, then a retraction or a delta.
startsDisplay(c) == c.reasoning > 0 /\ ~acc.display
retracts(a) == a.calls # <<>> /\ res.answer /\ ~acc.retracted
speaks(c, a) == c.text > 0 /\ a.calls = <<>>
shows(c, a) ==
  (IF startsDisplay(c) THEN <<note("reasoning")>> ELSE <<>>)
  \o (IF retracts(a) THEN <<note("reset")>> ELSE <<>>)
  \o (IF speaks(c, a) THEN <<note("delta")>> ELSE <<>>)
received(c, a) == [a EXCEPT !.display = @ \/ startsDisplay(c), !.retracted = @ \/ retracts(a)]
resulted(c, a) == [res EXCEPT !.emitted = @ \/ startsDisplay(c) \/ speaks(c, a),
                              !.answer = @ \/ speaks(c, a)]

\* processEvent: one stream event.  A send races with the canceled context.
ReceiveEvent(c) ==
  /\ phase = "stream" /\ streaming
  /\ \/ protocolError(c) /\ endAttempt(invalidResponseError, res, acc)
     \/ ~protocolError(c) /\ addError(c)
        /\ endAttempt(invalidResponseError, res, IF tooLarge(c) THEN acc ELSE add([c EXCEPT !.call = <<>>]))
     \/ /\ ~protocolError(c) /\ ~addError(c)
        /\ LET a == add(c) IN
           \/ /\ acc' = received(c, a) /\ res' = resulted(c, a) /\ sent' = sent \o shows(c, a)
              /\ UNCHANGED <<phase, permit, err, records>>
           \/ callCanceled /\ shows(c, a) # <<>> /\ endAttempt(ctxErr, res, a)
  /\ UNCHANGED <<call, try, callCanceled, budget, outcome>>

\* processEvent: [DONE].  The result is terminal whatever the outcome of the generation.
doneError ==
  LET e == generationOutcomeError(acc.finish, acc.calls # <<>>, acc.refused) IN
  IF acc.finish = "missing" /\ acc.display THEN invalidResponseError
  ELSE IF e # NoErr THEN e
  ELSE IF ~finish(acc) \/ (acc.calls = <<>> /\ acc.text = 0) THEN invalidResponseError
  ELSE NoErr
Done ==
  /\ phase = "stream" /\ streaming
  /\ \/ callCanceled /\ endAttempt(ctxErr, res, acc)
     \/ ~callCanceled /\ endAttempt(doneError,
          [res EXCEPT !.terminal = TRUE, !.output = acc.text,
                      !.choice = IF doneError = NoErr THEN acc.calls ELSE <<>>], acc)
  /\ UNCHANGED <<call, try, callCanceled, budget, outcome>>

\* The stream breaks, ends without [DONE], or runs into the request timeout.
Broken ==
  /\ phase = "stream"
  /\ endAttempt(IF callCanceled THEN ctxErr ELSE invalidResponseError, res, acc)
  /\ UNCHANGED <<call, try, callCanceled, budget, outcome>>

\* completeAttempt and EmbedText: one decoded body; its choices are what settles the call.
Decode(label, has, text) ==
  /\ phase = "stream" /\ ~streaming
  /\ LET e == IF text = 0 /\ ~has THEN invalidResponseError
              ELSE IF call.kind = "completion" THEN generationOutcomeError(label, has, FALSE) ELSE NoErr
     IN  endAttempt(e, [NoResult EXCEPT !.terminal = text > 0 \/ has, !.output = text], Empty)
  /\ UNCHANGED <<call, try, callCanceled, budget, outcome>>

----------------------------------------------------------------------------
\* executeWithRetry: a canceled context ends the loop, then what is not retryable, then the bound.
isStreamUsageUnsupported == err.kind = "stream_usage_unsupported"
retries == err # NoErr /\ err.retryable /\ try < MaxTries /\ ~callCanceled
executeWithRetry ==
  /\ phase = "after"
  /\ \/ retries /\ phase' = "backoff" /\ UNCHANGED <<call, try>>
     \* the capability fallback runs a second loop without the usage option
     \/ /\ ~retries /\ streaming /\ ~res.emitted /\ isStreamUsageUnsupported /\ ~callCanceled
        /\ call' = [call EXCEPT !.usage = FALSE] /\ try' = 1 /\ phase' = "record"
     \/ /\ ~retries /\ ~(streaming /\ ~res.emitted /\ isStreamUsageUnsupported /\ ~callCanceled)
        /\ phase' = "settle" /\ UNCHANGED <<call, try>>
  /\ err' = IF callCanceled /\ err # NoErr THEN ctxErr ELSE err
  /\ UNCHANGED <<records, permit, acc, res, sent, callCanceled, budget, outcome>>

waitForRetry ==
  /\ phase = "backoff"
  /\ \/ phase' = (IF recorded THEN "record" ELSE "admit") /\ try' = try + 1 /\ UNCHANGED err
     \/ callCanceled /\ phase' = "settle" /\ err' = ctxErr /\ UNCHANGED try
  /\ UNCHANGED <<call, records, permit, acc, res, sent, callCanceled, budget, outcome>>

\* settleBudgetedModelCall: a terminal result settles, with or without an error of its own.
settles == res.terminal
SettleCall ==
  /\ phase = "settle" /\ phase' = "finished"
  /\ \/ ~(settles /\ recorded) /\ outcome' = (IF err = NoErr THEN "ok" ELSE "error") /\ UNCHANGED budget
     \/ settles /\ recorded /\ budget' = "settled" /\ outcome' = (IF err = NoErr THEN "ok" ELSE "error")
     \/ settles /\ recorded /\ outcome' = "error" /\ UNCHANGED budget
  /\ UNCHANGED <<call, try, records, permit, acc, res, sent, err, callCanceled>>

\* The steps of the call itself; CancelCall is the caller's.
Step ==
  \/ \E kind \in Kinds, payload \in Payloads : Start(kind, payload)
  \/ Record \/ doPathRequest \/ Open
  \/ \E c \in Chunks : ReceiveEvent(c)
  \/ Done \/ Broken
  \/ \E label \in {"stop", "tool_calls", "length"}, has \in BOOLEAN, text \in {0, 1} : Decode(label, has, text)
  \/ executeWithRetry \/ waitForRetry \/ SettleCall
StreamNext == Step \/ CancelCall \/ ListModelRequestRecords
StreamSpec == StreamInit /\ [][StreamNext]_streamVars

-----------------------------------------------------------------------------
(* Properties *)

visible(k) == k \in {"delta", "reset", "reasoning"}

\* Everything the consumer saw belongs to one physical attempt: output that became visible is
\* never followed by a transparent retry ("Once a visible delta has been sent, the adapter does
\* not automatically retry a failed stream").
OneVisibleAttempt ==
  \A i, j \in DOMAIN sent : visible(sent[i].kind) /\ visible(sent[j].kind) => sent[i].attempt = sent[j].attempt

\* The draft of a consumer that appends deltas and clears on a reset (runtimeTurnModel).
draftOf(s) == Cardinality({i \in DOMAIN s : s[i].kind = "delta" /\ \A j \in i..Len(s) : s[j].kind # "reset"})
draft == draftOf(sent)

\* A call that succeeded left exactly its answer in the draft, and nothing when it chose Tools
\* ("intermediate commentary must not survive into the final answer").
DraftIsTheAnswer ==
  phase = "finished" /\ outcome = "ok" /\ streaming => draft = (IF res.choice = <<>> THEN res.output ELSE 0)

\* Tool calls are handed on only from a stream that ended with [DONE] and the tool_calls reason,
\* each with its whole identity and all in order ("No partial arguments execute, and missing
\* identity is rejected rather than synthesized").
CallsAreConfirmed ==
  res.choice # <<>> => /\ res.terminal /\ res.finish = "tool_calls" /\ err = NoErr
                       /\ \A i \in 0..(Len(res.choice) - 1) :
                            \E n \in DOMAIN res.choice : res.choice[n].index = i /\ res.choice[n].whole

\* Between attempts and at the end no permit is held, every earlier attempt failed, and every
\* attempt whose outcome was written tells how the call went on.
AttemptsAreClosed ==
  phase \in {"record", "after", "backoff", "settle", "finished"} =>
    /\ permit = 0
    /\ \A n \in DOMAIN records : records[n].outcome = "completed" =>
         n = Len(records) /\ err = NoErr /\ phase \in {"after", "settle", "finished"}

\* Nothing is sent to the provider that has no durable record and event ("A run-scoped
\* persistence failure fails closed"), and the Run's reconstructability fails only through the
\* one write that failed.
SentIsRecorded ==
  /\ \A n \in DOMAIN records : records[n].sent => records[n].prepared
  /\ ~ValidateReconstructability => \E n \in DOMAIN records : ~records[n].prepared /\ n = Len(records) /\ ~err.retryable

\* A detected credential is in no stored capture, whatever the configured mode.
CaptureHoldsNoSecret == \A n \in DOMAIN records : records[n].capture.content # "secret"

\* The reservation is settled by a terminal last attempt and by nothing else ("only the final
\* terminal result settles it ... an incomplete stream leaves the reservation open").
SettledByTerminal ==
  /\ budget = "settled" => records # <<>> /\ records[Len(records)].terminal
  /\ phase = "finished" /\ outcome = "ok" /\ recorded => budget = "settled"

\* bounded-tool-loop.md: commentary in a Tool round "is kept for provider continuation, not
\* appended to the answer": a round that handed on Tool calls leaves no answer display behind.
ToolRoundShowsNoAnswer ==
  res.choice # <<>> => ~\E i \in DOMAIN sent : sent[i].kind = "output_display"

\* A call is one answer however its attempts fail: visible output, Tool calls, records,
\* captures and the reservation are those of one attempt.  All parts above but the last.
ModelCallSafe ==
  /\ OneVisibleAttempt /\ DraftIsTheAnswer /\ CallsAreConfirmed /\ AttemptsAreClosed
  /\ SentIsRecorded /\ CaptureHoldsNoSecret /\ SettledByTerminal
=============================================================================
