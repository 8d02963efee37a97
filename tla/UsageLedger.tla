----------------------------- MODULE UsageLedger -----------------------------
(***************************************************************************)
(* The Run Budget.  A logical model call reserves its estimate in the       *)
(* durable usage ledger, is tried against the provider a bounded number of  *)
(* times under that one reservation and settles whatever the provider       *)
(* reports, which may exceed the estimate and the output cap; a tool        *)
(* execution is charged before its handler runs.  ApplyRunUsage checks the  *)
(* frozen limits and appends in one transaction, under an advisory lock per *)
(* Run; calls of one Run overlap (workers, router, compaction), fail, and   *)
(* leave their reservation open.  The active runtime is checked before.     *)
(***************************************************************************)
EXTENDS Integers, Sequences, FiniteSetsExt, SequencesExt

CONSTANTS Calls, Tools,       \* operation ids of model calls and of tool executions
          Estimates,          \* prompt tokens a call may estimate
          MaxModelCalls, MaxToolCalls, MaxPromptTokens, MaxCompletionTokens, MaxTotalTokens,
          MaxEstimatedCost,   \* the limits; 0 disables one
          MaxRuntime,         \* the active runtime in ticks of the clock; 0 disables it
          Reports,            \* what a provider may report, with the total and the cached prompt
          InputRate, OutputRate, CachedRate,  \* prices per Million tokens
          Million, MaxInt64,  \* scaled down: the unit of the prices, the largest cost
          MaxAttempts         \* physical attempts of one logical call

ASSUME PricesAssumption ==
  /\ Estimates \subseteq Nat /\ MaxAttempts \in Nat
  /\ {MaxModelCalls, MaxToolCalls, MaxPromptTokens, MaxCompletionTokens, MaxTotalTokens, MaxEstimatedCost} \subseteq Nat
  /\ MaxRuntime \in Nat /\ Reports \subseteq [prompt : Nat, completion : Nat, total : Nat, cached : Nat]
  /\ \A u \in Reports : u.cached <= u.prompt
  /\ {InputRate, OutputRate, CachedRate, Million, MaxInt64} \subseteq Nat
  /\ Million > 0 /\ MaxEstimatedCost < MaxInt64

VARIABLES ledgerEntries,    \* the rows of run_usage_entries, in insertion order
          ledgerPc,         \* idle, refused, calling, answered, settled or abandoned
          estimate,   \* the reserved prompt tokens of a call
          allowance,  \* its MaxCompletionTokens; 0 means unlimited
          attempts,   \* physical attempts begun
          usage,      \* what the provider reported
          runtime,    \* the ticks the Run has been running
          executed,   \* tool executions that were admitted
          overlapped  \* whether two calls were ever open together
ledgerVars == <<ledgerEntries, ledgerPc, estimate, allowance, attempts, usage, runtime, executed, overlapped>>

NoUsage == [prompt |-> 0, completion |-> 0, total |-> 0, cached |-> 0]

LedgerInit ==
  /\ ledgerEntries = <<>> /\ ledgerPc = [c \in Calls |-> "idle"]
  /\ estimate = [c \in Calls |-> 0] /\ allowance = [c \in Calls |-> 0]
  /\ attempts = [c \in Calls |-> 0] /\ usage = [c \in Calls |-> NoUsage]
  /\ runtime = 0 /\ executed = {} /\ overlapped = FALSE

----------------------------------------------------------------------------

addCost(left, right) == IF right > MaxInt64 - left THEN MaxInt64 ELSE left + right

tokenCostMicros(tokens, perMillion) ==
  IF tokens <= 0 \/ perMillion <= 0 THEN 0
  ELSE Min({MaxInt64, (tokens * perMillion + Million - 1) \div Million})

\* cached is 0 for an estimate and for usage without a valid breakdown.
usageCost(prompt, completion, cached) ==
  addCost(addCost(tokenCostMicros(prompt - cached, InputRate), tokenCostMicros(completion, OutputRate)),
          tokenCostMicros(cached, CachedRate))

\* A total below prompt and completion, or none, is their sum.
modelEntry(kind, c, prompt, completion, total, cost) ==
  [kind |-> kind, op |-> c, modelCalls |-> 1, toolCalls |-> 0, prompt |-> prompt,
   completion |-> completion, total |-> Max({total, prompt + completion}), cost |-> cost]

toolEntry(t) ==
  [kind |-> "tool", op |-> t, modelCalls |-> 0, toolCalls |-> 1, prompt |-> 0,
   completion |-> 0, total |-> 0, cost |-> 0]

recorded(kind, op) == {i \in DOMAIN ledgerEntries : ledgerEntries[i].kind = kind /\ ledgerEntries[i].op = op}

\* BuildLedger counts a settled call at its settlement and an open one at its reservation.
counting(log) ==
  {i \in DOMAIN log :
     \/ log[i].kind = "tool"
     \/ log[i].kind = "settlement" /\ \E j \in DOMAIN log : log[j].kind = "reservation" /\ log[j].op = log[i].op
     \/ log[i].kind = "reservation"
          /\ ~\E j \in DOMAIN log : log[j].kind = "settlement" /\ log[j].op = log[i].op}

sum(log, resource) == MapThenSumSet(LAMBDA i : log[i][resource], counting(log))

costOf(log) ==
  MapThenFoldSet(addCost, 0, LAMBDA i : log[i].cost, LAMBDA S : CHOOSE i \in S : TRUE, counting(log))

BuildLedger(log) ==
  [modelCalls |-> sum(log, "modelCalls"), toolCalls |-> sum(log, "toolCalls"),
   prompt |-> sum(log, "prompt"), completion |-> sum(log, "completion"), total |-> sum(log, "total"), cost |-> costOf(log)]

limits ==
  [modelCalls |-> MaxModelCalls, toolCalls |-> MaxToolCalls, prompt |-> MaxPromptTokens,
   completion |-> MaxCompletionTokens, total |-> MaxTotalTokens, cost |-> MaxEstimatedCost]

over(used, request, limit) == limit > 0 /\ (used > limit \/ request > limit - used)

Check(current, requested) == \A r \in DOMAIN limits : ~over(current[r], requested[r], limits[r])

\* What the limits leave for the completion of the reservation; 0 is unlimited.
maxCompletionTokens(totals, reservation) ==
  LET tokens ==
        {x \in {MaxCompletionTokens - (totals.completion - reservation.completion)} : MaxCompletionTokens > 0}
        \cup {x \in {MaxTotalTokens - (totals.total - reservation.total) - reservation.prompt} : MaxTotalTokens > 0}
        \cup {x \in {(Max({0, MaxEstimatedCost - addCost(totals.cost - reservation.cost,
                                tokenCostMicros(reservation.prompt, InputRate))}) * Million)
                     \div (IF OutputRate > 0 THEN OutputRate ELSE 1)} :
                MaxEstimatedCost > 0 /\ OutputRate > 0}
  IN IF tokens = {} THEN 0 ELSE Max({1, Min(tokens)})

\* Mutant: the lookup of an earlier entry of the operation is missing.
ApplyRunUsageBlind(entry) == ledgerEntries' = Append(ledgerEntries, entry)

\* The transaction once its checks passed: a row, unless the operation has it.
ApplyRunUsage(entry) ==
  ledgerEntries' = IF recorded(entry.kind, entry.op) = {} THEN Append(ledgerEntries, entry) ELSE ledgerEntries

admitted(entry) ==
  \/ recorded(entry.kind, entry.op) # {}
  \/ Check(BuildLedger(ledgerEntries), [f \in DOMAIN limits |-> entry[f]])

----------------------------------------------------------------------------
open == {c \in Calls : ledgerPc[c] \in {"calling", "answered"}}

\* The Run keeps running; a paused or stopped one does not use its runtime.
RuntimePasses ==
  /\ runtime < MaxRuntime /\ runtime' = runtime + 1
  /\ UNCHANGED <<ledgerEntries, ledgerPc, estimate, allowance, attempts, usage, executed, overlapped>>
CheckRuntime == MaxRuntime = 0 \/ runtime < MaxRuntime

\* The reservation commits; the answer of the transaction may still be lost, and
\* then the call is not made although its reservation is open.
BeginModelCall(c) ==
  /\ ledgerPc[c] = "idle"
  /\ \E p \in Estimates :
       LET entry == modelEntry("reservation", c, p, 1, p + 1, usageCost(p, 1, 0)) IN
       \/ /\ CheckRuntime /\ admitted(entry) /\ ApplyRunUsage(entry)
          /\ estimate' = [estimate EXCEPT ![c] = p]
          /\ allowance' = [allowance EXCEPT ![c] = maxCompletionTokens(BuildLedger(ledgerEntries'), entry)]
          /\ \E l \in {"calling", "abandoned"} : ledgerPc' = [ledgerPc EXCEPT ![c] = l]
       \/ /\ ~CheckRuntime \/ ~admitted(entry)
          /\ ledgerPc' = [ledgerPc EXCEPT ![c] = "refused"]
          /\ UNCHANGED <<ledgerEntries, estimate, allowance>>
  /\ overlapped' = (overlapped \/ open # {} \/ \E d \in Calls : ledgerPc[d] = "abandoned")
  /\ UNCHANGED <<attempts, usage, runtime, executed>>

\* A physical attempt: answered with usage, or lost, to be tried again or given up.  A
\* provider may count the prompt differently and ignore the output cap.
Attempt(c) ==
  /\ ledgerPc[c] = "calling" /\ attempts[c] < MaxAttempts
  /\ attempts' = [attempts EXCEPT ![c] = @ + 1]
  /\ \/ /\ ledgerPc' = [ledgerPc EXCEPT ![c] = "answered"]
        /\ \E u \in Reports : usage' = [usage EXCEPT ![c] = u]
     \/ /\ UNCHANGED usage
        /\ \E l \in {"abandoned"} \cup (IF attempts[c] + 1 < MaxAttempts THEN {"calling"} ELSE {}) :
             ledgerPc' = [ledgerPc EXCEPT ![c] = l]
  /\ UNCHANGED <<ledgerEntries, estimate, allowance, runtime, executed, overlapped>>

\* The settlement is recorded even when it overruns a limit; the error comes after.
SettleModelCall(c) ==
  /\ ledgerPc[c] = "answered" /\ recorded("reservation", c) # {}
  /\ ApplyRunUsage(modelEntry("settlement", c, usage[c].prompt, usage[c].completion, usage[c].total,
                     usageCost(usage[c].prompt, usage[c].completion, usage[c].cached)))
  /\ ledgerPc' = [ledgerPc EXCEPT ![c] = "settled"]
  /\ UNCHANGED <<estimate, allowance, attempts, usage, runtime, executed, overlapped>>

\* A resumed Run records the same tool operation again.
RecordToolCall(t) ==
  /\ CheckRuntime
  /\ admitted(toolEntry(t)) /\ ApplyRunUsage(toolEntry(t)) /\ executed' = executed \cup {t}
  /\ UNCHANGED <<ledgerPc, estimate, allowance, attempts, usage, runtime, overlapped>>

LedgerNext ==
  \/ \E c \in Calls : BeginModelCall(c) \/ Attempt(c) \/ SettleModelCall(c)
  \/ \E t \in Tools : RecordToolCall(t)
  \/ RuntimePasses

LedgerSpec == LedgerInit /\ [][LedgerNext]_ledgerVars

CheckRuntimeInvariants(log) ==
  {i \in DOMAIN log :
     \/ \E j \in 1..(i - 1) : log[j].kind = log[i].kind /\ log[j].op = log[i].op
     \/ log[i].kind = "settlement"
          /\ ~\E j \in DOMAIN log : log[j].kind = "reservation" /\ log[j].op = log[i].op}

----------------------------------------------------------------------------
totals == BuildLedger(ledgerEntries)
exceeded(used) == \E r \in DOMAIN limits : limits[r] > 0 /\ used[r] > limits[r]

\* The integrity check of a Replay finds nothing, whatever is retried or recorded
\* twice: one entry of a kind per operation, no settlement without reservation.
EachOperationCountedOnce == CheckRuntimeInvariants(ledgerEntries) = {}

\* The calls that reach the provider and the tool executions that reach a handler
\* stay within the limits, however the reservations of one Run interleave.
CallsWithinLimits ==
  /\ MaxModelCalls > 0 => Cardinality({c \in Calls : attempts[c] > 0}) <= MaxModelCalls
  /\ MaxToolCalls > 0 => Cardinality(executed) <= MaxToolCalls

\* What a call was let go with: its estimate and all the output its allowance leaves it.
promised(c) ==
  [modelCalls |-> 1, toolCalls |-> 0, prompt |-> estimate[c], completion |-> allowance[c],
   total |-> estimate[c] + allowance[c],
   cost |-> tokenCostMicros(estimate[c], InputRate) + tokenCostMicros(allowance[c], OutputRate)]
\* What the newest entry reports beyond that, if it settles a call.
beyond(r) ==
  LET e == Last(ledgerEntries)
  IN IF ledgerEntries # <<>> /\ e.kind = "settlement" THEN Max({0, e[r] - promised(e.op)[r]}) ELSE 0

\* While the calls of a Run follow each other and are all settled, a limit is overrun only
\* by what the provider reported for the last one beyond what that was let go with: the
\* allowance is what the limits leave, to the token and to the microdollar, and an overrun
\* never adds up over calls.  (A report within the estimate and the allowance is beyond in
\* cost alone, by a microdollar, when cached and uncached input are each rounded up.)
SequentialWithinBudget ==
  ~overlapped => \A r \in DOMAIN limits : limits[r] > 0 => totals[r] <= limits[r] + beyond(r)

\* The cost the ledger enforces is the exact cost of the settled usage, up to saturation.
trueCost == sum(ledgerEntries, "cost")

\* Once the recorded usage overruns any limit, or its exact cost does, no further model
\* call and no further tool execution is admitted, although neither asks for that resource.
overrunStopsWork ==
  exceeded(totals) \/ (MaxEstimatedCost > 0 /\ trueCost > MaxEstimatedCost) =>
       \A i \in DOMAIN ledgerEntries' \ DOMAIN ledgerEntries : ledgerEntries'[i].kind = "settlement"

\* The ledger is an exact account and its limits hold, whatever calls of one Run overlap,
\* retry, stop or report: the four parts above.
BudgetHolds ==
  /\ [](EachOperationCountedOnce /\ CallsWithinLimits /\ SequentialWithinBudget)
  /\ [][overrunStopsWork]_ledgerVars
=============================================================================
