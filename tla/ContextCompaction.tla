-------------------------- MODULE ContextCompaction --------------------------
(***************************************************************************)
(* Rolling summaries of one conversation.  CompactIfNeeded runs under a      *)
(* lock that lives in the process: it closes orphaned attempts, plans which  *)
(* messages the next summary will stand for, records the attempt, asks the   *)
(* model and commits summary and completion event in one transaction.  What  *)
(* it learned (cooldown, low yield, the last overflow) is kept in memory and *)
(* is read back from the events and the newest row after a restart.  Soft    *)
(* compaction is one background job per process; the other triggers run      *)
(* inside a Turn.                                                            *)
(***************************************************************************)
EXTENDS Naturals, Sequences, FiniteSets, FiniteSetsExt, SequencesExt

CONSTANTS Roles,          \* roles a new message may have
          Triggers,       \* of soft, hard and provider_overflow
          MaxMessages, MaxCompactionAttempts, MaxTime, MaxCrashes,
          MinProtected,   \* messages kept raw whatever their size (4 in the code)
          RecentTokens,   \* CompactionRecentTokens, a message being one token
          SoftThreshold, HardThreshold,
          Transient, Configuration, LowYield, Grace   \* durations

VARIABLES messages,   \* roles, oldest first; a message's position is its identity
          rows,       \* committed compactions, oldest first
          compactionEvents,     \* lifecycle events of the conversation
          policy,     \* policyState of the process
          compactionAttempt,    \* the call that holds the conversation lock
          job,        \* the soft job and whether CloseCompaction was called, answered
          lastKey,    \* the newest Turn
          now, crashes
compactionVars == <<messages, rows, compactionEvents, policy, compactionAttempt, job, lastKey, now, crashes>>

NoCooldown == [reason |-> "none", until |-> 0]
policyState == [low |-> 0, cooldown |-> NoCooldown, overflow |-> 0]
NoAttempt == [step |-> "none", trigger |-> "none"]

CompactionInit ==
  /\ messages = <<>> /\ rows = <<>> /\ compactionEvents = <<>>
  /\ policy = policyState /\ compactionAttempt = NoAttempt
  /\ job = [running |-> FALSE, canceled |-> FALSE, closed |-> FALSE, joined |-> FALSE]
  /\ lastKey = 1 /\ now = 1 /\ crashes = 0

event(type, id, trigger, key, cooldown) ==
  [type |-> type, id |-> id, trigger |-> trigger, key |-> key, cooldown |-> cooldown, at |-> now, orphan |-> FALSE]
isTerminal(e) == e.type \in {"completed", "failed"}
terminal == {compactionEvents[i].id : i \in {j \in DOMAIN compactionEvents : isTerminal(compactionEvents[j])}}

----------------------------------------------------------------------------
\* buildPlan: the newest exchanges stay raw, the older uncovered ones are added to the
\* sources of the previous summary.
covered == IF rows = <<>> THEN {} ELSE Last(rows).sources
compactionActive == SelectSeq([i \in DOMAIN messages |-> i], LAMBDA i : i \notin covered)
starts(a) == {k \in DOMAIN a : k = 1 \/ messages[a[k]] = "user"}
groupEnd(a, k) == Min({j - 1 : j \in {s \in starts(a) : s > k}} \cup {Len(a)})
stopsAt(a, k) == Len(a) - groupEnd(a, k) >= MinProtected /\ Len(a) - k + 1 > RecentTokens
cut(a) == IF a = <<>> THEN 1 ELSE Min({k \in starts(a) : \A j \in starts(a) : j >= k => ~stopsAt(a, j)})
newSources(a) == {a[k] : k \in 1..(cut(a) - 1)}
beforeTokens == Len(compactionActive) + (IF rows = <<>> THEN 0 ELSE 1)
thresholdTokens(trigger) ==
  CASE trigger = "soft" -> SoftThreshold [] trigger = "hard" -> HardThreshold [] OTHER -> 1

----------------------------------------------------------------------------
\* The policy.  hydrate reads the newest event with a cooldown; the overflow key is
\* searched only down to that event.
cooldowns == {i \in DOMAIN compactionEvents : compactionEvents[i].cooldown # NoCooldown}
hydrateCooldown(p) ==
  LET c == compactionEvents[Max(cooldowns)].cooldown
  IN IF cooldowns # {} /\ c.until > p.cooldown.until THEN [p EXCEPT !.cooldown = c] ELSE p
hydrateOverflow(p) ==
  LET seen == {i \in DOMAIN compactionEvents : /\ compactionEvents[i].trigger = "provider_overflow" /\ compactionEvents[i].key # 0
                                     /\ \A j \in cooldowns : j <= i}
  IN IF p.overflow = 0 /\ seen # {} THEN [p EXCEPT !.overflow = compactionEvents[Max(seen)].key] ELSE p
seedPolicyFromCompaction(p) ==
  IF rows # <<>> /\ Last(rows).low > p.low THEN [p EXCEPT !.low = Last(rows).low] ELSE p
inCooldown(p) == now < p.cooldown.until
expire(p) ==
  IF p.cooldown = NoCooldown \/ inCooldown(p) THEN p
  ELSE [p EXCEPT !.low = IF p.cooldown.reason = "low_yield" THEN 0 ELSE @, !.cooldown = NoCooldown]
allowAttempt(p, trigger, key) == ~inCooldown(p) /\ (trigger = "provider_overflow" => expire(p).overflow # key)
markAttempt(p, trigger, key) == IF trigger = "provider_overflow" THEN [p EXCEPT !.overflow = key] ELSE p
evaluateOutcome(p, low) ==
  LET count == IF low THEN p.low + 1 ELSE 0
  IN [low |-> count,
      cooldown |-> IF count >= 2 THEN [reason |-> "low_yield", until |-> now + LowYield]
                   ELSE IF ~low /\ p.cooldown.reason = "low_yield" THEN NoCooldown ELSE p.cooldown]
applyOutcome(p, o) ==
  [p EXCEPT !.low = o.low,
            !.cooldown = IF o.cooldown # NoCooldown THEN o.cooldown
                         ELSE IF @.reason = "low_yield" THEN NoCooldown ELSE @]
failureCooldown(configuration) ==
  IF configuration THEN [reason |-> "summarizer_configuration_failure", until |-> now + Configuration]
  ELSE [reason |-> "summarizer_transient_failure", until |-> now + Transient]

----------------------------------------------------------------------------
\* CompactIfNeeded takes the lock.

Lock(trigger) ==
  /\ compactionAttempt = NoAttempt /\ Len(compactionEvents) < 2 * MaxCompactionAttempts
  /\ trigger = "soft" => job.running
  /\ compactionAttempt' = [step |-> "reconcile", trigger |-> trigger, key |-> IF trigger = "soft" THEN 0 ELSE lastKey,
                 id |-> 0, sources |-> {}, generation |-> 0]
  /\ UNCHANGED <<messages, rows, compactionEvents, policy, job, lastKey, now, crashes>>

\* The call returns; the soft job ends with it.
returns == /\ compactionAttempt' = NoAttempt
           /\ job' = IF compactionAttempt.trigger = "soft" THEN [job EXCEPT !.running = FALSE] ELSE job

\* Mutant: completed is not looked for.
orphansCompleted == {i \in DOMAIN compactionEvents : /\ compactionEvents[i].type = "started" /\ compactionEvents[i].at + Grace <= now
                       /\ ~\E j \in DOMAIN compactionEvents : compactionEvents[j].type = "failed" /\ compactionEvents[j].id = compactionEvents[i].id}
\* reconcileOrphans: started long ago, no terminal event.
orphans == {i \in DOMAIN compactionEvents : /\ compactionEvents[i].type = "started" /\ compactionEvents[i].at + Grace <= now
                                  /\ compactionEvents[i].id \notin terminal}
closing(i) == [event("failed", compactionEvents[i].id, compactionEvents[i].trigger, 0, NoCooldown) EXCEPT !.orphan = TRUE]
Reconcile ==
  /\ compactionAttempt.step = "reconcile"
  /\ LET list == SetToSortSeq(orphans, <)
     IN compactionEvents' = compactionEvents \o [k \in DOMAIN list |-> closing(list[k])]
  /\ policy' = seedPolicyFromCompaction(hydrateOverflow(hydrateCooldown(policy)))
  /\ compactionAttempt' = [compactionAttempt EXCEPT !.step = "plan"]
  /\ UNCHANGED <<messages, rows, job, lastKey, now, crashes>>

\* The plan, the threshold, the policy and the started event.
worthIt(trigger) == beforeTokens >= thresholdTokens(trigger) /\ Cardinality(newSources(compactionActive)) >= 2
Skip ==
  /\ compactionAttempt.step = "plan"
  /\ ~worthIt(compactionAttempt.trigger) \/ ~allowAttempt(policy, compactionAttempt.trigger, compactionAttempt.key)
  /\ policy' = IF worthIt(compactionAttempt.trigger) THEN expire(policy) ELSE policy
  /\ returns
  /\ UNCHANGED <<messages, rows, compactionEvents, lastKey, now, crashes>>
CompactionStart ==
  /\ compactionAttempt.step = "plan" /\ worthIt(compactionAttempt.trigger) /\ allowAttempt(policy, compactionAttempt.trigger, compactionAttempt.key)
  /\ LET id == Cardinality({i \in DOMAIN compactionEvents : compactionEvents[i].type = "started"}) + 1
     IN /\ id <= MaxCompactionAttempts
        /\ compactionEvents' = Append(compactionEvents, event("started", id, compactionAttempt.trigger, compactionAttempt.key, NoCooldown))
        /\ compactionAttempt' = [compactionAttempt EXCEPT !.step = "summarize", !.id = id, !.sources = covered \cup newSources(compactionActive),
                                      !.generation = Len(rows) + 1]
  /\ policy' = markAttempt(expire(policy), compactionAttempt.trigger, compactionAttempt.key)
  /\ UNCHANGED <<messages, rows, job, lastKey, now, crashes>>

\* failAttempt: no summarizer, no summary, wrong evidence, a cancelled context or a
\* failed commit.  The failed event itself may not reach the store.
Fail(configuration, recorded) ==
  /\ compactionAttempt.step \in {"summarize", "commit"}
  /\ policy' = [policy EXCEPT !.cooldown = failureCooldown(configuration)]
  /\ compactionEvents' = IF recorded THEN Append(compactionEvents, event("failed", compactionAttempt.id, compactionAttempt.trigger, compactionAttempt.key,
                                                     failureCooldown(configuration)))
               ELSE compactionEvents
  /\ returns
  /\ UNCHANGED <<messages, rows, lastKey, now, crashes>>
Summarize ==
  /\ compactionAttempt.step = "summarize" /\ compactionAttempt' = [compactionAttempt EXCEPT !.step = "commit"]
  /\ ~(compactionAttempt.trigger = "soft" /\ job.canceled)
  /\ UNCHANGED <<messages, rows, compactionEvents, policy, job, lastKey, now, crashes>>
\* CommitContextCompaction: the row and its completed event, or neither.
CommitContextCompaction(low) ==
  /\ compactionAttempt.step = "commit"
  /\ LET outcome == evaluateOutcome(policy, low)
     IN /\ rows' = Append(rows, [id |-> compactionAttempt.id, generation |-> compactionAttempt.generation, sources |-> compactionAttempt.sources,
                                 low |-> outcome.low, lowYield |-> low])
        /\ compactionEvents' = Append(compactionEvents, event("completed", compactionAttempt.id, compactionAttempt.trigger, compactionAttempt.key, outcome.cooldown))
        /\ policy' = applyOutcome(policy, outcome)
  /\ returns
  /\ UNCHANGED <<messages, lastKey, now, crashes>>

----------------------------------------------------------------------------
\* The soft job.
startSoftCompaction ==
  /\ ~job.running /\ ~job.closed /\ "soft" \in Triggers
  /\ job' = [job EXCEPT !.running = TRUE, !.canceled = FALSE]
  /\ UNCHANGED <<messages, rows, compactionEvents, policy, compactionAttempt, lastKey, now, crashes>>
\* A job that cannot load its Run, or whose context ended while it waited for the lock.
SoftGivesUp ==
  /\ job.running /\ (compactionAttempt = NoAttempt \/ compactionAttempt.trigger # "soft")
  /\ job' = [job EXCEPT !.running = FALSE]
  /\ UNCHANGED <<messages, rows, compactionEvents, policy, compactionAttempt, lastKey, now, crashes>>
CloseCompaction ==
  /\ ~job.closed /\ "soft" \in Triggers
  /\ job' = [job EXCEPT !.closed = TRUE, !.canceled = job.running]
  /\ UNCHANGED <<messages, rows, compactionEvents, policy, compactionAttempt, lastKey, now, crashes>>
joinable == job.closed /\ ~job.running
JoinCompaction ==
  /\ joinable /\ ~job.joined /\ job' = [job EXCEPT !.joined = TRUE]
  /\ UNCHANGED <<messages, rows, compactionEvents, policy, compactionAttempt, lastKey, now, crashes>>

----------------------------------------------------------------------------
AddMessage(role) ==
  /\ Len(messages) < MaxMessages /\ (messages = <<>> => role = "user")
  /\ messages' = Append(messages, role)
  /\ UNCHANGED <<rows, compactionEvents, policy, compactionAttempt, job, lastKey, now, crashes>>
CompactionNextTurn ==
  /\ "provider_overflow" \in Triggers /\ lastKey = 1 /\ lastKey' = 2 /\ UNCHANGED <<messages, rows, compactionEvents, policy, compactionAttempt, job, now, crashes>>
Tick ==
  /\ now < MaxTime /\ now' = now + 1
  /\ UNCHANGED <<messages, rows, compactionEvents, policy, compactionAttempt, job, lastKey, crashes>>
Crash ==
  /\ crashes < MaxCrashes /\ crashes' = crashes + 1
  /\ policy' = policyState /\ compactionAttempt' = NoAttempt
  /\ job' = [running |-> FALSE, canceled |-> FALSE, closed |-> FALSE, joined |-> FALSE]
  /\ UNCHANGED <<messages, rows, compactionEvents, lastKey, now>>

CompactionNext ==
  \/ \E t \in Triggers : Lock(t)
  \/ Reconcile \/ Skip \/ CompactionStart \/ Summarize
  \/ \E c, r \in BOOLEAN : Fail(c, r)
  \/ \E low \in BOOLEAN : CommitContextCompaction(low)
  \/ startSoftCompaction \/ SoftGivesUp \/ CloseCompaction \/ JoinCompaction
  \/ \E r \in Roles : AddMessage(r)
  \/ CompactionNextTurn \/ Tick \/ Crash
CompactionSpec == CompactionInit /\ [][CompactionNext]_compactionVars

-----------------------------------------------------------------------------
(* Properties *)

\* What a model sees of the conversation stays whole: the newest summary stands for a
\* prefix of the messages, contains what the summary before it stood for, and the raw
\* tail begins with a user message, so no exchange is half in the summary and half in the
\* history (protocolGroups, excludeCompactedHistory), however many messages arrived while
\* the summary was written.
SurfaceStaysWhole ==
  \A i \in DOMAIN rows :
    LET s == rows[i].sources
    IN /\ \A m \in s : \A k \in 1..m : k \in s
       /\ i > 1 => rows[i - 1].sources \subseteq s
       /\ Cardinality(s) < Len(messages) /\ messages[Cardinality(s) + 1] = "user"

\* An attempt that a crash, a lost write or a slow model left open is closed once and only
\* when nothing was committed for it (ReconcileOrphans: "an unmatched start cannot
\* represent a successful compaction").
OrphanNeverContradictsCommit ==
  /\ \A i \in DOMAIN compactionEvents : compactionEvents[i].orphan => ~\E r \in DOMAIN rows : rows[r].id = compactionEvents[i].id
  /\ \A i, j \in DOMAIN compactionEvents :
       isTerminal(compactionEvents[i]) /\ isTerminal(compactionEvents[j]) /\ compactionEvents[i].id = compactionEvents[j].id => i = j

\* No attempt starts while a cooldown that an event records is running, in this process or
\* a later one ("Lifecycle Events retain cooldown state for restart recovery").
CooldownSurvivesRestart ==
  \A i, j \in DOMAIN compactionEvents :
    i < j /\ compactionEvents[j].type = "started" /\ compactionEvents[i].cooldown # NoCooldown => compactionEvents[j].at >= compactionEvents[i].cooldown.until

fused(r) == \E i \in DOMAIN compactionEvents :
  compactionEvents[i].type = "completed" /\ compactionEvents[i].id = rows[r].id /\ compactionEvents[i].cooldown.reason = "low_yield"

\* The first time two generations in a row reduce too little, automatic compaction is
\* suspended, also when the process restarted between the two.
FirstLowYieldPairSuspends ==
  \A r \in DOMAIN rows :
    /\ r > 1 /\ rows[r].lowYield /\ rows[r - 1].lowYield
    /\ \A q \in 1..(r - 1) : ~fused(q)
    => fused(r)

\* Every two generations in a row that reduce too little suspend automatic compaction, not
\* only the first two.
EveryLowYieldPairSuspends ==
  \A r \in DOMAIN rows :
    r > 1 /\ rows[r].lowYield /\ rows[r - 1].lowYield => fused(r) \/ fused(r - 1)

\* Once CloseCompaction has returned, the soft job writes nothing more, so the store may
\* be closed underneath it.
quietAfterClose == job.joined /\ job'.joined /\ compactionAttempt # NoAttempt /\ compactionAttempt.trigger = "soft" => compactionEvents' = compactionEvents

\* Summaries, their events and the policy stay consistent under crashes, lost writes, slow
\* models and Close: the parts above but EveryLowYieldPairSuspends.
CompactionSafe ==
  /\ [](/\ SurfaceStaysWhole /\ OrphanNeverContradictsCommit
        /\ CooldownSurvivesRestart /\ FirstLowYieldPairSuspends)
  /\ [][quietAfterClose]_compactionVars
=============================================================================
