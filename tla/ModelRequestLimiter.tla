------------------------- MODULE ModelRequestLimiter -------------------------
(***************************************************************************)
(* Admission of physical model requests.  Each attempt of a logical call    *)
(* takes its owner's slot, then tokens of the API key's two buckets, then a *)
(* global permit, rechecks the owner's access and only then transmits; the  *)
(* permits go back when the response body ends or is closed, whichever is   *)
(* first.  Waits end with the attempt's context or with Close.  Retries     *)
(* give everything back and start over.                                     *)
(*                                                                          *)
(* Channels used as semaphores are the number of tokens in them, so that a  *)
(* release too many takes the token of somebody else.                       *)
(***************************************************************************)
EXTENDS Integers, FiniteSets

CONSTANTS Requests, Owners,
          MaxLimiterConcurrent, OwnerMaxConcurrent, OwnerQueueSize,
          RequestCapacity, TokenCapacity,  \* of the API key's buckets
          Costs,          \* estimated tokens an attempt may have
          MaxLimiterAttempts

ASSUME LimitsAssumption ==
  /\ {MaxLimiterConcurrent, OwnerMaxConcurrent, OwnerQueueSize, RequestCapacity, TokenCapacity} \subseteq Nat
  /\ 0 < OwnerMaxConcurrent /\ OwnerMaxConcurrent < MaxLimiterConcurrent
  /\ RequestCapacity > 0 /\ TokenCapacity > 0 /\ Costs \subseteq Nat

VARIABLES limiterPc, owner, cost,
          limiterAttempts,   \* attempts begun by each logical call
          expired,    \* the attempts whose wait context is done
          released,   \* the attempts whose once-only release has run
          limiterRefs, ownerActive,  \* ownerLimiter: references and the slot channel
          global,     \* the global channel
          requests, tokens,   \* the buckets
          burst,      \* requests and tokens consumed since the last refill
          revoked,    \* owners without access
          closed
limiterVars == <<limiterPc, owner, cost, limiterAttempts, expired, released, limiterRefs, ownerActive, global, requests, tokens,
          burst, revoked, closed>>
buckets == <<requests, tokens, burst>>
call == <<owner, cost, limiterAttempts>>

LimiterInit ==
  /\ limiterPc = [r \in Requests |-> "idle"]
  /\ owner \in [Requests -> Owners] /\ cost \in [Requests -> Costs]
  /\ limiterAttempts = [r \in Requests |-> 0] /\ expired = {} /\ released = {}
  /\ limiterRefs = [o \in Owners |-> 0] /\ ownerActive = [o \in Owners |-> 0] /\ global = 0
  /\ requests = RequestCapacity /\ tokens = TokenCapacity
  /\ burst = [requests |-> 0, tokens |-> 0] /\ revoked = {} /\ closed = FALSE

LimiterGoto(r, l) == limiterPc' = [limiterPc EXCEPT ![r] = l]

\* releaseOwnerRef; the map holds an owner exactly while it has references.
releaseOwnerRef(r) == limiterRefs' = [limiterRefs EXCEPT ![owner[r]] = @ - 1]

\* Mutant: a wait that fails after the slot forgets to give it back.
ownerReleaseForgotten(r) == releaseOwnerRef(r) /\ UNCHANGED ownerActive

ownerRelease(r) == ownerActive' = [ownerActive EXCEPT ![owner[r]] = @ - 1] /\ releaseOwnerRef(r)

----------------------------------------------------------------------------

queueFull(o) == limiterRefs[o] >= OwnerMaxConcurrent + OwnerQueueSize

\* AcquireRequest up to the owner's wait: closed, resolver and queue errors end the call.
AcquireRequest(r) ==
  /\ limiterPc[r] = "idle" /\ limiterAttempts[r] < MaxLimiterAttempts
  /\ limiterAttempts' = [limiterAttempts EXCEPT ![r] = @ + 1]
  /\ expired' = expired \ {r} /\ released' = released \ {r}
  /\ IF closed \/ owner[r] \in revoked \/ queueFull(owner[r])
     THEN LimiterGoto(r, "done") /\ UNCHANGED limiterRefs
     ELSE LimiterGoto(r, "owner") /\ limiterRefs' = [limiterRefs EXCEPT ![owner[r]] = @ + 1]
  /\ UNCHANGED <<owner, cost, ownerActive, global, revoked, closed>> /\ UNCHANGED buckets

\* acquireOwner, its select: a slot, even when the context is done as well.
TakeOwnerSlot(r) ==
  /\ limiterPc[r] = "owner" /\ ownerActive[owner[r]] < OwnerMaxConcurrent
  /\ ownerActive' = [ownerActive EXCEPT ![owner[r]] = @ + 1] /\ LimiterGoto(r, "slot")
  /\ UNCHANGED <<expired, released, limiterRefs, global, revoked, closed>> /\ UNCHANGED <<call, buckets>>

\* A slot that came with a context already done is given back.
acquireOwner(r) ==
  /\ limiterPc[r] = "slot"
  /\ IF r \in expired THEN ownerRelease(r) /\ LimiterGoto(r, "done")
                      ELSE LimiterGoto(r, "rate") /\ UNCHANGED <<limiterRefs, ownerActive>>
  /\ UNCHANGED <<expired, released, global, revoked, closed>> /\ UNCHANGED <<call, buckets>>

OwnerWaitEnds(r) ==
  /\ limiterPc[r] = "owner" /\ r \in expired /\ releaseOwnerRef(r) /\ LimiterGoto(r, "done")
  /\ UNCHANGED <<expired, released, ownerActive, global, revoked, closed>> /\ UNCHANGED <<call, buckets>>

affordable(r) == requests >= 1 /\ tokens >= cost[r]

\* take: a cost above the capacity fails; both buckets are consumed in one critical section.
take(r) ==
  /\ limiterPc[r] = "rate"
  /\ \/ /\ cost[r] > TokenCapacity \/ (affordable(r) /\ r \in expired)
        /\ ownerRelease(r) /\ LimiterGoto(r, "done") /\ UNCHANGED buckets
     \/ /\ cost[r] <= TokenCapacity /\ affordable(r) /\ r \notin expired
        /\ requests' = requests - 1 /\ tokens' = tokens - cost[r]
        /\ burst' = [requests |-> burst.requests + 1, tokens |-> burst.tokens + cost[r]]
        /\ LimiterGoto(r, "permit") /\ UNCHANGED <<limiterRefs, ownerActive>>
  /\ UNCHANGED <<expired, released, global, revoked, closed>> /\ UNCHANGED call

\* A rate or permit wait ends with the context; consumed tokens are not refunded.
WaitEnds(r) ==
  /\ limiterPc[r] \in {"rate", "permit"} /\ r \in expired /\ ownerRelease(r) /\ LimiterGoto(r, "done")
  /\ UNCHANGED <<expired, released, global, revoked, closed>> /\ UNCHANGED <<call, buckets>>

TakeGlobal(r) ==
  /\ limiterPc[r] = "permit" /\ global < MaxLimiterConcurrent
  /\ global' = global + 1 /\ LimiterGoto(r, "granted")
  /\ UNCHANGED <<expired, released, limiterRefs, ownerActive, revoked, closed>> /\ UNCHANGED <<call, buckets>>

waitError(r) == closed \/ r \in expired

\* waitError after the select: a permit taken together with Close goes back.
Granted(r) ==
  /\ limiterPc[r] = "granted"
  /\ IF waitError(r) THEN global' = global - 1 /\ ownerRelease(r) /\ LimiterGoto(r, "done")
     ELSE LimiterGoto(r, "recheck") /\ UNCHANGED <<global, limiterRefs, ownerActive>>
  /\ UNCHANGED <<expired, released, revoked, closed>> /\ UNCHANGED <<call, buckets>>

\* The owner's access is resolved again before transmission.
Recheck(r) ==
  /\ limiterPc[r] = "recheck"
  /\ IF owner[r] \in revoked THEN global' = global - 1 /\ ownerRelease(r) /\ LimiterGoto(r, "done")
     ELSE LimiterGoto(r, "transport") /\ UNCHANGED <<global, limiterRefs, ownerActive>>
  /\ UNCHANGED <<expired, released, revoked, closed>> /\ UNCHANGED <<call, buckets>>

\* releaseReadCloser and the release function: once, the permit and then the slot.
release(r) ==
  IF r \in released THEN UNCHANGED <<global, limiterRefs, ownerActive, released>>
  ELSE global' = global - 1 /\ ownerRelease(r) /\ released' = released \cup {r}

\* Reading the body meets its end or an error.
BodyEnds(r) ==
  /\ limiterPc[r] = "transport" /\ r \notin released /\ release(r)
  /\ UNCHANGED <<limiterPc, expired, revoked, closed>> /\ UNCHANGED <<call, buckets>>

\* The attempt is over: the body is closed, or there was none.  A retryable failure waits.
EndAttempt(r) ==
  /\ limiterPc[r] = "transport" /\ release(r)
  /\ \E l \in {"done"} \cup (IF limiterAttempts[r] < MaxLimiterAttempts THEN {"backoff"} ELSE {}) : LimiterGoto(r, l)
  /\ UNCHANGED <<expired, revoked, closed>> /\ UNCHANGED <<call, buckets>>

\* waitForRetry: the next attempt, or the call's context is done.
executeWithRetry(r) ==
  /\ limiterPc[r] = "backoff" /\ \E l \in {"idle", "done"} : LimiterGoto(r, l)
  /\ UNCHANGED <<expired, released, limiterRefs, ownerActive, global, revoked, closed>> /\ UNCHANGED <<call, buckets>>

----------------------------------------------------------------------------

refill(level, capacity) == capacity

\* A period passes: the buckets fill up to their capacity.
RefillAt ==
  /\ requests' = refill(requests, RequestCapacity) /\ tokens' = refill(tokens, TokenCapacity)
  /\ burst' = [requests |-> 0, tokens |-> 0]
  /\ UNCHANGED <<limiterPc, expired, released, limiterRefs, ownerActive, global, revoked, closed>> /\ UNCHANGED call

waiting == {"owner", "slot", "rate", "permit", "granted"}

\* The route timeout, the owner's wait timeout or the caller ends an attempt's context.
LimiterExpire(r) ==
  /\ limiterPc[r] \in waiting /\ r \notin expired /\ expired' = expired \cup {r}
  /\ UNCHANGED <<limiterPc, released, limiterRefs, ownerActive, global, revoked, closed>> /\ UNCHANGED <<call, buckets>>

LimiterClose ==
  /\ ~closed /\ closed' = TRUE
  /\ UNCHANGED <<limiterPc, expired, released, limiterRefs, ownerActive, global, revoked>> /\ UNCHANGED <<call, buckets>>

\* The AfterFunc of each waiting attempt cancels its context.
CloseWakes(r) == closed /\ LimiterExpire(r)

Revoke(o) ==
  /\ o \notin revoked /\ revoked' = revoked \cup {o}
  /\ UNCHANGED <<limiterPc, expired, released, limiterRefs, ownerActive, global, closed>> /\ UNCHANGED <<call, buckets>>

\* The steps of an attempt that wait for nobody once they are possible.
LimiterProceed(r) ==
  OwnerWaitEnds(r) \/ WaitEnds(r) \/ acquireOwner(r) \/ Granted(r) \/ Recheck(r)

LimiterNext ==
  \/ \E r \in Requests :
       \/ AcquireRequest(r) \/ TakeOwnerSlot(r) \/ take(r) \/ TakeGlobal(r) \/ LimiterProceed(r)
       \/ BodyEnds(r) \/ EndAttempt(r) \/ executeWithRetry(r) \/ LimiterExpire(r)
  \/ RefillAt \/ LimiterClose \/ \E o \in Owners : Revoke(o)

LimiterSpec == LimiterInit /\ [][LimiterNext]_limiterVars

\* A goroutine that can go on does; no transport has to end and no bucket to refill.
LimiterFairSpec ==
  /\ LimiterSpec
  /\ \A r \in Requests : WF_limiterVars(CloseWakes(r)) /\ WF_limiterVars(LimiterProceed(r))

----------------------------------------------------------------------------
transmitting(r) == limiterPc[r] = "transport" /\ r \notin released
holds(r) == limiterPc[r] \in {"granted", "recheck"} \/ transmitting(r)
occupies(r) == limiterPc[r] \in {"slot", "rate", "permit"} \/ holds(r)
queued(r) == limiterPc[r] = "owner" \/ occupies(r)

\* No more transmissions than permits, per owner and together, although a body both
\* ends and is closed, and waits end while the permit they wait for arrives.
TransmissionsBounded ==
  /\ Cardinality({r \in Requests : transmitting(r)}) <= MaxLimiterConcurrent
  /\ \A o \in Owners : Cardinality({r \in Requests : owner[r] = o /\ transmitting(r)}) <= OwnerMaxConcurrent

\* Every permit and slot that is taken belongs to an attempt under way: none is lost on
\* an error path, and the owners map is empty when nothing is under way.
NoPermitLost ==
  /\ global = Cardinality({r \in Requests : holds(r)})
  /\ \A o \in Owners :
       /\ ownerActive[o] = Cardinality({r \in Requests : owner[r] = o /\ occupies(r)})
       /\ limiterRefs[o] = Cardinality({r \in Requests : owner[r] = o /\ queued(r)})

\* An owner occupies no more than its slots and its queue, whatever it submits.
OwnerQueueBounded == \A o \in Owners : limiterRefs[o] <= OwnerMaxConcurrent + OwnerQueueSize

\* What one key consumes between two refills never exceeds either capacity.
RateHonoured == burst.requests <= RequestCapacity /\ burst.tokens <= TokenCapacity

\* After Close every waiting attempt returns, without waiting for a transport to end,
\* a bucket to refill or a timeout.
CloseEndsWaits ==
  \A r \in Requests : closed /\ limiterPc[r] \in waiting ~> limiterPc[r] \notin waiting

\* Close does not let a permit that was granted during the shutdown through.
noGrantAfterClose ==
  \A r \in Requests : closed /\ limiterPc[r] \in waiting => limiterPc'[r] \notin {"recheck", "transport"}

\* Owner slots, rate tokens and global permits are taken in turn and given back exactly
\* once, under timeouts, retries, double release and Close: the five parts above.
LimiterSafe ==
  /\ [](TransmissionsBounded /\ NoPermitLost /\ OwnerQueueBounded /\ RateHonoured)
  /\ [][noGrantAfterClose]_limiterVars
=============================================================================
