--------------------------- MODULE SandboxRunner ---------------------------
(* The sandbox runner (internal/sandbox, app/sandbox.go): structured commands   *)
(* run in disposable microVMs that an external daemon keeps.  The runner writes *)
(* an ownership record before it asks for a VM, removes the VM and then the     *)
(* record when the command ends, and reclaims what records are left when the    *)
(* next process starts.  A directory lock admits one process, slots bound the   *)
(* commands, Close waits for their cleanup.                                     *)
(*                                                                              *)
(* The daemon and its command line are external: a command line call succeeds,  *)
(* fails, or fails after the daemon did what it asked.  One call makes one VM,  *)
(* under a fresh name, so the call stands for the name.  Output, limits and the *)
(* allowlist are left out.                                                      *)
EXTENDS Naturals, FiniteSets

CONSTANTS
  SandboxCalls,            \* RunWithProgress calls, over the life of the installation
  MaxConcurrent,    \* the slots
  MaxStops          \* bound: process ends, crashes included

ASSUME SandboxAssumption ==
  IsFiniteSet(SandboxCalls) /\ MaxConcurrent \in Nat \ {0} /\ MaxStops \in Nat

VARIABLES
  process,    \* down, recovering or up
  lock,       \* the state directory's lock is held
  sandboxTodo,       \* records Recover has still to reclaim
  sandboxClosed, unhealthy,
  closer,     \* Close: none, waiting, released or expired
  taken,      \* slots Close has taken
  sandboxAt,         \* where each call is
  outcome,    \* none, refused, ended (its cleanup confirmed) or unconfirmed
  records,    \* ownership records in the state directory
  vms,        \* VMs the daemon keeps
  orphans,    \* creates the child or the daemon may still finish, though nobody waits for them
  cutOff,     \* creates given up before their answer: by the context, or with the process
  stops

sandboxVars == <<process, lock, sandboxTodo, sandboxClosed, unhealthy, closer, taken, sandboxAt, outcome, records, vms, orphans, cutOff, stops>>
runner == <<process, lock, sandboxTodo, sandboxClosed, closer, taken, stops>>

working == {"recorded", "creating", "created", "executing", "rm", "ls", "unrecord"}
holding == working \cup {"slot"}
sandboxSlots == Cardinality({c \in SandboxCalls : sandboxAt[c] \in holding}) + taken

SandboxInit ==
  /\ process = "down" /\ lock = FALSE /\ sandboxTodo = {} /\ sandboxClosed = FALSE /\ unhealthy = FALSE
  /\ closer = "none" /\ taken = 0
  /\ sandboxAt = [c \in SandboxCalls |-> "idle"] /\ outcome = [c \in SandboxCalls |-> "none"]
  /\ records = {} /\ vms = {} /\ orphans = {} /\ cutOff = {} /\ stops = 0

-----------------------------------------------------------------------------
(* Start: lock the directory, reclaim every record, check the daemon.           *)

New ==
  /\ process = "down" /\ ~lock
  /\ process' = "recovering" /\ lock' = TRUE /\ sandboxTodo' = records
  /\ sandboxClosed' = FALSE /\ unhealthy' = FALSE /\ closer' = "none" /\ taken' = 0
  /\ UNCHANGED <<sandboxAt, outcome, records, vms, orphans, cutOff, stops>>

\* What remove can find out about name n: the VM is gone, by rm or by the inventory.
absentAfter(n, rm) == rm = "ok" \/ (rm = "failed" /\ n \notin vms)

Recover(n) ==
  /\ process = "recovering" /\ n \in sandboxTodo
  /\ \E rm \in {"ok", "failed"} :
       /\ absentAfter(n, rm)
       /\ vms' = IF rm = "ok" THEN vms \ {n} ELSE vms
       /\ records' = records \ {n} /\ sandboxTodo' = sandboxTodo \ {n}
  /\ UNCHANGED <<process, lock, sandboxClosed, unhealthy, closer, taken, sandboxAt, outcome, orphans, cutOff, stops>>

\* Cleanup is not confirmed, or the daemon is unavailable: no runner, and the lock is free again.
StartFails ==
  /\ process = "recovering"
  /\ process' = "down" /\ lock' = FALSE /\ sandboxTodo' = {}
  /\ UNCHANGED <<sandboxClosed, unhealthy, closer, taken, sandboxAt, outcome, records, vms, orphans, cutOff, stops>>

CheckAvailability ==
  /\ process = "recovering" /\ sandboxTodo = {}
  /\ process' = "up"
  /\ UNCHANGED <<lock, sandboxTodo, sandboxClosed, unhealthy, closer, taken, sandboxAt, outcome, records, vms, orphans, cutOff, stops>>

-----------------------------------------------------------------------------
(* RunWithProgress.                                                             *)

to(c, s) == sandboxAt' = [sandboxAt EXCEPT ![c] = s]
sandboxEnds(c, o) == to(c, "done") /\ outcome' = [outcome EXCEPT ![c] = o]

SandboxRun(c) ==
  /\ process = "up" /\ sandboxAt[c] = "idle"
  /\ IF sandboxClosed \/ unhealthy THEN sandboxEnds(c, "refused") ELSE to(c, "checked") /\ UNCHANGED outcome
  /\ UNCHANGED <<runner, unhealthy, records, vms, orphans, cutOff>>

\* A slot, or a capacity error: nothing waits for one.
TakeSlot(c) ==
  /\ sandboxAt[c] = "checked"
  /\ IF sandboxSlots < MaxConcurrent THEN to(c, "slot") /\ UNCHANGED outcome ELSE sandboxEnds(c, "refused")
  /\ UNCHANGED <<runner, unhealthy, records, vms, orphans, cutOff>>

\* A failed record may leave its file behind: no VM was asked for.
recordFailed(c) ==
  /\ sandboxEnds(c, "refused")
  /\ records' \in {records, records \cup {c}}

\* Mutant: the VM is asked for before its record is durable.
RecordLate(c) ==
  /\ sandboxAt[c] = "slot"
  /\ IF sandboxClosed THEN sandboxEnds(c, "refused") /\ UNCHANGED <<records, vms>>
     ELSE to(c, "recorded") /\ vms' = vms \cup {c} /\ UNCHANGED <<outcome, records>>
  /\ UNCHANGED <<runner, unhealthy, orphans, cutOff>>

Record(c) ==
  /\ sandboxAt[c] = "slot"
  /\ \/ sandboxClosed /\ sandboxEnds(c, "refused") /\ UNCHANGED records
     \/ ~sandboxClosed /\ to(c, "recorded") /\ records' = records \cup {c} /\ UNCHANGED outcome
     \/ ~sandboxClosed /\ recordFailed(c)
  /\ UNCHANGED <<runner, unhealthy, vms, orphans, cutOff>>

Create(c) ==
  /\ sandboxAt[c] = "recorded" /\ to(c, "creating")
  /\ UNCHANGED <<runner, unhealthy, outcome, records, vms, orphans, cutOff>>

\* The create returns: done; failed, with or without a VM; or killed by the timeout, the
\* cancellation or Close, and then the daemon may still finish it.
CreateReturns(c) ==
  /\ sandboxAt[c] = "creating"
  /\ \/ to(c, "created") /\ vms' = vms \cup {c} /\ UNCHANGED <<orphans, cutOff>>
     \/ to(c, "rm") /\ vms' \in {vms, vms \cup {c}} /\ UNCHANGED <<orphans, cutOff>>
     \/ to(c, "rm") /\ orphans' = orphans \cup {c} /\ cutOff' = cutOff \cup {c} /\ UNCHANGED vms
  /\ UNCHANGED <<runner, unhealthy, outcome, records>>

Exec(c) ==
  /\ sandboxAt[c] = "created" /\ to(c, "executing")
  /\ UNCHANGED <<runner, unhealthy, outcome, records, vms, orphans, cutOff>>

\* The command ends, with any exit, or its context does: cleanup has a context of its own.
ExecReturns(c) ==
  /\ sandboxAt[c] = "executing" /\ to(c, "rm")
  /\ UNCHANGED <<runner, unhealthy, outcome, records, vms, orphans, cutOff>>

\* rm --force: done; failed; or done and reported as failed.
RemoveVm(c) ==
  /\ sandboxAt[c] = "rm"
  /\ \/ to(c, "unrecord") /\ vms' = vms \ {c}
     \/ to(c, "ls") /\ vms' \in {vms, vms \ {c}}
  /\ UNCHANGED <<runner, unhealthy, outcome, records, orphans, cutOff>>

cleanupFails(c) == sandboxEnds(c, "unconfirmed") /\ unhealthy' = TRUE

\* ls --quiet: the name is absent; it is there; or the inventory cannot be read.
List(c) ==
  /\ sandboxAt[c] = "ls"
  /\ \/ absentAfter(c, "failed") /\ to(c, "unrecord") /\ UNCHANGED <<outcome, unhealthy>>
     \/ cleanupFails(c)
  /\ UNCHANGED <<runner, records, vms, orphans, cutOff>>

Unrecord(c) ==
  /\ sandboxAt[c] = "unrecord"
  /\ \/ sandboxEnds(c, "ended") /\ records' = records \ {c} /\ UNCHANGED unhealthy
     \/ cleanupFails(c) /\ UNCHANGED records
  /\ UNCHANGED <<runner, vms, orphans, cutOff>>

callStep(c) ==
  \/ TakeSlot(c) \/ Record(c) \/ Create(c) \/ CreateReturns(c) \/ Exec(c) \/ ExecReturns(c)
  \/ RemoveVm(c) \/ List(c) \/ Unrecord(c)

-----------------------------------------------------------------------------
(* Close, and the end of the process.                                           *)

SandboxClose ==
  /\ process = "up" /\ ~sandboxClosed
  /\ sandboxClosed' = TRUE /\ closer' = "waiting"
  /\ UNCHANGED <<process, lock, sandboxTodo, unhealthy, taken, sandboxAt, outcome, records, vms, orphans, cutOff, stops>>

CloseTakes ==
  /\ closer = "waiting" /\ taken < MaxConcurrent /\ sandboxSlots < MaxConcurrent
  /\ taken' = taken + 1
  /\ UNCHANGED <<process, lock, sandboxTodo, sandboxClosed, unhealthy, closer, sandboxAt, outcome, records, vms, orphans, cutOff, stops>>

allTaken == taken = MaxConcurrent

CloseReleases ==
  /\ closer = "waiting" /\ allTaken
  /\ closer' = "released" /\ lock' = FALSE
  /\ UNCHANGED <<process, sandboxTodo, sandboxClosed, unhealthy, taken, sandboxAt, outcome, records, vms, orphans, cutOff, stops>>

\* The shutdown deadline: the lock stays until the process exits.
CloseExpires ==
  /\ closer = "waiting" /\ closer' = "expired"
  /\ UNCHANGED <<process, lock, sandboxTodo, sandboxClosed, unhealthy, taken, sandboxAt, outcome, records, vms, orphans, cutOff, stops>>

\* The process exits or crashes.  Its calls are gone; a create in flight was done, or is
\* left to a child that nothing ends with its parent.  The kernel frees the lock.
Stops ==
  /\ process # "down" /\ stops < MaxStops
  /\ process' = "down" /\ lock' = FALSE /\ sandboxTodo' = {} /\ closer' = "none" /\ taken' = 0 /\ stops' = stops + 1
  /\ LET creating == {c \in SandboxCalls : sandboxAt[c] = "creating"} IN
       /\ orphans' = orphans \cup creating /\ cutOff' = cutOff \cup creating
  /\ sandboxAt' = [c \in SandboxCalls |-> IF sandboxAt[c] = "idle" THEN "idle" ELSE "done"]
  /\ UNCHANGED <<sandboxClosed, unhealthy, outcome, records, vms>>

\* It is finished at any later time, even when recovery has found its name absent; or never.
OrphanCreates(n) ==
  /\ n \in orphans /\ orphans' = orphans \ {n} /\ vms' \in {vms, vms \cup {n}}
  /\ UNCHANGED <<runner, unhealthy, sandboxAt, outcome, records, cutOff>>

SandboxNext ==
  \/ New \/ StartFails \/ CheckAvailability \/ SandboxClose \/ CloseTakes \/ CloseReleases \/ CloseExpires \/ Stops
  \/ \E c \in SandboxCalls : Recover(c) \/ SandboxRun(c) \/ callStep(c) \/ OrphanCreates(c)

\* A started call is not abandoned: its command runs under the execution timeout and its
\* cleanup under 30 seconds of its own, so each of its command line calls returns.  Close
\* takes a free slot.  Nothing makes a deadline expire, a process start or a call arrive.
Fairness ==
  /\ \A c \in SandboxCalls : WF_sandboxVars(callStep(c))
  /\ WF_sandboxVars(CloseTakes) /\ WF_sandboxVars(CloseReleases)

SandboxSpec == SandboxInit /\ [][SandboxNext]_sandboxVars /\ Fairness

-----------------------------------------------------------------------------
\* Types.
SandboxTypeOK ==
  /\ process \in {"down", "recovering", "up"} /\ lock \in BOOLEAN
  /\ sandboxTodo \subseteq SandboxCalls /\ sandboxClosed \in BOOLEAN /\ unhealthy \in BOOLEAN
  /\ closer \in {"none", "waiting", "released", "expired"} /\ taken \in 0..MaxConcurrent
  /\ sandboxAt \in [SandboxCalls -> holding \cup {"idle", "checked", "done"}]
  /\ outcome \in [SandboxCalls -> {"none", "refused", "ended", "unconfirmed"}]
  /\ records \subseteq SandboxCalls /\ vms \subseteq SandboxCalls /\ cutOff \subseteq SandboxCalls /\ orphans \subseteq cutOff /\ stops \in 0..MaxStops
  /\ sandboxSlots <= MaxConcurrent

\* Every VM the daemon keeps has an ownership record, whatever failed or crashed between
\* the record and the removal (runner.go's "leaves an exact name for startup recovery"),
\* but the VM of a create that was cut off: cli.go kills the command line or dies before
\* it, the daemon goes on, and the name may have been found absent in between.
VmsAreOwned == vms \subseteq records \cup cutOff

\* A result that says its cleanup was confirmed left no record, and no VM but a late one of
\* a create that was cut off.
ConfirmedIsGone == \A c \in SandboxCalls : outcome[c] = "ended" => c \notin records /\ (c \in vms => c \in cutOff)

\* Only the holder of the directory lock works on VMs: a Close that gave the lock back has
\* no command or cleanup of its own still running next to the process that takes it over.
LockCoversTheWork == (\E c \in SandboxCalls : sandboxAt[c] \in working) => lock

\* A Close whose deadline does not expire gets every slot back, whatever the commands
\* and their cleanups did.
CloseFinishes == closer = "waiting" ~> closer # "waiting"

\* sandbox-execution.md: "Cleanup cannot be confirmed | Retain ownership record and deny
\* further work until recovery".
UnhealthyAdmitsNothing == [][\A c \in SandboxCalls : sandboxAt[c] = "slot" /\ sandboxAt'[c] = "recorded" => ~unhealthy]_sandboxVars

\* Crashes, failing cleanups and a Close at any moment lose no VM whose create was answered,
\* and share no directory: the types and the first three parts above.
SandboxSafe == SandboxTypeOK /\ VmsAreOwned /\ ConfirmedIsGone /\ LockCoversTheWork
=============================================================================
