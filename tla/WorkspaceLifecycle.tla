------------------------- MODULE WorkspaceLifecycle -------------------------
(***************************************************************************)
(* The Workspaces of one owner: creation, onboarding, rename, archive,     *)
(* restore, deletion and the choice of the default (store/                 *)
(* postgres_workspaces.go), against the business writes of the Workspace,  *)
(* which a trigger admits only while it is active (store/                  *)
(* workspace_schema.go), and against the operator who revokes a grant.     *)
(*                                                                         *)
(* A lifecycle request is one Postgres transaction under READ COMMITTED:   *)
(* its statements are separate steps, each reading what is committed then, *)
(* and what it writes becomes visible at its last step.  Locks are the     *)
(* owner's row (FOR UPDATE) and the Workspace rows (FOR UPDATE by a        *)
(* request, FOR SHARE by a write).                                         *)
(***************************************************************************)
EXTENDS Naturals, FiniteSets, TLC

CONSTANTS Sessions,        \* lifecycle requests that may be open at a time
          Writers,         \* business transactions that may be open at a time
          MaxWorkspaces,   \* bound: Workspaces ever created
          MaxWrites,       \* bound: business transactions ever begun
          Patches,         \* the bodies of the PATCH and DELETE requests made
          Nobody           \* no lock holder, no Workspace

ASSUME WorkspaceConstants ==
  /\ MaxWorkspaces \in Nat \ {0}
  /\ MaxWrites \in Nat
  /\ Nobody \notin Sessions \cup 1..MaxWorkspaces

Ids == 1..MaxWorkspaces

\* PATCH carries a status, make_default and a replacement; DELETE only the
\* replacement.
Changes ==
  [status : {"keep", "active", "archived"}, makeDefault : BOOLEAN,
   repl : Ids \cup {Nobody}, remove : {FALSE}]
    \cup [status : {"keep"}, makeDefault : {FALSE},
          repl : Ids \cup {Nobody}, remove : {TRUE}]

ASSUME PatchesAssumption == Patches \subseteq Changes

VARIABLES
  ws,         \* workspaces and auth_memberships, by id
  marker,     \* auth_personal_workspaces: onboarding marker and default
  personal,   \* Workspaces made by onboarding
  workspaceOwner,      \* who holds the owner's row
  excl,       \* who holds a Workspace row FOR UPDATE
  shared,     \* the writers that hold it FOR SHARE
  sess,       \* the lifecycle requests
  txs,        \* the business transactions
  writes,     \* business transactions begun
  run,        \* the Run of a Workspace
  effect,     \* its tool effect
  payload     \* its captured payload

workspaceVars == <<ws, marker, personal, workspaceOwner, excl, shared, sess, txs, writes,
          run, effect, payload>>
business == <<run, effect, payload>>

Exists(w) == ws[w].status # "none"
Active(w) == ws[w].status = "active" /\ ~ws[w].deleted
Closed(w) == Exists(w) /\ ~Active(w)

\* GetWorkspace: the owner's, not deleted, membership not revoked.
Readable(w) == Exists(w) /\ ws[w].member /\ ~ws[w].deleted

\* DefaultWorkspace, WorkspaceModelOwner, CheckWorkspaceExecution.
Usable(w) == Readable(w) /\ Active(w)

NoSession == [pc |-> "idle"]
NoTx == [pc |-> "idle"]

WorkspaceInit ==
  /\ ws = [w \in Ids |-> [status |-> "none", deleted |-> FALSE, member |-> FALSE]]
  /\ marker = Nobody
  /\ personal = 0
  /\ workspaceOwner = Nobody
  /\ excl = [w \in Ids |-> Nobody]
  /\ shared = [w \in Ids |-> {}]
  /\ sess = [s \in Sessions |-> NoSession]
  /\ txs = [t \in Writers |-> NoTx]
  /\ writes = 0
  /\ run = [w \in Ids |-> "none"]
  /\ effect = [w \in Ids |-> "none"]
  /\ payload = [w \in Ids |-> "none"]

-----------------------------------------------------------------------------
(* Lifecycle requests *)

WorkspaceRequests ==
  [op : {"create", "provision"}]
    \cup {[op |-> "update", w |-> w, c |-> c] : w \in Ids, c \in Patches}

\* Bound: a Workspace is only asked for while one is left to create.
Room ==
  Cardinality({w \in Ids : Exists(w)})
    + Cardinality({z \in Sessions : sess[z].pc # "idle" /\ sess[z].req.op # "update"}) < MaxWorkspaces

Begin(s, r) ==
  /\ sess[s].pc = "idle"
  /\ r.op = "create" \/ (r.op = "provision" /\ marker = Nobody) => Room
  /\ sess' = [sess EXCEPT ![s] = [pc |-> "owner", req |-> r]]
  /\ UNCHANGED <<ws, marker, personal, workspaceOwner, excl, shared, txs, writes, business>>

\* The end of a transaction, committed or rolled back, frees its locks.
Release(s) ==
  /\ workspaceOwner' = IF workspaceOwner = s THEN Nobody ELSE workspaceOwner
  /\ excl' = [w \in Ids |-> IF excl[w] = s THEN Nobody ELSE excl[w]]
  /\ sess' = [sess EXCEPT ![s] = NoSession]

\* defer tx.Rollback(): a refused, failed or cancelled request.
Rollback(s) ==
  /\ Release(s)
  /\ UNCHANGED <<ws, marker, personal, shared, txs, writes, business>>

WorkspaceCancel(s) ==
  /\ sess[s].pc # "idle"
  /\ Rollback(s)

WorkspaceGoto(s, pc) == sess' = [sess EXCEPT ![s].pc = pc]

lockWorkspaceOwner(s) ==
  /\ sess[s].pc = "owner"
  /\ workspaceOwner = Nobody
  /\ workspaceOwner' = s
  /\ WorkspaceGoto(s, IF sess[s].req.op = "update" THEN "row" ELSE "insert")
  /\ UNCHANGED <<ws, marker, personal, excl, shared, txs, writes, business>>

\* The marker moves to the new Workspace only when the default is unusable.
DefaultAfterCreate(w) ==
  IF marker = Nobody \/ ~Usable(marker) THEN w ELSE marker

createOwnedWorkspace(s, w) ==
  /\ ~Exists(w) /\ \A v \in Ids : v < w => Exists(v)
  /\ ws' = [ws EXCEPT ![w] = [status |-> "active", deleted |-> FALSE, member |-> TRUE]]
  /\ marker' = DefaultAfterCreate(w)
  /\ Release(s)
  /\ UNCHANGED <<shared, txs, writes, business>>

CreateWorkspace(s) ==
  /\ sess[s].pc = "insert" /\ sess[s].req.op = "create"
  /\ \E w \in Ids : createOwnedWorkspace(s, w)
  /\ UNCHANGED personal

\* Does the login find the owner already onboarded?
Onboarded == marker # Nobody

ProvisionPersonalWorkspace(s) ==
  /\ sess[s].pc = "insert" /\ sess[s].req.op = "provision"
  /\ \/ Onboarded /\ Rollback(s)
     \/ /\ ~Onboarded
        /\ \E w \in Ids : createOwnedWorkspace(s, w)
        /\ personal' = personal + 1

\* The rows a FOR UPDATE can take now.
Lockable(w) == excl[w] = Nobody /\ shared[w] = {}

\* The status the change asks for.
NewStatus(s) ==
  LET q == sess[s].req IN
  IF q.c.status = "keep" THEN ws[q.w].status ELSE q.c.status

\* UpdateWorkspace reads the row under its lock; whether it closes the
\* Workspace, and whether it is the default, are decided from that read.
LockRow(s) ==
  /\ sess[s].pc = "row"
  /\ LET w == sess[s].req.w
         c == sess[s].req.c
         closing == c.remove \/ (NewStatus(s) = "archived" /\ ws[w].status # "archived")
     IN  \/ ~Readable(w) /\ Rollback(s)
         \/ /\ Readable(w) /\ Lockable(w)
            /\ excl' = [excl EXCEPT ![w] = s]
            /\ WorkspaceGoto(s, IF closing THEN "busy" ELSE "apply")
            /\ UNCHANGED <<ws, marker, personal, workspaceOwner, shared, txs, writes, business>>

\* Unfinished Runs, and effects whose outcome is not known.
Busy(w) == run[w] = "unfinished" \/ effect[w] = "uncertain"

CheckBusy(s) ==
  /\ sess[s].pc = "busy"
  /\ IF Busy(sess[s].req.w)
     THEN Rollback(s)
     ELSE /\ WorkspaceGoto(s, "other")
          /\ UNCHANGED <<ws, marker, personal, workspaceOwner, excl, shared, txs, writes, business>>

Other(w) == \E v \in Ids \ {w} : Usable(v)

CheckOther(s) ==
  /\ sess[s].pc = "other"
  /\ LET q == sess[s].req IN
     IF ~Other(q.w) \/ (marker = q.w /\ q.c.repl = Nobody)
     THEN Rollback(s)
     ELSE /\ WorkspaceGoto(s, IF marker = q.w THEN "replace" ELSE "apply")
          /\ UNCHANGED <<ws, marker, personal, workspaceOwner, excl, shared, txs, writes, business>>

Replaceable(w, v) == v # w /\ Usable(v)

LockReplacement(s) ==
  /\ sess[s].pc = "replace"
  /\ LET q == sess[s].req IN
     \/ ~Replaceable(q.w, q.c.repl) /\ Rollback(s)
     \/ /\ Replaceable(q.w, q.c.repl) /\ Lockable(q.c.repl)
        /\ excl' = [excl EXCEPT ![q.c.repl] = s]
        /\ WorkspaceGoto(s, "apply")
        /\ UNCHANGED <<ws, marker, personal, workspaceOwner, shared, txs, writes, business>>

\* A default that is being closed has given way to the locked replacement.
NewMarker(s) ==
  LET q == sess[s].req IN
  IF q.c.makeDefault THEN q.w
  ELSE IF marker = q.w /\ q.c.repl # Nobody /\ excl[q.c.repl] = s /\ q.c.repl # q.w THEN q.c.repl
  ELSE marker

Apply(s) ==
  /\ sess[s].pc = "apply"
  /\ LET q == sess[s].req IN
     IF q.c.makeDefault /\ (q.c.remove \/ NewStatus(s) # "active")
     THEN Rollback(s)
     ELSE /\ ws' = [ws EXCEPT ![q.w].status = NewStatus(s), ![q.w].deleted = @ \/ q.c.remove]
          /\ marker' = NewMarker(s)
          /\ Release(s)
          /\ UNCHANGED <<personal, shared, txs, writes, business>>

-----------------------------------------------------------------------------
(* Business writes *)

Kinds == {"start", "end", "effect", "settle", "capture", "erase"}

\* The write makes sense in what its transaction reads.
Applicable(k, w) ==
  CASE k = "start" -> run[w] # "unfinished"
    [] k = "end" -> run[w] = "unfinished"
    [] k = "effect" -> run[w] = "unfinished" /\ effect[w] # "uncertain"
    [] k = "settle" -> effect[w] = "uncertain"
    [] k = "capture" -> payload[w] = "none"
    [] k = "erase" -> payload[w] = "expired"

\* withWorkspace admits a new Run only into a readable, active Workspace; a
\* Run already going, an operator or the sweep comes in without it.
withWorkspace(t, w, k) ==
  /\ txs[t].pc = "idle" /\ writes < MaxWrites
  /\ Exists(w) /\ Applicable(k, w)
  /\ k = "start" => Usable(w)
  /\ txs' = [txs EXCEPT ![t] = [pc |-> "begun", w |-> w, kind |-> k]]
  /\ writes' = writes + 1
  /\ UNCHANGED <<ws, marker, personal, workspaceOwner, excl, shared, sess, business>>

EndTx(t) ==
  /\ txs' = [txs EXCEPT ![t] = NoTx]
  /\ shared' = [w \in Ids |-> shared[w] \ {t}]

\* Mutant: the trigger looks at the Workspace and takes no lock.
shareLockNone(t, w, exempt) == shared

\* SELECT ... FOR SHARE of the Workspace row.
shareLock(t, w, exempt) == IF exempt THEN shared ELSE [shared EXCEPT ![w] = @ \cup {t}]

\* The trigger: exact erasure of an expired payload passes unchecked; every
\* other write waits for the row and needs the Workspace active.
require_active_workspace(t) ==
  /\ txs[t].pc = "begun"
  /\ LET w == txs[t].w
         exempt == txs[t].kind = "erase" /\ payload[w] = "expired"
     IN  /\ exempt \/ excl[w] = Nobody
         /\ IF exempt \/ Active(w)
            THEN /\ txs' = [txs EXCEPT ![t].pc = "written"]
                 /\ shared' = shareLock(t, w, exempt)
            ELSE EndTx(t)
  /\ UNCHANGED <<ws, marker, personal, workspaceOwner, excl, sess, writes, business>>

\* Commit.  The row's own guard is evaluated again by the UPDATE.
CommitWrite(t) ==
  /\ txs[t].pc = "written"
  /\ LET w == txs[t].w
         k == txs[t].kind
         does(kinds) == k \in kinds /\ Applicable(k, w)
     IN  /\ run' = IF does({"start", "end"})
                   THEN [run EXCEPT ![w] = IF k = "start" THEN "unfinished" ELSE "finished"]
                   ELSE run
         /\ effect' = IF does({"effect", "settle"})
                      THEN [effect EXCEPT ![w] = IF k = "effect" THEN "uncertain" ELSE "settled"]
                      ELSE effect
         /\ payload' = IF does({"capture", "erase"})
                       THEN [payload EXCEPT ![w] = IF k = "capture" THEN "held" ELSE "erased"]
                       ELSE payload
  /\ EndTx(t)
  /\ UNCHANGED <<ws, marker, personal, workspaceOwner, excl, sess, writes>>

AbortWrite(t) ==
  /\ txs[t].pc # "idle"
  /\ EndTx(t)
  /\ UNCHANGED <<ws, marker, personal, workspaceOwner, excl, sess, writes, business>>

-----------------------------------------------------------------------------
(* The operator and time *)

\* The operator deletes or adds a membership row in the database.
Grant(w, on) ==
  /\ Exists(w) /\ ws[w].member # on
  /\ ws' = [ws EXCEPT ![w].member = on]
  /\ UNCHANGED <<marker, personal, workspaceOwner, excl, shared, sess, txs, writes, business>>

WorkspaceExpire(w) ==
  /\ payload[w] = "held"
  /\ payload' = [payload EXCEPT ![w] = "expired"]
  /\ UNCHANGED <<ws, marker, personal, workspaceOwner, excl, shared, sess, txs, writes, run, effect>>

SessionStep(s) ==
  \/ CreateWorkspace(s) \/ ProvisionPersonalWorkspace(s)
  \/ LockRow(s) \/ CheckBusy(s) \/ CheckOther(s) \/ LockReplacement(s) \/ Apply(s)

WriterStep(t) == require_active_workspace(t) \/ CommitWrite(t)

WorkspaceNext ==
  \/ \E s \in Sessions :
       \/ \E r \in WorkspaceRequests : Begin(s, r)
       \/ lockWorkspaceOwner(s) \/ SessionStep(s) \/ WorkspaceCancel(s)
  \/ \E t \in Writers :
       \/ \E w \in Ids, k \in Kinds : withWorkspace(t, w, k)
       \/ WriterStep(t) \/ AbortWrite(t)
  \/ \E w \in Ids : WorkspaceExpire(w) \/ \E on \in BOOLEAN : Grant(w, on)

WorkspaceSpec == WorkspaceInit /\ [][WorkspaceNext]_workspaceVars

\* A statement that can run runs; the lock on the owner's row is granted in
\* the order of its queue.
WorkspaceFairSpec ==
  /\ WorkspaceSpec
  /\ \A s \in Sessions : SF_workspaceVars(lockWorkspaceOwner(s)) /\ WF_workspaceVars(SessionStep(s))
  /\ \A t \in Writers : WF_workspaceVars(WriterStep(t))

-----------------------------------------------------------------------------
(* Properties *)

\* Types.
WorkspaceTypeOK ==
  /\ ws \in [Ids -> [status : {"none", "active", "archived"}, deleted : BOOLEAN,
                     member : BOOLEAN]]
  /\ marker \in Ids \cup {Nobody}
  /\ personal \in Nat /\ writes \in 0..MaxWrites
  /\ workspaceOwner \in Sessions \cup {Nobody}
  /\ excl \in [Ids -> Sessions \cup {Nobody}]
  /\ shared \in [Ids -> SUBSET Writers]
  /\ \A s \in Sessions : sess[s].pc \in {"idle", "owner", "insert", "row", "busy",
                                         "other", "replace", "apply"}
  /\ \A t \in Writers : txs[t].pc \in {"idle", "begun", "written"}
  /\ run \in [Ids -> {"none", "unfinished", "finished"}]
  /\ effect \in [Ids -> {"none", "uncertain", "settled"}]
  /\ payload \in [Ids -> {"none", "held", "expired", "erased"}]

\* A Workspace is only ever closed quiet: no unfinished Run and no uncertain
\* effect is left behind in an archived or deleted one, whatever admission
\* raced with the closing (the shared lock of require_active_workspace
\* against the FOR UPDATE of UpdateWorkspace).
ClosedIsQuiet == \A w \in Ids : Closed(w) => ~Busy(w)

\* The default is never archived or deleted, whatever closing, creation and
\* choice of default interleave (the owner lock, the replacement in the same
\* transaction): an onboarded owner always has an active Workspace left.
DefaultStaysActive == marker # Nobody => Active(marker)

\* Onboarding happens once: concurrent first logins, and logins after a
\* deletion or a revocation, make no second personal Workspace and give no
\* grant back (ProvisionPersonalWorkspace reads the marker under the lock).
OnboardedOnce == personal <= 1

\* In a closed Workspace nothing of the business state is written any more,
\* not even by a transaction begun before it was closed, except that a
\* payload expires and is erased (require_active_workspace).
closedIsReadOnly ==
  \A w \in Ids : Closed(w) =>
       /\ run'[w] = run[w] /\ effect'[w] = effect[w]
       /\ payload'[w] # payload[w] =>
            <<payload[w], payload'[w]>> \in {<<"held", "expired">>, <<"expired", "erased">>}

\* Every lifecycle request ends: locks are taken owner first, so no two
\* requests wait for each other, and every refusal frees what it holds.
RequestsEnd == \A s \in Sessions : sess[s].pc # "idle" ~> sess[s].pc = "idle"

\* Closing, restoring, choosing a default and onboarding interleave with each other and
\* with business writes without leaving a Workspace half closed: the five parts above.
WorkspacesSafe ==
  /\ [](WorkspaceTypeOK /\ ClosedIsQuiet /\ DefaultStaysActive /\ OnboardedOnce)
  /\ [][closedIsReadOnly]_workspaceVars
=============================================================================
