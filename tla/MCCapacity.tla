----------------------------- MODULE MCCapacity -----------------------------
(***************************************************************************)
(* The components that ration what Runs and requests share, one at a time:  *)
(* the run picks a part, whose Next then moves while the other parts rest.  *)
(***************************************************************************)
EXTENDS RunAdmission, UsageLedger, ModelRequestLimiter, WorkspaceLifecycle, TLC

CONSTANT Parts \* which components this run explores
VARIABLE part \* the one that moves

\* Archive with and without a replacement, delete with one, restore or choose as the
\* default.  A rename changes nothing that is modelled.
MCPatches ==
  {c \in Changes :
     \/ c.status = "archived" /\ ~c.makeDefault /\ c.repl \in {1, Nobody}
     \/ c.remove /\ c.repl = 2
     \/ c.status = "active" /\ c.makeDefault /\ c.repl = Nobody}

\* Closing alone: what a lifecycle request and a business write wait for.
Closings == {c \in Changes : c.status = "archived" /\ ~c.makeDefault /\ c.repl = 2}

\* Reports within an estimate of 1 or 2, with and without cached input, above it, above any
\* cap, and with a total of their own.
Report(p, k, t, c) == [prompt |-> p, completion |-> k, total |-> t, cached |-> c]
MCReports == {Report(1, 1, 2, 0), Report(2, 0, 0, 1), Report(1, 3, 4, 1), Report(3, 1, 4, 0), Report(1, 5, 6, 0), Report(1, 1, 4, 0)}

\* Bounds that keep the four parts within one run.  Calls, tools and requests start in
\* the order of their names; one owner loses access and one wait runs out; one
\* request costs more than the bucket holds, and one is not retried; lifecycle requests
\* race each other before the first business write, one of them races two writes.
CapacityBounds ==
  CASE part = "ledger" ->
         /\ (ledgerPc["c1"] = "idle" => ledgerPc["c2"] = "idle")
         /\ (ledgerPc["c2"] = "idle" => ledgerPc["c3"] = "idle")
         /\ ("t2" \in executed => "t1" \in executed)
         /\ (ledgerPc["c3"] # "idle" => executed = {} /\ attempts["c2"] <= 1)
    [] part = "limiter" ->
         /\ Cardinality(expired) <= 1 /\ Cardinality(revoked) <= 1
         /\ owner["r1"] = "o1" /\ owner["r2"] = "o1" /\ owner["r3"] = "o2"
         /\ cost["r1"] = 1 /\ cost["r3"] = 1 /\ limiterAttempts["r3"] <= 1
    [] part = "workspaces" ->
         /\ Cardinality({w \in Ids : ~ws[w].member /\ Exists(w)}) <= 1
         /\ writes > 0 => \E s \in Sessions : \A z \in Sessions \ {s} : sess[z].pc = "idle"
         /\ Cardinality({s \in Sessions : /\ sess[s].pc # "idle" /\ sess[s].req.op = "update"
                                         /\ sess[s].req.c.status # "archived"}) <= 1
         /\ writes > 1 => \A s \in Sessions : sess[s].pc # "idle" =>
              sess[s].req.op = "update" /\ ~sess[s].req.c.makeDefault
         /\ writes > 1 => \A w \in Ids : Exists(w) => ws[w].member
    [] OTHER -> TRUE

-----------------------------------------------------------------------------
CapacityInit ==
  /\ part \in Parts
  /\ Init
  /\ LedgerInit
  /\ LimiterInit
  /\ WorkspaceInit
  /\ part # "admission" => conv = [r \in Reservations |-> CHOOSE c \in Conversations : TRUE]
  /\ part # "limiter" => owner = [r \in Requests |-> CHOOSE o \in Owners : TRUE] /\ cost = [r \in Requests |-> CHOOSE c \in Costs : TRUE]

CapacityNext ==
  \/ part = "admission" /\ Next /\ UNCHANGED <<part, ledgerVars, limiterVars, workspaceVars>>
  \/ part = "ledger" /\ LedgerNext /\ UNCHANGED <<part, vars, limiterVars, workspaceVars>>
  \/ part = "limiter" /\ LimiterNext /\ UNCHANGED <<part, vars, ledgerVars, workspaceVars>>
  \/ part = "workspaces" /\ WorkspaceNext /\ UNCHANGED <<part, vars, ledgerVars, limiterVars>>

capacityVars == <<part, vars, ledgerVars, limiterVars, workspaceVars>>
CapacitySpec == CapacityInit /\ [][CapacityNext]_capacityVars

\* The fairness of RunAdmission, ModelRequestLimiter and WorkspaceLifecycle, each for
\* its own part.
CapacityFairSpec ==
  /\ CapacitySpec
  /\ WF_vars(part = "admission" /\ Drained)
  /\ \A r \in Reservations :
       /\ WF_vars(part = "admission" /\ Proceed(r))
       /\ SF_vars(part = "admission" /\ TakeToken(r)) /\ SF_vars(part = "admission" /\ TakeSlot(r))
  /\ \A r \in Requests :
       /\ WF_limiterVars(part = "limiter" /\ CloseWakes(r))
       /\ WF_limiterVars(part = "limiter" /\ LimiterProceed(r))
  /\ \A s \in Sessions :
       /\ SF_workspaceVars(part = "workspaces" /\ lockWorkspaceOwner(s))
       /\ WF_workspaceVars(part = "workspaces" /\ SessionStep(s))
  /\ \A t \in Writers : WF_workspaceVars(part = "workspaces" /\ WriterStep(t))

\* Nobody waits for ever for something shared: every accepted command leaves and a
\* shutdown drains (RunAdmission), Close ends every wait of the limiter
\* (ModelRequestLimiter), and every lifecycle request of a Workspace gets its locks
\* (WorkspaceLifecycle).
WaitsEnd == AcceptedLeaves /\ DrainCompletes /\ CloseEndsWaits /\ RequestsEnd
=============================================================================
