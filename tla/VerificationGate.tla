-------------------------- MODULE VerificationGate --------------------------
(***************************************************************************)
(* The completion gate of a contracted Run.  An execution saves its answer, *)
(* binds it to the Run with a citation receipt and has the verification     *)
(* engine check it: stale markers for the evidence of other subjects, one   *)
(* evidence record per verifier, the gate's decision, the Run's settlement. *)
(* Each is a durable write of its own; any of them may fail and the process *)
(* may die between two.  A rejected Run may be resumed, which produces      *)
(* another candidate, or reverified, which checks the bound one again.      *)
(* Executions and Reverify hold the Conversation's writer, so one of them   *)
(* is under way at a time.                                                   *)
(***************************************************************************)
EXTENDS Naturals, Sequences, SequencesExt, FiniteSets, FiniteSetsExt

CONSTANTS Verifiers,      \* the contract's verifiers, in order
          SchemaVerifier, \* the one the structured output is taken from
          MaxAttemptsIn,  \* values of policy.max_attempts a request may send
          MaxCandidates,  \* executions that reach completion
          MaxGateFaults,      \* crashes and failing writes
          MaxChanges      \* changes of the documents the answer is grounded on

ASSUME VerifiersAssumption ==
  /\ Verifiers \in Seq(Range(Verifiers)) /\ Verifiers # <<>> /\ IsInjective(Verifiers)
  /\ SchemaVerifier \in Range(Verifiers)

VARIABLES contract,  \* the frozen Completion Contract
          gateRun, verification,  \* runs.status and runs.verification_status
          saved,     \* candidates saved as messages
          receipts,  \* citation receipts: the candidate each one binds
          evidence,  \* verification_evidence, append-only
          grounding, \* version of the documents the subject hash covers
          gatePc,        \* idle, work, saved, gate, stale, verify, decide, settle
          job,       \* what the running command verifies: reverify or not, subject, attempt, what is left
          gateFaults
gateVars == <<contract, gateRun, verification, saved, receipts, evidence, grounding, gatePc, job, gateFaults>>

VerifierSet == Range(Verifiers)
NoJob == [reverify |-> FALSE, subject |-> <<0, 0>>, attempt |-> 0, left |-> <<>>, decision |-> "none"]

\* Defaults of the policy; a contract with no required verifier or an attempt
\* bound outside 1..5 is refused.
FreezeContract(c) ==
  [c EXCEPT !.mode = IF @ = "" THEN "all_must_pass" ELSE @,
            !.maxAttempts = IF @ = 0 THEN 2 ELSE @,
            !.onExhausted = IF @ = "" THEN "waiting_for_user" ELSE @]
acceptedContract(c) == c.required # {} /\ FreezeContract(c).maxAttempts \in 1..5

Requests == [required : SUBSET VerifierSet, mode : {"", "any_may_pass"}, maxAttempts : MaxAttemptsIn,
             onExhausted : {"", "fail"}]

GateInit ==
  /\ contract \in {FreezeContract(c) : c \in {r \in Requests : acceptedContract(r)}}
  /\ gateRun = "running" /\ verification = "pending"
  /\ saved = 0 /\ receipts = <<>> /\ evidence = <<>> /\ grounding = 1
  /\ gatePc = "work" /\ job = NoJob /\ gateFaults = 0

fresh == {i \in 1..Len(evidence) : evidence[i].status # "stale"}
superseded == {evidence[i].supersedes : i \in (1..Len(evidence)) \ fresh}

nextAttempt == 1 + Max({0} \cup {evidence[i].attempt : i \in fresh})

----------------------------------------------------------------------------
(* Complete: the candidate is saved, then bound, before it is verified.     *)

SaveCandidate ==
  /\ gatePc = "work" /\ saved < MaxCandidates
  /\ saved' = saved + 1 /\ gatePc' = "saved"
  /\ UNCHANGED <<contract, gateRun, verification, receipts, evidence, grounding, job, gateFaults>>

BindCandidate ==
  /\ gatePc = "saved" /\ receipts' = Append(receipts, saved) /\ gatePc' = "gate"
  /\ job' = NoJob
  /\ UNCHANGED <<contract, gateRun, verification, saved, evidence, grounding, gateFaults>>

\* The subject hash covers the answer and the content it is grounded on.
verificationSubjectForRun(candidate) == <<candidate, grounding>>

\* Mutant: the candidate is the latest answer of the Conversation.
boundCandidateLatest == saved

\* The last receipt names the Run's candidate.
boundCandidate == IF receipts = <<>> THEN 0 ELSE Last(receipts)

\* Evidence made since the binding must be about the same subject.
validateSubjectEvidence(subject) ==
  \A i \in fresh : evidence[i].epoch = Len(receipts) => evidence[i].subject = subject

\* Reverify: not of a completed or canceled Run, and only of a bound candidate.
GateReverify ==
  /\ gatePc = "idle" /\ gateRun # "completed" /\ boundCandidate # 0
  /\ validateSubjectEvidence(verificationSubjectForRun(boundCandidate))
  /\ gatePc' = "gate" /\ job' = [NoJob EXCEPT !.reverify = TRUE]
  /\ UNCHANGED <<contract, gateRun, verification, saved, receipts, evidence, grounding, gateFaults>>

----------------------------------------------------------------------------
(* The engine.                                                              *)

exhaustedDecision == IF contract.onExhausted = "waiting_for_user" THEN "waiting_for_user" ELSE "failed"

\* Verify: an exhausted budget is a decision without an attempt; the previous
\* evidence is read here and marked afterwards.
Verify ==
  LET subject == verificationSubjectForRun(IF job.reverify THEN boundCandidate ELSE saved)
      old == {i \in fresh : evidence[i].subject # subject /\ i \notin superseded}
  IN
  /\ gatePc = "gate"
  /\ \/ /\ nextAttempt > contract.maxAttempts
        /\ job' = [job EXCEPT !.subject = subject, !.decision = exhaustedDecision]
        /\ gatePc' = "settle" /\ UNCHANGED verification
     \/ /\ nextAttempt <= contract.maxAttempts
        /\ verification' = "running"
        /\ job' = [job EXCEPT !.subject = subject, !.attempt = nextAttempt, !.left = SetToSortSeq(old, <)]
        /\ gatePc' = "stale"
  /\ UNCHANGED <<contract, gateRun, saved, receipts, evidence, grounding, gateFaults>>

record(v, status, supersedes) ==
  [verifier |-> v, attempt |-> job.attempt, subject |-> job.subject, status |-> status,
   supersedes |-> supersedes, epoch |-> Len(receipts)]

\* Evidence of another subject is superseded by a marker, never rewritten.
markStaleEvidence ==
  /\ gatePc = "stale"
  /\ \/ /\ job.left # <<>> /\ job' = [job EXCEPT !.left = Tail(@)] /\ UNCHANGED gatePc
        /\ evidence' = Append(evidence, record(evidence[Head(job.left)].verifier, "stale", Head(job.left)))
     \/ /\ job.left = <<>> /\ gatePc' = "verify" /\ job' = [job EXCEPT !.left = Verifiers] /\ UNCHANGED evidence
  /\ UNCHANGED <<contract, gateRun, verification, saved, receipts, grounding, gateFaults>>

\* An unavailable implementation, a timeout or an invalid result is blocked.
runVerifier ==
  /\ gatePc = "verify" /\ job.left # <<>>
  /\ \E status \in {"passed", "failed", "blocked"} :
       evidence' = Append(evidence, record(Head(job.left), status, 0))
  /\ job' = [job EXCEPT !.left = Tail(@)]
  /\ UNCHANGED <<contract, gateRun, verification, saved, receipts, grounding, gatePc, gateFaults>>

resultOf(v, attempt) ==
  {evidence[i].status : i \in {j \in fresh : evidence[j].verifier = v /\ evidence[j].attempt = attempt}}
requiredWith(status, attempt) == {v \in contract.required : resultOf(v, attempt) = {status}}

gatePasses(attempt) ==
  IF contract.mode = "any_may_pass" THEN requiredWith("passed", attempt) # {}
  ELSE requiredWith("passed", attempt) = contract.required

\* The persisted verification status and the Run status that follows from it.
evaluateGate ==
  /\ gatePc = "verify" /\ job.left = <<>>
  /\ verification' = IF gatePasses(job.attempt) THEN "passed"
                     ELSE IF requiredWith("blocked", job.attempt) # {} /\ requiredWith("failed", job.attempt) = {}
                          THEN "blocked" ELSE "failed"
  /\ job' = [job EXCEPT !.decision = IF gatePasses(job.attempt) THEN "completed"
                                     ELSE IF job.attempt >= contract.maxAttempts THEN exhaustedDecision
                                     ELSE "failed_recoverable"]
  /\ gatePc' = "settle"
  /\ UNCHANGED <<contract, gateRun, saved, receipts, evidence, grounding, gateFaults>>

\* CompleteVerifiedRun or RejectRunCompletion; a settled Run of the same status stays.
verifySubject ==
  /\ gatePc = "settle"
  /\ gateRun' = IF gateRun = "completed" THEN gateRun ELSE job.decision
  /\ gatePc' = "idle" /\ job' = NoJob
  /\ UNCHANGED <<contract, verification, saved, receipts, evidence, grounding, gateFaults>>

----------------------------------------------------------------------------
(* Faults, and what happens between two commands.                           *)

\* A write fails.  Before the gate the execution fails the Run; a failing
\* verification is recorded as blocked, and fails the Run of an execution only.
GateWriteFails ==
  /\ gatePc \notin {"idle", "work"} /\ gateFaults < MaxGateFaults
  /\ verification' = IF gatePc \in {"gate", "stale", "verify"} THEN "blocked" ELSE verification
  /\ gateRun' = IF job.reverify THEN gateRun ELSE "failed"
  /\ gatePc' = "idle" /\ job' = NoJob /\ gateFaults' = gateFaults + 1
  /\ UNCHANGED <<contract, saved, receipts, evidence, grounding>>

\* The process dies; the cold start makes an active Run recoverable.
GateCrash ==
  /\ gatePc # "idle" /\ gateFaults < MaxGateFaults
  /\ gateRun' = IF gateRun = "running" THEN "failed_recoverable" ELSE gateRun
  /\ gatePc' = "idle" /\ job' = NoJob /\ gateFaults' = gateFaults + 1
  /\ UNCHANGED <<contract, verification, saved, receipts, evidence, grounding>>

\* Resume or Continue executes again; verification keeps its last status.
Resume ==
  /\ gatePc = "idle" /\ gateRun \in {"failed_recoverable", "waiting_for_user"} /\ saved < MaxCandidates
  /\ gateRun' = "running" /\ gatePc' = "work"
  /\ UNCHANGED <<contract, verification, saved, receipts, evidence, grounding, job, gateFaults>>

\* A cited document is replaced or deleted.
ChangeDocument ==
  /\ grounding <= MaxChanges /\ grounding' = grounding + 1
  /\ UNCHANGED <<contract, gateRun, verification, saved, receipts, evidence, gatePc, job, gateFaults>>

GateNext ==
  \/ SaveCandidate \/ BindCandidate \/ GateReverify \/ Verify \/ markStaleEvidence \/ runVerifier
  \/ evaluateGate \/ verifySubject \/ GateWriteFails \/ GateCrash \/ Resume \/ ChangeDocument

GateSpec == GateInit /\ [][GateNext]_gateVars

----------------------------------------------------------------------------
(* Properties.                                                              *)

lastAttempt == Max({0} \cup {evidence[i].attempt : i \in fresh})

\* A completed Run was completed by its gate: the verification status says so,
\* the last attempt satisfies the policy, and every result of that attempt is
\* about the candidate the Run is bound to.
CompletedIsVerified ==
  gateRun = "completed" =>
    /\ verification = "passed" /\ receipts # <<>>
    /\ LET passed == {v \in contract.required : resultOf(v, lastAttempt) = {"passed"}}
       IN passed # {} /\ (contract.mode = "all_must_pass" => passed = contract.required)
    /\ \A i \in fresh : evidence[i].attempt = lastAttempt => evidence[i].subject[1] = Last(receipts)

\* Revisions, crashes and retries share one attempt budget: no verifier has more
\* results than the contract allows attempts.
AttemptBudget ==
  \A v \in VerifierSet :
    Cardinality({i \in fresh : evidence[i].verifier = v}) <= contract.maxAttempts

\* An attempt is about one subject: evidence of two candidates is never mixed,
\* however an attempt was interrupted.
OneSubjectPerAttempt ==
  \A i, j \in fresh : evidence[i].attempt = evidence[j].attempt => evidence[i].subject = evidence[j].subject

\* StructuredResult: the schema verifier's passed evidence of the highest attempt.
StructuredResult ==
  LET latest == Max({0} \cup {evidence[i].attempt : i \in 1..Len(evidence)})
  IN IF gateRun # "completed" \/ verification # "passed" THEN {}
     ELSE {evidence[i].subject[1] : i \in {j \in 1..Len(evidence) :
            evidence[j].verifier = SchemaVerifier /\ SchemaVerifier \in contract.required
            /\ evidence[j].attempt = latest /\ evidence[j].status = "passed"}}

\* The published structured result is the bound candidate's, and a Run completed
\* under all_must_pass with a required schema always has one.
ResultIsTheCandidate ==
  /\ StructuredResult # {} => StructuredResult = {Last(receipts)}
  /\ gateRun = "completed" /\ contract.mode = "all_must_pass" /\ SchemaVerifier \in contract.required
       => StructuredResult # {}

\* CheckRuntimeInvariants: a terminal verification status has fresh evidence.
FreshEvidenceExists ==
  verification \in {"passed", "failed", "blocked"} => \E i \in fresh : i \notin superseded

\* Completion is decided by evidence about the one candidate the Run is bound to, within
\* one attempt budget, however attempts are interrupted: the four parts above.
VerificationSafe == CompletedIsVerified /\ AttemptBudget /\ OneSubjectPerAttempt /\ ResultIsTheCandidate
=============================================================================
