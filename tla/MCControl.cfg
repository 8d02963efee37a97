SPECIFICATION ControlSpec
CONSTANTS
  Parts = {"lifecycle", "clarification", "inputs", "checkpoints", "verification"}
  Stops = {x1, x2}
  Contracts = {TRUE, FALSE}
  MaxBoots = 3
  MaxEvents = 4
  MaxForeign = 3
  Commands = {x1, x2}
  Keys = {y1, y2}
  None = None
  MaxReceipts = 2
  MaxWrites = 2
  Jobs = {x1, x2}
  InputKeys = {y1, y2}
  InputNone = none
  MaxPending = 2
  MaxInputReceipts = 2
  MaxRuns = 3
  MaxWithdrawals = 1
  MaxFaults = 1
  Roles <- RolesValue
  MaxCrashes = 2
  MaxEffects = 1
  Verifiers <- VerifiersValue
  SchemaVerifier = "schema"
  MaxAttemptsIn = {0, 9}
  MaxCandidates = 2
  MaxGateFaults = 1
  MaxChanges = 1
SYMMETRY ControlSymmetry
CONSTRAINT OneDisturbance
INVARIANTS
  LifecycleSafe
  DiagnosticsCleanButStoppedRecovery
  ClarificationSafe
  RestoreSafe
  VerificationSafe
PROPERTIES
  ImplementsRunStatus
  InputsTakeEffectOnce
CHECK_DEADLOCK FALSE
