SPECIFICATION CapacitySpec
CONSTANTS
  Parts = {"admission", "ledger", "limiter", "workspaces"}
  None = "none"
  Reservations = {"a1", "a2", "a3"}
  Conversations = {"v1", "v2"}
  Entries = {"e1", "e2", "e3"}
  MaxConcurrent = 1
  QueueSize = 1
  Calls = {"c1", "c2", "c3"}
  Tools = {"t1", "t2"}
  Estimates = {1, 2}
  MaxModelCalls = 2
  MaxToolCalls = 1
  MaxPromptTokens = 4
  MaxCompletionTokens = 4
  MaxTotalTokens = 6
  MaxEstimatedCost = 6
  MaxRuntime = 1
  Reports <- MCReports
  InputRate = 3
  OutputRate = 5
  CachedRate = 1
  Million = 4
  MaxInt64 = 7
  MaxAttempts = 2
  Requests = {"r1", "r2", "r3"}
  Owners = {"o1", "o2"}
  MaxLimiterConcurrent = 2
  OwnerMaxConcurrent = 1
  OwnerQueueSize = 1
  RequestCapacity = 2
  TokenCapacity = 2
  Costs = {1, 3}
  MaxLimiterAttempts = 2
  Sessions = {s1, s2}
  Writers = {t1}
  MaxWorkspaces = 2
  MaxWrites = 2
  Nobody = nobody
  Patches <- MCPatches
CONSTRAINT CapacityBounds
INVARIANTS
  AdmissionSafe
PROPERTIES
  BudgetHolds
  LimiterSafe
  WorkspacesSafe
CHECK_DEADLOCK FALSE
