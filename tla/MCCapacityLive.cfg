SPECIFICATION CapacityFairSpec
CONSTANTS
  Parts = {"admission", "limiter", "workspaces"}
  None = "none"
  Reservations = {"a1", "a2"}
  Conversations = {"v1", "v2"}
  Entries = {"e1", "e2"}
  MaxConcurrent = 1
  QueueSize = 1
  Calls = {"c1"}
  Tools = {"t1"}
  Estimates = {1, 2}
  MaxModelCalls = 2
  MaxToolCalls = 1
  MaxPromptTokens = 4
  MaxCompletionTokens = 4
  MaxTotalTokens = 6
  MaxEstimatedCost = 6
  MaxRuntime = 1
  Reports <- MCReports
  InputRate = 3
  OutputRate = 5
  CachedRate = 1
  Million = 4
  MaxInt64 = 7
  MaxAttempts = 2
  Requests = {"r1", "r2"}
  Owners = {"o1"}
  MaxLimiterConcurrent = 2
  OwnerMaxConcurrent = 1
  OwnerQueueSize = 1
  RequestCapacity = 2
  TokenCapacity = 2
  Costs = {1, 3}
  MaxLimiterAttempts = 2
  Sessions = {s1, s2}
  Writers = {t1}
  MaxWorkspaces = 2
  MaxWrites = 1
  Nobody = nobody
  Patches <- Closings
PROPERTIES
  WaitsEnd
CHECK_DEADLOCK FALSE
