SPECIFICATION ToolCallsSpec
CONSTANTS
  Parts = {"effects", "toolloop", "guard", "authority", "mcp", "sandbox"}
  Calls = {"c1", "c2"}
  Commands = {"m1", "m2"}
  Requests = {"r1"}
  Faults = {TRUE}
  MaxBoots = 2
  Tools = {"reader", "sender", "writer"}
  Modes = {"eager", "lazy"}
  MaxSearchCalls = 2
  MaxActiveTools = 2
  BatchMax = 2
  MaxRounds = 5
  MaxRetries = 1
  GuardCalls = {"read", "write"}
  Writers = {"write"}
  Results = {"r1"}
  BlockAfter = 3
  HaltAfter = 4
  HistoryMax = 4
  GuardBatchMax = 2
  MaxGuardRounds = 4
  MaxCrashes = 1
  MaxResets = 1
  Bindings <- MCBindings
  Harness = {"task"}
  Remote = {"mcp"}
  Security <- MCSecurity
  Scopes <- MCScopes
  Credentials = {}
  Configs <- MCConfigs
  ReadTool = "file_read"
  MaxChanges = 2
  Urls = {"u1", "u2"}
  Definitions = {"a", "b"}
  McpRuns = {"r1"}
  Testers = {"t1"}
  MaxRevision = 4
  MaxTokens = 2
  MaxAdapters = 2
  MaxRemoteChanges = 1
  SandboxCalls = {"q1", "q2", "q3"}
  MaxConcurrent = 2
  MaxStops = 2
CONSTRAINT ToolCallsBounds
INVARIANTS
  EffectsOnce
  JournalIsTruthful
  SandboxSafe
PROPERTIES
  ToolLoopSafe
  ProgressIsForced
  AuthorityHolds
  ConnectionsSafe
CHECK_DEADLOCK FALSE
