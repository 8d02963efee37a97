SPECIFICATION ToolCallsFairSpec
CONSTANTS
  Parts = {"effects", "sandbox"}
  Calls = {"c1"}
  Commands = {"m1"}
  Requests = {"r1"}
  Faults = {FALSE}
  MaxBoots = 2
  Tools = {"reader", "sender"}
  Modes = {"eager", "lazy"}
  MaxSearchCalls = 2
  MaxActiveTools = 2
  BatchMax = 2
  MaxRounds = 4
  MaxRetries = 2
  GuardCalls = {"read", "write"}
  Writers = {"write"}
  Results = {"r1"}
  BlockAfter = 3
  HaltAfter = 4
  HistoryMax = 4
  GuardBatchMax = 2
  MaxGuardRounds = 7
  MaxCrashes = 1
  MaxResets = 1
  Bindings <- MCBindings
  Harness = {"task"}
  Remote = {"mcp"}
  Security <- MCSecurity
  Scopes <- MCScopes
  Credentials = {}
  Configs <- MCConfigs
  ReadTool = "file_read"
  MaxChanges = 2
  Urls = {"u1", "u2"}
  Definitions = {"a", "b"}
  McpRuns = {"r1"}
  Testers = {"t1"}
  MaxRevision = 4
  MaxTokens = 0
  MaxAdapters = 2
  MaxRemoteChanges = 1
  SandboxCalls = {"q1", "q2"}
  MaxConcurrent = 2
  MaxStops = 1
PROPERTIES
  CallsComeToAnEnd
CHECK_DEADLOCK FALSE
