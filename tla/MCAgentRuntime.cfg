SPECIFICATION AgentRuntimeSpec
CONSTANTS
  Parts = {"stream", "routing", "assembly", "compaction", "skills", "autonomous", "selection"}
  Kinds = {"answer", "tools", "completion", "embedding"}
  Payloads = {"plain", "secret", "large"}
  CaptureMode = "full"
  MaxTries = 2
  MaxPieces = 2
  Chunks <- MCChunks
  RouteFiles <- MCFiles
  Turns <- MCTurns
  MultiAgent = FALSE
  RouterAuto = FALSE
  Strict = FALSE
  ContextWindow = 12
  OutputReserve = 2
  SafetyMargin = 1
  SchemaTokens = 1
  MaxTurns = 4
  MaxRestarts = 3
  Sessions <- MCSessions
  Size <- MCSize
  ToolTexts = {"p1", "p2", "q0"}
  ToolSource <- MCToolSource
  Inputs = {"i1", "i2"}
  Skills = {"g1"}
  MaxRounds = 2
  MaxAssemblyTurns = 2
  Roles = {"user", "assistant"}
  Triggers = {"soft", "hard", "provider_overflow"}
  MaxMessages = 5
  MaxCompactionAttempts = 2
  MaxTime = 3
  MaxCrashes = 1
  MinProtected = 1
  RecentTokens = 1
  SoftThreshold = 3
  HardThreshold = 3
  Transient = 1
  Configuration = 2
  LowYield = 2
  Grace = 1
  Names = {"s1", "s2"}
  Versions = {2, 3}
  Policy <- MCPolicy
  RequiredTools <- MCRequiredTools
  Tools = {"t"}
  Agents = {"a", "b"}
  Bound <- MCBound
  Binding <- MCBinding
  Installers = {"i1", "i2"}
  Installed <- MCInstalled
  Resource <- MCResource
  MaxPageBytes = 2
  MaxEvents = 3
  MaxIterations = 2
  MaxOutputChars = 11
  Contracted = FALSE
  MaxResumes = 2
  SelectionAgents = {1, 2, 3}
  SelectionTools = {"shell", "web"}
  Profiles <- MCProfiles
  TaskTools = {"web"}
  Approvals <- MCApprovals
  Scores = {5, 6, 101}
  Confidences = {0, 1, 3}
  Modes = {"query_match", "auto"}
  MaxSelectionCrashes = 2
  MaxChanges = 2
CONSTRAINT AgentRuntimeBounds
INVARIANTS
  ModelCallSafe
  AssemblySafe
  SelectionSafe
PROPERTIES
  RoutingSafe
  CompactionSafe
  SkillsSafe
  IterationsSafe
CHECK_DEADLOCK FALSE
