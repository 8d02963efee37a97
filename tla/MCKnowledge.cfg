SPECIFICATION KnowledgeSpec
CONSTANTS
  Parts = {"memory", "documents", "search", "web", "history", "tasks"}
  Messages = {"m1"}
  Draft <- Drafts
  AdaptiveMode = "auto"
  Explicit <- Saved
  Commands <- Edits
  QueueSize = 1
  MaxAttempts = 2
  AckLoss = TRUE
  MaxCrashes = 1
  Clients = {"c1", "c2"}
  Sources = {"k", "m"}
  Requests <- MCWide
  ChunksOf <- MCChunksOf
  Labels = {1}
  Spaces = {"p", "q"}
  SameMicrosecond = FALSE
  MaxClock = 3
  Docs = {"d", "e"}
  Catalog <- MCCatalog
  SearchSpaces = {"p", "q"}
  TopK = 2
  MaxTokens = 3
  Truncates = TRUE
  MaxEvents = 3
  MaxChanges = 2
  Results <- MCResults
  PageBytes = {1, 3}
  MaxResultBytes = 2
  MaxBatchResultBytes = 2
  PreviewBytes = 1
  ToolResultMaxTokens = 1
  MaxCalls = 3
  MaxOutputs = 2
  MaxTurns = 2
  Sizes = {5}
  Marker = 2
  NeighborWindow = 1
  MaxResults = 2
  MaxCharacters = 8
  MaxHistoryTokens = 3
  MaxItems = 4
  Ids = {"x", "y"}
  Operations <- AllOperations
  Users = {"u"}
  Calls = {"c1"}
  MaxOps = 2
  MaxTaskItems = 2
  MaxVersion = 2
CONSTRAINT KnowledgeBounds
INVARIANTS
  HistorySafe
  TaskStateSafe
PROPERTIES
  MemorySafe
  IndexSafe
  CitationsAreReal
CHECK_DEADLOCK FALSE
