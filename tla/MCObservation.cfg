SPECIFICATION ObservationSpec
CONSTANTS
  Parts = {"events", "client", "output", "trace", "replay", "session"}
  MaxEvents = 4
  BufferSize = 2
  MaxConnections = 3
  MaxBreaks = 1
  MaxLive = 1
  Compacts = TRUE
  MaxSteps = 2
  Calls = {1, 2}
  Attempts = {1, 2}
  Adapters = {"display", "local"}
  MaxEntries = 2
  MaxText = 2
  Threshold = 2
  MaxPieces = 3
  MaxTurns = 2
  MaxLog = 2
  TraceCalls = {"c1", "c2"}
  MaxTraceTurns = 2
  MaxModelCalls = 1
  MaxMessages = 1
  MaxShown = 1
  MaxResumes = 1
  MaxLost = 1
  Runs = {"r1", "r2"}
  Verifiers = {"v1", "v2"}
  MaxReplayAttempts = 2
  MaxWrites = 6
  Reads = {"projection", "attention"}
  Convs = {"a", "b"}
  MaxRuns = 2
  MaxSessionLog = 3
  ObserveAttempts = 2
  MaxActs = 3
  MaxFaults = 1
CONSTRAINT ObservationBounds
INVARIANTS
  FeedIsExact
  ClientSafe
  OutputSafe
  TraceSafe
  ReadsAreTruthful
PROPERTIES
  SessionSafe
CHECK_DEADLOCK FALSE
