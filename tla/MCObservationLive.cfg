SPECIFICATION ObservationFairSpec
CONSTANTS
  Parts = {"events", "output", "session"}
  MaxEvents = 3
  BufferSize = 2
  MaxConnections = 2
  MaxBreaks = 1
  MaxLive = 0
  Compacts = FALSE
  MaxSteps = 2
  Calls = {1}
  Attempts = {1, 2}
  Adapters = {"display", "local"}
  MaxEntries = 2
  MaxText = 2
  Threshold = 3
  MaxPieces = 3
  MaxTurns = 1
  MaxLog = 2
  TraceCalls = {"c1", "c2"}
  MaxTraceTurns = 2
  MaxModelCalls = 1
  MaxMessages = 1
  MaxShown = 1
  MaxResumes = 1
  MaxLost = 1
  Runs = {"r1", "r2"}
  Verifiers = {"v1", "v2"}
  MaxReplayAttempts = 2
  MaxWrites = 6
  Reads = {"projection", "attention"}
  Convs = {"a", "b"}
  MaxRuns = 1
  MaxSessionLog = 3
  ObserveAttempts = 2
  MaxActs = 2
  MaxFaults = 1
PROPERTIES
  ShownInTheEnd
CHECK_DEADLOCK FALSE
