SPECIFICATION FeedFairSpec
CONSTANTS
  MaxEvents = 4
  BufferSize = 2
  MaxConnections = 2
  MaxBreaks = 1
  MaxLive = 1
  Compacts = TRUE
CHECK_DEADLOCK FALSE
PROPERTY ObserverLearnsTheEnd
