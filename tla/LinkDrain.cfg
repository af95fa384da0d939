SPECIFICATION FairSpec
CONSTANTS
  ToBuffer = 2
  FromBuffer = 1
  Interval = 1
  MaxInterval = 2
  Heartbeats = FALSE
  MaxEpochs = 1
  MaxFrames = 1
  Shutdown = FALSE
  NodeReads = TRUE
PROPERTY KeepsReconnecting
CHECK_DEADLOCK FALSE
