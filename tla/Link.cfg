SPECIFICATION FairSpec
CONSTANTS
  ToBuffer = 1
  FromBuffer = 2
  Interval = 1
  MaxInterval = 1
  Heartbeats = TRUE
  MaxEpochs = 2
  MaxFrames = 3
  Shutdown = TRUE
  NodeReads = FALSE
INVARIANTS LinkInv NothingLostWhileUp
PROPERTY LostConnectionEnds
CHECK_DEADLOCK FALSE
