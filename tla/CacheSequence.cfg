SPECIFICATION Spec
CONSTANTS
  NodeFrame <- Mixed
  MaxEpochs = 2
  MaxReads = 6
INVARIANTS TypeOK CacheIsOneSequence ReplayIsComplete CachedNodesRight
PROPERTY PatchKeepsRest
CHECK_DEADLOCK FALSE
