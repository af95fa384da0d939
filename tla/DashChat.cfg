SPECIFICATION FairSpec
CONSTANTS
  Channel = {0, 1}
  Answers <- TwoAnswers
  Text = {"a"}
  Ring = 2
  MaxList = 2
  Buffer = 2
  MinDelay = 1
  MaxDelay = 2
  MaxRecords = 3
  MaxFaults = 1
INVARIANTS PageInv ChatCatchesUp SendsOnce
PROPERTY PageRecovers
CHECK_DEADLOCK FALSE
