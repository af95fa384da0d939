SPECIFICATION FairSpec
CONSTANTS
  Recorder = {r1, r2}
  Item <- Items
  Stream = {s1}
  Bot = {b1}
  Channels = {0, 1}
  Buffer = 1
  MaxRing <- SmallRings
INVARIANTS BotInv NoSendOnClosed HistoryHasNoGap
PROPERTIES NobodyWaits WantedIsForwarded
CHECK_DEADLOCK FALSE
