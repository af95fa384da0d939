SPECIFICATION Spec
CONSTANTS
  Client = {c1}
  NoClient = none
  MaxClients = 1
  SendBuffer = 2
  MaxChatCache = 0
  ReplayChat = TRUE
  IdleTimeout = TRUE
  NodeNum = 9
  NodeFrame <- NoFrames
  Caches <- OnlyLong
  ToRadio <- OneWant
  Events = {"node_config"}
  MaxMsgs = 1
  MaxWants = 1
INVARIANT ReplayIsSafe
CHECK_DEADLOCK FALSE
