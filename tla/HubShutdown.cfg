SPECIFICATION FairSpec
CONSTANTS
  Client = {c1, c2}
  NoClient = none
  MaxClients = 1
  SendBuffer = 1
  MaxChatCache = 0
  ReplayChat = TRUE
  IdleTimeout = TRUE
  NodeNum = 9
  NodeFrame <- OneText
  Caches <- NoCaches
  ToRadio <- OnlyDisconnect
  Events = {"shutdown", "peer_lost", "peer_stalls", "write_error"}
  MaxMsgs = 1
  MaxWants = 0
INVARIANTS RegistryFrozenWhileRead ClosedIsUnregistered GracefulShutdown
PROPERTIES ShutdownTerminates DeadClientLeaves
