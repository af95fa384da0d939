SPECIFICATION FairSpec
CONSTANTS
  Client = {c1}
  NoClient = none
  MaxClients = 1
  SendBuffer = 1
  MaxChatCache = 0
  ReplayChat = TRUE
  IdleTimeout = TRUE
  NodeNum = 9
  NodeFrame <- TwoTexts
  Caches <- NoCaches
  ToRadio <- NoMessages
  Events = {"peer_lost"}
  MaxMsgs = 0
  MaxWants = 0
PROPERTY SlowConsumerLeaves
CHECK_DEADLOCK FALSE
