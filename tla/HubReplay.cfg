SPECIFICATION FairSpec
CONSTANTS
  Client = {c1}
  NoClient = none
  MaxClients = 1
  SendBuffer = 2
  MaxChatCache = 2
  ReplayChat = TRUE
  IdleTimeout = FALSE
  NodeNum = 9
  NodeFrame <- TextAckConfig
  Caches <- ShortAndLong
  ToRadio <- PhasesAndChat
  Events = {"node_config"}
  MaxMsgs = 2
  MaxWants = 2
INVARIANTS ReplayInv SecondPhaseBringsChat IncomingTextNotLost AckFindsMessage
PROPERTY DeadClientLeaves
CHECK_DEADLOCK FALSE
