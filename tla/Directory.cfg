SPECIFICATION Spec
CONSTANTS
  Node = {1, 257}
  Handler = {h1, h2}
  Packet <- Packets
  Config <- TwoConfigs
  Buffer = 2
  MaxPackets = 1
  MaxConfigs = 2
  MaxFavorites = 2
  MaxConnects = 1
SYMMETRY HandlerSymmetry
INVARIANTS DirectoryInv ViewCatchesUp FavoriteIsShown
PROPERTY RuntimeFieldsSurvive
CHECK_DEADLOCK FALSE
