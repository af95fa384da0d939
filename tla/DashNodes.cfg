SPECIFICATION FairSpec
CONSTANTS
  Node = {1, 2}
  Role = {"client", "router"}
  Directories <- SomeDirectories
  ConfigFav = {2}
  MaxSteps = 3
INVARIANTS MapInv TableTrue FavoritesConverge
PROPERTY TableCatchesUp
CHECK_DEADLOCK FALSE
