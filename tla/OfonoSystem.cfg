SPECIFICATION SystemSpec
CONSTANTS
  Modems <- OneModem
  Contexts <- OneContext
  NetStatuses <- SomeStatuses
  InterfaceSets <- SomeInterfaces
  Replies <- Snapshots
  Moves <- AllMoves
  MaxMoves = 5
INVARIANT CellularShown
PROPERTY ImplementsBridge
PROPERTY EventuallyShown
CHECK_DEADLOCK FALSE
