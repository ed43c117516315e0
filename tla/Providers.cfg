SPECIFICATION ProvidersSpec
CONSTANTS
  MaxToggles = 4
  MaxConnects = 3
  Statistics <- SomeStatistics
  MaxServerMoves = 5
  MaxPollErrors = 1
  InputDevices <- SomeDevices
  KeyboardDevices <- SomeKeyboards
  SocketSize = 2
  MaxPlugs = 4
  MaxMceMoves = 3
  Profiles <- TwoProfiles
  MaxProfileMoves = 4
INVARIANTS
  ReaderSafe
  MutexFree
  CoverShown
  BmeShown
  WatchKept
  BmeCrashExplained
  KeyboardsShown
  MirrorsShown
PROPERTIES
  DisconnectReturns
  EventuallyShown
  BmeEventuallyShown
  DestructorsReturn
  ImplementsMirror
CHECK_DEADLOCK FALSE
