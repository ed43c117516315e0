SPECIFICATION Spec
CONSTANTS
  Adapters <- TwoAdapters
  Devices <- TwoDevices
  AdapterOf <- SameAdapter
  MaxMoves = 2
INVARIANT DefaultsShown
CHECK_DEADLOCK FALSE
