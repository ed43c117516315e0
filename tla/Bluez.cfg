SPECIFICATION Spec
CONSTANTS
  Adapters <- TwoAdapters
  Devices <- TwoDevices
  AdapterOf <- SameAdapter
  MaxMoves = 4
INVARIANT BluetoothShown
INVARIANT NothingShown
PROPERTY EventuallyShown
CHECK_DEADLOCK FALSE
