SPECIFICATION Spec
CONSTANTS
  Devices <- SomeDevices
  Batteries <- SomeBatteries
  Readings <- SomeReadings
  MaxMoves = 3
INVARIANT PublishedIsLast
INVARIANT PowerShown
PROPERTY EventuallyShown
CHECK_DEADLOCK FALSE
