SPECIFICATION FairSpec
CONSTANTS
  Chargers = {"usb"}
  EnergyFull = 2
  EnergyGuess = 1
  MaxSizes = {0, 1, 9}
  MaxElapsed = 2
  MaxChanges = 2
INVARIANT SamplesSummed
INVARIANT PollAlive
INVARIANT ChargingShown
INVARIANT CrashExplained
PROPERTY EventuallyShown
PROPERTY LoopRests
CHECK_DEADLOCK FALSE
