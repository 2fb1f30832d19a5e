SPECIFICATION Spec
CONSTANTS
  MaxPage = 2
  MaxTxnLen = 2
  MaxVer = 3
  MaxRestarts = 1
  MaxLogFrames = 1
  HasDuration = TRUE
  Amplification = 2
  MaxSnapshots = 2
  Slots = 3
  Shrinks = TRUE
  MaxShutdowns = 1
  MaxFaults = 0
INVARIANTS
  ServedFramesAreHistory LogMatchesDatabase
