SPECIFICATION FairSpec
CONSTANTS
  MaxPage = 2
  MaxTxnLen = 2
  MaxVer = 4
  MaxSkip = 0
  MaxFiles = 1
  MaxRestarts = 0
  MinFirst = 2
  MaxBuffer = 4
  MaxRecoveries = 0
  MaxCrashes = 1
  MaxBreaks = 0
  MaxDisruptions = 1
  Merges = FALSE
INVARIANTS
  TypeOK
  CaughtUpIsExact
  ReadsAreCommittedStates
PROPERTIES
  Converges
