SPECIFICATION Spec
CONSTANTS
  MaxPage = 1
  MaxTxnLen = 2
  MaxVer = 3
  MaxSkip = 0
  MaxFiles = 2
  MaxRestarts = 1
  MinFirst = 1
  MaxBuffer = 0
  MaxRecoveries = 1
  MaxCrashes = 1
  MaxBreaks = 1
  MaxDisruptions = 2
  Merges = TRUE
INVARIANTS
  PagesAreHistory
