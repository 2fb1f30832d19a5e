SPECIFICATION FairSpec
CONSTANTS
  NPages = 2
  MaxTxns = 2
  MaxGens = 3
  MaxSpills = 0
  MaxCheckpoints = 0
  MaxRestarts = 1
  MaxFailures = 1
  LosesDisk = TRUE
  BatchLen = 2
  VerifyCrc = TRUE
  ListLimit = 100
  Seeded = FALSE
INVARIANTS
  TypeOK
  RestoresCommittedState
  QuietBackupIsComplete
PROPERTIES
  EventuallyBackedUp
CHECK_DEADLOCK FALSE
