SPECIFICATION Spec
CONSTANTS
  NPages = 2
  MaxTxns = 2
  MaxGens = 2
  MaxSpills = 1
  MaxCheckpoints = 1
  MaxRestarts = 0
  MaxFailures = 0
  LosesDisk = FALSE
  BatchLen = 4
  VerifyCrc = TRUE
  ListLimit = 100
  Seeded = TRUE
INVARIANTS
  SnapshotIsRestorable
CHECK_DEADLOCK FALSE
