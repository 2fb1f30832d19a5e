SPECIFICATION FairSpec
CONSTANTS
  Names = {a}
  MaxPage = 2
  Txns <- MCTxns
  DumpLen = 1
  MaxVer = 0
  MaxOps = 3
  MaxDisruptions = 1
  MaxChanges = 2
  MaxFiles = 1
  ForksOver = FALSE
  Strays = FALSE
  Zombies = FALSE
  Overrules = FALSE
PROPERTIES
  ReplicaOperationsReturn
CHECK_DEADLOCK FALSE
