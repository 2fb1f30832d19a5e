SPECIFICATION FairSpec
CONSTANTS
  Names = {a, b}
  MaxPage = 2
  Txns <- MCTxns
  DumpLen = 1
  MaxVer = 3
  MaxOps = 3
  MaxDisruptions = 1
  MaxChanges = 2
  MaxFiles = 1
  ForksOver = FALSE
  Strays = FALSE
  Zombies = FALSE
  Overrules = FALSE
INVARIANTS
  NamespacesAsAsked
  ForkIsCommitted
PROPERTIES
  OperationsReturn
CHECK_DEADLOCK FALSE
