SPECIFICATION FairSpec
CONSTANTS
  Clients = {a, b}
  Programs <- MCWrites
  Auths = {"full"}
  MaxConns = 2
  MaxTaken = 1
  MaxCalls = 4
  MaxOthers = 0
  MaxEvents = 0
  FreshReplica = FALSE
INVARIANTS
  WriterIsLive
PROPERTIES
  CallsReturn
  TxnsEnd
