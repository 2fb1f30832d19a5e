SPECIFICATION Spec
CONSTANTS
  Clients = {a}
  Programs <- MCPrograms
  Auths = {"full", "readonly"}
  MaxConns = 1
  MaxTaken = 0
  MaxCalls = 4
  MaxOthers = 1
  MaxEvents = 1
  FreshReplica = FALSE
INVARIANTS
  TxnStaysWhole
  NoTxnBehindReads
  BatchRollsBack
PROPERTIES
  ReadYourWrites
