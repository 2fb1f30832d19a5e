SPECIFICATION FairSpec
CONSTANTS
  MaxPage = 2
  MaxTxnLen = 2
  MaxVer = 4
  MaxRestarts = 1
  MaxLogFrames = 1
  HasDuration = FALSE
  Amplification = 2
  MaxSnapshots = 2
  Slots = 4
  Shrinks = FALSE
  MaxShutdowns = 0
  MaxFaults = 1
INVARIANTS
  TypeOK
  ServedFramesAreHistory
  LogMatchesDatabase
  SnapshotsFaithful
  NoGap
PROPERTIES
  ImplementsFrameLog
  HandoverReturns
