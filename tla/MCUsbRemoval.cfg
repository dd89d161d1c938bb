SPECIFICATION FairSpec
CONSTANTS
  Interfaces = {i1, i2}
  NoInterface = NoInterface
  MaxInterfaces = 2
  MaxSyncDepth = 2
  TokenModulus = 8
  MaxCalls = 6
  SyncUSL = FALSE
  AbortMayFail <- ReadAbortFails
  GapOpen = FALSE
PROPERTIES
  RemovalEnds
