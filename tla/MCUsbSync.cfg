SPECIFICATION Spec
CONSTANTS
  Interfaces = {i1, i2}
  NoInterface = NoInterface
  MaxInterfaces = 2
  MaxSyncDepth = 2
  TokenModulus = 8
  MaxCalls = 6
  SyncUSL = TRUE
  AbortMayFail <- ReadAbortFails
  GapOpen = FALSE
SYMMETRY InterfaceSymmetry
INVARIANTS
  TypeOK
  OneCallPerInstance
  NeverWedged
  DepthCountsNesting
  BlocksOwned
  ReadsHaveBuffers
  NoPushAfterUnhook
PROPERTIES
  FinalizeQuiet
  ImplementsRegistry
