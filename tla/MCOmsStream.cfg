SPECIFICATION Spec
CONSTANTS
  MaxInterfaces = 1
  RingPackets = 3
  Chunk = 2
  MaxRead = 2
  Preempts = FALSE
  NotifierMayFail = TRUE
INVARIANTS
  TypeOK
  MidHasStart
  StartDiscards
  NothingWaits
