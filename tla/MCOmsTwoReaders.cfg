SPECIFICATION Spec
CONSTANTS
  MaxInterfaces = 1
  RingPackets = 2
  Chunk = 1
  MaxRead = 2
  Preempts = TRUE
  NotifierMayFail = FALSE
INVARIANTS
  RingIntact
