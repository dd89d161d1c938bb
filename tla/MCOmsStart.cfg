SPECIFICATION StartSpec
CONSTANTS
  MaxInterfaces = 1
  RingPackets = 2
  Chunk = 1
  MaxRead = 2
  Preempts = FALSE
  NotifierMayFail = FALSE
INVARIANTS
  StartAsDocumented
