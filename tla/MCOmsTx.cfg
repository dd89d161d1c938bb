SPECIFICATION TxSpec
CONSTANTS
  QueueSize = 2
  PortCable = 3
  MaxRun = 11
  MaxRuns = 3
INVARIANTS
  TxTypeOK
  RunIsWhole
  EndsOnce
PROPERTIES
  DropIsCounted
