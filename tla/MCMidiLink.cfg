SPECIFICATION Spec
CONSTANTS
  QueueSize = 3
  Cable = 2
  Messages <- MCMessages
  MaxPackets = 3
  MaxSent = 2
  MaxStray = 2
CHECK_DEADLOCK FALSE
INVARIANTS
  TypeOK
  KeepsEveryByte
  TagsFrameRuns
  AllCounted
PROPERTIES
  AcceptedStay
