SPECIFICATION Spec
CONSTANTS
  client = client
  Size = 4
  Modulus = 8
  Byte = {0, 1}
  Consumers <- MCConsumers
  MaxCount = 5
  MaxOut = 5
INVARIANTS
  TypeOK
  UsedBounded
PROPERTIES
  UnreadKept
  ImplementsQueue
