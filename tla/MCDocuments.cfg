SPECIFICATION Spec
CONSTANTS
  NoBuffer = NoBuffer
  Buffers <- TwoDevices
  MaxJacks = 2
  MaxJackSources = 2
  MaxEndpoints = 2
  MaxEmbedded = 2
  MaxPorts = 3
INVARIANTS
  CoreAsDocumented
