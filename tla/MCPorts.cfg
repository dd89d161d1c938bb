SPECIFICATION Spec
CONSTANTS
  NoBuffer = NoBuffer
  Buffers <- AllBuffers
  MaxJacks = 2
  MaxJackSources = 2
  MaxEndpoints = 2
  MaxEmbedded = 2
  MaxPorts = 3
INVARIANTS
  TypeOK
  InBounds
  FindsTopology
  MapsCables
PROPERTIES
  Terminates
