CONSTANTS
  PayloadSizeBasic = 2
  LenBase = 2
  KeyLen = 2
  WordSize = 4
  MaxMessageSize = 6
  MaxHeaderSize = 100
  MaxPort = 99
  Requests <- MCRequests
  Frames <- MCFrames
  MaxFrames = 3
  Key3Len = 2
SPECIFICATION Spec
INVARIANTS
  ChunkingIrrelevant
  
  
CHECK_DEADLOCK FALSE
