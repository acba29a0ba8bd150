CONSTANTS
  MaxFragmentSize = 3
  MaxMessage = 384
  MaxVector = 15
  Base = 5
  KeyLen = 1
  SigningLen = 1
  SigLen = 1
  HashLen = 2
  RecordLen = 2
  BlockLen = 3
  MaxGrowth = 3
  BodyLen = 20
  ToLen = 2
  SecretLen = 1
  MaxData = 520
  MaxText = 5
  KeySize = 2
  BufferSize = 2
  MaxPieces = 5
  MaxExponent = 4
  MaxOffered = 2
  MaxPayload = 17
  Prime = 46337
  Generator = 211
  DhLen = 2
  SessionLen = 1
SPECIFICATION Spec
INVARIANTS
  DataPacketsSurvive
  
  
  SessionsAgree
  
  ArmourExact
CHECK_DEADLOCK FALSE
