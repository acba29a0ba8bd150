CONSTANTS
  m1 = m1
  NoMsg = NoMsg
  NoAck = NoAck
  MaxFragmentSize = 2
  Msg = {m1}
  Size <- ShortMessage
  MaxTries = 1
  MaxTasks = 2
  MaxAcks = 1
  MayDisconnect = TRUE
SPECIFICATION FairSpec
INVARIANTS
  DeliveredWhole
  AckSound
  NeverThrows
PROPERTIES
  MessagesDrain
CHECK_DEADLOCK FALSE
