SPECIFICATION FairSpec
CONSTANTS
  Workers = {w1, w2}
  NoWorker = NoWorker
  a1 = a1
  a2 = a2
  b1 = b1
  Byte <- MCByte
  Packets <- MCPackets
  BUFFER_SIZE = 2
  MaxFormer = 1
  MaxPackets = 3
INVARIANTS
  TypeOK
  OneSendInFlight
  WireIsPrefixOfAccepted
  ThrowAwayInBounds
  NoStrandedBytes
PROPERTIES
  ImplementsSendStream
  AcceptedBytesAreSent
CHECK_DEADLOCK FALSE
