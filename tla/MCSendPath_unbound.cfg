SPECIFICATION FairSpec
CONSTANTS
  Workers = {w1, w2}
  NoWorker = NoWorker
  a1 = a1
  a2 = a2
  b1 = b1
  Byte <- MCByte
  Packets <- MCPackets
  BUFFER_SIZE = 3
  MaxFormer = 0
  MaxPackets = 3
PROPERTY FlushSendsTheBuffer
CHECK_DEADLOCK FALSE
