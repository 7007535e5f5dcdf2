SPECIFICATION PartsSpec
CONSTANTS
  BUFFER_SIZE = 3
  Bytes = {0, 1}
  MaxBytes = 6
  Threads = {t1, t2}
  NoThread = NoThread
  ElementCount = 2
  MaxArrays = 2
  Peers = {p1, p2}
  numberOfThread = 2
  MaxFalseSessions = 1
  Chars = {"a", "b"}
  BUF_SIZE = 4
  MaxRounds = 3
  Names = {"a", "b"}
  MaxFactories = 3
INVARIANTS
  IsByteQueue
  HandsOutOnce
  RoundsInStep
  
  FactoriesOwnedOnce
PROPERTIES
  ConnectedIsServed
CHECK_DEADLOCK FALSE
