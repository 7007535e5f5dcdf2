SPECIFICATION Spec
CONSTANTS
  Peers = {p1, p2}
  NumOfThreads = 2
  SessionStatus <- MCStatus
INVARIANTS
  ShutdownNeedsFailedStart
  AcceptIsHeard
PROPERTIES
  FirstPeerIsServed
CHECK_DEADLOCK FALSE
