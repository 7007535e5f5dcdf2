SPECIFICATION Spec
CONSTANTS
  Workers = {w1, w2}
  MaxSessions = 2
  PoolSize = 1
  MaxReceives = 1
SYMMETRY Symmetry
INVARIANTS
  PoolsAccountForAll
  OneReceive
  NoDeafSession
  TornDownIsUnlisted
  TornDownOnce
CHECK_DEADLOCK FALSE
