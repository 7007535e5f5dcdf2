SPECIFICATION Spec
CONSTANTS
  Workers = {w1}
  MaxSessions = 2
  PoolSize = 1
  MaxReceives = 3
INVARIANT ExpiredIsRecognised
CHECK_DEADLOCK FALSE
