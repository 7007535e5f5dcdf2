SPECIFICATION Spec
CONSTANTS
  Main = main
  Workers = {w1, w2}
  Sessions = {s1, s2}
  Nodes = {1, 2, 3}
  MaxRemoves = 2
  MaxBroadcasts = 1
SYMMETRY Symmetry
INVARIANTS
  ListIsWhole
  CrashNeedsARace
  BroadcastReachesAll
CHECK_DEADLOCK FALSE
