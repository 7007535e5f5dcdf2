SPECIFICATION FairLogSpec
CONSTANTS
  Threads = {t1, t2, t3}
  PairOfThreads = {t1, t2}
  NoThread = NoThread
  Null = Null
  Unborn = Unborn
  Consumer = Consumer
  Objects = {o1}
  Slots = {s1, s2}
  MaxReaders = 1
  MaxThrows = 1
  UINT_RANGE = 2
  MaxSignals = 3
  MaxWaits = 3
  MaxGuards = 2
  LogLevels = {0, 20000}
  MaxStatements = 2
  MaxDepth = 2
  MaxLength = 4
  Widths = {4, 7, 8}
INVARIANTS
  WaitNeedsSignal
  GuardsBalance
  CountsPointers
  RecordsAreWhole
  StringsAreRight
PROPERTIES
  ImplementsReadWriteLock
  WriterGetsIn
  SignalReleasesWaiters
CHECK_DEADLOCK FALSE
