SPECIFICATION FairSpec
CONSTANTS
  Streams <- MCStreams
  BUFFER_SIZE = 12
INVARIANTS
  TypeOK
  FramingIgnoresChunks
  FullOnlyBehindEmptyHeader
PROPERTY ClosedIsTornDown
CHECK_DEADLOCK FALSE
