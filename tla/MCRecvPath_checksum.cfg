SPECIFICATION Spec
CONSTANTS
  Streams <- MCStreams
  BUFFER_SIZE = 12
INVARIANT BroadcastsAreVerified
CHECK_DEADLOCK FALSE
