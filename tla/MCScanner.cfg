SPECIFICATION FairSpec
CONSTANTS
  Streams <- MCStreams
  YY_BUF_SIZE = 3
  YY_READ_BUF_SIZE = 3
  MaxEofs = 2
INVARIANTS
  TypeOK
  TokensOfStream
  NothingLost
  WaitsOnlyForToken
PROPERTIES
  CallsReturn
\* The program ends.
CHECK_DEADLOCK FALSE
