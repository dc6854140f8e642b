CONSTANTS
  Ports = {1, 2}
  BufferSize = 2
SPECIFICATION FairSpec
INVARIANT TypeOK
INVARIANT UserAlive
PROPERTY RetryWouldSucceed
CHECK_DEADLOCK FALSE
