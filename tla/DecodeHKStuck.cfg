CONSTANTS
  Ports = {1, 2}
  BufferSize = 2
SPECIFICATION FairSpec
PROPERTY DecodingGoesOn
CHECK_DEADLOCK FALSE
