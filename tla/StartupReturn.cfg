CONSTANTS
  Channels = 3
  DecodeTypes <- MCFfmpeg
  AITypes <- MCAITypes
SPECIFICATION Spec
INVARIANT LifetimesAgree
CHECK_DEADLOCK FALSE
