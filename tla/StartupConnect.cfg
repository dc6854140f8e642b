CONSTANTS
  Channels = 3
  DecodeTypes <- MCOwnThread
  AITypes <- MCAITypes
SPECIFICATION Spec
INVARIANT MainUsesLiveDecoder
CHECK_DEADLOCK FALSE
