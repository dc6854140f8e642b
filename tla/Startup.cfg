CONSTANTS
  Channels = 3
  DecodeTypes <- MCAllDecodeTypes
  AITypes <- MCAITypes
SPECIFICATION FairSpec
INVARIANT TypeOK
INVARIANT SafeUntilReturn
INVARIANT ReceiverReady
PROPERTY EveryCameraServed
CHECK_DEADLOCK FALSE
