CONSTANTS
  c1 = c1
  c2 = c2
  Cameras <- MCCameras
  Pictures <- MCPictures
  Witness = c1
  Detector = Detector
  None = None
  Capacity = 3
  ReusesBuffer = FALSE
SPECIFICATION HSpec
INVARIANT TypeOK
INVARIANT MutualExclusion
INVARIANT NoPopOnEmpty
INVARIANT Bounded
INVARIANT InCameraOrder
INVARIANT LostOnlyToOverflow
PROPERTY ImplementsFrameQueue
PROPERTY WaitingIsServed
PROPERTY CallbackReturns
