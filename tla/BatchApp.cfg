CONSTANTS
  BLOCK_SIZE = 2
  Padding = 114
  MaxFrames = 5
  BatchSizes = {2, 3}
  Geometries <- MCGeometries
  Pixel <- MCPixel
  Uninitialised = 255
  topK = 2
  candidates = 3
  num_class = 2
  conf_thresh = 2
  Answer <- MCAnswer
SPECIFICATION Spec
INVARIANT TypeOK
INVARIANT NetworkInput
INVARIANT ResultOfFrame
INVARIANT FramesInOrder
INVARIANT NothingLeftOut
INVARIANT EmptyOnlyWhenShort
PROPERTY AppEnds
CHECK_DEADLOCK FALSE
