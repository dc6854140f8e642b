CONSTANTS
  c1 = c1
  c2 = c2
  p1 = p1
  p2 = p2
  Cameras <- MCCameras
  Pictures <- MCPictures
  Detector = Detector
  None = None
  Capacity = 2
  ReusesBuffer = TRUE
SPECIFICATION Spec
INVARIANT PictureIntact
