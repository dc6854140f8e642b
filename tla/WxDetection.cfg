CONSTANTS
  None = None
  p1 = p1
  p2 = p2
  p3 = p3
  a = a
  b = b
  c = c
  d = d
  e = e
  g = g
  Pictures <- MCPictures
  Cells <- MCCells
  Boxes <- MCBoxes
  Anchors <- MCAnchors
  Confidence <- MCConfidence
  Label <- MCLabel
  Overlaps <- MCOverlaps
  ConfThresh = 1
  MaxRows = 4
SPECIFICATION FairSpec
INVARIANT TypeOK
INVARIANT ItemStays
INVARIANT DropsJustified
INVARIANT NothingLost
PROPERTY ImplementsDetection
PROPERTY PictureShown
