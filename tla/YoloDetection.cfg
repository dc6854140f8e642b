CONSTANTS
  Pictures <- MCPictures
  Boxes <- MCBoxes
  None = None
  Candidates <- MCCandidates
  Confidence <- MCConfidence
  Label <- MCLabel
  Overlaps <- MCOverlaps
  Empty <- MCEmpty
  topK = 3
  p1 = p1
  p2 = p2
  p3 = p3
  a = a
  b = b
  c = c
  d = d
  e = e
  CallsCopy = TRUE
SPECIFICATION Spec
INVARIANT TypeOK
INVARIANT RowsApart
INVARIANT OrderOfThreadsHidden
PROPERTY ImplementsDetection
