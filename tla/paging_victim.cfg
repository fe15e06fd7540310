SPECIFICATION PagingSpec
CONSTANTS
  p1 = p1  p2 = p2  v0 = v0  v1 = v1
  Fresh = Fresh
  Absent = Absent
  Zero = v0
  Proc <- MCProc
  Value <- MCValue
  NumPages = 4
  PgnRange = 4
  Stride = 2
  NumFrames = 2
  FpnRange = 2
  NumSlots = 2
PROPERTY VictimIsOldest
