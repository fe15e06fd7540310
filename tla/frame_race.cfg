SPECIFICATION FrameSpec
CONSTANTS
  p1 = p1  p2 = p2  p3 = p3
  Proc <- MCProc
  Frames <- MCFrameCount
  MaxPages = 3
  Calls <- AllCalls
SYMMETRY ProcSymmetry
INVARIANT NoFrameShared
