SPECIFICATION VmaSpec
CONSTANTS
  a = a  b = b  c = c
  Reg <- MCReg
  MaxSize = 3
  Align = 2
  MaxBrk = 8
SYMMETRY RegSymmetry
INVARIANTS
  VmaTypeOK
  RegionsDisjoint
PROPERTY LostOnlyByOverwrite
\* At MaxBrk, a bound of the model, there may be nothing left to do.
CHECK_DEADLOCK FALSE
