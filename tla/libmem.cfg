SPECIFICATION LibSpec
CONSTANTS
  a = a  b = b  u = u  v = v
  Reg <- MCReg
  Value <- MCValue
  Self = self
  Fresh = fresh
  MaxSize = 3
  Offsets = {0, 1}
  CopySizes = {2}
  Align = 2
  MaxBrk = 4
SYMMETRY LibSymmetry
INVARIANT CopyExact
PROPERTY ImplementsVarStore
CHECK_DEADLOCK FALSE
