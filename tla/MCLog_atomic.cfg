SPECIFICATION Spec
CONSTANTS
  Proc = {p1, p2}
  Block = {b1, b2, b3}
  Value = {v0, v1}
  InitValue = v0
  None = None
  MAXOPBLOCKS = 2
  LOGSIZE = 4
  NLOG = 4
SYMMETRY Symmetry
PROPERTY CrashAtomic
