SPECIFICATION Spec
CONSTANTS
  Proc = {p1, p2, p3}
  Frame = {f1, f2, f3}
  Value = {v0, v1}
  Zero = v0
  MaxPages = 2
  None = None
SYMMETRY Symmetry
INVARIANT FramesSafe
PROPERTY IsPrivateMemory
CHECK_DEADLOCK FALSE
