SPECIFICATION Spec
CONSTANTS
  CPU = {c1, c2}
  NPROC = 3
  None = None
SYMMETRY Symmetry
INVARIANTS OneCpu LocksSafe
