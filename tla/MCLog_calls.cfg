SPECIFICATION FairSpec
CONSTANTS
  Proc = {p1, p2, p3}
  Block = {b1, b2, b3}
  Value = {v0}
  InitValue = v0
  None = None
  MAXOPBLOCKS = 1
  LOGSIZE = 2
  NLOG = 3
INVARIANTS LogSafe 
PROPERTIES SleeperWoken RecoveryEnds
