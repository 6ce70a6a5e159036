SPECIFICATION Spec
CONSTANTS
  Reader = {r1, r2}
  Writer = {w1, w2}
  Byte = {"a", "b"}
  Message <- Messages
  Count = {1, 2}
  PIPESIZE = 2
  MOD = 4
SYMMETRY Symmetry
INVARIANTS PageSafe NobodyForgotten
PROPERTY IsByteStream
CHECK_DEADLOCK FALSE
