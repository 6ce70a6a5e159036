SPECIFICATION Spec
CONSTANTS
  Proc = {p1, p2}
  Inode = {root, i1, i2}
  Root = root
  Name = {"a", "b", ".", ".."}
  Calls <- Removals
  MaxLinks = 2
  None = None
SYMMETRY Symmetry
CHECK_DEADLOCK FALSE
INVARIANTS NamesSound TreeWalked GivenBack
