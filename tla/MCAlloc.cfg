CONSTANTS
  p1 = p1 p2 = p2 p3 = p3
  b1 = b1 b2 = b2 b3 = b3 b4 = b4 bad = bad
  NULL = NULL
  Procs = {p1, p2, p3}
  Blocks = {b1, b2, b3, b4}
  BadBlocks = {bad}
  NICFREE = 2
  Errors = TRUE
SYMMETRY Symmetry
SPECIFICATION Spec
INVARIANTS TypeOK LockExact Conserved SuperSaved
