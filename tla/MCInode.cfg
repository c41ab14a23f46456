CONSTANTS
  p1 = p1 p2 = p2 p3 = p3
  n1 = n1 n2 = n2
  NULL = NULL
  Procs = {p1, p2, p3}
  Names = {n1, n2}
  NINODE = 2
  Inodes = 4
  ROOTINO = 2
  INOPB = 2
  NICINOD = 1
  ReadErrors = {FALSE}
SYMMETRY Symmetry
SPECIFICATION Spec
INVARIANTS TypeOK SlotsExact LockExact FileKept Reclaimed
