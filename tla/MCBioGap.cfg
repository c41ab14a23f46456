CONSTANTS
  p1 = p1 p2 = p2 b1 = b1 b2 = b2 b3 = b3 k1 = k1 k2 = k2 k3 = k3 k4 = k4 v0 = v0 v1 = v1
  Procs = {p1, p2}
  Bufs = {b1, b2}
  Blocks = {k1, k2}
  Tapes = {}
  Indirect = {k1}
  Vals = {v0, v1}
  InitVal = v0
  NODEV = NODEV
  NULL = NULL
  Awake = Awake
  Bfreelist = Bfreelist
  Errors = {"async"}
  Ops = {"bread", "getblk", "breada", "geteblk", "bflush", "bwrite", "bawrite", "bdwrite"}
  MaxHeld = 2
  MaxCalls = 2
SPECIFICATION Spec
INVARIANT GetblkReturnsBlock
CHECK_DEADLOCK FALSE
