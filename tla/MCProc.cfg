CONSTANTS
  NPROC = 5
  MAXPID = 6
  Sigs = {1}
  LastPid = 4
  MaxForks = 5
  Traced = {3, 5}
  Signalled = {3, 4, 5}
  Openers = {4}
  Closers = {3}
  Swappers = {4}
  Forkers = {1, 2, 4}
SPECIFICATION Spec
INVARIANTS TypeOK PidsUnique Family NoLostDeath TraceServed
CHECK_DEADLOCK FALSE
