CONSTANTS
  f1 = f1
  f2 = f2
  f3 = f3
  Funcs = {f1, f2, f3}
  NULL = NULL
  NCALL = 5
  Times = {1, 2, 3}
SPECIFICATION FairSpec
INVARIANT TableExact
PROPERTIES NeverEarly Called
\* panic() stops the system, and nothing is said of it after an overrun
CHECK_DEADLOCK FALSE
