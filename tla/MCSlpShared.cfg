CONSTANTS
  p1 = p1 p2 = p2 p3 = p3 c1 = c1 c2 = c2
  Users = {p1, p2, p3}
  Sched = Sched
  Intr = Intr
  Chans = {c1}
  Waitchan = c1
  Runin = Runin
  Runout = Runout
  Swbuf = Swbuf
  Hash <- HashTogether
  Pris = {20, 26}
  Traced = {}
  Core = 2
  NULL = NULL
SPECIFICATION Spec
INVARIANTS RunQueueExact
CHECK_DEADLOCK FALSE
