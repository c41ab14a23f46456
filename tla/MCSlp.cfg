CONSTANTS
  p1 = p1 p2 = p2 p3 = p3 c1 = c1 c2 = c2
  Users = {p1, p2}
  Sched = Sched
  Intr = Intr
  Chans = {c1, c2}
  Waitchan = c1
  Runin = Runin
  Runout = Runout
  Swbuf = Swbuf
  Hash <- HashApart
  Pris = {20, 26}
  Traced = {p1}
  Core = 1
  NULL = NULL
SPECIFICATION FairSpec
INVARIANTS TypeOK QueuesExact SchedAwake WakesAll
PROPERTY SwappedIn
