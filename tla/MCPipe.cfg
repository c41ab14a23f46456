CONSTANTS
  r1 = r1 r2 = r2 w1 = w1 w2 = w2
  Readers = {r1, r2}
  Writers = {w1, w2}
  PIPSIZ = 2
  ReadSizes = {2}
  WriteSizes = {2, 3}
  Faults = {r1, w1}
  MaxCalls = 1
SPECIFICATION FairSpec
INVARIANTS WellFormed NoLostWakeup EofComplete Contiguous
PROPERTIES Implements CallsReturn
CHECK_DEADLOCK FALSE
