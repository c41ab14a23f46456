CONSTANTS
  Units = 10
  MapSize = 4
  Sizes <- MCSizes
SPECIFICATION Spec
INVARIANTS WellFormed Conserved NeverRefused
\* nothing is said of the system after a loop has left the array
CHECK_DEADLOCK FALSE
