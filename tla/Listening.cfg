SPECIFICATION Spec
CONSTANTS
  Devices = {d1, d2}
  None = None
  Positions = {1, 2}
  Tolerance = 1
  MaxClock = 3
  MaxReports = 2
SYMMETRY Symmetry
INVARIANTS CountedOnce ListeningConsistent
PROPERTIES CountedIsAtomic
CHECK_DEADLOCK FALSE
