SPECIFICATION Bounded
CONSTANTS
  Episodes = {1, 2}
  Jobs = {j1, j2}
  Workers = {w1}
  Handlers = {h1}
  None = None
  MaxAttempts = 1
  MaxCrashes = 1
  MaxWipes = 0
  MaxDbFaults = 0
  MaxLateFaults = 0
  Passes = {p1, p2}
  WindowCounts = {0, 1}
  Modes = {"never", "after_played", "after_download"}
  Ceiling = 1
SYMMETRY Symmetry
INVARIANTS StorageConsistent FeedTakesRows
PROPERTIES SweepSparesHeld PassSparesHeld
CHECK_DEADLOCK FALSE
