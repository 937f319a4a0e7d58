SPECIFICATION DownloadsSpec
CONSTANTS
  Episodes = {e1, e2}
  Jobs = {j1, j2}
  Workers = {w1, w2}
  Handlers = {h1, h2}
  None = None
  MaxAttempts = 2
  MaxCrashes = 1
  MaxWipes = 1
  MaxDbFaults = 1
  MaxLateFaults = 1
SYMMETRY Symmetry
INVARIANTS
  Consistent OneLiveJob OneWriter RunningJobsHeld PartPresent TypeOK LocalHasFile OneRequestNotPurged
PROPERTIES FetchesOnce
CHECK_DEADLOCK FALSE
