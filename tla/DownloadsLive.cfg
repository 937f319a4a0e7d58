SPECIFICATION FairSpec
CONSTANTS
  Episodes = {e1}
  Jobs = {j1, j2}
  Workers = {w1, w2}
  Handlers = {h1}
  None = None
  MaxAttempts = 2
  MaxCrashes = 1
  MaxWipes = 1
  MaxDbFaults = 0
  MaxLateFaults = 1
PROPERTIES JobsSettle LostFileRefetched
CHECK_DEADLOCK FALSE
