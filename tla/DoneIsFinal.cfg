SPECIFICATION Spec
CONSTANTS
  Episodes = {e1}
  Jobs = {j1}
  Workers = {w1}
  Handlers = {h1}
  None = None
  MaxAttempts = 2
  MaxCrashes = 0
  MaxWipes = 0
  MaxDbFaults = 0
  MaxLateFaults = 1
PROPERTIES DoneIsFinal
CHECK_DEADLOCK FALSE
