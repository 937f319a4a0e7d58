SPECIFICATION Spec
CONSTANTS
  f1 = f1
  Feeds = {f1}
  Episodes = {1}
  FeedOf <- OneShow
  Limit = 1
  Overlap = 1
  LongestWrite = 3
  MaxClock = 4
  MaxWrites = 2
INVARIANTS EverythingChanged
CHECK_DEADLOCK FALSE
