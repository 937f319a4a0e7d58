SPECIFICATION FairSpec
CONSTANTS
  f1 = f1
  Feeds = {f1}
  Episodes = {1, 2}
  FeedOf <- OneShow
  Limit = 1
  Overlap = 2
  LongestWrite = 2
  MaxClock = 3
  MaxWrites = 2
INVARIANTS SyncConsistent NothingMissed
PROPERTIES MirrorCatchesUp
CHECK_DEADLOCK FALSE
