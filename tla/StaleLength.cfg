SPECIFICATION FairSpec
CONSTANTS
  None = None
  OriginalSize = 2
  UpstreamSize = 3
  MadeSizes = {1}
  MaxMakes = 1
  MaxSeeks = 0
  MaxLosses = 1
PROPERTIES
  RecoversOnItsOwn
CHECK_DEADLOCK FALSE
