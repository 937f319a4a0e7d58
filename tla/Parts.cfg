SPECIFICATION Spec
CONSTANTS
  None = None
  Episodes = {1}
  Workers = {"worker"}
  Loop = "loop"
  Recipes = {"trim", "level"}
  MaxChanges = 1
  MaxStops = 1
  Second = 3
  Length = 9
  Survives = 1
  DetectionWindow = 0
  Slack = 2
  MaxSilences = 2
  MaxMakes = 2
  OriginalSize = 3
  UpstreamSize = 4
  MadeSizes = {1, 2}
  MaxCopies = 2
  MaxSeeks = 1
  MaxLosses = 2
  Guids = {"a", "b"}
  Documents <- Editions
  Scheduled = "scheduled"
  Forced = "forced"
  Interval = 1
  Jitter = 0
  MaxDoublings = 1
  MaxVersions = 2
  MaxFaults = 1
  MaxForced = 1
  Urls <- Given
  Redirects <- Landings
  Clients = {"c1", "c2"}
  MaxFeeds = 2
  MaxEvents = 1
  Requests = {"r1", "r2"}
  Names = {"owner"}
  Owner = "owner"
  Sources = {"here"}
  MaxFailures = 2
  SourceMaxFailures = 3
  Window = 2
  MaxEnrolments = 1
  Queueable = {"e1", "e2"}
  OfShow = {"e1"}
  Targets = {0, 1}
  MaxListed = 3
  MaxItems = 3
  Formats = {"jpg", "png"}
  RetryAfter = 1
  RevalidateAfter = 2
  MaxPictures = 1
  Tokens = {"t1", "t2"}
  Passes = {"refresh", "test"}
  ForgetAfter = 1
  MaxRows = 2
INVARIANTS
  ProcessingConsistent
  TimelineConsistent
  ServingConsistent
  NothingChangesUnderneath
  RefreshConsistent
  EtagMeansStored
  SubscribeConsistent
  SignInConsistent
  ArtworkConsistent
  NotifyConsistent
PROPERTIES
  OpensWhereLeft
  StoredWhereHeard
  QueueMends
CHECK_DEADLOCK FALSE
