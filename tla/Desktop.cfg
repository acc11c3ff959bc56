SPECIFICATION Spec
CONSTANTS
  Spots <- MCSpots
  Desks <- MCDesks
  DefaultSize <- MCDefaultSize
  Clicks = {c1, c2}
  MaxMoves = 2
  MaxCalls = 2
  Members = {a}
  GameMaps = {"woods"}
  PageMaps = {"customs", "woods"}
  DefaultMap = "customs"
  MaxSockets = 1
  MaxCasts = 2
  MaxPicks = 1
  Files = {f1}
  MaxEvents = 3
  MaxLines = 3
  Maps = {"woods", "lab"}
  MaxEntries = 2
  MaxShots = 2
  MaxWindow = 1
  MaxChoices = 1
  Quests = {q1, q2}
  MaxTokens = 1
  MaxCompletions = 3
  MaxTrackers = 2
  MaxMishaps = 1
  Tags = {"v1", "v2"}
  Installed = "v1"
  MaxRecords = 1
  Junk = 1
  MaxArrivals = 2
  MaxFetches = 2
  MaxRuns = 2
INVARIANTS
  OpensOnScreen
  NoBroadcastMissed ShowsLatest
  TwiceOnlyIfCrossed StopLeavesOrphans
   SiteFollowsOrders ThrottleHolds
  PostedOnce
  SavedIsOnDisk CacheBounded
PROPERTIES
  NothingGoesBack
  FeedsInOrder
  NoteNeverGoesBack
  KeptPlacementIsSaved
  FullIsShown
  LinesAreHeard
  HandlersEnd
CHECK_DEADLOCK FALSE
