CONSTANTS
  RootId = 5
  MaxBytes = 8
  CacheCap = 1
  CharRank <- MCCharRank
  LowerCase <- MCLowerCase
  TicksPerSecond = 2
  UnixEpoch = 1
  SecondsPerDay = 2
  InlineSlots = 2
  ParallelFiles = 2
  Numerals <- MCNumerals
  Drives <- MCDrives
  MultiRoot <- MCMultiRoot
  LegacyTimes <- MCLegacyTimes
  LocalOffset = 1
  Archive = "ar"
  Linked = {2}
  LiveOwner <- MCLiveOwner
  FileRecs <- MCFileRecs
  EarlyHole = 1
  MaxEncoded = 3
  DirRecs <- MCDirRecs
  OtherScans <- MCOtherScans
  Views <- MCViews
  Searches <- MCSearches
  Queries <- MCQueries
  Filters <- MCFilters
  Policies <- MCPolicies
  ForeignDocs <- MCForeignDocs
  ForeignTruth <- MCForeignTruth
  Years <- MCYears
  PageSize = 2
  ReportPath <- PathB
  Workers = {1, 2}
  Exporters = {e1, e2}
  e1 = e1
  e2 = e2
  Pids = {p1, p2}
  MaxPublished = 2
  MaxCrashes = 1
  MaxTemps = 2
  p1 = p1
  p2 = p2
SPECIFICATION Spec
SYMMETRY AnyName
INVARIANTS ModelSound PositionsAgree AnswersExact ReportWhole ReportsReadBack JoinedExact ForeignExact
PROPERTIES RecordsAreMap
CHECK_DEADLOCK FALSE
