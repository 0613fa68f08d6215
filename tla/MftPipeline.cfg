SPECIFICATION Spec
CONSTANTS
  RootRecord = 2
  WorkerCounts = {1, 2}
  ParallelMin = 2
  AddressMax = 60
  SkipMin = 3
  ChunkMax = 2
  Tables <- MCTables
  VolumeOf <- MCVolumeOf
  Modes = {"stream", "batch", "dump"}
  ReadSizes = {1, 3}
  RecordsPerRead = 2
  Buffers = 2
  ProgressDelta = 3
  MayFail = TRUE
INVARIANTS
  TableExact RealPaths TotalsExact TornDumpRejected
PROPERTY ScanEnds
CHECK_DEADLOCK FALSE
