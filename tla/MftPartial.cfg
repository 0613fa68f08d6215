SPECIFICATION Spec
CONSTANTS
  RootRecord = 2
  WorkerCounts = {1}
  ParallelMin = 2
  AddressMax = 60
  SkipMin = 3
  ChunkMax = 2
  Tables <- PartialTables
  VolumeOf <- PartialVolume
  Modes = {"stream"}
  ReadSizes = {3}
  RecordsPerRead = 2
  Buffers = 2
  ProgressDelta = 3
  MayFail = FALSE
INVARIANT PartialFallsBack
CHECK_DEADLOCK FALSE
