SPECIFICATION FairSpec
CONSTANTS
  MaxSessions = 2
  Modes = {"replace", "incremental", "terminal"}
  Overlap = FALSE
  WritesFail = TRUE
  Capacity = 1
INVARIANTS TypeOK RescanReadsFresh ReloadIsFresh SnapshotMatchesModel OneWriter
PROPERTY SessionsEnd
