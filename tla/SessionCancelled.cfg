SPECIFICATION Spec
CONSTANTS
  MaxSessions = 1
  Modes = {"incremental"}
  Overlap = FALSE
  WritesFail = FALSE
  Capacity = 2
INVARIANT ChangesOnlyAfterSummary
