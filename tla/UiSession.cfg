SPECIFICATION UiSpec
CONSTANTS
  MaxSessions = 2
  Modes = {"replace", "incremental"}
  Overlap = TRUE
  WritesFail = FALSE
  Capacity = 1
INVARIANT UiInv
