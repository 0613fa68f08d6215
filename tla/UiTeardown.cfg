SPECIFICATION UiSpec
CONSTANTS
  MaxSessions = 2
  Modes = {"replace"}
  Overlap = TRUE
  WritesFail = FALSE
  Capacity = 1
INVARIANT NothingSurvives
