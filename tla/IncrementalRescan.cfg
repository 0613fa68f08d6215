SPECIFICATION Spec
CONSTANTS
  DirNames = {a, b}
  Names = {"x"}
  Data = {u, v}
  Backend = "walk"
  MaxFiles = 2
  Rescans = 2
SYMMETRY Symmetries
INVARIANTS TypeOK CatalogIsScan PathsAgree
PROPERTIES IdsStable ChangesExact
CHECK_DEADLOCK FALSE
