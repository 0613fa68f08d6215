SPECIFICATION Spec
CONSTANTS
  Catalogs = {c1, c2}
  Empty = Empty
  Absent = Absent
  Torn = Torn
  Readers = {r1}
  Maintenance = {"invalidate", "compact"}
  MaxDamage = 2
SYMMETRY Interchangeable
INVARIANTS TypeOK PrimaryIsWhole LoadIsCurrentOrEmpty
PROPERTY ImplementsRegister
