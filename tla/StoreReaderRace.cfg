SPECIFICATION Spec
CONSTANTS
  Catalogs = {c1, c2}
  Empty = Empty
  Absent = Absent
  Torn = Torn
  Readers = {r1}
  Maintenance = {}
  MaxDamage = 0
SYMMETRY Interchangeable
INVARIANT LoadIsCurrent
