SPECIFICATION Spec
CONSTANTS
  wide = wide  narrow = narrow  apart = apart
  Requests = {r1, r2}
  Writers = {}
  Names = {a, b}
  Prefixes = {wide, narrow, apart}
  Overlaps <- Nested
  None = None
  MaxSaves = 2
INVARIANTS RoutesDisjoint
CHECK_DEADLOCK FALSE
