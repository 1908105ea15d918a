SPECIFICATION FairSpec
CONSTANTS
  wide = wide  narrow = narrow  apart = apart
  Requests = {r1, r2}
  Writers = {w1}
  Names = {a, b}
  Prefixes = {wide}
  Overlaps <- Nested
  None = None
  MaxSaves = 2
INVARIANTS TypeOK EditIsWhole StatusHasConnection
PROPERTIES RequestsEnd OnlyRacesOverlap
CHECK_DEADLOCK FALSE
