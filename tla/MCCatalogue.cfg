SPECIFICATION Spec
CONSTANTS
  Sessions = {s1, s2}
  Ids = {i1, i2, i3}
  NoId = NoId
  Names = {a, b}
  PerPage = 1
  MaxServed = 4
SYMMETRY Symmetry
INVARIANTS TypeOK NamesDistinct NothingOrphaned EndsAreTimed NothingSkipped
PROPERTIES DeletedForGood
CHECK_DEADLOCK FALSE
