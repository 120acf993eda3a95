SPECIFICATION Spec
CONSTANTS
  Agents = {a1, a2}
  Kinds <- MCKinds
  Window = 6
  MaxRecords = 7
  Marks <- MCMarks
  MaxMarks = 3
  Metrics = {"accuracy", "recall"}
  Values <- MCValues
  Overalls <- MCOveralls
  Thresholds <- MCThresholds
INVARIANTS TypeOK WorstFirst NothingLostByPromotion WorseIsNeverBetter
CHECK_DEADLOCK FALSE
