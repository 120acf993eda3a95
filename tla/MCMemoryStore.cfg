SPECIFICATION FairSpec
CONSTANTS
  Sessions = {s1, s2}
  Rows = {m1, m2}
  NoRow = NoRow
  MaxServed = 5
INVARIANTS TypeOK IndexAgrees NothingLeftBehind CountsReads
PROPERTIES RecordsKept EveryRequestEnds
CHECK_DEADLOCK FALSE
