SPECIFICATION FairSpec
CONSTANTS
  Clients = {c1, c2}
  Approvals = {a1}
  Keys = {k1, k2}
  Budgets <- TwoChannels
  MaxProcesses = 2
INVARIANTS TypeOK LapseIsFinal ClearedIsGone
PROPERTIES NobodyWaitsForever
