SPECIFICATION Spec
CONSTANTS
  Executions = {e1}
  Ghosts = {g1}
  Requests = {r1, r2}
  NoId = NoId
  Outcomes = {"returns", "raises"}
SYMMETRY Symmetry
INVARIANTS TypeOK NamedIsFound StatusMatchesCommand ImmortalIsExplained
PROPERTIES PausedFromRunning
