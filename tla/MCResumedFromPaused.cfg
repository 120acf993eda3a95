SPECIFICATION Spec
CONSTANTS
  Executions = {e1}
  Ghosts = {g1}
  Requests = {r1}
  NoId = NoId
  Outcomes = {"returns", "raises"}
PROPERTIES ResumedFromPaused
