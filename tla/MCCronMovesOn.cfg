SPECIFICATION FairSpec
CONSTANTS
  Jobs = {j1}
  Clients = {c1}
  NoJob = NoJob
  MaxVersions = 1
  MaxFailures = 0
PROPERTIES CronMovesOn
