SPECIFICATION FairSpec
CONSTANTS
  Jobs = {j1, j2}
  Clients = {c1, c2}
  NoJob = NoJob
  MaxVersions = 2
  MaxFailures = 1
INVARIANTS TypeOK KeysAgree DispatchesWhatIsDue
PROPERTIES JobsKept DueIsDispatched
