SPECIFICATION Spec
CONSTANTS
  Providers <- MCProviders
  Caps <- MCCaps
  Requests <- MCRequests
  Callers = {c1}
  NoProvider = NoProvider
  NoRequest = NoRequest
  NoLimit = NoLimit
  MaxDecisions = 1
  MaxServed = 1
INVARIANTS NameIsClean
