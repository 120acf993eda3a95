SPECIFICATION Spec
CONSTANTS
  Providers <- MCProviders
  Caps <- MCCaps
  Requests <- MCRequests
  Callers = {c1, c2}
  NoProvider = NoProvider
  NoRequest = NoRequest
  NoLimit = NoLimit
  MaxDecisions = 2
  MaxServed = 3
SYMMETRY Symmetry
INVARIANTS TypeOK ChoosesBest SummaryAgrees OnlyDisplacedAreLost
