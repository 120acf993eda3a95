SPECIFICATION Spec
CONSTANTS
  Experiments = {x1}
  Variants = {v1, v2}
  Promotions = {p1, p2}
  Sessions = {s1, s2}
  People = {ann}
  Nobody = Nobody
SYMMETRY Symmetry
INVARIANTS TypeOK HumanDecided VerdictHasDecision PromotedStands RolledBackOnce
PROPERTIES LedgerKept
