SPECIFICATION Spec
CONSTANTS
  Experiments = {x1}
  Variants = {v1}
  Promotions = {p1}
  Sessions = {s1, s2}
  People = {ann, bob}
  Nobody = Nobody
PROPERTIES SettledStaysSettled
