SPECIFICATION Spec
CONSTANTS
  None = None
  Sessions = {s1, s2}
  Selectors = {x1, x2, x3}
  Requests = {r1, r2}
  Lifetime = 1
  MaxTime = 1
SYMMETRY MCSymmetry
INVARIANTS
  ChainIsLinear
  SecondUseRevokes
PROPERTIES
  SuccessorsAreEarned
  SessionsEndForAReason
