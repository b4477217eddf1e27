SPECIFICATION LiveSpec
CONSTANTS
  None = None
  t1 = t1
  c1 = c1
  c2 = c2
  Events = {e1, e2}
  Contracts = {c1, c2}
  Tenants = {t1}
  Owner <- MCOwner
  Activation <- MCActivation
  Rank <- MCRank
  Handlers = {h1}
  BatchSize = 2
  MaxRevision = 2
  MaxFaults = 2
CHECK_DEADLOCK FALSE
INVARIANTS
  MarkedIsKept
  EveryCopyIsReserved
PROPERTIES
  MarksAreFinal
  EveryActivationArrives
