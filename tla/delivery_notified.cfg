SPECIFICATION Spec
CONSTANTS
  None = None
  t1 = t1
  c1 = c1
  c2 = c2
  Events = {e1}
  Contracts = {c1}
  Tenants = {t1}
  Owner <- MCOwner
  Activation <- MCActivation
  Rank <- MCRank
  Handlers = {h1, h2}
  BatchSize = 1
  MaxRevision = 3
  MaxFaults = 1
CHECK_DEADLOCK FALSE
INVARIANT OutboxEventsAreNotified
