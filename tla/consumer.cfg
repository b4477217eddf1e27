SPECIFICATION LiveSpec
CONSTANTS
  None = None
  t1 = t1
  t2 = t2
  c1 = c1
  x1 = x1
  x2 = x2
  Messages <- MCMessages
  EventFields <- MCFields
  Contracts = {c1}
  Tenants = {t1, t2}
  Owner <- MCOwner
  Handlers = {h1, h2}
  MaxRevision = 2
  MaxCopies <- MCCopies
  MaxFaults = 1
CHECK_DEADLOCK FALSE
INVARIANTS
  NothingIsLost
  AckedIsRecorded
  EvidenceIsSound
PROPERTY EveryMessageIsSettled
