SPECIFICATION LiveSpec
CONSTANTS
  None = None
  Contracts = {c1}
  Slots = {s1, s2}
  MaxRevision = 2
INVARIANTS
  SuccessIsTrue
PROPERTY SubmissionsSettle
