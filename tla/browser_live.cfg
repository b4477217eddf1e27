SPECIFICATION LiveSpec
CONSTANTS
  None = None
  Tabs = {b1}
  Calls = {k1}
  Identity = Identity
  Sessions = {s1, s2}
  MaxGeneration = 1
  MaxLosses = 1
CHECK_DEADLOCK FALSE
INVARIANTS
  ActsAsShown
  ReuseNeedsALoss
  CallsExecuteOnce
PROPERTY CallsSettle
