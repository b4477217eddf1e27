SPECIFICATION Spec
CONSTANTS
  t1 = t1
  c1 = c1
  v1 = v1
  v2 = v2
  None = None
  Tenants = {t1}
  Contracts = {c1, c2}
  Unissued = {c2}
  Versions = {v1, v2}
  Definitions = {"d1", "d2"}
  Inputs = {"i1", "i2", "i3"}
  Values = {"a", "b", "c"}
  Resolve <- MCResolve
  ResolveEdit <- MCResolveEdit
  Requests = {r1, r2}
  Commands <- PairCommands
SYMMETRY PairSymmetry
INVARIANTS
  TypeOK
  HistoryIsWhole
  OneEventPerActivation
  DecidesOnCurrentRows
  ValuesFitVersion
  ConstraintsNeverAct
PROPERTIES
  Lifecycle
  BoundToActiveVersion
  AnswersAreTrue
  ImplementsLedger
