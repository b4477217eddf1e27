SPECIFICATION Spec
CONSTANTS
  t1 = t1
  c1 = c1
  v1 = v1
  v2 = v2
  None = None
  Tenants = {t1}
  Contracts = {c1}
  Unissued = {}
  Versions = {v1, v2}
  Definitions = {"d1", "d2"}
  Inputs = {"i1", "i2", "i3"}
  Values = {"a", "b", "c"}
  Resolve <- MCResolve
  ResolveEdit <- MCResolveEdit
  Requests = {r1, r2}
  Commands <- TrioCommands
PROPERTY NotFoundMeansMissing
