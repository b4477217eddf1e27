SPECIFICATION ReadSpec
CONSTANTS
  t1 = t1
  t2 = t2
  c1 = c1
  v1 = v1
  v2 = v2
  None = None
  Tenants = {t1, t2}
  Contracts = {c1, c2}
  Unissued = {c2}
  Versions = {v1, v2, v3}
  Definitions = {"d1", "d2"}
  Inputs = {"i1", "i2", "i3"}
  Values = {"a", "b", "c"}
  Resolve <- MCResolve
  ResolveEdit <- MCResolveEdit
  Requests = {r1}
  Commands <- WriteCommands
  Readers = {q1}
  Questions <- ReadQuestions
SYMMETRY ReadSymmetry
INVARIANTS
  TenantScope
  TimelineIsWhole
  RevisionNamesContents
