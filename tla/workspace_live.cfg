SPECIFICATION LiveSeeding
CONSTANTS
  t1 = t1
  c1 = c1
  v1 = v1
  v2 = v2
  None = None
  t2 = t2
  Tenants = {t1, t2}
  Contracts = {c1}
  Unissued = {}
  Versions = {v1, v2}
  Definitions = {"d1", "d2"}
  Inputs = {"i1", "i2", "i3"}
  Values = {"a", "b", "c"}
  Resolve <- MCResolve
  ResolveEdit <- MCResolveEdit
  Requests = {r1, r2, r3}
  Commands <- LiveCommands
  Seeds = {s1, s2}
  Workspaces <- TwoWorkspaces
  Staff <- TwoUsers
  Emails = {"admin", "member"}
  SeededTemplate = "d1"
PROPERTY EveryRequestIsAnswered
PROPERTY SafeToRerun
