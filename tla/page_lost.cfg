SPECIFICATION Spec
CONSTANTS
  None = None
  Contracts = {c1}
  Slots = {s1, s2}
  MaxRevision = 3
PROPERTY ReplacesWhatWasShown
