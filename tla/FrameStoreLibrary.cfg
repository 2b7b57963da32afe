SPECIFICATION Spec
CONSTANTS
  d1 = d1
  d2 = d2
  c1 = c1
  c2 = c2
  None = None
  Docs <- MCDocs
  Cases <- MCCases
  MaxFrames = 3
  MinCompact = 2
  KeepCounts = {1}
  AdminOnSaved = FALSE
SYMMETRY Symmetry
PROPERTY HeldNeverReclaimed
CHECK_DEADLOCK FALSE
