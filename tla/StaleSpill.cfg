SPECIFICATION Spec
CONSTANTS
  d1 = d1
  d2 = d2
  c1 = c1
  None = None
  Junk = Junk
  Missing = Missing
  NoFile = NoFile
  Torn = Torn
  Docs <- TwoDocs
  Cases = {}
  MaxFrames = 3
  MinCompact = 2
  KeepCounts = {}
  AdminOnSaved = TRUE
  BlockSize = 2
  LongLived = FALSE
  Spilling = TRUE
  Swept = FALSE
  Vault = FALSE
  Faults = {}
INVARIANT SaveRoundTrips
SYMMETRY Symmetry
