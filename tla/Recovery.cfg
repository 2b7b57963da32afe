SPECIFICATION FairSpec
CONSTANTS
  d1 = d1
  d2 = d2
  c1 = c1
  None = None
  Junk = Junk
  Missing = Missing
  NoFile = NoFile
  Torn = Torn
  Docs <- OneDoc
  Cases <- OneCase
  MaxFrames = 1
  MinCompact = 1
  KeepCounts = {1}
  AdminOnSaved = TRUE
  BlockSize = 2
  LongLived = TRUE
  Spilling = TRUE
  Swept = TRUE
  Vault = TRUE
  Faults = {"train", "write", "rename", "spill"}
PROPERTIES BackToWork ImplementsDurable
