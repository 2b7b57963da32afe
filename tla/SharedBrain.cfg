CONSTANTS
  w1 = w1 w2 = w2 r1 = r1
  t1 = t1
  i1 = i1 i2 = i2 i3 = i3
  Writers <- TwoWriters
  Readers <- OneReader
  Askers <- TwoWriters
  Texts <- OneText
  Inodes <- ThreeInodes
  None = None
  Torn = Torn
SPECIFICATION FairSpec
INVARIANTS TypeOK SaidWhole SavedStays
PROPERTY EveryCommandEnds
