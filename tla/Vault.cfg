CONSTANTS
  d1 = d1 d2 = d2 p1 = p1 p2 = p2 p3 = p3
  Docs <- TwoDocs
  Parts <- ThreeParts
  PartsOf <- OneShared
  None = None
  Ruled <- FirstDoc
  Dates <- NoneOrLater
  MaxTime = 2
  MaxEvents = 3
SPECIFICATION Spec
INVARIANTS TypeOK Certified NoOrphans
PROPERTY KeepsPromise
