CONSTANTS
  dot = dot own = own view = view
  i1 = i1 i2 = i2
  Paths <- ThreePaths
  Items <- TwoItems
  Reserved = {dot}
  ParentOf <- View
  Lens = Lens
  None = None
  NoFile = NoFile
  BigAt = 2
SPECIFICATION Spec
SYMMETRY Symmetry
INVARIANTS TypeOK NothingLost ServerIsCurrent
