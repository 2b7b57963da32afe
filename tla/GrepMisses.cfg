CONSTANTS
  d1 = d1 d2 = d2 d3 = d3 t1 = t1 t2 = t2
  Docs <- ThreeDocs
  Texts <- TwoTexts
  Code <- Definitions
  None = None
  MaxRows = 4
  MaxChanges = 2
  MaxUnbuilt = 1
SYMMETRY Symmetry
SPECIFICATION Spec
INVARIANT GrepFindsAll
