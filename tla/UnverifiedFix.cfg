CONSTANTS
  t1 = t1 f1 = f1 f2 = f2
  old = old good = good bad = bad blank = blank
  Tasks <- OneTask
  Files <- TwoFiles
  Contents <- FourContents
  None = None
  Whole = Whole
  Gutting <- Guarded
  ChangeSets <- Answers
  Trees <- UntouchedOrLeft
  Builds <- NothingBad
  Passes <- AllGood
  MaxAttempts = 3
SPECIFICATION Spec
INVARIANT FixIsVerified
