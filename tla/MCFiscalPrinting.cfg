SPECIFICATION Spec
CONSTANTS
  d1 = d1
  d2 = d2
  w1 = w1
  w2 = w2
  key = key
  Docs <- MCDocs
  Jobs <- TwoJobs
  Keys <- MCKeys
  Blank = "blank"
  Workers <- MCWorkers
  Limit = 2
  MaxAttempts = 2
  MaxRevived = 2
SYMMETRY MCSymmetry
CHECK_DEADLOCK FALSE
INVARIANTS TypeOK NumbersDense FailedPrintHasRetry
PROPERTIES ImplementsLife
