SPECIFICATION Spec
CONSTANTS
  m1 = m1
  m2 = m2
  m3 = m3
  w1 = w1
  w2 = w2
  None = None
  Messages <- TwoMessages
  Workers <- TwoWorkers
  Capacity = 1
  MaxAttempts = 2
  Backoff <- UnitBackoff
  SubmitAttempts <- BothModes
  Persist = TRUE
  MaxMishaps = 2
SYMMETRY Symmetry
INVARIANTS IndexesAgree SingleOwner KeptOnDisk NothingMislaid AttemptsBounded
PROPERTY PromiseKept
CHECK_DEADLOCK FALSE
