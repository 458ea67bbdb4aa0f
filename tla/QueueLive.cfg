SPECIFICATION FairSpec
CONSTANTS
  m1 = m1
  m2 = m2
  m3 = m3
  w1 = w1
  w2 = w2
  None = None
  Messages <- TwoMessages
  Workers <- TwoWorkers
  Capacity = 1
  MaxAttempts = 2
  Backoff <- UnitBackoff
  SubmitAttempts <- QueueMode
  Persist = TRUE
  MaxMishaps = 1
PROPERTY EventuallyDecided
CHECK_DEADLOCK FALSE
