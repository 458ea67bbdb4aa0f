SPECIFICATION FairSpec
CONSTANTS
  d1 = d1
  d2 = d2
  o1 = o1
  Deliveries <- OneDelivery
  Operators <- OneOperator
  Windows <- NoWindow
  Carried <- OnlyHour
  Limit <- OneEach
  MaxConcurrent = 1
  FailureThreshold = 2
  SuccessThreshold = 2
  Cooldown = 1
  AutoDisable = TRUE
  AutoRecover = TRUE
  MaxReloads = 1
INVARIANT ClosedBelowThreshold
PROPERTY TrippedComesBack
CHECK_DEADLOCK FALSE
