SPECIFICATION Spec
CONSTANTS
  d1 = d1
  d2 = d2
  o1 = o1
  Deliveries <- TwoDeliveries
  Operators <- NoOperator
  Windows <- MinuteAndHour
  Carried <- OnlyHour
  Limit <- OneEach
  MaxConcurrent = 2
  FailureThreshold = 1
  SuccessThreshold = 1
  Cooldown = 1
  AutoDisable = TRUE
  AutoRecover = TRUE
  MaxReloads = 1
SYMMETRY Symmetry
INVARIANTS InFlightExact QuotaHeld
CHECK_DEADLOCK FALSE
