SPECIFICATION Spec
CONSTANTS
  m1 = m1
  m2 = m2
  m3 = m3
  w1 = w1
  w2 = w2
  w3 = w3
  Messages <- ThreeMessages
  Workers <- ThreeWorkers
  MaxIdle = 2
  Delays <- ShortAndLong
SYMMETRY Symmetry
INVARIANTS DueIsNoticed HeedsInTime
CHECK_DEADLOCK FALSE
