SPECIFICATION StreamSpec
CONSTANTS
  c1 = c1
  c2 = c2
  near = near
  far = far
  t1 = t1
  t2 = t2
  p1 = p1
  p2 = p2
  Addresses <- NearAndFar
  Local <- OneAddress
  Tokens <- OneToken
  Policies <- OpenPolicies
  MaxFailures = 2
  BlockTicks = 2
  SessionTicks = 2
  Conns <- OneConn
  Requests <- StreamRequests
  Publishers <- TwoPublishers
  MaxEvents = 5
  Capacity = 2
INVARIANTS NoSilentGap
PROPERTY StreamsEnd
