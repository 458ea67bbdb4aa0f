SPECIFICATION ClockSpec
CONSTANTS
  c1 = c1
  c2 = c2
  near = near
  far = far
  t1 = t1
  t2 = t2
  p1 = p1
  p2 = p2
  Addresses <- OneAddress
  Local <- OneAddress
  Tokens <- TwoTokens
  Policies <- LockedPolicies
  MaxFailures = 2
  BlockTicks = 2
  SessionTicks = 2
  Conns <- TwoConns
  Requests <- LoginRequests
  Publishers = {}
  MaxEvents = 0
  Capacity = 1
INVARIANTS GuessesBounded SessionsAsOwed
PROPERTY BlocksEnd
