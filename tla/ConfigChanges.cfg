SPECIFICATION Spec
CONSTANTS
  a = a
  b = b
  h1 = h1
  h2 = h2
  u = u
  v = v
  Ids <- TwoIds
  Users <- TwoUsers
  FirstRelays <- OneRelay
  Handlers <- TwoHandlers
  MaxRequests = 2
  MaxMishaps = 1
INVARIANTS ValidInForce InStep RefusedTraceless SavedStays FileWhole 
CHECK_DEADLOCK FALSE
SYMMETRY Alike
