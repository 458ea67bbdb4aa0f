SPECIFICATION FairSpec
CONSTANTS
  s1 = s1
  s2 = s2
  s3 = s3
  a1 = a1
  a2 = a2
  r1 = r1
  r2 = r2
  r3 = r3
  None = None
  Sessions <- ThreeSessions
  MaxConnections = 1
  Senders <- TwoSenders
  Recipients <- ThreeRecipients
  MaxRecipients = 2
  MaxBody = 2
  MaxErrors = 2
  AuthOffered = TRUE
  RequireAuth = TRUE
INVARIANT InStep
INVARIANT SubmittedAsAgreed
INVARIANT BodyWhole
CHECK_DEADLOCK FALSE
INVARIANT ConnectionsCounted
INVARIANT OrderlyExit
PROPERTY SilentClosed
PROPERTY ShutdownCompletes
