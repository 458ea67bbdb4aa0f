SPECIFICATION FairSpec
CONSTANTS
  y = y
  g = g
  s1 = s1
  s2 = s2
  r1 = r1
  r2 = r2
  Recipients <- TwoRecipients
  YahooMail <- OneYahoo
  Servers <- TwoServers
  NumEndpoints = 2
  Concurrency = 1
  ValidationOn = TRUE
  Clears = TRUE
  Relays <- TwoRelays
  Rounds = 2
  MaxAttempts = 2
INVARIANTS VerdictsFollowed OneOutcome ClientTruth SendsBounded RecordTells
PROPERTY EventuallySettled
CHECK_DEADLOCK FALSE
