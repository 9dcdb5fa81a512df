CONSTANTS
  Candidate = {c1}
  Round = {1, 2}
  Ttl = 1
  Grace = 1
  ProvedSkew = 1
  Lag = 0
  ApplyDelay = 1
  MaxRequests = 2
  MaxIssue = 2
  MaxTime = 4
SPECIFICATION FairSpec
PROPERTIES
  HandoffEnds
CHECK_DEADLOCK FALSE
