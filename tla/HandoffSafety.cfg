CONSTANTS
  Candidate = {c1, c2}
  Round = {1}
  Ttl = 1
  Grace = 2
  ProvedSkew = 1
  Lag = 1
  ApplyDelay = 1
  MaxRequests = 2
  MaxIssue = 3
  MaxTime = 6
SPECIFICATION Spec
SYMMETRY CandidateSymmetry
INVARIANTS
  TypeOK
  

  
  
CHECK_DEADLOCK FALSE
