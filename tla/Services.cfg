CONSTANTS
  Certificate = {o1, o2, o3, o4}
  Adjudication = {a1, a2, a3}
  Bootstrap = {b1, b2}
  RecordLimit = 2
  ApprovalTtl = 2
  Caller = {c1, c2}
  MaxDrawn = 3
  Digest = {d1}
  Request = {r1, r2}
  Limit <- Limits
  Ttl = 1
  MaxRecords = 2
  BodyTime = 1
  Token = {t1, t2, t3}
  Push = {p1, p2}
  MaxNew = 1
  Year = 1
  Service = {s1}
  Call = {k1, k2}
  Margin <- Margins
  Life <- Lives
  MaxWait = 3
  Tenant = {x1}
  Visit = {v1, v2}
  DepositLimit = 2
  LookupLimit = 1
  DeployLimit = 1
  MaxIssue = 2
SPECIFICATION ServicesSpec
SYMMETRY TokenSymmetry
INVARIANTS
  ForkOnlyByExpiry
  DeclinedNeverTakes
  
  GenesisFromOwnReview
  RequestsTypeOK
  OneApprovalPerChallenge
  LatestWasReleased
  PushedWereVouchedFor
  OverlapBounded
  CachedTokenOutlivesUse
PROPERTIES
  OneOrigin
  LiveChallengeKept
  
CHECK_DEADLOCK FALSE
