CONSTANTS
  Tenant = {t1}
  Key = {k1, k2}
  MaxVersion = 2
  AdmissionTtl = 1
  MaxWork = 2
  MaxTime = 1
  Repo = {r1}
  Bundle = {}
  Malformed = Malformed
  Slots = 2
  RouteTtl = 1
  MaxLoads = 2
  MaxPublish = 2
SPECIFICATION FairSpec
INVARIANTS
  TypeOK
  ReleasedCovered
PROPERTIES
  RollbackRefused
  ImplementsPolicy
  
  
  
CHECK_DEADLOCK FALSE
