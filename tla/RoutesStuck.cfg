CONSTANTS
  Tenant = {t1}
  Key = {k1}
  MaxVersion = 1
  AdmissionTtl = 2
  MaxWork = 1
  MaxTime = 1
  Repo = {r1}
  Bundle <- ExpiringBundle
  Malformed = Malformed
  Slots = 1
  RouteTtl = 1
  MaxLoads = 2
  MaxPublish = 1
SPECIFICATION FairSpec
PROPERTIES
  AdmissionPickedUp
CHECK_DEADLOCK FALSE
