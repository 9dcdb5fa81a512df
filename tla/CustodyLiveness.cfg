CONSTANTS
  A = A
  B = B
  Change = {c1}
  Fenced = TRUE
  Cuts = TRUE
  Moves <- StatusMove
  MaxTransfer = 1
  MaxSerial = 4
  MaxBoot = 2
SPECIFICATION FairSpec
PROPERTIES
  CommitEnds
  RestartedReplicaRekeyed
  CustodianCatchesUp
CHECK_DEADLOCK FALSE
