CONSTANTS
  A = A
  B = B
  Change = {c1, c2}
  Fenced = TRUE
  Cuts = FALSE
  Moves <- StatusMove
  MaxTransfer = 2
  MaxSerial = 4
  MaxBoot = 2
SPECIFICATION Spec
SYMMETRY ChangeSymmetry
INVARIANTS
  TypeOK
  AcknowledgedSurvives
  OnePrimary
  NoDirtyTransfer
PROPERTIES
  ReplicaKeepsReleased
CHECK_DEADLOCK FALSE
