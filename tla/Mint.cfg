CONSTANTS
  Minter = {m1, m2}
  Capacity = 2
  Refill = 2
  Faults = TRUE
SPECIFICATION FairSpec
INVARIANTS
  TypeOK
  NeverStricter

  
