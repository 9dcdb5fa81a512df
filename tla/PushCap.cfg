CONSTANTS
  Token = {t1, t2}
  Push = {p1, p2}
  MaxNew = 1
  Year = 1
SPECIFICATION PushSpec
INVARIANTS
  YearlyCap
