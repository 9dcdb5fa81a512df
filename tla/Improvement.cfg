SPECIFICATION FairSpec
CONSTANTS
  Eval = {e1}
  Reportable <- WifOnly
  Streak = 2
  OpenFor = 1
  SelfLimit = 2
  MaxFaults = 2
  MaxJobIds = 3
  MaxJobs = 2
  MaxProposals = 2
  ProposalTtl = 2
  StaleAfter = 1
  ScanInterval = 2
  MaxCandidates = 1
  MaxLag = 1
INVARIANTS
  TypeOK
PROPERTIES
  
  ProblemsAnswered
  
