SPECIFICATION FairSpec
CONSTANTS
  Callers = {c1, c2, c3}
  MaxBoot = 2
  None = None
INVARIANTS
  TokenFresh
PROPERTY
  WaitsBehindRequest
