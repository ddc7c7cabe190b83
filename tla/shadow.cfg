SPECIFICATION Spec
CONSTANTS
  pA = pA
  pB = pB
  Policy = {pA, pB}
  NoPolicy = NoPolicy
  Oversized = {}
  Version = {0, 1, 2, 3}
  None = None
  MinEffect = 1
  Spread = 1
  Jobs <- MCJobs
  Starter <- MCStarter
  Projection = FALSE
  JobMayChange = TRUE
  GateMayFail = TRUE
  MayBeKilled = TRUE
INVARIANTS
  EvaluatedOnce
  
  
