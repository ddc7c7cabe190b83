SPECIFICATION Spec
CONSTANTS
  Policy = {pA, pB, pBig}
  NoPolicy = NoPolicy
  Oversized = {pBig}
  Version = {0, 1, 2}
  None = None
  MinEffect = 1
  Spread = 1
  Scores = {0, 3}
  Budget <- MCBudget
SYMMETRY Symmetry
INVARIANTS
  HonestRolloutsVerify
  AcceptedRebuilds
  AcceptedDecisionsFollow
  SubmissionStands
  
