SPECIFICATION Spec
CONSTANTS
  Tree = {t0, t1}
  Missing = Missing
  Unhashable = Unhashable
  NoScore = NoScore
  MaxVersion = 1
  Used = {"init", "evaluate", "decide", "restore", "finalize", "finalize_keep"}
  Options = {FALSE}
  SelfCheckMayFail = FALSE
  EditsAt = {"idle", "confirm"}
  RunnerMayFail = TRUE
  GateMayRefuse = TRUE
  TimeMayRunOut = TRUE
  KillsAt <- Labels
  EvidenceMayBeLost = FALSE
SYMMETRY Symmetry
INVARIANTS
  IInv
  OnlyConfirmedStand
  RulingsAreTheGates
  AskedOnce
PROPERTIES
  SettlementStands
  BlockedUntilResolved
  ImplementsLedger
