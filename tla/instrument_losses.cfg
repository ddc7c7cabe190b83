SPECIFICATION FairSpec
CONSTANTS
  Tree = {t0, t1}
  Missing = Missing
  Unhashable = Unhashable
  NoScore = NoScore
  MaxVersion = 1
  Used = {"init", "evaluate_from", "decide", "finalize"}
  Options = {FALSE}
  SelfCheckMayFail = FALSE
  EditsAt = {}
  RunnerMayFail = TRUE
  GateMayRefuse = FALSE
  TimeMayRunOut = FALSE
  KillsAt = {"append", "commit", "save", "measure", "gate", "screened", "play", "gate_confirm", "confirm", "settle_status", "settle_lines", "settle_main", "swap_in"}
  EvidenceMayBeLost = TRUE
INVARIANTS
  FinalizedIsDelivered
PROPERTIES
  EventuallyDelivered
