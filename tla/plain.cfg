SPECIFICATION FairSpec
CONSTANTS
  Tree = {t0, t1}
  Missing = Missing
  Unhashable = Unhashable
  NoScore = NoScore
  MaxVersion = 1
  Used = {"init", "evaluate", "evaluate_from", "decide", "restore", "finalize", "finalize_keep", "status"}
  Options = {TRUE, FALSE}
  SelfCheckMayFail = TRUE
  EditsAt = {"idle", "load", "init", "init_measure", "evaluate", "score", "decide", "settle", "settle_log", "restore", "deliver", "swap", "swap_in"}
INVARIANTS
  IInv
  UndecidedNeverReadsKept
  EvidenceIsOfItsSnapshot
  FinalizeDelivers
PROPERTIES
  ImplementsLedger
  EventuallyDelivered
