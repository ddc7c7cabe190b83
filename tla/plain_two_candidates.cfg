SPECIFICATION Spec
CONSTANTS
  Tree = {t0, t1, t2}
  Missing = Missing
  Unhashable = Unhashable
  NoScore = NoScore
  MaxVersion = 2
  Used = {"init", "evaluate", "decide", "restore"}
  Options = {FALSE}
  SelfCheckMayFail = FALSE
  EditsAt = {"idle"}
SYMMETRY Symmetry
INVARIANTS
  OneUndecided
  LinesLandInTheirBlock
  SnapshotsAreDistinct
  ParentsAgree
