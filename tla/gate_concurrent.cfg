SPECIFICATION Spec
CONSTANTS
  v0 = v0
  v1 = v1
  v2 = v2
  Proc = {p1, p2}
  Version <- TwoCandidates
  Tree = {t0, t1, t2}
  Missing = Missing
  Broken = Broken
  Seed <- MCSeed
  VisibleSeeds <- MCVisibleSeeds
  Stream <- MCStream
  Sizes = {1}
  Pairs <- StackedPairs
  Modes = {"gated"}
  MaxLines = 3
  DiskMayFail = FALSE
  MayBeKilled = TRUE
  SnapshotsMayChange = FALSE
SYMMETRY Symmetry
INVARIANTS
  LooksAreDistinct
  LoggedSuitesStay
PROPERTIES
  ImplementsRegister
