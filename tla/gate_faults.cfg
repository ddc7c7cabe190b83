SPECIFICATION Spec
CONSTANTS
  v0 = v0
  v1 = v1
  v2 = v2
  Proc = {p1}
  Version <- OneCandidate
  Tree = {t0, t1}
  Missing = Missing
  Broken = Broken
  Seed <- MCSeed
  VisibleSeeds <- MCVisibleSeeds
  Stream <- MCStream
  Sizes = {1}
  Pairs <- OnePair
  Modes = {"gated", "replay"}
  MaxLines = 3
  DiskMayFail = TRUE
  MayBeKilled = TRUE
  SnapshotsMayChange = TRUE
SYMMETRY Symmetry
INVARIANTS
  IInv
  LogReads
  KeepsAreConfirmed
