SPECIFICATION Spec
CONSTANTS
  Run = {r1, r2, r3, r4}
  None = None
  Used = {"measure", "head", "confirm"}
  Faults = {"disk", "runner", "helper"}
  OrphansSurvive = FALSE
SYMMETRY Symmetry
INVARIANTS
  IInv
  
  RetriesAreNotRefused
PROPERTIES
  WrittenOnce
  EvidenceIsFinal
CHECK_DEADLOCK FALSE
