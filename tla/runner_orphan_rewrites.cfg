SPECIFICATION Spec
CONSTANTS
  Run = {r1, r2, r3}
  None = None
  Used = {"measure", "head", "confirm"}
  Faults = {"runner", "helper"}
  OrphansSurvive = TRUE
PROPERTIES
  WrittenOnce
CHECK_DEADLOCK FALSE
