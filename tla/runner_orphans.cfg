SPECIFICATION FairSpec
CONSTANTS
  Run = {r1, r2, r3}
  None = None
  Used = {"measure", "confirm"}
  Faults = {"runner", "helper"}
  OrphansSurvive = TRUE
PROPERTIES
  CommandsEnd
CHECK_DEADLOCK FALSE
