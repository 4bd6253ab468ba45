SPECIFICATION RecoveringSpec
CONSTANTS
  Procs = {p1, p2}
  N = 2
  Kinds = {"clean"}
  Faults = {"stall"}
  HandoffEnabled = TRUE
  MaxRearms = 1
  MaxDrainTurns = 2
  MaxWindow = 2
  MaxVersion = 1
  MaxStalls = 1
PROPERTIES
  EveryMessageSettles
CHECK_DEADLOCK FALSE
