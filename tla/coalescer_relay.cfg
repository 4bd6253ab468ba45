SPECIFICATION Spec
CONSTANTS
  Procs = {p1, p2}
  N = 1
  Kinds = {"clean"}
  Faults = {"webhook"}
  HandoffEnabled = TRUE
  MaxRearms = 1
  MaxDrainTurns = 2
  MaxWindow = 2
  MaxVersion = 1
  MaxStalls = 0
SYMMETRY ProcSymmetry
INVARIANTS
  RelayForwards
CHECK_DEADLOCK FALSE
