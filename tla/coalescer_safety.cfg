SPECIFICATION Spec
CONSTANTS
  Procs = {p1, p2}
  N = 2
  Kinds = {"clean", "spam"}
  Faults = {"lapse", "stall"}
  HandoffEnabled = TRUE
  MaxRearms = 1
  MaxDrainTurns = 2
  MaxWindow = 2
  MaxVersion = 2
  MaxStalls = 1
SYMMETRY ProcSymmetry
INVARIANTS
  NeverAnsweredTwice
  NoMessageStranded
  BlockedNeverRead
CHECK_DEADLOCK FALSE
