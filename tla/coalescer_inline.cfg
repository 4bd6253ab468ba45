SPECIFICATION Spec
CONSTANTS
  Procs = {p1, p2}
  N = 1
  Kinds = {"clean", "spam", "warn", "human"}
  Faults = {"schedule", "unlocked", "database", "lapse", "webhook", "expiry"}
  HandoffEnabled = TRUE
  MaxRearms = 0
  MaxDrainTurns = 2
  MaxWindow = 2
  MaxVersion = 2
  MaxStalls = 0
SYMMETRY ProcSymmetry
INVARIANTS
  WatermarkIsAnswered
PROPERTIES
  ReplyFenced
CHECK_DEADLOCK FALSE
