SPECIFICATION Spec
CONSTANTS
  Subs = {s1, s2}
  Packs = {p1}
  Workers = {w1, w2}
  NULL = NULL
  MaxEvents = 6
  MaxAhead = 1
  MaxOverrides = 1
  MaxFaults = 1
SYMMETRY WorkerSymmetry
INVARIANTS
  CreditedOnce
  OneTrial
  
  Converges
  PastDueIsTimed
CHECK_DEADLOCK FALSE
