CONSTANTS
  Times = {t1, t2}
  Callers = {c1, i1, i2}
  Pullers = {i1, i2}
  Workers = {w1}
  NULL = NULL
  MaxAttempts = 2
  MAX_ROUND_ATTEMPTS = 2
  MaxMoves = 1
  MaxEdits = 1
  MaxFaults = 1
SPECIFICATION SyncSpec
INVARIANTS SyncAccounted
PROPERTIES SyncConverges
CONSTRAINTS BookedAtFirst NotExcused Bounded
CHECK_DEADLOCK FALSE
