CONSTANTS
  Bookings = {b1, b2}
  Procs = {p1, p2}
  Keys = {1, 2}
  BotKey = 1
  Slots = {1, 3, 4}
  SlotsPerDay = 4
  Cap = 1
  Gap = 1
  NULL = NULL
  MaxReconnects = 2
CHECK_DEADLOCK FALSE
SPECIFICATION Spec
SYMMETRY CallerSymmetry
INVARIANTS DayCapacity KeptApart NoMutualWait
PROPERTIES CancelledIsFinal
CONSTRAINT NotExcused
