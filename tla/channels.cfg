CONSTANTS
  Events = {e1, e2}
  Workers = {w1, w2}
  Replies = {r1}
  Tasks = {t1, t2}
  NULL = NULL
  ATTEMPTS = 3
  MaxSessions = 2
  MaxPosts = 2
  MaxFaults = 3
SPECIFICATION Spec
CONSTRAINT Bounded
SYMMETRY Interchangeable
CHECK_DEADLOCK FALSE
INVARIANTS
  SavedOnce
  OneThread
  SentWasTaken
