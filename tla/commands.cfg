SPECIFICATION FairSpec
CONSTANTS
  Agents = {a1, a2}
  Conns = {c1, c2}
  Keys = {k1}
  Keyed = {"claim"}
  ClientMsgs = {m1}
  PageMsgs = {p1}
  NULL = NULL
  HOUR = 2
  MaxHours = 1
  MaxTxAge = 1
  MaxClock = 4
  MaxVersion = 4
  MaxHandoffs = 2
INVARIANTS
  SingleOpenHandoff
  HandoffMatchesOwnership
  ControlMatchesOwnership
  OneEventPerTransition
  AppliedAtMostOnce
PROPERTIES
  ImplementsOwnership
  HardDeadlineUpToLockWait
  ExpiredControlEnds
