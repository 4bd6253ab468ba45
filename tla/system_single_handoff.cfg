SPECIFICATION SysSpec
CONSTANTS
  Agents = {a1, a2}
  Conns = {c1}
  Keys = {k1}
  Keyed = {}
  ClientMsgs = {m1}
  PageMsgs = {p1}
  NULL = NULL
  HOUR = 2
  MaxHours = 1
  MaxTxAge = 1
  MaxClock = 0
  MaxVersion = 6
  MaxHandoffs = 2
  StaleSession = 1
  StaleHandoff = 2
SYMMETRY AgentSymmetry
INVARIANTS
  SingleOpenHandoff
