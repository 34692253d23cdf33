SPECIFICATION Spec
CONSTANTS
  Slots = {s1}
  Workers = {w1}
  Apps = {a1}
  Acceptor = acceptor
  NoSlot = NoSlot
  NoToken = NoToken
  MaxConn = 1
  MaxCalls = 4
  Refuses = FALSE
  StaleCalls = TRUE
INVARIANTS IndexCopiesBounded
CHECK_DEADLOCK FALSE
