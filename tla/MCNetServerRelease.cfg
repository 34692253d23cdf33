SPECIFICATION FairSpec
CONSTANTS
  Slots = {s1}
  Workers = {w1}
  Apps = {}
  Acceptor = acceptor
  NoSlot = NoSlot
  NoToken = NoToken
  MaxConn = 1
  MaxCalls = 0
  Refuses = TRUE
  StaleCalls = FALSE
PROPERTY DisconnectedReleased
CHECK_DEADLOCK FALSE
