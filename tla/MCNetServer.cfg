SPECIFICATION FairSpec
CONSTANTS
  Slots = {s1}
  Workers = {w1, w2}
  Apps = {a1}
  Acceptor = acceptor
  NoSlot = NoSlot
  NoToken = NoToken
  MaxConn = 2
  MaxCalls = 2
  Refuses = TRUE
  StaleCalls = FALSE

INVARIANTS OneRecv NoDeafSession RefCount OneSend
PROPERTY PeerCloseNoticed
CHECK_DEADLOCK FALSE
