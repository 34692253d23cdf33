SPECIFICATION FairSpec
CONSTANTS
  Senders = {a, b}
  Workers = {w1, w2}
  Packets = {p1, p2, p3}
  Batch = 2
  Fails = TRUE
INVARIANTS OneSend FifoOnce FreedOnce
PROPERTY SentIsFreed
CHECK_DEADLOCK FALSE
