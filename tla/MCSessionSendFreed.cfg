SPECIFICATION Spec
CONSTANTS
  Senders = {a}
  Workers = {w1}
  Packets = {p1, p2}
  Batch = 2
  Fails = FALSE
INVARIANT NotFreedInFlight
CHECK_DEADLOCK FALSE
