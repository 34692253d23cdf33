SPECIFICATION Spec
CONSTANTS
  Senders = {a, b}
  Workers = {w1}
  Packets = {p1, p2, p3}
  Batch = 2
  Fails = FALSE
INVARIANT NothingStranded
CHECK_DEADLOCK FALSE
