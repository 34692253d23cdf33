SPECIFICATION Spec
CONSTANTS
  Threads = {t1, t2}
  Nodes = {n1, n2, n3, n4}
  Values = {v1, v2}
  NULL = NULL
  NoValue = NoValue
  MaxOps = 5
SYMMETRY Symmetry
INVARIANTS NodesSafe GateSound
PROPERTY Linearizable
CHECK_DEADLOCK FALSE
