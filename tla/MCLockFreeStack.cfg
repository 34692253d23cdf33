SPECIFICATION FairSpec
CONSTANTS
  Threads = {t1, t2}
  Nodes = {n1, n2}
  Values = {v1, v2}
  NULL = NULL
  NoValue = NoValue
  MaxOps = 3
INVARIANTS OwnedNodesPrivate CountSettles 
PROPERTIES Linearizable CallsReturn
CHECK_DEADLOCK FALSE
