SPECIFICATION ClientSpec
CONSTANTS
  MaxSize = 7
  HeaderSize = 2
  TypeSize = 1
  ClientSizes = {2, 3, 5}
  Count = 3
  Coalesce = TRUE
INVARIANT NeverQuits
CHECK_DEADLOCK FALSE
