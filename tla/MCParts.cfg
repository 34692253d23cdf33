SPECIFICATION PartSpec
CONSTANTS
  MaxSize = 4
  Bytes = {x, y}
  MaxChunk = 3
  ListNode = {n1, n2, n3}
  ListValue = {v, w}
  b1 = b1
  b2 = b2
  b3 = b3
  PoolBlock = {b1, b2, b3}
  PoolSizes = {1, 2}
  PoolThread = {t1, t2}
  Block = {b1, b2}
  FirstBlock = b1
  NextBlock <- MCNextBlock
  PlacementNew = FALSE
  MaxTag = 6
  TlsThread = {t1, t2}
  Chunk = {c1, c2, c3}
  ChunkSize = 2
  Frame = 3
  Second = 10
  SleepUnit = 2
  MaxClock = 14
  ScreenW = 6
  ScreenH = 4
  MapRight = 9
  MapBottom = 7
  Tile = 2
  Shift = 1
  SpriteSizes = {1, 3}
  Percentages = {50, 100}
  ProfThread = {t1, t2}
  MaxThread = 1
  Tag = {g, h, i}
  MaxProfile = 2
  Ellapse = {0, 1, 2}
  MaxCalls = 3
  Address = {a1, a2, a3}
  MaxAlloc = 2
  AreaNames <- MCAreaNames
  Keys <- MCKeys
  Strings <- MCStrings
  Numbers <- MCNumbers
  HandWritten <- MCHandWritten
  Meaning <- MCMeaning
  MaxParserCalls = 4
  PacketSizes = {1, 3}
  MaxPackets = 4
  KernelSize = 2
  HeaderSize = 2
  TypeSize = 1
  ClientSizes = {1, 2}
  ServerSizes = {0, 1, 2}
  Count = 4
  Coalesce = FALSE
INVARIANTS PayloadsIntact PacketsIntact BlocksAccounted PoolShared ChunksAccounted KeepsPace
           DrawnExactly ViewCovered ProfilesTrue LogTrue SendOwed
PROPERTIES IsFifo  ReadsBack ClientGetsAll ServerGetsAll
CHECK_DEADLOCK FALSE
