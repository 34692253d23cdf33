SPECIFICATION Spec
CONSTANTS
  Right = 7
  Bottom = 7
  XSpeed = 3
  YSpeed = 2
  Lift = 1
  Length <- MCLength
  HitTick <- MCHitTick
  EffectLength = 2
  Clients = {1, 2}
  Keys = {"RIGHT", "Z"}
  Presses <- MCPresses
  Start <- MCStart
  StartHP = 2
  MaxInbox = 1
INVARIANTS PointerLive CopyAgrees OwnAttackComplete
PROPERTIES AttackShown SortedWithoutEffects OwnDeathEnds Settles
CHECK_DEADLOCK FALSE
