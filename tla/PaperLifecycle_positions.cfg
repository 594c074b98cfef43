SPECIFICATION Spec
CONSTANTS
  Markets = {m1}
  NoMarket = NoMarket
  MaxRows = 2
  MaxCrashes = 0
  MaxManual = 1
  TickThread = TickThread
  DiscThread = DiscThread
  OperThread = OperThread
  Detached = {}
  Size = 4
  Parts = 4
  Ladder <- RunnerLadder
  Prices = {0, 1, 5}
  EntryAt = 3
  TakeAt = 4
  ArmAt = 4
  TrailGap = 1
  StopAt = 1
  StopLimitAt = 1
  ConfirmTicks = 2
  StopTtl = 2
INVARIANTS
  OneOpenPosition
  LadderStateFresh
  StopSizedToPosition
PROPERTIES
  EntryRespectsCooldown
