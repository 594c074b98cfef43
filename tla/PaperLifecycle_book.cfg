SPECIFICATION FairSpec
CONSTANTS
  Markets = {m1}
  NoMarket = NoMarket
  MaxRows = 1
  MaxCrashes = 1
  MaxManual = 1
  TickThread = TickThread
  DiscThread = DiscThread
  OperThread = OperThread
  Detached = {d1}
  Size = 4
  Parts = 4
  Ladder <- LateStep
  Prices = {0, 1, 4, 5}
  EntryAt = 3
  TakeAt = 4
  ArmAt = 4
  TrailGap = 1
  StopAt = 1
  StopLimitAt = 1
  ConfirmTicks = 1
  StopTtl = 0
INVARIANTS
  OpenRowConserved
  TrancheAtMostOnce
PROPERTIES
  BookRefined
  ExpiredPositionCloses
  DroppedPositionReturns
