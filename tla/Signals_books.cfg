SPECIFICATION SignalsSpec
CONSTANTS
  Ticks = 4
  MaxSize = 2
  MaxMoves = 1
  MaxDrops = 2
  Units = 4
  Half = 2
  Skews <- SomeSkews
  Discounts = {0, 1}
  MinLevel = 2
  Targets = {1, 3}
  Minute = 2
  Apart = 2
  MaxSamples = 2
  MaxBars = 3
  Lag = 1
  MidsKept = 3
  MidsMax = 2
  TickSpans = {1, 3}
  BarSpans = {1, 2}
  MaxTime = 6
  MaxTicks = 3
  MaxMids = 3
  Unset = Unset
  One <- BasisPoints
  ZMax = 3
  Cdf <- Normal
  Seconds <- SomeSeconds
  RootTime <- Roots
  Tunings <- SomeTunings
  TopsOfBook <- SomeTops
  BtcMoves <- SomeMoves
  Trades <- SomeTrades
  Trade = 40
  Accounts <- SomeAccounts
  Replies <- SomeReplies
  Malformed = Malformed
  NoTrade = NoTrade
  NoTick = NoTick
  NoTuning = NoTuning
INVARIANTS
  BooksLagOnlyByTheWire
  FillsAreBest
  NoFreeMoney
  QuotesRest
  ReturnsStartRight
  CostsOnlyRemove
  VerdictsMirror
  ApprovedEdgeIsReal
CHECK_DEADLOCK FALSE
