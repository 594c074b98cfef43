SPECIFICATION Spec
CONSTANTS
  Ticks = 4
  MaxSize = 2
  MaxMoves = 1
  MaxDrops = 2
  Units = 4
  Half = 2
  Skews <- SomeSkews
  Discounts = {0, 1}
  MinLevel = 0
  Targets = {1, 3}
INVARIANTS
  TakerCrossesBestLevel
CHECK_DEADLOCK FALSE
