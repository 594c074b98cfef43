SPECIFICATION MakersSpec
CONSTANTS
  Markets = {m1}
  NoMarket = NoMarket
  MaxOrders = 2
  MaxFills = 2
  MaxQuotes = 1
  MaxCrashes = 1
  MaxEvents = 2
  MaxInserts = 1
  Callers = {"sub"}
  Size = 2
  Cap = 2
INVARIANTS
  NoOrderBesidePosition
  NoOrderLost
  OneFillOnePosition
PROPERTIES
  OrderEnds
  ResolvedLegCloses
