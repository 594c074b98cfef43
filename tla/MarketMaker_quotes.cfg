SPECIFICATION Spec
CONSTANTS
  Markets = {m1}
  NoMarket = NoMarket
  MaxQuotes = 2
  MaxCrashes = 1
  MaxEvents = 2
  MaxInserts = 1
  Callers = {"sub", "fresh"}
  Size = 2
  Cap = 2
INVARIANTS
  FilledOnce
  InventoryBounded
  RewardBankedOnce
