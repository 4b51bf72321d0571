SPECIFICATION FairSpec
CONSTANTS
  Traders = {"a", "b", "mm"}
  Prices = {1, 2, 3}
  Quantities = {1, 2}
  Infinity = 9
  MarketMaker = "mm"
  MaxOrders = 4
  Requests <- EngineRequests
  SeedMids = {2}
  SeedLevels = 1
CHECK_DEADLOCK FALSE
INVARIANTS
  EngineInv
  NothingLost
PROPERTIES
  ArrivedPriority
  ImplementsMarket
  CallsReturn
