SPECIFICATION FairService
CONSTANTS
  Traders = {"a", "b", "bot", "mm"}
  Prices = {1, 2, 3}
  Quantities = {1, 2}
  Infinity = 9
  MarketMaker = "mm"
  MaxOrders = 4
  Requests <- ServiceRequests
  SeedMids = {2}
  SeedLevels = 1
  Bots = {"bot"}
  MaxUids = 2
  MaxCrashes = 1
CHECK_DEADLOCK FALSE
INVARIANTS
  TradesSurvive
