SPECIFICATION FairService
CONSTANTS
  Traders = {"a", "b", "bot", "mm"}
  Prices = {1, 2, 3}
  Quantities = {1, 2}
  Infinity = 9
  MarketMaker = "mm"
  MaxOrders = 5
  Requests <- ServiceRequests
  SeedMids = {2}
  SeedLevels = 1
  Bots = {"bot"}
  MaxUids = 3
  MaxCrashes = 2
CHECK_DEADLOCK FALSE
INVARIANTS
  ServiceInv
  ToldIsStored
  FillsCoverTrades
PROPERTIES
  HistoryIsFinal
  StartsUp
