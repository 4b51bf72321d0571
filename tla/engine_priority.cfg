SPECIFICATION FairSpec
CONSTANTS
  Traders = {"a", "b", "mm"}
  Prices = {1, 2, 3}
  Quantities = {1, 2}
  Infinity = 9
  MarketMaker = "mm"
  MaxOrders = 4
  Requests <- PriorityRequests
  SeedMids = {}
  SeedLevels = 1
CHECK_DEADLOCK FALSE
PROPERTIES
  PriceTimePriority
