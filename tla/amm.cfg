SPECIFICATION MCPanelsSpec
CONSTANTS
  Wallets = {"anon", "w"}
  InitialA <- MCInitial
  InitialB <- MCInitial
  Fee <- MCFee
  Swaps <- MCSwaps
  Deposits <- MCDeposits
  Orders <- MCOrders
  Precision = 1
  RateMax = 2
  RateWindow = 1
  MaxOps = 3
  MaxTime = 4
  Wallet = "w"
  Typed <- MCTyped
  MaxDrops = 1
  Users = {"user"}
  Prices = {3}
  Quantities = {1, 2}
  Offsets = {2}
  Infinity = 9
  Grain = 4
  SeedMid = 2
  SeedQuantities = {2}
  MaxPlaced = 4
  MaxPoolCalls = 1
  InitialPrice = 2
  MaxCandles = 1
  MaxSpreads = 1
  MaxMinute = 2
INVARIANTS
  PositionsCover
  RateBound
  CandlesSummarise
PROPERTIES
  PoolIsFair
  FormerImplementsMarket
  NeverOverfilled
  FormerAnswers
  ScreenCatchesUp
CHECK_DEADLOCK FALSE
