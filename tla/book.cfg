SPECIFICATION MCBookSpec
CONSTANTS
  Traders = {"a", "b", "c", "d"}
  Pairs = {"p"}
  NoPair = "none"
  NoTrader = "nobody"
  Submissions <- DirectSubmissions
  SignedOrders <- AuthSigned
  HiddenOrders <- AuthHidden
  CommitAges = {1, 2}
  Deadlines = {1, 2}
  MaxOrders = 4
  MaxTime = 3
  MaxCommits = 2
  MaxSigned = 2
  DayLength = 2
INVARIANTS
  BookInv
  UsedOnce
  EventsTellAll
PROPERTIES
  PriceTimePriority
  TradesOnArrival
  BookImplementsMarket
  MatchReturns
