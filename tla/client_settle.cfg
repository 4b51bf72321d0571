SPECIFICATION MCPageSpec
CONSTANTS
  None = None
  Accounts = {"alice", "bob"}
  EthFlags <- Flags
  Extensions <- Beside
  MaxWalletOps = 3
  MaxOrders = 2
  MaxClicks = 4
  Slots = 2
  MaxMishaps = 1
INVARIANTS
  BuyerPaysSellerDelivers
CHECK_DEADLOCK FALSE
