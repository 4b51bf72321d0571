SPECIFICATION MCSpec
CONSTANTS
  Traders = {"a", "b"}
  Accounts = {"a", "b", "f"}
  Tokens = {"base", "quote"}
  Assets = {"base", "quote"}
  Base = "base"
  Quote = "quote"
  Pairs <- ThePairs
  NoPair = NoPair
  NoTrader = "nobody"
  Submissions <- ExchangeSubmissions
  SignedOrders = {}
  HiddenOrders = {}
  CommitAges = {}
  Deadlines = {}
  MaxOrders = 3
  MaxTime = 1
  MaxCommits = 0
  MaxSigned = 0
  InitialWallet <- Wallets
  Amounts = {0, 2}
  Quantities = {1, 2}
  Prices = {2, 3}
  MinimumsOut = {0, 2}
  Scale = 2
  SettlementDenominator = 2
  MaxFeeBps = 1
  FeeChoices = {0, 2}
  InitialFeeBps = 1
  Recipients = {"a"}
  Deployer = "b"
  MaxUint = 5
  MaxSettled = 3
  Manager = "f"
  Denominator = 2
  InitialShare = 1
  ShareChoices = {2, 3}
  Beneficiaries = {"a"}
  MaxListings = 3
  MaxOwnerCalls = 2
  Providers = {"p", "q"}
  InitialPurse <- Purses
  Desired = {1, 4}
  Burns = {1, 2}
  Paid = {1, 3}
  Minimums = {0, 2}
  FeeBps = 1
  FeeDenominator = 4
  MinimumLiquidity = 1
  PriceScale = 1
  Lock = "lock"
CHECK_DEADLOCK FALSE
INVARIANTS
  EscrowInv
  SettlementsAgree
  PoolTypeOK
  PoolHolds
PROPERTIES
  PauseFreezes
  NoTradeOnInactivePair
  ShareNeverShrinks
