SPECIFICATION MCBridgeSpec
CONSTANTS
  Nodes <- MCNodes
  Servers = {"s"}
  Direct = {"d", "e"}
  Orders = {"o1", "o2"}
  Expiring = {"o2"}
  Cancels = {"o1"}
  Fills <- MCFills
  Syncs <- MCSyncs
  Home <- MCHome
  Calls = {"c", "e"}
  CallOf <- MCCallOf
  Mortal = {"s"}
  MaxSeen = 2
  RateLimit = 2
  MaxRepeats = 1
  MaxResets = 1
INVARIANTS
  HandedOnce
  NoEcho
PROPERTIES
  InboundPlaced
  CallsSettle
CHECK_DEADLOCK FALSE
