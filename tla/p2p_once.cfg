SPECIFICATION BridgeSpec
CONSTANTS
  Nodes <- MCNodes
  Servers = {"s"}
  Direct = {"d", "e"}
  Orders = {"o1"}
  Expiring = {}
  Cancels = {}
  Fills = {}
  Syncs <- MCSyncOfOne
  Home <- MCSyncHome
  Calls = {}
  CallOf <- MCNoCalls
  Mortal = {}
  MaxSeen = 2
  RateLimit = 2
  MaxRepeats = 0
  MaxResets = 0
INVARIANT
  PlacedOnce
CHECK_DEADLOCK FALSE
