SPECIFICATION Spec
CONSTANTS
  Ids = {i1, i2}
  MaxMessages = 4
  MaxStops = 0
  Setups <- WaitingPeer
CHECK_DEADLOCK FALSE
INVARIANTS
  CancelReachesRequest
