SPECIFICATION Spec
CONSTANTS
  Ids = {i1, i2}
  MaxMessages = 3
  MaxStops = 0
  Setups <- EagerPeer
CHECK_DEADLOCK FALSE
INVARIANTS
  LastWins
