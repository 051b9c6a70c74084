SPECIFICATION Spec
CONSTANTS
  Ids = {i1, i2}
  MaxMessages = 4
  MaxStops = 1
  Setups <- AllSetups
CHECK_DEADLOCK FALSE
INVARIANTS
  NoStaleCancel
  LastWinsUnlessRetained
  CancelReachesLateReuse
  TablesBounded
  OrderCoversTable
PROPERTIES
  NewestCancelKept
