SPECIFICATION TransportSpec
CONSTANTS
  MaxConns = 1
  Writers = {w1}
  Setups <- OneClient
  MaxProcs = 1
  ProcSetups <- Hosts
CHECK_DEADLOCK FALSE
PROPERTIES
  StopAlwaysReturns
