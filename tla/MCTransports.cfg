SPECIFICATION TransportSpec
CONSTANTS
  MaxConns = 3
  Writers = {w1, w2}
  Setups <- ServerSetups
  MaxProcs = 2
  ProcSetups <- Hosts
CHECK_DEADLOCK FALSE
INVARIANTS
  ServesNewest
  OutputWhole
  Released
PROPERTIES
  StopReturns
  BytesReachReader
  OperationsReturn
  StreamsLetGo
  ParentExitReported
