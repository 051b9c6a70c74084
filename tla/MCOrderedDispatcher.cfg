SPECIFICATION FairSpec
CONSTANTS
  Workers = {w1, w2}
  Main = Main
  Router = Router
  Nobody = Nobody
  MaxSessions = 2
  MaxMessages = 4
  Setups <- AllSetups
CHECK_DEADLOCK FALSE
INVARIANTS
  GateOrder
  NotificationsSerial
PROPERTIES
  CompletedMonotone
  ParkedReleased
  StopTerminates
