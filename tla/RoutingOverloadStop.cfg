SPECIFICATION FairSpec
CONSTANTS
  Workers = {w1, w2}
  Main = Main
  Nobody = Nobody
  MaxSessions = 2
  MaxFrames = 4
  Setups <- DispatchSetups
CHECK_DEADLOCK FALSE
PROPERTIES
  LifecycleTerminates
