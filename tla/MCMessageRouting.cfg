SPECIFICATION FairSpec
CONSTANTS
  Workers = {w1, w2}
  Main = Main
  Nobody = Nobody
  MaxSessions = 2
  MaxFrames = 4
  Setups <- AllSetups
CHECK_DEADLOCK FALSE
INVARIANTS
  TypeOK
  RoutedInWireOrder
  NoFrameSkipped
  ReorderBufferBounded
  QuietAfterClear
  SlotsCoverBacklog
PROPERTIES
  FramesPass
  StopTerminates
  ImplementsWireQueue
