CONSTANTS
  Packets = {p1, p2, p3, p4, p5}
  Capacity = 2
SPECIFICATION FairSpec
CHECK_DEADLOCK FALSE
INVARIANTS
  BufferAlive
  FramesIntact
  PendingMeansWriting
PROPERTIES
  ImplementsChannelSafety
  ImplementsChannel
