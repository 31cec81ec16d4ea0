CONSTANTS
  Packets = {p1, p2}
  Capacity = 2
SPECIFICATION Spec
CHECK_DEADLOCK FALSE
INVARIANTS
  QueuedIsBeingSent
