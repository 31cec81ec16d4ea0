CONSTANTS
  Sessions = {s1, s2}
  MaxSessions = 1
  Acceptor = acceptor
  NoSession = NoSession
SPECIFICATION Spec
CHECK_DEADLOCK FALSE
INVARIANTS
  DestroyedWhenClosed
