CONSTANTS
  Sessions = {s1, s2}
  MaxSessions = 1
  Acceptor = acceptor
  NoSession = NoSession
SPECIFICATION FairSpec
CHECK_DEADLOCK FALSE
INVARIANTS
  TypeOK
  EntriesAreLive
  OneLateMessage
PROPERTIES
  EventuallyDestroyed
