CONSTANTS
  Workers = {w1, w2}
  MaxRequests = 2
SPECIFICATION FairSpec
CHECK_DEADLOCK FALSE
INVARIANTS
  QuietStopIsClean
PROPERTIES
  StopEnds
  CommittedIsTaken
