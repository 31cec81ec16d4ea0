CONSTANTS
  Errors = {"SERVICE_ERROR"}
  MaxAnswers = 4
  None = None
SPECIFICATION FairSpec
CHECK_DEADLOCK FALSE
INVARIANTS
  TypeOK
  QuietWhenFreed
  CachedIsLastGood
PROPERTIES
  ImplementsCall
  EventuallyFreed
