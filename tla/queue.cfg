CONSTANTS
  Producers = {p1, p2}
  Consumers = {c1, c2}
  Items = {a, b, c}
  NoItem = NoItem
  NoThread = NoThread
SPECIFICATION FairSpec
INVARIANTS
  EndsApart
  SleepIsJustified
  SizeIsClose
PROPERTIES
  ImplementsQueue
  EventuallyPopped
