CONSTANTS
  Loggers = {t1, t2}
  ConsoleLogs = {c1}
  FileLogs = {f1, f2, f3, f4}
  QuitLog = quit
  MaxLogCount = 2
SPECIFICATION FairSpec
CHECK_DEADLOCK FALSE
INVARIANTS
  TypeOK
  WrittenInOrder
  FewAreDropped
PROPERTIES
  EventuallyQuits
