CONSTANTS
  Pieces <- Strings
  Requests <- AllRequests
  SessionId <- Uuid
  ServerId <- Server
  None = None
SPECIFICATION Spec
CHECK_DEADLOCK FALSE
INVARIANTS
  NothingGarbled
  AnswersBelongTogether
  SmallRequestsAreAnswered
  GreetsTheSender
