CONSTANTS
  IOThreads = {io1, io2}
  Workers = {w1}
  Dispatcher = dispatcher
  Responder = responder
  Requests = {r1, r2}
  r1 = r1
  r2 = r2
  Inputs <- ExecutedBesideRefused
  NoRequest = NoRequest
  NoThread = NoThread
  MaxRequests = 1
  MaxResponses = 1
SPECIFICATION Spec
SYMMETRY Symmetry
INVARIANTS
  TypeOK
  QueuesBounded
  SingleOwner
  TableIsLive
  ProgressInOrder
  Answered
  OneOutcome
  WaitIsJustified
  FailureSaysFailed
