CONSTANTS
  IOThreads = {io1, io2}
  Workers = {w1}
  Dispatcher = dispatcher
  Responder = responder
  Requests = {r1, r2}
  r1 = r1
  r2 = r2
  Inputs <- AnyBesideRefused
  NoRequest = NoRequest
  NoThread = NoThread
  MaxRequests = 1
  MaxResponses = 2
SPECIFICATION FairSpec
VIEW ControlState
PROPERTIES
  EventuallyResolved
