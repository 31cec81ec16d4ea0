-------------------------------- MODULE Wire --------------------------------
(***************************************************************************)
(* What a request and its answers go through as bytes: the packet a client *)
(* makes, protobuf's encoding of it, the frame of Session with its 16-bit  *)
(* length, the server's copy of the packet with what each event writes     *)
(* into it, the answers made from that copy by RPCPacketFactory, and the   *)
(* way back.                                                               *)
(*                                                                         *)
(* One request on one connection that does not break by itself: threads,   *)
(* queues and failures are in RPCPipeline, SendQueue and SessionLifecycle. *)
(* Here sizes count, in bytes, as they are in the code.                    *)
(***************************************************************************)
EXTENDS RPCPacket

CONSTANTS
  Requests,   \* what RemoteCall may be given: packets
  SessionId,  \* Session::GetUUID(), a string of 36 characters
  ServerId,   \* m_serverid
  None        \* no packet yet

ASSUME PiecesAssumption ==
  {"HelloWorldServiceParameters", "HelloWorldServiceResult",
   "HelloWorldService", "Hello ", " ", "time", "request_id"} \subseteq Pieces

ASSUME RequestsAssumption == \A p \in Requests : IsPacket(p)

(* The server's name is a parameter of RPCServer; it fits, with the two    *)
(* copies of the session's, into the packet that tells of an error.        *)
ASSUME IdsAssumption ==
  /\ SessionId \in Texts /\ SessionId.size = 36 /\ SessionId.utf8
  /\ ServerId \in Texts /\ ServerId.size <= 4000 /\ ServerId.utf8

ASSUME NoneAssumption == None \notin [ToSet(Fields) -> Values]

DSC_PACKET_HEAD_BYTES_SIZE == 2
DSC_PACKET_BODY_MAX_SIZE   == 4096
UInt16 == 65536

PKT_NO_ERROR == 1
PKT_DESERIALIZATION_ERROR == 3
PKT_EMPTY_REQUEST == 4
SERVICE_BUSY == 5
SERVICE_NOT_FOUND == 6
SERVICE_IVAILD_PARAMETERS == 7
SERVICE_ERROR == 8

SUBMITTED == 1
WAITING   == 2
COMMITED  == 3
COMPLETED == 4
FAILED    == 5

VARIABLES
  request,   \* the packet given to RemoteCall
  toServer,  \* frames on their way
  toClient,
  closed,    \* the ends that closed the connection
  stage,     \* how far the server is with the request
  received,  \* history: the packet as the server parsed it
  served,    \* the server's packet
  answers,   \* history: the answers sent
  heard      \* history: those of them the client parsed

clientVars == <<request, heard>>
wireVars   == <<toServer, toClient, closed>>
serverVars == <<stage, received, served, answers>>
vars == <<clientVars, wireVars, serverVars>>

Init ==
  /\ request = None
  /\ toServer = <<>>
  /\ toClient = <<>>
  /\ closed = {}
  /\ stage = "none"
  /\ received = None
  /\ served = None
  /\ answers = <<>>
  /\ heard = <<>>
-----------------------------------------------------------------------------
(* HelloWorldTestService: a client's packet, and the service.              *)

HelloWorldService == Text("HelloWorldService", 17)

CreateHelloWorldServiceRequestPacket(name, msg, from, to) ==
  LET parameters == SetNameAndMessage(NewParameters, name, msg)
      packet == SetParameters(SetNames(NewPacket, Empty, HelloWorldService),
                              PackParameters(parameters))
  IN  SetCodes(SetAddresses(packet, from, to, Empty), TASK_REQUEST, 0, 0)

\* Mutant: UnpackTo's result is not looked at.
ParametersCheckAny(p) == p["parameters"] # <<>>

ParametersCheck(p) ==
  /\ p["parameters"] # <<>>
  /\ Unpacks(p["parameters"], ParametersUrl)

Greeting(name, msg) ==
  Concat(Concat(Concat(Text("Hello ", 6), name), Text(" ", 1)), msg)

Execute(p) ==
  LET parameters == ParseParameters(p["parameters"][1].value)
      message == Greeting(parameters["name"], parameters["message"])
  IN  SetResult(p, PackResult(SetMessage(NewResult, message)))
-----------------------------------------------------------------------------
(***************************************************************************)
(* DSCSendPacket, given its size as a uint16_t: the size, and the bytes it *)
(* counts.  The buffer is two bytes longer, again modulo 2^16: with a size *)
(* of 65534 or 65535 it is too short to hold what is copied to it, which   *)
(* is undefined and is left out.                                           *)
(***************************************************************************)
NoOverrun(p) ==
  (ByteSizeLong(p) % UInt16) + DSC_PACKET_HEAD_BYTES_SIZE < UInt16

\* Mutant: the size is written in the byte order of the host.
DSCSendPacketHostOrder(bytes, size) ==
  LET n == size % UInt16
  IN  [size |-> (n % 256) * 256 + n \div 256, body |-> Cut(bytes, n)]

DSCSendPacket(bytes, size) ==
  LET dataSize == size % UInt16
  IN  [size |-> dataSize, body |-> Cut(bytes, dataSize)]

Frame(p) == DSCSendPacket(Serialize(p), ByteSizeLong(p))

(* HandleHeadRead.                                                         *)
TooLarge(frame) == frame.size > DSC_PACKET_BODY_MAX_SIZE
-----------------------------------------------------------------------------
(* RPCPacketFactory.  Types are tested bit by bit.                         *)

ChangeTypeToResponse(p) ==
  LET type == p["type"] IN
    [p EXCEPT !["type"] =
       CASE type % 2 = 1          -> TASK_RESPONSE
         [] (type \div 2) % 2 = 1 -> TASK_REQUEST
         [] OTHER                 -> DEFAULT_RESPONSE]

SetErrorCode(p, error) == [p EXCEPT !["error"] = error]

ChangeRecvSend(p) == SetAddresses(p, p["to"], p["from"], p["inner_id"])

CreateCopy(p) == CopyFrom(NewPacket, p)

CreatePacketResponse(p, error) ==
  ChangeRecvSend(SetErrorCode(ChangeTypeToResponse(CreateCopy(p)), error))

CreateDeserializedErrorPacket(from, to, innerID) ==
  SetAddresses(
    SetCodes(NewPacket, DEFAULT_RESPONSE, PKT_DESERIALIZATION_ERROR, FAILED),
    from, to, innerID)
-----------------------------------------------------------------------------
(* RPCPacketManager.  A time has at most 27 characters.                    *)

Time == Text("time", 27)
RequestId == Text("request_id", 36)

InitRPCPacket(p) ==
  LET named == SetNames(SetCodes(p, p["type"], PKT_NO_ERROR, SUBMITTED),
                        RequestId, p["service"])
      placed == SetAddresses(named, p["from"], p["to"], SessionId)
  IN  SetTime(SetTime(SetTime(placed, "created_time", Time),
                      "commited_time", Empty), "completed_time", Empty)

TimeOf(status) ==
  CASE status = SUBMITTED -> "created_time"
    [] status = WAITING   -> "post_time"
    [] status = COMMITED  -> "commited_time"
    [] status = COMPLETED -> "completed_time"
    [] status = FAILED    -> "failed_time"

UpdateRequestStatus(p, status) ==
  SetTime(SetCodes(p, p["type"], p["error"], status), TimeOf(status), Time)
-----------------------------------------------------------------------------
(* ResponseDispatcher::Send: no packet is too large for it.                *)
Send(answer) ==
  /\ answers' = Append(answers, answer)
  /\ toClient' = Append(toClient, Frame(answer))
  /\ NoOverrun(answer)

\* Mutant: the answer is the server's packet, not a copy of it.
AnswerShared(p, error) ==
  /\ served' = CreatePacketResponse(p, error)
  /\ Send(CreatePacketResponse(p, error))

(* An event updates the server's packet, and is then answered from it.     *)
Answer(p, error) ==
  /\ served' = p
  /\ Send(CreatePacketResponse(p, error))

Goes(from, to) == stage = from /\ stage' = to

RemoteCall(p) ==
  /\ request = None
  /\ NoOverrun(p)
  /\ request' = p
  /\ toServer' = <<Frame(p)>>
  /\ UNCHANGED <<heard, toClient, closed, serverVars>>

(* Session reads the frame on the server, RPCServerStub parses it.         *)
ServerClosesOnSize ==
  /\ toServer # <<>>
  /\ TooLarge(Head(toServer))
  /\ toServer' = <<>>
  /\ closed' = closed \cup {"server"}
  /\ UNCHANGED <<clientVars, toClient, serverVars>>

OnDeserialized ==
  /\ toServer # <<>>
  /\ ~TooLarge(Head(toServer))
  /\ Parses(Head(toServer).body)
  /\ Goes("none", "submitted")
  /\ toServer' = <<>>
  /\ received' = Parse(Head(toServer).body)
  /\ Answer(InitRPCPacket(received'), PKT_NO_ERROR)
  /\ UNCHANGED <<clientVars, closed>>

OnDeserializedFailed ==
  /\ toServer # <<>>
  /\ ~TooLarge(Head(toServer))
  /\ ~Parses(Head(toServer).body)
  /\ Goes("none", "refused")
  /\ toServer' = <<>>
  /\ Send(CreateDeserializedErrorPacket(ServerId, SessionId, SessionId))
  /\ UNCHANGED <<clientVars, closed, received, served>>

Event(from, to, status, error) ==
  /\ Goes(from, to)
  /\ Answer(UpdateRequestStatus(served, status), error)
  /\ UNCHANGED <<clientVars, toServer, closed, received>>

OnDispatched == Event("submitted", "waiting", WAITING, PKT_NO_ERROR)
OnDispatchFailed == Event("submitted", "failed", FAILED, SERVICE_BUSY)
OnCommited == Event("waiting", "commited", COMMITED, PKT_NO_ERROR)

(* RPCProcessor::OnCommited, and the worker that executes.                 *)
OnServiceEmptyRequest ==
  /\ stage = "commited"
  /\ served["service"] = Empty
  /\ Event("commited", "failed", FAILED, PKT_EMPTY_REQUEST)

OnServiceNotFound ==
  /\ stage = "commited"
  /\ served["service"] \notin {Empty, HelloWorldService}
  /\ Event("commited", "failed", FAILED, SERVICE_NOT_FOUND)

OnServiceParameterInvalid ==
  /\ stage = "commited"
  /\ served["service"] = HelloWorldService
  /\ ~ParametersCheck(served)
  /\ Event("commited", "failed", FAILED, SERVICE_IVAILD_PARAMETERS)

Runs ==
  /\ stage = "commited"
  /\ served["service"] = HelloWorldService
  /\ ParametersCheck(served)

OnCompleted ==
  /\ Runs
  /\ Goes("commited", "completed")
  /\ Answer(UpdateRequestStatus(Execute(served), COMPLETED), PKT_NO_ERROR)
  /\ UNCHANGED <<clientVars, toServer, closed, received>>

\* The service throws, as when memory runs out.
OnServiceError ==
  /\ Runs
  /\ Event("commited", "failed", FAILED, SERVICE_ERROR)

(* Session reads a frame on the client, RPCClientStub parses it.           *)
ClientClosesOnSize ==
  /\ toClient # <<>>
  /\ "client" \notin closed
  /\ TooLarge(Head(toClient))
  /\ closed' = closed \cup {"client"}
  /\ UNCHANGED <<clientVars, toServer, toClient, serverVars>>

OnData ==
  /\ toClient # <<>>
  /\ "client" \notin closed
  /\ ~TooLarge(Head(toClient))
  /\ heard' = Append(heard, IF Parses(Head(toClient).body)
                            THEN Parse(Head(toClient).body) ELSE None)
  /\ toClient' = Tail(toClient)
  /\ UNCHANGED <<request, toServer, closed, serverVars>>
-----------------------------------------------------------------------------
Next ==
  \/ \E p \in Requests : RemoteCall(p)
  \/ ServerClosesOnSize \/ OnDeserialized \/ OnDeserializedFailed
  \/ OnDispatched \/ OnDispatchFailed \/ OnCommited
  \/ OnServiceEmptyRequest \/ OnServiceNotFound \/ OnServiceParameterInvalid
  \/ OnCompleted \/ OnServiceError
  \/ ClientClosesOnSize \/ OnData

Spec == Init /\ [][Next]_vars
-----------------------------------------------------------------------------
(* Properties.                                                             *)

(***************************************************************************)
(* What either end parses is what the other end meant, field by field: if  *)
(* the packet has less than 2^16 bytes, all of it; if it has more, and     *)
(* what is left of its size modulo 2^16 happens to end with a field, the   *)
(* fields up to there (DSCPacket.cpp:64-86, Session.cpp:146).  A frame that*)
(* does not parse was cut, or says something that is not UTF-8.            *)
(***************************************************************************)
Begins(p, q) ==
  \E n \in 0 .. Len(Fields) : \A i \in DOMAIN Fields :
    p[Fields[i]] = IF i <= n THEN q[Fields[i]] ELSE Default(Fields[i])

Understood(p, q) ==
  IF ByteSizeLong(q) < UInt16 THEN p = q ELSE Begins(p, q)

IsUtf8(p) == \A f \in DOMAIN p : IsString(f) => p[f].utf8

NothingGarbled ==
  /\ received # None => Understood(received, request)
  /\ stage = "refused" => ByteSizeLong(request) > UInt16 \/ ~IsUtf8(request)
  /\ \A i \in DOMAIN heard :
       IF heard[i] = None THEN ByteSizeLong(answers[i]) > UInt16
                          ELSE Understood(heard[i], answers[i])

(***************************************************************************)
(* All answers to a request carry its addresses exchanged, its service and *)
(* parameters, one request id and the session's uuid, and types, codes and *)
(* statuses that the enumerations have: however many answers are made from *)
(* the one packet the server keeps and goes on changing                    *)
(* (RPCPacketFactory.h:17-66).                                             *)
(***************************************************************************)
AnswersBelongTogether ==
  received # None =>
    \A i \in DOMAIN answers :
      LET a == answers[i] IN
        /\ a["from"] = received["to"]
        /\ a["to"] = received["from"]
        /\ a["service"] = received["service"]
        /\ a["parameters"] = received["parameters"]
        /\ a["request_id"] = RequestId
        /\ a["inner_id"] = SessionId
        /\ a["type"] = answers[1]["type"]
        /\ a["type"] \in 0 .. 4
        /\ a["status"] > IF i = 1 THEN 0 ELSE answers[i - 1]["status"]

(***************************************************************************)
(* Nobody who sends looks at the largest size the other end accepts, and   *)
(* answers are larger than their request, which they contain.  A request   *)
(* of at most (4096 - Growth) / 2 bytes keeps the connection, whatever     *)
(* becomes of it: each of its answers is read (Session.cpp:71-76).         *)
(***************************************************************************)
Growth == 256

SmallRequestsAreAnswered ==
  closed # {} =>
    2 * ByteSizeLong(request) + Growth > DSC_PACKET_BODY_MAX_SIZE

(***************************************************************************)
(* A client that hears of completion hears the greeting of the name and    *)
(* the message it packed into the request.                                 *)
(***************************************************************************)
GreetsTheSender ==
  \A i \in DOMAIN heard :
    heard[i] # None /\ heard[i]["status"] = COMPLETED =>
      LET sent == ParseParameters(request["parameters"][1].value)
          any  == heard[i]["result"]
      IN  /\ Unpacks(any, ResultUrl)
          /\ ParseResult(any[1].value)["message"] =
               Greeting(sent["name"], sent["message"])
=============================================================================
