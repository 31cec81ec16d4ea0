----------------------------- MODULE RPCClient ------------------------------
(***************************************************************************)
(* One RPCClient: RemoteCall, the timer that ends the call, the answers,   *)
(* and the destructor.  Three threads take part: the user's; m_rpcThread,  *)
(* which connects, sends, waits for the timer and disconnects; and         *)
(* m_clientThread of AsyncTcpClient, which runs the handlers of the        *)
(* Session.  The client never stops its timer: an answer does not end the  *)
(* call, the timer does.                                                   *)
(*                                                                         *)
(* The server is what RPCPipeline shows of it: it may answer or not, its   *)
(* answers come in the order of progress, and an outcome is its last word. *)
(* The connection is what SendQueue shows of it: first in, first out, until*)
(* it breaks.                                                              *)
(***************************************************************************)
EXTENDS Naturals, Sequences

CONSTANTS
  Errors,      \* error codes a server may answer with (each is handled alike)
  MaxAnswers,  \* a request raises at most this many events in the server
  None         \* a null pointer

ASSUME MaxAnswersAssumption == MaxAnswers \in Nat

(***************************************************************************)
(* RPCPacketStatus, and RPCPacketType as far as the stub tells its values  *)
(* apart.  The answer to a request the server could not parse has type     *)
(* DEFAULT_RESPONSE.                                                       *)
(***************************************************************************)
SUBMITTED == 1
COMPLETED == 4
FAILED    == 5

Response == [type : {"TASK_RESPONSE", "DEFAULT_RESPONSE"},
             status : SUBMITTED .. FAILED,
             error : Errors \cup {"PKT_NO_ERROR"}]

IsError(m) == m.error # "PKT_NO_ERROR"

ServerResponse ==
  {m \in Response :
     /\ m.status = FAILED => IsError(m)
     /\ m.type = "DEFAULT_RESPONSE" => m.status = FAILED}

ASSUME NoneAssumption == None \notin ServerResponse

IsFinal(m) == m.status = COMPLETED \/ IsError(m)

Follows(m, s) ==
  s # <<>> =>
    LET l == s[Len(s)] IN
      ~IsFinal(l) /\ l.status <= m.status /\ m.type = "TASK_RESPONSE"

VARIABLES
  pc,        \* next step of each thread
  socket,    \* "new", "connected", "shut"
  closed,    \* Session::m_closed
  running,   \* AsyncTcpClient::m_running
  stopped,   \* AsyncTcpClient::m_ioc was stopped
  reading,   \* a read is armed on the socket
  writing,   \* the request's write has not called HandleWrite
  ready,     \* what was read, its handler not yet run: at most one response
  peerOpen,  \* the server has not closed the connection
  arrived,   \* the request reached the server
  sent,      \* history: the server's answers, in order
  channel,   \* those of them that were not read
  heard,     \* history: answers given to RPCClientStub::OnData
  cached     \* m_cachedRequestPacket

sessionVars == <<socket, closed>>
contextVars == <<running, stopped>>
ioVars      == <<reading, writing, ready>>
peerVars    == <<peerOpen, arrived, sent, channel>>
stubVars    == <<heard, cached>>
vars == <<pc, sessionVars, contextVars, ioVars, peerVars, stubVars>>

Threads == {"user", "rpc", "io"}

Init ==
  /\ pc = [t \in Threads |-> IF t = "user" THEN "idle" ELSE "none"]
  /\ socket = "new"
  /\ closed = TRUE
  /\ running = FALSE
  /\ stopped = FALSE
  /\ reading = FALSE
  /\ writing = FALSE
  /\ ready = <<>>
  /\ peerOpen = TRUE
  /\ arrived = FALSE
  /\ sent = <<>>
  /\ channel = <<>>
  /\ heard = <<>>
  /\ cached = None

Goto(t, label) == pc' = [pc EXCEPT ![t] = label]
-----------------------------------------------------------------------------
(* RemoteCall; a second one would assign to m_rpcThread, which is joinable,*)
(* and end the process.                                                    *)

RemoteCall ==
  /\ pc["user"] = "idle"
  /\ pc' = [pc EXCEPT !["user"] = "called", !["rpc"] = "call"]
  /\ UNCHANGED <<sessionVars, contextVars, ioVars, peerVars, stubVars>>

(* CallProcedure, and AsyncTcpClient::Connect.  The rpc thread waits for   *)
(* the timer also when there was nothing to send.                          *)
CannotSerialize ==
  /\ pc["rpc"] = "call"
  /\ Goto("rpc", "run")
  /\ UNCHANGED <<sessionVars, contextVars, ioVars, peerVars, stubVars>>

ConnectFails ==
  /\ pc["rpc"] = "call"
  /\ Goto("rpc", "send")
  /\ UNCHANGED <<sessionVars, contextVars, ioVars, peerVars, stubVars>>

(* Session::Start arms the read, and writes m_closed last; nobody runs its *)
(* handlers before m_clientThread is there.                                *)
Connect ==
  /\ pc["rpc"] = "call"
  /\ pc' = [pc EXCEPT !["rpc"] = "send", !["io"] = "start"]
  /\ socket' = "connected"
  /\ closed' = FALSE
  /\ reading' = TRUE
  /\ UNCHANGED <<contextVars, writing, ready, peerVars, stubVars>>

(* The result of Connect is not looked at: the request is sent, to a       *)
(* socket that may never have been connected.                              *)
Send ==
  /\ pc["rpc"] = "send"
  /\ writing' = TRUE
  /\ Goto("rpc", "run")
  /\ UNCHANGED <<sessionVars, contextVars, reading, ready, peerVars, stubVars>>

\* Mutant: the timer is only looked at once there was an answer.
TimeoutAfterAnswer ==
  /\ pc["rpc"] = "run"
  /\ heard # <<>>
  /\ Goto("rpc", "disconnect")
  /\ UNCHANGED <<sessionVars, contextVars, ioVars, peerVars, stubVars>>

(* The timer's handler, StopCallProcedure; m_ioc.run() runs it whenever    *)
(* the time has come, even before m_clientThread took its first step.      *)
Timeout ==
  /\ pc["rpc"] = "run"
  /\ Goto("rpc", "disconnect")
  /\ UNCHANGED <<sessionVars, contextVars, ioVars, peerVars, stubVars>>
-----------------------------------------------------------------------------
(* AsyncTcpClient::Disconnect, on the rpc thread or in ~AsyncTcpClient:    *)
(* m_running and the first half of Session::Close, the socket, m_ioc, join.*)

BeginDisconnect(t) ==
  /\ pc[t] = "disconnect"
  /\ running' = FALSE
  /\ closed' = TRUE
  /\ Goto(t, "shut")
  /\ UNCHANGED <<socket, stopped, ioVars, peerVars, stubVars>>

ShutSocket(t) ==
  /\ pc[t] = "shut"
  /\ socket' = "shut"
  /\ Goto(t, "stop")
  /\ UNCHANGED <<closed, contextVars, ioVars, peerVars, stubVars>>

StopContext(t) ==
  /\ pc[t] = "stop"
  /\ stopped' = TRUE
  /\ Goto(t, "join")
  /\ UNCHANGED <<sessionVars, running, ioVars, peerVars, stubVars>>

\* Mutant: the thread is joined only while m_running says that it runs.
JoinIfRunning(t) ==
  /\ pc[t] = "join"
  /\ pc["io"] \in {"none", "ended"} \/ ~running
  /\ Goto(t, IF t = "rpc" THEN "done" ELSE "free")
  /\ UNCHANGED <<sessionVars, contextVars, ioVars, peerVars, stubVars>>

Join(t) ==
  /\ pc[t] = "join"
  /\ pc["io"] \in {"none", "ended"}
  /\ Goto(t, IF t = "rpc" THEN "done" ELSE "free")
  /\ UNCHANGED <<sessionVars, contextVars, ioVars, peerVars, stubVars>>

DisconnectStep(t) ==
  BeginDisconnect(t) \/ ShutSocket(t) \/ StopContext(t) \/ Join(t)
-----------------------------------------------------------------------------
(* m_clientThread.  m_running is written by it and by Disconnect, in any   *)
(* order.                                                                  *)

StartClientThread ==
  /\ pc["io"] = "start"
  /\ running' = TRUE
  /\ Goto("io", "run")
  /\ UNCHANGED <<sessionVars, stopped, ioVars, peerVars, stubVars>>

(* m_ioc.run() returns when it was stopped or has nothing left to do.      *)
ContextReturns ==
  /\ pc["io"] = "run"
  /\ stopped \/ (~reading /\ ~writing)
  /\ Goto("io", "ended")
  /\ UNCHANGED <<sessionVars, contextVars, ioVars, peerVars, stubVars>>

Handling == pc["io"] = "run" /\ ~stopped

\* Mutant: two reads are armed.
ReadCompletesTwice ==
  /\ reading
  /\ socket = "connected"
  /\ channel # <<>>
  /\ ready' = Append(ready, Head(channel))
  /\ channel' = Tail(channel)
  /\ UNCHANGED <<pc, sessionVars, contextVars, reading, writing, peerOpen,
                 arrived, sent, stubVars>>

(* What arrives is read as long as the socket is there; its handler may    *)
(* run after Close.                                                        *)
ReadCompletes ==
  /\ reading
  /\ socket = "connected"
  /\ ready = <<>>
  /\ channel # <<>>
  /\ ready' = <<Head(channel)>>
  /\ channel' = Tail(channel)
  /\ UNCHANGED <<pc, sessionVars, contextVars, reading, writing, peerOpen,
                 arrived, sent, stubVars>>

(* RPCClientStub::OnData: a response is kept only if it is of the right    *)
(* type and carries no error.                                              *)
\* Mutant: the type is not tested, and errors are handled like answers.
AcceptsAny(m) == TRUE

Accepts(m) == m.type = "TASK_RESPONSE" /\ ~IsError(m)

OnData(m) ==
  /\ heard' = Append(heard, m)
  /\ cached' = IF Accepts(m) THEN m ELSE cached

HandleRead ==
  /\ Handling
  /\ ready # <<>>
  /\ OnData(Head(ready))
  /\ ready' = <<>>
  /\ UNCHANGED <<pc, sessionVars, contextVars, reading, writing, peerVars>>

Broken == socket = "shut" \/ ~peerOpen

(* An operation that fails closes the session, once more if it was closed. *)
CloseInHandler ==
  /\ closed' = TRUE
  /\ socket' = "shut"

HandleReadError ==
  /\ Handling
  /\ reading
  /\ ready = <<>>
  /\ socket = "shut" \/ (~peerOpen /\ channel = <<>>)
  /\ reading' = FALSE
  /\ CloseInHandler
  /\ UNCHANGED <<pc, contextVars, writing, ready, peerVars, stubVars>>

HandleWrite ==
  /\ Handling
  /\ writing
  /\ writing' = FALSE
  /\ \/ Broken /\ CloseInHandler /\ UNCHANGED arrived
     \/ /\ socket = "connected" /\ peerOpen
        /\ arrived' = TRUE
        /\ UNCHANGED sessionVars
  /\ UNCHANGED <<pc, contextVars, reading, ready, peerOpen, sent, channel,
                 stubVars>>
-----------------------------------------------------------------------------
(* The server.                                                             *)

ServerAnswers(m) ==
  /\ arrived /\ peerOpen
  /\ Len(sent) < MaxAnswers
  /\ Follows(m, sent)
  /\ sent' = Append(sent, m)
  /\ channel' = Append(channel, m)
  /\ UNCHANGED <<pc, sessionVars, contextVars, ioVars, peerOpen, arrived,
                 stubVars>>

\* What was under way arrives, or is lost with the connection.
ServerCloses ==
  /\ socket = "connected"
  /\ peerOpen
  /\ peerOpen' = FALSE
  /\ channel' \in {channel, <<>>}
  /\ UNCHANGED <<pc, sessionVars, contextVars, ioVars, arrived, sent, stubVars>>
-----------------------------------------------------------------------------
(* ~RPCClient joins the rpc thread, if there is one; then ~AsyncTcpClient  *)
(* disconnects again if m_running is set, as it is when m_clientThread     *)
(* began after Disconnect, and ~RPCClientStub prints the packet it holds,  *)
(* which is a null pointer if no answer was kept.                          *)

BeginDestroy ==
  /\ pc["user"] \in {"idle", "called"}
  /\ Goto("user", "joining")
  /\ UNCHANGED <<sessionVars, contextVars, ioVars, peerVars, stubVars>>

JoinRpcThread ==
  /\ pc["user"] = "joining"
  /\ pc["rpc"] \in {"none", "done"}
  /\ Goto("user", IF running THEN "disconnect" ELSE "free")
  /\ UNCHANGED <<sessionVars, contextVars, ioVars, peerVars, stubVars>>

Free ==
  /\ pc["user"] = "free"
  /\ Goto("user", IF cached = None THEN "crashed" ELSE "freed")
  /\ UNCHANGED <<sessionVars, contextVars, ioVars, peerVars, stubVars>>
-----------------------------------------------------------------------------
RpcStep ==
  CannotSerialize \/ ConnectFails \/ Connect \/ Send \/ Timeout
    \/ DisconnectStep("rpc")

UserStep == JoinRpcThread \/ DisconnectStep("user") \/ Free

IOStep ==
  \/ StartClientThread \/ ContextReturns
  \/ HandleRead \/ HandleReadError \/ HandleWrite

Next ==
  \/ RemoteCall \/ BeginDestroy
  \/ RpcStep \/ UserStep \/ IOStep
  \/ ReadCompletes
  \/ ServerCloses
  \/ \E m \in ServerResponse : ServerAnswers(m)

Spec == Init /\ [][Next]_vars

(***************************************************************************)
(* The timer expires, threads go on, and bytes that arrived are read.  The *)
(* user need not call or destroy, and the server owes nothing.             *)
(***************************************************************************)
FairSpec ==
  /\ Spec
  /\ WF_vars(RpcStep)
  /\ WF_vars(UserStep)
  /\ WF_vars(IOStep)
  /\ WF_vars(HandleRead)
  /\ WF_vars(ReadCompletes)
-----------------------------------------------------------------------------
(* Properties.                                                             *)

(***************************************************************************)
(* Every variable stays in its range.                                      *)
(***************************************************************************)
UserLabels == {"idle", "called", "joining", "disconnect", "shut", "stop",
               "join", "free", "freed", "crashed"}
RpcLabels  == {"none", "call", "send", "run", "disconnect", "shut", "stop",
               "join", "done"}
IOLabels   == {"none", "start", "run", "ended"}

TypeOK ==
  /\ pc \in [Threads -> UserLabels \cup RpcLabels \cup IOLabels]
  /\ pc["user"] \in UserLabels
  /\ pc["rpc"] \in RpcLabels
  /\ pc["io"] \in IOLabels
  /\ socket \in {"new", "connected", "shut"}
  /\ closed \in BOOLEAN /\ running \in BOOLEAN /\ stopped \in BOOLEAN
  /\ reading \in BOOLEAN /\ writing \in BOOLEAN
  /\ peerOpen \in BOOLEAN /\ arrived \in BOOLEAN
  /\ sent \in Seq(ServerResponse)
  /\ heard \in Seq(ServerResponse)
  /\ channel \in Seq(ServerResponse)
  /\ ready \in Seq(ServerResponse) /\ Len(ready) <= 1
  /\ cached \in ServerResponse \cup {None}

(***************************************************************************)
(* When the members of the client go, its session is closed and the thread *)
(* that runs the session's handlers is over, however the call, the timer   *)
(* and the start of that thread overlapped: ~Session would otherwise call  *)
(* Close, whose shared_from_this() throws (Session.cpp:18-27).             *)
(***************************************************************************)
QuietWhenFreed ==
  pc["user"] \in {"free", "freed", "crashed"} =>
    /\ closed
    /\ pc["io"] \in {"none", "ended"}
    /\ pc["rpc"] \in {"none", "done"}

(***************************************************************************)
(* The packet the client holds is the last good answer among those it was  *)
(* given, whatever came after it; it holds none if there was no good one   *)
(* (and its destructor then follows a null pointer, RPCClientStub.cpp:12). *)
(***************************************************************************)
Good == {i \in DOMAIN heard : Accepts(heard[i])}

CachedIsLastGood ==
  IF \E i \in DOMAIN heard :
       ~IsError(heard[i]) /\ heard[i].type = "TASK_RESPONSE"
  THEN \E i \in DOMAIN heard :
         /\ cached = heard[i]
         /\ ~IsError(cached) /\ cached.type = "TASK_RESPONSE"
         /\ \A j \in i + 1 .. Len(heard) : IsError(heard[j])
  ELSE cached = None

(***************************************************************************)
(* The client implements RemoteCall: what it knows only advances, nothing  *)
(* is learned after the call, and the call ends by itself.                 *)
(***************************************************************************)
Call == INSTANCE RemoteCall
  WITH Completed <- COMPLETED,
       phase <- CASE pc["rpc"] = "none" -> "none"
                  [] pc["rpc"] = "done" -> "over"
                  [] OTHER              -> "waiting",
       known <- IF cached = None THEN 0 ELSE cached.status

ImplementsCallSafety == Call!Spec

ImplementsCall == Call!FairSpec

(***************************************************************************)
(* A client whose destruction began is gone in the end: the call's timer   *)
(* does not wait for an answer, and no join waits for good.                *)
(***************************************************************************)
EventuallyFreed ==
  pc["user"] = "joining" ~> pc["user"] \in {"freed", "crashed"}
=============================================================================
