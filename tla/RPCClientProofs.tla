-------------------------- MODULE RPCClientProofs ---------------------------
(***************************************************************************)
(* What RPCClient promises for any set of error codes and any number of    *)
(* answers: nothing runs when its members go, the packet it holds is the   *)
(* last good answer, and it implements RemoteCall.                         *)
(***************************************************************************)
EXTENDS RPCClient, SequenceTheorems, TLAPS

LEMMA InitTypes == Init => TypeOK
<1>. SUFFICES ASSUME Init PROVE TypeOK
  OBVIOUS
<1>1. /\ pc \in [Threads -> UserLabels \cup RpcLabels \cup IOLabels]
      /\ pc["user"] \in UserLabels
      /\ pc["rpc"] \in RpcLabels
      /\ pc["io"] \in IOLabels
  BY DEF Init, Threads, UserLabels, RpcLabels, IOLabels
<1>2. ready \in Seq(ServerResponse) /\ Len(ready) <= 1
  BY DEF Init
<1>. QED
  BY <1>1, <1>2 DEF Init, TypeOK

LEMMA ReadyHead ==
  ASSUME TypeOK, ready # <<>>
  PROVE  Len(ready) = 1 /\ Head(ready) = ready[1] /\ ready[1] \in ServerResponse
<1>1. Len(ready) \in Nat \ {0} /\ Len(ready) <= 1
  BY DEF TypeOK
<1>2. \A n \in Nat \ {0} : n <= 1 => n = 1
  OBVIOUS
<1>3. Len(ready) = 1
  BY <1>1, <1>2, Zenon
<1>. QED
  BY <1>3 DEF TypeOK

LEMMA ChannelHead ==
  ASSUME TypeOK, channel # <<>>
  PROVE  /\ Head(channel) = channel[1] /\ channel[1] \in ServerResponse
         /\ Tail(channel) \in Seq(ServerResponse)
         /\ Len(channel) \in Nat \ {0} /\ Len(Tail(channel)) = Len(channel) - 1
         /\ \A i \in 1 .. Len(channel) - 1 : Tail(channel)[i] = channel[i + 1]
BY DEF TypeOK

LEMMA DisconnectTypes ==
  ASSUME TypeOK, NEW t \in {"user", "rpc"}, DisconnectStep(t)
  PROVE  TypeOK'
<1>. USE DEF Goto, Threads, UserLabels, RpcLabels, IOLabels
<1>1. CASE BeginDisconnect(t)
  BY <1>1
  DEF BeginDisconnect, TypeOK, ioVars, peerVars, stubVars
<1>2. CASE ShutSocket(t)
  BY <1>2
  DEF ShutSocket, TypeOK, contextVars, ioVars, peerVars, stubVars
<1>3. CASE StopContext(t)
  BY <1>3
  DEF StopContext, TypeOK, sessionVars, ioVars, peerVars, stubVars
<1>4. CASE Join(t)
  BY <1>4
  DEF Join, TypeOK, sessionVars, contextVars, ioVars, peerVars,
      stubVars
<1>. QED
  BY <1>1, <1>2, <1>3, <1>4 DEF DisconnectStep

(* What goes on in the handlers and at the server leaves pc alone.         *)
LEMMA SamePcTypes ==
  ASSUME TypeOK, UNCHANGED pc,
         /\ closed' \in BOOLEAN /\ running' \in BOOLEAN /\ stopped' \in BOOLEAN
         /\ reading' \in BOOLEAN /\ writing' \in BOOLEAN
         /\ peerOpen' \in BOOLEAN /\ arrived' \in BOOLEAN,
         socket' \in {"new", "connected", "shut"},
         /\ ready' \in Seq(ServerResponse) /\ Len(ready') <= 1
         /\ channel' \in Seq(ServerResponse),
         UNCHANGED <<sent, stubVars>>
  PROVE  TypeOK'
<1>1. sent' \in Seq(ServerResponse) /\ heard' \in Seq(ServerResponse)
        /\ cached' \in ServerResponse \cup {None}
  BY DEF TypeOK, stubVars
<1>. QED
  BY <1>1, Zenon DEF TypeOK

LEMMA NextTypes == TypeOK /\ [Next]_vars => TypeOK'
<1>. SUFFICES ASSUME TypeOK, [Next]_vars PROVE TypeOK'
  OBVIOUS
<1>. USE DEF Goto, Threads, UserLabels, RpcLabels, IOLabels
<1>1. CASE RemoteCall
  BY <1>1
  DEF RemoteCall, TypeOK, sessionVars, contextVars, ioVars, peerVars, stubVars
<1>2. CASE CannotSerialize \/ ConnectFails \/ Timeout
  BY <1>2
  DEF CannotSerialize, ConnectFails, Timeout, TypeOK, sessionVars, contextVars,
      ioVars, peerVars, stubVars
<1>3. CASE Connect
  BY <1>3 DEF Connect, TypeOK, contextVars, peerVars, stubVars
<1>4. CASE Send
  BY <1>4 DEF Send, TypeOK, sessionVars, contextVars, peerVars, stubVars
<1>5. CASE DisconnectStep("rpc") \/ DisconnectStep("user")
  BY <1>5, DisconnectTypes
<1>6. CASE BeginDestroy \/ JoinRpcThread \/ Free
  BY <1>6
  DEF BeginDestroy, JoinRpcThread, Free, TypeOK, sessionVars, contextVars,
      ioVars, peerVars, stubVars
<1>7. CASE StartClientThread
  BY <1>7
  DEF StartClientThread, TypeOK, sessionVars, ioVars, peerVars, stubVars
<1>8. CASE ContextReturns
  BY <1>8
  DEF ContextReturns, TypeOK, sessionVars, contextVars, ioVars, peerVars, stubVars
<1>9. CASE ReadCompletes
  <2>1. ready' \in Seq(ServerResponse) /\ Len(ready') <= 1
          /\ channel' \in Seq(ServerResponse)
    BY <1>9, ChannelHead DEF ReadCompletes
  <2>. QED
    BY <1>9, <2>1
    DEF ReadCompletes, TypeOK, sessionVars, contextVars, stubVars
<1>10. CASE HandleRead
  <2>1. heard' \in Seq(ServerResponse) /\ cached' \in ServerResponse \cup {None}
    BY <1>10, ReadyHead DEF HandleRead, OnData, TypeOK
  <2>. QED
    BY <1>10, <2>1 DEF HandleRead, TypeOK, sessionVars, contextVars, peerVars
<1>11. CASE HandleReadError
  <2>1. /\ closed' = TRUE /\ socket' = "shut" /\ reading' = FALSE
        /\ UNCHANGED <<pc, contextVars, writing, ready, peerVars, stubVars>>
    BY <1>11 DEF HandleReadError, CloseInHandler
  <2>2. ready' \in Seq(ServerResponse) /\ Len(ready') <= 1
          /\ channel' \in Seq(ServerResponse)
    BY <2>1 DEF TypeOK, peerVars
  <2>3. running' \in BOOLEAN /\ stopped' \in BOOLEAN /\ writing' \in BOOLEAN
          /\ peerOpen' \in BOOLEAN /\ arrived' \in BOOLEAN
    BY <2>1 DEF TypeOK, contextVars, peerVars
  <2>. QED
    BY <2>1, <2>2, <2>3, SamePcTypes DEF peerVars
<1>12. CASE HandleWrite
  <2>1. /\ closed' \in BOOLEAN /\ socket' \in {"new", "connected", "shut"}
        /\ arrived' \in BOOLEAN /\ writing' = FALSE
    BY <1>12 DEF HandleWrite, CloseInHandler, TypeOK, sessionVars
  <2>2. UNCHANGED <<pc, contextVars, reading, ready, peerOpen, sent, channel,
                    stubVars>>
    BY <1>12 DEF HandleWrite
  <2>3. ready' \in Seq(ServerResponse) /\ Len(ready') <= 1
          /\ channel' \in Seq(ServerResponse)
    BY <2>2 DEF TypeOK
  <2>4. running' \in BOOLEAN /\ stopped' \in BOOLEAN /\ reading' \in BOOLEAN
          /\ peerOpen' \in BOOLEAN
    BY <2>2 DEF TypeOK, contextVars
  <2>. QED
    BY <2>1, <2>2, <2>3, <2>4, SamePcTypes
<1>13. CASE ServerCloses
  <2>1. channel' \in {channel, <<>>} /\ peerOpen' = FALSE
    BY <1>13 DEF ServerCloses
  <2>2. UNCHANGED <<pc, sessionVars, contextVars, ioVars, arrived, sent, stubVars>>
    BY <1>13 DEF ServerCloses
  <2>3. ready' \in Seq(ServerResponse) /\ Len(ready') <= 1
          /\ channel' \in Seq(ServerResponse)
    <3>1. <<>> \in Seq(ServerResponse) /\ channel \in Seq(ServerResponse)
            /\ ready \in Seq(ServerResponse) /\ Len(ready) <= 1
      BY DEF TypeOK
    <3>2. ready' = ready
      BY <2>2 DEF ioVars
    <3>. QED
      BY <2>1, <3>1, <3>2, Zenon
  <2>4. closed' \in BOOLEAN /\ running' \in BOOLEAN /\ stopped' \in BOOLEAN
          /\ reading' \in BOOLEAN /\ writing' \in BOOLEAN
          /\ arrived' \in BOOLEAN /\ socket' \in {"new", "connected", "shut"}
    BY <2>2 DEF TypeOK, sessionVars, contextVars, ioVars
  <2>. QED
    BY <2>1, <2>2, <2>3, <2>4, SamePcTypes
<1>14. ASSUME NEW m \in ServerResponse, ServerAnswers(m) PROVE TypeOK'
  BY <1>14
  DEF ServerAnswers, TypeOK, sessionVars, contextVars, ioVars, stubVars
<1>15. CASE UNCHANGED vars
  BY <1>15
  DEF vars, TypeOK, sessionVars, contextVars, ioVars, peerVars, stubVars
<1>. QED
  BY <1>1, <1>2, <1>3, <1>4, <1>5, <1>6, <1>7, <1>8, <1>9, <1>10, <1>11,
     <1>12, <1>13, <1>14, <1>15
  DEF Next, RpcStep, UserStep, IOStep

(***************************************************************************)
(* The types; at most one response that was read waits for its handler,    *)
(* because a read is armed only by the handler of the one before           *)
(* (Session.cpp:84-101).                                                   *)
(***************************************************************************)
THEOREM TypeCorrect == Spec => []TypeOK
BY InitTypes, NextTypes, PTL DEF Spec
-----------------------------------------------------------------------------
(***************************************************************************)
(* QuietWhenFreed is not inductive: that the session is closed when the    *)
(* rpc thread is over follows from the thread's Disconnect, which no       *)
(* Connect comes after, and that m_clientThread is over from its join,     *)
(* after which nothing starts it again.                                    *)
(***************************************************************************)
QuietOK ==
  /\ pc["rpc"] \in {"none", "call"} => closed /\ pc["io"] = "none"
  /\ pc["rpc"] \in {"shut", "stop", "join", "done"} => closed
  /\ pc["rpc"] = "done" => pc["io"] \in {"none", "ended"}
  /\ pc["user"] = "idle" => pc["rpc"] = "none"
  /\ pc["user"] \in {"disconnect", "shut", "stop", "join", "free", "freed", "crashed"}
       => pc["rpc"] \in {"none", "done"}

LEMMA QuietDisconnect ==
  ASSUME TypeOK, QuietOK, NEW t \in {"user", "rpc"}, DisconnectStep(t)
  PROVE  QuietOK'
<1>. USE DEF Goto, Threads, TypeOK, QuietOK
<1>1. CASE BeginDisconnect(t)
  BY <1>1 DEF BeginDisconnect
<1>2. CASE ShutSocket(t)
  BY <1>2 DEF ShutSocket
<1>3. CASE StopContext(t)
  BY <1>3 DEF StopContext, sessionVars
<1>4. CASE Join(t)
  BY <1>4 DEF Join, sessionVars
<1>. QED
  BY <1>1, <1>2, <1>3, <1>4 DEF DisconnectStep

LEMMA NextQuiet == TypeOK /\ QuietOK /\ [Next]_vars => QuietOK'
<1>. SUFFICES ASSUME TypeOK, QuietOK, [Next]_vars PROVE QuietOK'
  OBVIOUS
<1>1. ASSUME closed' \in {closed, TRUE}, UNCHANGED pc PROVE QuietOK'
  BY <1>1 DEF QuietOK
<1>2. CASE RemoteCall
  BY <1>2 DEF RemoteCall, sessionVars, Threads, TypeOK, QuietOK
<1>3. CASE CannotSerialize \/ ConnectFails \/ Timeout
  BY <1>3
  DEF CannotSerialize, ConnectFails, Timeout, sessionVars, Goto, Threads,
      TypeOK, QuietOK
<1>4. CASE Connect
  BY <1>4 DEF Connect, Threads, TypeOK, QuietOK
<1>5. CASE Send
  BY <1>5 DEF Send, sessionVars, Goto, Threads, TypeOK, QuietOK
<1>6. CASE DisconnectStep("rpc") \/ DisconnectStep("user")
  BY <1>6, QuietDisconnect
<1>7. CASE BeginDestroy \/ JoinRpcThread \/ Free
  BY <1>7
  DEF BeginDestroy, JoinRpcThread, Free, sessionVars, Goto, Threads, TypeOK,
      QuietOK
<1>8. CASE StartClientThread \/ ContextReturns
  BY <1>8
  DEF StartClientThread, ContextReturns, sessionVars, Goto, Threads, TypeOK,
      QuietOK
<1>9. CASE ReadCompletes \/ HandleRead \/ ServerCloses \/ UNCHANGED vars
  BY <1>1, <1>9 DEF ReadCompletes, HandleRead, ServerCloses, vars, sessionVars
<1>10. CASE HandleReadError \/ HandleWrite
  BY <1>1, <1>10
  DEF HandleReadError, HandleWrite, CloseInHandler, sessionVars
<1>11. ASSUME NEW m \in ServerResponse, ServerAnswers(m) PROVE QuietOK'
  BY <1>1, <1>11 DEF ServerAnswers, sessionVars
<1>. QED
  BY <1>2, <1>3, <1>4, <1>5, <1>6, <1>7, <1>8, <1>9, <1>10, <1>11
  DEF Next, RpcStep, UserStep, IOStep

(***************************************************************************)
(* When the members of the client go, its session is closed and its        *)
(* threads are over (RPCClient.cpp:19-26, AsyncClient.cpp:8-13).           *)
(***************************************************************************)
THEOREM FreedIsQuiet == Spec => []QuietWhenFreed
<1>1. Init => QuietOK
  BY DEF Init, Threads, QuietOK
<1>2. TypeOK /\ QuietOK => QuietWhenFreed
  BY DEF TypeOK, QuietOK, QuietWhenFreed, RpcLabels
<1>. QED
  BY <1>1, <1>2, InitTypes, NextTypes, NextQuiet, PTL DEF Spec
-----------------------------------------------------------------------------
(* Only HandleRead touches what the stub keeps.                            *)
LEMMA StubStep ==
  ASSUME [Next]_vars
  PROVE  HandleRead \/ UNCHANGED stubVars
<1>1. CASE DisconnectStep("rpc") \/ DisconnectStep("user")
  BY <1>1 DEF DisconnectStep, BeginDisconnect, ShutSocket, StopContext, Join
<1>2. CASE RemoteCall \/ CannotSerialize \/ ConnectFails \/ Connect \/ Send
             \/ Timeout \/ BeginDestroy \/ JoinRpcThread \/ Free
  BY <1>2
  DEF RemoteCall, CannotSerialize, ConnectFails, Connect, Send, Timeout,
      BeginDestroy, JoinRpcThread, Free
<1>3. CASE StartClientThread \/ ContextReturns \/ ReadCompletes \/ HandleReadError
             \/ HandleWrite \/ ServerCloses \/ UNCHANGED vars
  BY <1>3
  DEF StartClientThread, ContextReturns, ReadCompletes, HandleReadError,
      HandleWrite, ServerCloses, vars
<1>4. ASSUME NEW m \in ServerResponse, ServerAnswers(m) PROVE UNCHANGED stubVars
  BY <1>4 DEF ServerAnswers
<1>. QED
  BY <1>1, <1>2, <1>3, <1>4 DEF Next, RpcStep, UserStep, IOStep

(* A response whose type is not that of a task carries an error.           *)
LEMMA NoErrorIsAccepted ==
  ASSUME NEW m \in ServerResponse, ~IsError(m)
  PROVE  m.type = "TASK_RESPONSE" /\ Accepts(m)
BY DEF ServerResponse, Response, Accepts

LEMMA NextCached ==
  TypeOK /\ CachedIsLastGood /\ [Next]_vars => CachedIsLastGood'
<1>. SUFFICES ASSUME TypeOK, CachedIsLastGood, [Next]_vars
     PROVE  CachedIsLastGood'
  OBVIOUS
<1>1. CASE UNCHANGED stubVars
  BY <1>1 DEF stubVars, CachedIsLastGood
<1>2. CASE HandleRead
  <2>. DEFINE m == ready[1]
              n == Len(heard)
  <2>1. /\ m \in ServerResponse /\ heard \in Seq(ServerResponse)
        /\ heard' = Append(heard, m)
        /\ cached' = IF Accepts(m) THEN m ELSE cached
    BY <1>2, ReadyHead DEF HandleRead, OnData, TypeOK
  <2>2. /\ n \in Nat /\ DOMAIN heard = 1 .. n /\ DOMAIN heard' = 1 .. n + 1
        /\ Len(heard') = n + 1 /\ heard'[n + 1] = m
        /\ \A i \in 1 .. n : heard'[i] = heard[i]
    BY <2>1
  <2>. HIDE DEF m, n
  <2>3. CASE ~IsError(m)
    <3>1. cached' = m /\ m.type = "TASK_RESPONSE"
      BY <2>1, <2>3, NoErrorIsAccepted
    <3>2. n + 1 \in DOMAIN heard' /\ (n + 1) + 1 .. Len(heard') = {}
      BY <2>2
    <3>. QED
      BY <2>2, <2>3, <3>1, <3>2 DEF CachedIsLastGood
  <2>4. CASE IsError(m)
    <3>1. cached' = cached
      BY <2>1, <2>4 DEF Accepts
    <3>2. CASE \E i \in 1 .. n : ~IsError(heard[i]) /\ heard[i].type = "TASK_RESPONSE"
      <4>1. PICK i \in 1 .. n :
              /\ cached = heard[i]
              /\ ~IsError(cached) /\ cached.type = "TASK_RESPONSE"
              /\ \A j \in i + 1 .. Len(heard) : IsError(heard[j])
        BY <2>2, <3>2 DEF CachedIsLastGood
      <4>2. \A j \in i + 1 .. n + 1 : j = n + 1 \/ (j \in i + 1 .. n /\ j \in 1 .. n)
        BY <2>2
      <4>3. \A j \in i + 1 .. Len(heard') : IsError(heard'[j])
        BY <2>2, <2>4, <4>1, <4>2 DEF n
      <4>4. i \in DOMAIN heard' /\ cached' = heard'[i]
        BY <2>2, <3>1, <4>1
      <4>. QED
        BY <3>1, <4>1, <4>3, <4>4 DEF CachedIsLastGood
    <3>3. CASE ~(\E i \in 1 .. n :
                   ~IsError(heard[i]) /\ heard[i].type = "TASK_RESPONSE")
      <4>1. cached = None
        BY <2>2, <3>3 DEF CachedIsLastGood
      <4>2. \A i \in 1 .. n + 1 : i = n + 1 \/ i \in 1 .. n
        BY <2>2
      <4>3. ~(\E i \in DOMAIN heard' :
                ~IsError(heard'[i]) /\ heard'[i].type = "TASK_RESPONSE")
        BY <2>2, <2>4, <3>3, <4>2
      <4>. QED
        BY <3>1, <4>1, <4>3 DEF CachedIsLastGood
    <3>. QED
      BY <3>2, <3>3
  <2>. QED
    BY <2>3, <2>4
<1>. QED
  BY <1>1, <1>2, StubStep

(***************************************************************************)
(* The packet the client holds is the last good answer it was given, and   *)
(* it holds none without one (RPCClientStub.cpp:17-34).                    *)
(***************************************************************************)
THEOREM LastGoodIsCached == Spec => []CachedIsLastGood
<1>1. Init => CachedIsLastGood
  BY DEF Init, CachedIsLastGood
<1>. QED
  BY <1>1, InitTypes, NextTypes, NextCached, PTL DEF Spec
-----------------------------------------------------------------------------
(***************************************************************************)
(* The refinement needs where the answers are: heard, read or under way, a *)
(* prefix of what the server sent and all of it until the connection       *)
(* breaks; and that what the server sent only advances.                    *)
(***************************************************************************)
Line == (heard \o ready) \o channel

LineOK ==
  /\ Len(Line) <= Len(sent)
  /\ \A i \in 1 .. Len(Line) : Line[i] = sent[i]
  /\ peerOpen => Line = sent

AdvanceOK ==
  \A i, j \in 1 .. Len(sent) :
    i < j => ~IsFinal(sent[i]) /\ sent[i].status <= sent[j].status

LEMMA LineTypes ==
  ASSUME TypeOK
  PROVE  /\ heard \o ready \in Seq(ServerResponse) /\ Line \in Seq(ServerResponse)
         /\ Len(Line) = Len(heard) + Len(ready) + Len(channel)
         /\ Len(heard) \in Nat /\ Len(ready) \in Nat /\ Len(channel) \in Nat
         /\ \A i \in 1 .. Len(heard) + Len(ready) : Line[i] = (heard \o ready)[i]
         /\ \A i \in 1 .. Len(heard) : Line[i] = heard[i]
         /\ ready # <<>> => Line[Len(heard) + 1] = ready[1]
<1>1. /\ heard \in Seq(ServerResponse) /\ ready \in Seq(ServerResponse)
      /\ channel \in Seq(ServerResponse)
  BY DEF TypeOK
<1>. DEFINE f == heard \o ready
<1>2. /\ f \in Seq(ServerResponse) /\ Len(f) = Len(heard) + Len(ready)
      /\ \A i \in 1 .. Len(heard) + Len(ready) :
           f[i] = IF i <= Len(heard) THEN heard[i] ELSE ready[i - Len(heard)]
  BY <1>1, ConcatProperties
<1>3. Len(heard) \in Nat /\ Len(ready) \in Nat /\ Len(channel) \in Nat
  BY <1>1, LenProperties
<1>. HIDE DEF f
<1>4. /\ f \o channel \in Seq(ServerResponse)
      /\ Len(f \o channel) = Len(f) + Len(channel)
      /\ \A i \in 1 .. Len(f) + Len(channel) :
           (f \o channel)[i] = IF i <= Len(f) THEN f[i] ELSE channel[i - Len(f)]
  <2>1. f \in Seq(ServerResponse) /\ channel \in Seq(ServerResponse)
    BY <1>1, <1>2
  <2>. QED
    BY <2>1, ConcatProperties, Zenon
<1>5. Line = f \o channel
  BY DEF Line, f
<1>6. \A i \in 1 .. Len(heard) + Len(ready) : Line[i] = f[i]
  BY <1>2, <1>3, <1>4, <1>5
<1>7. \A i \in 1 .. Len(heard) : Line[i] = heard[i]
  BY <1>2, <1>3, <1>6
<1>8. ASSUME ready # <<>> PROVE Line[Len(heard) + 1] = ready[1]
  <2>1. Len(ready) = 1
    BY <1>8, ReadyHead
  <2>. QED
    BY <1>2, <1>3, <1>6, <2>1
<1>. QED
  BY <1>2, <1>3, <1>4, <1>5, <1>6, <1>7, <1>8 DEF f

(* A read, and its handler, leave the line of answers as it is.            *)
LEMMA ReadKeepsLine ==
  ASSUME TypeOK, ReadCompletes PROVE Line' = Line
<1>1. /\ channel \in Seq(ServerResponse) /\ channel # <<>> /\ ready = <<>>
      /\ heard' = heard /\ ready' = <<Head(channel)>> /\ channel' = Tail(channel)
      /\ heard \in Seq(ServerResponse)
  BY DEF ReadCompletes, TypeOK, stubVars
<1>2. <<Head(channel)>> \in Seq(ServerResponse) /\ Tail(channel) \in Seq(ServerResponse)
        /\ channel = <<Head(channel)>> \o Tail(channel)
  BY <1>1
<1>3. Line' = heard \o (<<Head(channel)>> \o Tail(channel))
  BY <1>1, <1>2, ConcatAssociative DEF Line
<1>4. Line = heard \o channel
  BY <1>1, ConcatEmptySeq DEF Line
<1>. QED
  BY <1>2, <1>3, <1>4

LEMMA HandleKeepsLine ==
  ASSUME TypeOK, HandleRead PROVE Line' = Line
<1>1. /\ heard \in Seq(ServerResponse) /\ ready \in Seq(ServerResponse)
      /\ Len(ready) = 1 /\ ready[1] \in ServerResponse
      /\ heard' = Append(heard, ready[1]) /\ ready' = <<>> /\ channel' = channel
  BY ReadyHead DEF HandleRead, OnData, TypeOK, peerVars
<1>2. ready = <<ready[1]>>
  BY <1>1
<1>3. heard' = heard \o ready
  BY <1>1, <1>2, AppendIsConcat
<1>4. heard' \o ready' = heard \o ready
  BY <1>1, <1>3, LineTypes, ConcatEmptySeq
<1>. QED
  BY <1>1, <1>4 DEF Line

LEMMA NextLine == TypeOK /\ LineOK /\ AdvanceOK /\ [Next]_vars => LineOK' /\ AdvanceOK'
<1>. SUFFICES ASSUME TypeOK, LineOK, AdvanceOK, [Next]_vars
     PROVE  LineOK' /\ AdvanceOK'
  OBVIOUS
<1>1. ASSUME Line' = Line, sent' = sent, peerOpen' = peerOpen
      PROVE  LineOK' /\ AdvanceOK'
  BY <1>1 DEF LineOK, AdvanceOK
<1>2. ASSUME UNCHANGED <<ready, peerVars, stubVars>> PROVE LineOK' /\ AdvanceOK'
  BY <1>1, <1>2 DEF Line, peerVars, stubVars
<1>3. CASE DisconnectStep("rpc") \/ DisconnectStep("user")
  BY <1>2, <1>3
  DEF DisconnectStep, BeginDisconnect, ShutSocket, StopContext, Join, ioVars
<1>4. CASE RemoteCall \/ CannotSerialize \/ ConnectFails \/ Connect \/ Send
             \/ Timeout \/ BeginDestroy \/ JoinRpcThread \/ Free
  BY <1>2, <1>4
  DEF RemoteCall, CannotSerialize, ConnectFails, Connect, Send, Timeout,
      BeginDestroy, JoinRpcThread, Free, ioVars
<1>5. CASE StartClientThread \/ ContextReturns \/ HandleReadError \/ UNCHANGED vars
  BY <1>2, <1>5
  DEF StartClientThread, ContextReturns, HandleReadError, vars, ioVars
<1>6. CASE HandleWrite
  BY <1>1, <1>6 DEF HandleWrite, Line, stubVars
<1>7. CASE ReadCompletes
  BY <1>1, <1>7, ReadKeepsLine DEF ReadCompletes
<1>8. CASE HandleRead
  BY <1>1, <1>8, HandleKeepsLine DEF HandleRead, peerVars
<1>9. CASE ServerCloses
  <2>1. /\ channel' \in {channel, <<>>} /\ ~peerOpen'
        /\ ready' = ready /\ heard' = heard /\ sent' = sent
    BY <1>9 DEF ServerCloses, ioVars, stubVars
  <2>2. AdvanceOK'
    BY <2>1 DEF AdvanceOK
  <2>3. CASE channel' = channel
    BY <2>1, <2>2, <2>3 DEF LineOK, Line
  <2>4. CASE channel' = <<>>
    <3>1. Line' = heard \o ready
      BY <2>1, <2>4, LineTypes, ConcatEmptySeq DEF Line
    <3>2. heard \in Seq(ServerResponse) /\ ready \in Seq(ServerResponse)
      BY DEF TypeOK
    <3>3. Len(Line') = Len(heard) + Len(ready)
      BY <3>1, <3>2, ConcatProperties
    <3>4. Len(Line') <= Len(Line) /\ 1 .. Len(Line') \subseteq 1 .. Len(Line)
      BY <3>3, LineTypes
    <3>5. \A i \in 1 .. Len(Line') : Line'[i] = Line[i]
      BY <3>1, <3>3, LineTypes
    <3>6. sent \in Seq(ServerResponse) /\ Len(sent) \in Nat
      BY DEF TypeOK
    <3>7. Len(Line') <= Len(sent)
      BY <3>3, <3>4, <3>6, LineTypes DEF LineOK
    <3>. QED
      BY <2>1, <2>2, <3>4, <3>5, <3>7 DEF LineOK
  <2>. QED
    BY <2>1, <2>3, <2>4
<1>10. ASSUME NEW m \in ServerResponse, ServerAnswers(m)
       PROVE  LineOK' /\ AdvanceOK'
  <2>1. /\ peerOpen /\ peerOpen' = peerOpen /\ Follows(m, sent)
        /\ sent' = Append(sent, m) /\ channel' = Append(channel, m)
        /\ ready' = ready /\ heard' = heard
    BY <1>10 DEF ServerAnswers, ioVars, stubVars
  <2>2. sent \in Seq(ServerResponse) /\ channel \in Seq(ServerResponse)
    BY DEF TypeOK
  <2>3. Line' = Append(Line, m)
    <3>1. channel' = channel \o <<m>>
      BY <2>1, <2>2, AppendIsConcat
    <3>2. <<m>> \in Seq(ServerResponse)
      OBVIOUS
    <3>3. heard \o ready \in Seq(ServerResponse) /\ Line \in Seq(ServerResponse)
      BY LineTypes
    <3>4. (heard \o ready) \o (channel \o <<m>>) = Line \o <<m>>
      <4>1. \A f, g, h \in Seq(ServerResponse) : (f \o g) \o h = f \o (g \o h)
        BY ConcatAssociative
      <4>. QED
        BY <2>2, <3>2, <3>3, <4>1, Zenon DEF Line
    <3>5. Line' = (heard \o ready) \o (channel \o <<m>>)
      BY <2>1, <3>1 DEF Line
    <3>. QED
      BY <3>3, <3>4, <3>5, AppendIsConcat
  <2>4. Line' = sent'
    BY <2>1, <2>3 DEF LineOK
  <2>5. LineOK'
    BY <2>1, <2>2, <2>4 DEF LineOK
  <2>. DEFINE n == Len(sent)
  <2>6. /\ n \in Nat /\ Len(sent') = n + 1 /\ sent'[n + 1] = m
        /\ \A i \in 1 .. n : sent'[i] = sent[i] /\ sent[i] \in ServerResponse
    BY <2>1, <2>2
  <2>7. ASSUME n # 0
        PROVE  n \in 1 .. n /\ ~IsFinal(sent[n]) /\ sent[n].status <= m.status
    <3>1. sent # <<>>
      BY <2>7
    <3>. QED
      BY <2>1, <2>6, <2>7, <3>1 DEF Follows
  <2>. HIDE DEF n
  <2>8. ASSUME NEW i \in 1 .. n + 1, NEW j \in 1 .. n + 1, i < j
        PROVE  ~IsFinal(sent'[i]) /\ sent'[i].status <= sent'[j].status
    <3>1. i \in 1 .. n
      BY <2>6, <2>8
    <3>2. CASE j \in 1 .. n
      BY <2>6, <2>8, <3>1, <3>2 DEF AdvanceOK, n
    <3>3. CASE j = n + 1
      <4>1. n # 0 /\ (i = n \/ (i < n /\ n \in 1 .. n))
        BY <2>6, <3>1
      <4>2. ~IsFinal(sent[i]) /\ sent[i].status <= sent[n].status
        BY <2>6, <2>7, <3>1, <4>1 DEF AdvanceOK, n, ServerResponse, Response,
           SUBMITTED, FAILED
      <4>3. sent[i].status \in Nat /\ sent[n].status \in Nat /\ m.status \in Nat
        BY <2>6, <2>7, <3>1, <4>1 DEF ServerResponse, Response, SUBMITTED, FAILED
      <4>. QED
        BY <2>6, <2>7, <3>1, <3>3, <4>1, <4>2, <4>3
    <3>. QED
      BY <2>6, <2>8, <3>2, <3>3
  <2>9. AdvanceOK'
    BY <2>6, <2>8 DEF AdvanceOK
  <2>. QED
    BY <2>5, <2>9
<1>. QED
  BY <1>3, <1>4, <1>5, <1>6, <1>7, <1>8, <1>9, <1>10
  DEF Next, RpcStep, UserStep, IOStep

(* What is learned comes from further along the line than what was known.  *)
Known == IF cached = None THEN 0 ELSE cached.status

LEMMA KnownAdvances ==
  ASSUME TypeOK, LineOK, AdvanceOK, CachedIsLastGood, HandleRead
  PROVE  Known' = Known \/ Known' \in Known + 1 .. COMPLETED
<1>. DEFINE m == ready[1]
            n == Len(heard)
<1>1. /\ m \in ServerResponse /\ heard \in Seq(ServerResponse)
      /\ cached' = IF Accepts(m) THEN m ELSE cached
      /\ ready # <<>> /\ Len(ready) = 1
  BY ReadyHead DEF HandleRead, OnData, TypeOK
<1>2. /\ n \in Nat /\ DOMAIN heard = 1 .. n
      /\ n + 1 \in 1 .. Len(Line) /\ Line[n + 1] = m
      /\ \A i \in 1 .. n : i \in 1 .. Len(Line) /\ Line[i] = heard[i]
  BY <1>1, LineTypes
<1>3. /\ n + 1 \in 1 .. Len(sent) /\ sent[n + 1] = m
      /\ \A i \in 1 .. n : i \in 1 .. Len(sent) /\ sent[i] = heard[i]
  <2>1. Len(sent) \in Nat /\ Len(Line) \in Nat /\ Len(Line) <= Len(sent)
    BY LineTypes DEF LineOK, TypeOK
  <2>2. \A i \in 1 .. Len(Line) : i \in 1 .. Len(sent)
    BY <2>1
  <2>. QED
    BY <1>2, <2>2 DEF LineOK
<1>. HIDE DEF m, n
<1>4. CASE ~Accepts(m)
  BY <1>1, <1>4 DEF Known
<1>5. CASE Accepts(m)
  <2>1. m.status \in 1 .. 4 /\ cached' = m /\ m # None
    BY <1>1, <1>5, NoneAssumption
    DEF Accepts, ServerResponse, Response, SUBMITTED, FAILED
  <2>2. Known' = m.status
    BY <2>1 DEF Known
  <2>3. Known \in Nat /\ Known <= m.status
    <3>1. CASE cached = None
      BY <2>1, <3>1 DEF Known
    <3>2. CASE cached # None
      <4>1. PICK i \in 1 .. n : cached = heard[i]
        BY <1>2, <3>2 DEF CachedIsLastGood
      <4>2. cached = sent[i] /\ i \in 1 .. Len(sent) /\ i < n + 1
        BY <1>2, <1>3, <4>1
      <4>3. cached.status <= m.status
        BY <1>3, <4>2 DEF AdvanceOK
      <4>4. cached.status \in Nat
        BY <3>2 DEF TypeOK, ServerResponse, Response, SUBMITTED, FAILED
      <4>. QED
        BY <3>2, <4>3, <4>4 DEF Known
    <3>. QED
      BY <3>1, <3>2
  <2>. QED
    BY <2>1, <2>2, <2>3 DEF COMPLETED
<1>. QED
  BY <1>4, <1>5

Phase == CASE pc["rpc"] = "none" -> "none"
           [] pc["rpc"] = "done" -> "over"
           [] OTHER              -> "waiting"

(* Every step of the client begins the call, ends it, or stays in it.      *)
LEMMA RpcMoves ==
  ASSUME TypeOK, QuietOK, [Next]_vars
  PROVE  \/ pc'["rpc"] = pc["rpc"]
         \/ /\ pc["rpc"] = "none" /\ pc'["rpc"] = "call"
            /\ UNCHANGED stubVars
         \/ /\ pc["rpc"] \notin {"none", "done"} /\ pc'["rpc"] # "none"
            /\ UNCHANGED stubVars
<1>. USE DEF Goto, Threads, TypeOK
<1>1. CASE DisconnectStep("rpc")
  <2>1. CASE BeginDisconnect("rpc")
    BY <2>1 DEF BeginDisconnect
  <2>2. CASE ShutSocket("rpc")
    BY <2>2 DEF ShutSocket
  <2>3. CASE StopContext("rpc")
    BY <2>3 DEF StopContext
  <2>4. CASE Join("rpc")
    BY <2>4 DEF Join
  <2>. QED
    BY <1>1, <2>1, <2>2, <2>3, <2>4 DEF DisconnectStep
<1>2. CASE DisconnectStep("user")
  <2>1. CASE BeginDisconnect("user") \/ ShutSocket("user")
    BY <2>1 DEF BeginDisconnect, ShutSocket
  <2>2. CASE StopContext("user") \/ Join("user")
    BY <2>2 DEF StopContext, Join
  <2>. QED
    BY <1>2, <2>1, <2>2 DEF DisconnectStep
<1>3. CASE RemoteCall
  BY <1>3 DEF RemoteCall, QuietOK
<1>4. CASE CannotSerialize \/ ConnectFails \/ Connect \/ Send \/ Timeout
  <2>1. CASE CannotSerialize \/ ConnectFails
    BY <2>1 DEF CannotSerialize, ConnectFails
  <2>2. CASE Connect
    BY <2>2 DEF Connect
  <2>3. CASE Send \/ Timeout
    BY <2>3 DEF Send, Timeout
  <2>. QED
    BY <1>4, <2>1, <2>2, <2>3
<1>5. CASE BeginDestroy \/ JoinRpcThread \/ Free
  BY <1>5 DEF BeginDestroy, JoinRpcThread, Free
<1>6. CASE IOStep \/ ReadCompletes \/ ServerCloses \/ UNCHANGED vars
  BY <1>6
  DEF IOStep, StartClientThread, ContextReturns, ReadCompletes, HandleRead,
      HandleReadError, HandleWrite, ServerCloses, vars
<1>7. ASSUME NEW m \in ServerResponse, ServerAnswers(m)
      PROVE  pc'["rpc"] = pc["rpc"]
  BY <1>7 DEF ServerAnswers
<1>. QED
  BY <1>1, <1>2, <1>3, <1>4, <1>5, <1>6, <1>7 DEF Next, RpcStep, UserStep

LEMMA NextCall ==
  TypeOK /\ QuietOK /\ LineOK /\ AdvanceOK /\ CachedIsLastGood /\ [Next]_vars
    => [Call!Next]_Call!vars
<1>. SUFFICES ASSUME TypeOK, QuietOK, LineOK, AdvanceOK, CachedIsLastGood,
                     [Next]_vars
     PROVE  [Call!Next]_<<Phase, Known>>
  BY DEF Phase, Known, Call!vars
<1>1. /\ pc["rpc"] = "none" => Phase = "none"
      /\ pc["rpc"] = "done" => Phase = "over"
      /\ pc["rpc"] \notin {"none", "done"} => Phase = "waiting"
  BY DEF Phase
<1>2. /\ pc'["rpc"] = "none" => Phase' = "none"
      /\ pc'["rpc"] = "done" => Phase' = "over"
      /\ pc'["rpc"] \notin {"none", "done"} => Phase' = "waiting"
  BY DEF Phase
<1>3. UNCHANGED stubVars => Known' = Known
  BY DEF stubVars, Known
<1>4. CASE HandleRead
  <2>1. Known' = Known \/ Known' \in Known + 1 .. COMPLETED
    BY <1>4, KnownAdvances
  <2>2. pc' = pc /\ pc["io"] = "run"
    BY <1>4 DEF HandleRead, Handling
  <2>3. Phase = "waiting" /\ Phase' = "waiting"
    BY <1>1, <1>2, <2>2 DEF QuietOK
  <2>. QED
    BY <2>1, <2>3 DEF Call!Next, Call!Learn, Phase, Known
<1>5. CASE UNCHANGED stubVars
  <2>1. CASE Phase' = Phase
    BY <1>3, <1>5, <2>1
  <2>2. CASE Phase = "none" /\ Phase' = "waiting"
    BY <1>3, <1>5, <2>2 DEF Call!Next, Call!Begin, Phase, Known
  <2>3. CASE Phase = "waiting" /\ Phase' = "over"
    BY <1>3, <1>5, <2>3 DEF Call!Next, Call!End, Phase, Known
  <2>4. \/ Phase' = Phase
        \/ Phase = "none" /\ Phase' = "waiting"
        \/ Phase = "waiting" /\ Phase' = "over"
    <3>1. CASE pc'["rpc"] = pc["rpc"]
      BY <3>1 DEF Phase
    <3>2. CASE pc'["rpc"] # pc["rpc"]
      BY <1>1, <1>2, <3>2, RpcMoves
    <3>. QED
      BY <3>1, <3>2
  <2>. QED
    BY <2>1, <2>2, <2>3, <2>4
<1>. QED
  BY <1>4, <1>5, StubStep

LEMMA InitCall == Init => Call!Init /\ LineOK /\ AdvanceOK
<1>. SUFFICES ASSUME Init PROVE Call!Init /\ LineOK /\ AdvanceOK
  OBVIOUS
<1>1. Call!Init
  BY DEF Init, Call!Init, Threads
<1>2. heard = <<>> /\ ready = <<>> /\ channel = <<>> /\ sent = <<>>
  BY DEF Init
<1>3. \A s : s = <<>> => Len(s) = 0 /\ s \o s = s
  OBVIOUS
<1>4. Line = sent /\ Len(sent) = 0 /\ Len(Line) = 0
  BY <1>2, <1>3 DEF Line
<1>. QED
  BY <1>1, <1>4 DEF LineOK, AdvanceOK

(***************************************************************************)
(* The client implements RemoteCall for any number of answers: what the    *)
(* caller knows advances only, and only while the call lasts.  That the    *)
(* call ends is left to TLC.                                               *)
(***************************************************************************)
THEOREM RefinesCall == Spec => ImplementsCallSafety
<1>. DEFINE IInv == TypeOK /\ QuietOK /\ LineOK /\ AdvanceOK /\ CachedIsLastGood
<1>1. Init => Call!Init /\ IInv
  BY InitTypes, InitCall DEF Init, Threads, QuietOK, CachedIsLastGood
<1>2. IInv /\ [Next]_vars => IInv'
  BY NextTypes, NextQuiet, NextLine, NextCached
<1>3. IInv /\ [Next]_vars => [Call!Next]_Call!vars
  BY NextCall
<1>. HIDE DEF IInv
<1>. QED
  BY <1>1, <1>2, <1>3, PTL DEF Spec, ImplementsCallSafety, Call!Spec
=============================================================================
