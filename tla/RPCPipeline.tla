---------------------------- MODULE RPCPipeline ----------------------------
(***************************************************************************)
(* The life of a request inside an RPCServer, from the read handler that   *)
(* delivers its bytes to the last response handed to the session.          *)
(*                                                                         *)
(* Four kinds of thread take part.  An IO thread (IOServicePool) runs      *)
(* RPCServerStub::OnData; the RequestDispatcher's thread pops requests and *)
(* hands them to RPCProcessor; ThreadPool workers run the services; the    *)
(* ResponseDispatcher's thread pops responses and calls Session::Send.     *)
(*                                                                         *)
(* All but the last of them report progress by raising an event on         *)
(* RPCEventHandler, which calls its handlers in the order RPCServer        *)
(* registered them: first RPCPacketManager (the table of live requests and *)
(* the status in the packet), then ResponseDispatcher (which posts a copy  *)
(* of the packet), and for two events one handler more (RequestDispatcher, *)
(* RPCProcessor).  A thread's event and pc say how far that chain is; pc   *)
(* has a step for each access to memory that other threads use: the mutex  *)
(* of the table, the lookup made without it, the queues and their counters.*)
(***************************************************************************)
EXTENDS Integers, Sequences, FiniteSets

CONSTANTS
  IOThreads,     \* threads of the IOServicePool
  Workers,       \* threads of the ThreadPool
  Dispatcher,    \* the thread of RequestDispatcher
  Responder,     \* the thread of ResponseDispatcher
  Requests,      \* requests that clients may send (bounds the arrivals)
  Inputs,        \* the kinds of request each of them may be
  NoRequest,     \* a thread that handles no request
  NoThread,      \* the table's mutex is free
  MaxRequests,   \* m_maxWaitedDispatch of RequestDispatcher
  MaxResponses   \* m_maxWaitedDispatch of ResponseDispatcher

Posters == IOThreads \cup Workers \cup {Dispatcher}
Consumers == {Dispatcher, Responder}
Threads == Posters \cup Consumers

ASSUME ThreadsAssumption ==
  /\ IsFiniteSet(IOThreads)
  /\ IsFiniteSet(Workers)
  /\ IOThreads \cap Workers = {}
  /\ Dispatcher \notin IOThreads \cup Workers
  /\ Responder \notin Posters
  /\ NoThread \notin Threads
  /\ NoRequest \notin Requests

ASSUME LimitsAssumption ==
  /\ MaxRequests \in Nat \ {0}
  /\ MaxResponses \in Nat \ {0}

(***************************************************************************)
(* What the packet and its responses carry: RPCPacketStatus with its enum  *)
(* values, and the RPCPacketError codes the server sets.                   *)
(***************************************************************************)
DEFAULTED == 0
SUBMITTED == 1
WAITING   == 2
COMMITED  == 3
COMPLETED == 4
FAILED    == 5
Statuses == DEFAULTED .. FAILED

Errors == {"PKT_NO_ERROR", "PKT_DESERIALIZATION_ERROR", "PKT_EMPTY_REQUEST",
           "SERVICE_BUSY", "SERVICE_NOT_FOUND", "SERVICE_IVAILD_PARAMETERS",
           "SERVICE_ERROR"}

Response == [req : Requests, status : Statuses, error : Errors]

NoResponse == [status |-> DEFAULTED, error |-> "PKT_NO_ERROR"]

(***************************************************************************)
(* What a client sent: bytes that do not parse, no service name, a name    *)
(* nobody registered, parameters the service's check refuses, or a call    *)
(* that will be executed.                                                  *)
(***************************************************************************)
Kinds == {"garbled", "empty", "unknown", "badparams", "callable"}

ASSUME InputsAssumption == Inputs \in [Requests -> SUBSET Kinds]

FailureEvents == {"DispatchFailed", "ServiceEmptyRequest", "ServiceNotFound",
                  "ServiceParameterInvalid", "ServiceError"}

\* The events after which the thread that raised them is done with the request.
FinalEvents == FailureEvents \cup {"DeserializedFailed", "Completed"}

Events == FinalEvents \cup {"Deserialized", "Dispatched", "Commited"}

(***************************************************************************)
(* The status RPCPacketManager's handler of an event writes, whether that  *)
(* handler also forgets the request, and the error code of the response    *)
(* ResponseDispatcher's handler builds.                                    *)
(***************************************************************************)
StatusOf(e) ==
  CASE e = "Deserialized" -> SUBMITTED
    [] e = "Dispatched"   -> WAITING
    [] e = "Commited"     -> COMMITED
    [] e = "Completed"    -> COMPLETED
    [] OTHER              -> FAILED

\* Mutants: the handler of Commited forgets the request; one does not.
RemovesOnCommit(e) == e \in FailureEvents \cup {"Completed", "Commited"}
RemovesNotOnInvalid(e) ==
  e \in (FailureEvents \cup {"Completed"}) \ {"ServiceParameterInvalid"}

Removes(e) == e \in FailureEvents \cup {"Completed"}

\* Mutant: a failed service is reported with a code the server does not use.
ErrorOfOther(e) ==
  CASE e = "DispatchFailed"          -> "SERVICE_BUSY"
    [] e = "ServiceParameterInvalid" -> "SERVICE_IVAILD_PARAMETERS"
    [] e = "ServiceError"            -> "PKT_SERIALIZATION_ERROR"
    [] OTHER                         -> "PKT_NO_ERROR"

ErrorOf(e) ==
  CASE e = "DeserializedFailed"      -> "PKT_DESERIALIZATION_ERROR"
    [] e = "DispatchFailed"          -> "SERVICE_BUSY"
    [] e = "ServiceEmptyRequest"     -> "PKT_EMPTY_REQUEST"
    [] e = "ServiceNotFound"         -> "SERVICE_NOT_FOUND"
    [] e = "ServiceParameterInvalid" -> "SERVICE_IVAILD_PARAMETERS"
    [] e = "ServiceError"            -> "SERVICE_ERROR"
    [] OTHER                         -> "PKT_NO_ERROR"
-----------------------------------------------------------------------------
VARIABLES
  pc,         \* next step of each thread
  event,      \* event each poster is raising, "none" outside of one
  cur,        \* request each poster works on
  kind,       \* what arrived as each request, "unsent" before it arrives
  status,     \* the status field of each request's packet
  table,      \* keys of RPCPacketManager::m_requests
  tableLock,  \* thread inserting into or erasing from m_requests
  reqQ,       \* RequestDispatcher's queue ...
  reqCount,   \* ... and its m_count
  tasks,      \* the ThreadPool's m_tasks
  respQ,      \* ResponseDispatcher's queue ...
  respCount,  \* ... and its m_count
  sending,    \* the response the ResponseDispatcher's thread popped
  last,       \* history: the last response given to Session::Send, per request
  lost,       \* history: requests whose final response was dropped
  abandoned,  \* history: requests whose service threw no std::exception
  raced       \* history: requests a racing lookup did not find

workVars    == <<event, cur>>
packetVars  == <<kind, status>>
tableVars   == <<table, tableLock>>
reqVars     == <<reqQ, reqCount>>
respVars    == <<respQ, respCount>>
sendVars    == <<sending, last>>
historyVars == <<lost, abandoned, raced>>
vars == <<pc, workVars, packetVars, tableVars, reqVars, tasks, respVars,
          sendVars, historyVars>>

Labels == {"idle", "add", "adding", "find", "erase", "erasing", "check",
           "link", "count", "return", "pushed", "run",
           "popped", "waiting", "stalled"}

Init ==
  /\ pc = [t \in Threads |-> "idle"]
  /\ event = [t \in Posters |-> "none"]
  /\ cur = [t \in Posters |-> NoRequest]
  /\ kind = [r \in Requests |-> "unsent"]
  /\ status = [r \in Requests |-> DEFAULTED]
  /\ table = {}
  /\ tableLock = NoThread
  /\ reqQ = <<>>
  /\ reqCount = 0
  /\ tasks = <<>>
  /\ respQ = <<>>
  /\ respCount = 0
  /\ sending = {}
  /\ last = [r \in Requests |-> NoResponse]
  /\ lost = {}
  /\ abandoned = {}
  /\ raced = {}

Goto(t, label) == pc' = [pc EXCEPT ![t] = label]

(***************************************************************************)
(* RPCEventHandler::On<e>: the first thing the chain of e does.  A new     *)
(* request is added to the table, any other event looks its request up,    *)
(* and OnDeserializedFailed has ResponseDispatcher as its only handler.    *)
(***************************************************************************)
\* Mutant: the final events remove the request before they update it.
FirstStepRemoves(e) ==
  CASE e = "Deserialized"       -> "add"
    [] e = "DeserializedFailed" -> "check"
    [] Removes(e)               -> "erase"
    [] OTHER                    -> "find"

FirstStep(e) ==
  CASE e = "Deserialized"       -> "add"
    [] e = "DeserializedFailed" -> "check"
    [] OTHER                    -> "find"

Raise(t, e) ==
  /\ event' = [event EXCEPT ![t] = e]
  /\ Goto(t, FirstStep(e))

\* t leaves its request to somebody else, or is done with it.
LetGo(t, label) ==
  /\ event' = [event EXCEPT ![t] = "none"]
  /\ cur' = [cur EXCEPT ![t] = NoRequest]
  /\ Goto(t, label)

(***************************************************************************)
(* The test both dispatchers make before they queue.  size() is an int and *)
(* m_maxWaitedDispatch a size_t, so a negative count is compared as a huge *)
(* one: it leaves no room.                                                 *)
(***************************************************************************)
\* Mutant: nobody looks at the limit.
HasRoomAlways(count, max) == TRUE

HasRoom(count, max) == count \in 0 .. max - 1

(***************************************************************************)
(* ConcurrentQueue::WaitPop of a dispatcher's thread evaluates the         *)
(* predicate and, if the queue is empty, sleeps; "waiting" is both the     *)
(* sleep and the gap before it.  Push takes no lock that would keep its    *)
(* notify_one out of that gap: there it reaches nobody, and the thread     *)
(* goes to sleep beside a queue that holds an item ("stalled").  Only c    *)
(* waits on the queue of c.                                                *)
(***************************************************************************)
\* Mutant: Push without notify_one.
NotifiedNot(c) == {pc[c]}

Notified(c) ==
  IF pc[c] \in {"waiting", "stalled"} THEN {"idle", "stalled"} ELSE {pc[c]}
-----------------------------------------------------------------------------
(* RPCServerStub::OnData on an IO thread, with the part of                 *)
(* RPCPacketManager::OnDeserialized that touches only the new packet.  The *)
(* answer to bytes that do not parse is a packet made from nothing, FAILED.*)

OnData(t, r, k) ==
  /\ pc[t] = "idle"
  /\ kind[r] = "unsent"
  /\ kind' = [kind EXCEPT ![r] = k]
  /\ cur' = [cur EXCEPT ![t] = r]
  /\ IF k = "garbled"
     THEN /\ status' = [status EXCEPT ![r] = FAILED]
          /\ Raise(t, "DeserializedFailed")
     ELSE /\ status' = [status EXCEPT ![r] = SUBMITTED]
          /\ Raise(t, "Deserialized")
  /\ UNCHANGED <<tableVars, reqVars, tasks, respVars, sendVars, historyVars>>
-----------------------------------------------------------------------------
(* RPCPacketManager: AddRequest and RemoveRequest hold m_requestsMutex     *)
(* while they change the table, so they are two steps; UpdateRequestStatus *)
(* looks the request up before it takes the mutex.                         *)

AfterUpdate(e) == IF Removes(e) THEN "erase" ELSE "check"

LockTable(t) ==
  /\ pc[t] \in {"add", "erase"}
  /\ tableLock = NoThread
  /\ tableLock' = t
  /\ Goto(t, IF pc[t] = "add" THEN "adding" ELSE "erasing")
  /\ UNCHANGED <<workVars, packetVars, table, reqVars, tasks, respVars,
                 sendVars, historyVars>>

\* Mutant: the mutex is locked by hand and not unlocked.
AddRequestKeepsLock(t) ==
  /\ pc[t] = "adding"
  /\ table' = table \cup {cur[t]}
  /\ Goto(t, "check")
  /\ UNCHANGED <<workVars, packetVars, tableLock, reqVars, tasks, respVars,
                 sendVars, historyVars>>

AddRequest(t) ==
  /\ pc[t] = "adding"
  /\ table' = table \cup {cur[t]}
  /\ tableLock' = NoThread
  /\ Goto(t, "check")
  /\ UNCHANGED <<workVars, packetVars, reqVars, tasks, respVars, sendVars,
                 historyVars>>

RemoveRequest(t) ==
  /\ pc[t] = "erasing"
  /\ table' = table \ {cur[t]}
  /\ tableLock' = NoThread
  /\ Goto(t, "check")
  /\ UNCHANGED <<workVars, packetVars, reqVars, tasks, respVars, sendVars,
                 historyVars>>

UpdateRequestStatus(t) ==
  /\ pc[t] = "find"
  /\ cur[t] \in table
  /\ tableLock = NoThread
  /\ status' = [status EXCEPT ![cur[t]] = StatusOf(event[t])]
  /\ Goto(t, AfterUpdate(event[t]))
  /\ UNCHANGED <<workVars, kind, tableVars, reqVars, tasks, respVars,
                 sendVars, historyVars>>

(* The lookup runs without the mutex: while another thread inserts or      *)
(* erases, it may walk past the entry it looks for.                        *)
MissRequest(t) ==
  /\ pc[t] = "find"
  /\ cur[t] \notin table \/ tableLock # NoThread
  /\ raced' = IF cur[t] \in table THEN raced \cup {cur[t]} ELSE raced
  /\ Goto(t, AfterUpdate(event[t]))
  /\ UNCHANGED <<workVars, packetVars, tableVars, reqVars, tasks, respVars,
                 sendVars, lost, abandoned>>
-----------------------------------------------------------------------------
(* ResponseDispatcher's handler of the event: PostRequestToQueue compares  *)
(* the counter with the limit, links the copy of the packet and only then  *)
(* counts it.  A response that finds no room is dropped.                   *)

CheckResponseRoom(t) ==
  /\ pc[t] = "check"
  /\ IF HasRoom(respCount, MaxResponses)
     THEN Goto(t, "link") /\ UNCHANGED lost
     ELSE /\ Goto(t, "return")
          /\ lost' = IF event[t] \in FinalEvents THEN lost \cup {cur[t]}
                                                 ELSE lost
  /\ UNCHANGED <<workVars, packetVars, tableVars, reqVars, tasks, respVars,
                 sendVars, abandoned, raced>>

CreateResponse(t) ==
  [req |-> cur[t], status |-> status[cur[t]], error |-> ErrorOf(event[t])]

LinkResponse(t) ==
  /\ pc[t] = "link"
  /\ respQ' = Append(respQ, CreateResponse(t))
  /\ Goto(t, "count")
  /\ UNCHANGED <<workVars, packetVars, tableVars, reqVars, tasks, respCount,
                 sendVars, historyVars>>

CountResponse(t) ==
  /\ pc[t] = "count"
  /\ respCount' = respCount + 1
  /\ \E w \in Notified(Responder) :
       pc' = [pc EXCEPT ![t] = "return", ![Responder] = w]
  /\ UNCHANGED <<workVars, packetVars, tableVars, reqVars, tasks, respQ,
                 sendVars, historyVars>>
-----------------------------------------------------------------------------
(* RequestDispatcher::PostRequestToQueue, the last handler of Deserialized *)
(* on the IO thread.  It raises Dispatched before it pushes the request.   *)

PostRequestToQueue(t) ==
  /\ pc[t] = "return"
  /\ event[t] = "Deserialized"
  /\ Raise(t, IF HasRoom(reqCount, MaxRequests) THEN "Dispatched"
                                                ELSE "DispatchFailed")
  /\ UNCHANGED <<cur, packetVars, tableVars, reqVars, tasks, respVars,
                 sendVars, historyVars>>

LinkRequest(t) ==
  /\ pc[t] = "return"
  /\ event[t] = "Dispatched"
  /\ reqQ' = Append(reqQ, cur[t])
  /\ LetGo(t, "pushed")
  /\ UNCHANGED <<packetVars, tableVars, reqCount, tasks, respVars, sendVars,
                 historyVars>>

CountRequest(t) ==
  /\ pc[t] = "pushed"
  /\ reqCount' = reqCount + 1
  /\ \E w \in Notified(Dispatcher) :
       pc' = [pc EXCEPT ![t] = "idle", ![Dispatcher] = w]
  /\ UNCHANGED <<workVars, packetVars, tableVars, reqQ, tasks, respVars,
                 sendVars, historyVars>>

(* The thread returns from the event and takes up its next piece of work.  *)
Finish(t) ==
  /\ pc[t] = "return"
  /\ event[t] \in FinalEvents
  /\ LetGo(t, "idle")
  /\ UNCHANGED <<packetVars, tableVars, reqVars, tasks, respVars, sendVars,
                 historyVars>>
-----------------------------------------------------------------------------
(* A dispatcher's thread finds its queue empty and waits, and wakes for no *)
(* reason, which every condition variable may do.                          *)

QueueIsEmpty(c) == IF c = Dispatcher THEN reqQ = <<>> ELSE respQ = <<>>

Wait(c) ==
  /\ pc[c] = "idle"
  /\ QueueIsEmpty(c)
  /\ Goto(c, "waiting")
  /\ UNCHANGED <<workVars, packetVars, tableVars, reqVars, tasks, respVars,
                 sendVars, historyVars>>

SpuriousWakeup(c) ==
  /\ pc[c] \in {"waiting", "stalled"}
  /\ Goto(c, "idle")
  /\ UNCHANGED <<workVars, packetVars, tableVars, reqVars, tasks, respVars,
                 sendVars, historyVars>>
-----------------------------------------------------------------------------
(* The RequestDispatcher's thread.                                         *)

PopRequest ==
  /\ pc[Dispatcher] = "idle"
  /\ reqQ # <<>>
  /\ cur' = [cur EXCEPT ![Dispatcher] = Head(reqQ)]
  /\ reqQ' = Tail(reqQ)
  /\ Goto(Dispatcher, "popped")
  /\ UNCHANGED <<event, packetVars, tableVars, reqCount, tasks, respVars,
                 sendVars, historyVars>>

DispatchRequest ==
  /\ pc[Dispatcher] = "popped"
  /\ reqCount' = reqCount - 1
  /\ Raise(Dispatcher, "Commited")
  /\ UNCHANGED <<cur, packetVars, tableVars, reqQ, tasks, respVars, sendVars,
                 historyVars>>

(* RPCProcessor::OnCommited, the last handler of Commited: a request that  *)
(* fails a check raises the event of that check, the others are committed  *)
(* to the thread pool.                                                     *)
ServiceEvent(k) ==
  CASE k = "empty"     -> "ServiceEmptyRequest"
    [] k = "unknown"   -> "ServiceNotFound"
    [] k = "badparams" -> "ServiceParameterInvalid"

\* Mutant: no return after the event of a failed check.
RefuseRequestGoesOn ==
  /\ pc[Dispatcher] = "return"
  /\ event[Dispatcher] = "Commited"
  /\ kind[cur[Dispatcher]] # "callable"
  /\ Raise(Dispatcher, ServiceEvent(kind[cur[Dispatcher]]))
  /\ tasks' = Append(tasks, cur[Dispatcher])
  /\ UNCHANGED <<cur, packetVars, tableVars, reqVars, respVars, sendVars,
                 historyVars>>

RefuseRequest ==
  /\ pc[Dispatcher] = "return"
  /\ event[Dispatcher] = "Commited"
  /\ kind[cur[Dispatcher]] # "callable"
  /\ Raise(Dispatcher, ServiceEvent(kind[cur[Dispatcher]]))
  /\ UNCHANGED <<cur, packetVars, tableVars, reqVars, tasks, respVars,
                 sendVars, historyVars>>

CommitTask ==
  /\ pc[Dispatcher] = "return"
  /\ event[Dispatcher] = "Commited"
  /\ kind[cur[Dispatcher]] = "callable"
  /\ tasks' = Append(tasks, cur[Dispatcher])
  /\ LetGo(Dispatcher, "idle")
  /\ UNCHANGED <<packetVars, tableVars, reqVars, respVars, sendVars,
                 historyVars>>
-----------------------------------------------------------------------------
(* A worker takes a task and runs the service.  The service may return,    *)
(* throw a std::exception, which Execute catches, or throw anything else,  *)
(* which ends in the packaged_task that nobody looks at.                   *)

TakeTask(w) ==
  /\ pc[w] = "idle"
  /\ tasks # <<>>
  /\ cur' = [cur EXCEPT ![w] = Head(tasks)]
  /\ tasks' = Tail(tasks)
  /\ Goto(w, "run")
  /\ UNCHANGED <<event, packetVars, tableVars, reqVars, respVars, sendVars,
                 historyVars>>

\* Mutant: a caught exception is only logged.
ExecuteSwallows(w) ==
  /\ pc[w] = "run"
  /\ \/ Raise(w, "Completed") /\ UNCHANGED cur
     \/ LetGo(w, "idle")
  /\ UNCHANGED <<packetVars, tableVars, reqVars, tasks, respVars, sendVars,
                 historyVars>>

Execute(w) ==
  /\ pc[w] = "run"
  /\ \E e \in {"Completed", "ServiceError"} : Raise(w, e)
  /\ UNCHANGED <<cur, packetVars, tableVars, reqVars, tasks, respVars,
                 sendVars, historyVars>>

ExecuteThrowsOther(w) ==
  /\ pc[w] = "run"
  /\ abandoned' = abandoned \cup {cur[w]}
  /\ LetGo(w, "idle")
  /\ UNCHANGED <<packetVars, tableVars, reqVars, tasks, respVars, sendVars,
                 lost, raced>>
-----------------------------------------------------------------------------
(* The ResponseDispatcher's thread.                                        *)

PopResponse ==
  /\ pc[Responder] = "idle"
  /\ respQ # <<>>
  /\ sending' = {Head(respQ)}
  /\ respQ' = Tail(respQ)
  /\ Goto(Responder, "popped")
  /\ UNCHANGED <<workVars, packetVars, tableVars, reqVars, tasks, respCount,
                 last, historyVars>>

Send ==
  /\ pc[Responder] = "popped"
  /\ respCount' = respCount - 1
  /\ \E m \in sending :
       last' = [last EXCEPT ![m.req] = [status |-> m.status, error |-> m.error]]
  /\ sending' = {}
  /\ Goto(Responder, "idle")
  /\ UNCHANGED <<workVars, packetVars, tableVars, reqVars, tasks, respQ,
                 historyVars>>
-----------------------------------------------------------------------------
(* Steps of the handler chain, the same on every thread that raises events.*)
ChainStep(t) ==
  \/ LockTable(t) \/ AddRequest(t) \/ RemoveRequest(t)
  \/ UpdateRequestStatus(t) \/ MissRequest(t)
  \/ CheckResponseRoom(t) \/ LinkResponse(t) \/ CountResponse(t)
  \/ Finish(t)

IOStep(t) ==
  ChainStep(t) \/ PostRequestToQueue(t) \/ LinkRequest(t) \/ CountRequest(t)

DispatcherStep ==
  \/ ChainStep(Dispatcher)
  \/ PopRequest \/ DispatchRequest \/ RefuseRequest \/ CommitTask

WorkerStep(w) ==
  ChainStep(w) \/ TakeTask(w) \/ Execute(w) \/ ExecuteThrowsOther(w)

ResponderStep == PopResponse \/ Send

\* Some thread goes on with a request or a response it can go on with.
Progress ==
  \/ \E t \in IOThreads : IOStep(t)
  \/ DispatcherStep
  \/ \E w \in Workers : WorkerStep(w)
  \/ ResponderStep

Next ==
  \/ \E t \in IOThreads, r \in Requests : \E k \in Inputs[r] : OnData(t, r, k)
  \/ Progress
  \/ \E c \in Consumers : Wait(c) \/ SpuriousWakeup(c)

Spec == Init /\ [][Next]_vars

(***************************************************************************)
(* The operating system does not leave all threads aside that can go on:   *)
(* less than that it runs each of them.  Nobody has to send a request, and *)
(* no thread is owed a spurious wakeup.                                    *)
(***************************************************************************)
Fairness == WF_vars(Progress)

FairSpec == Spec /\ Fairness
-----------------------------------------------------------------------------
(***************************************************************************)
(* Properties.                                                             *)
(***************************************************************************)
Pushing(t) == pc[t] = "pushed"
Admitted == {t \in IOThreads : event[t] = "Dispatched" \/ Pushing(t)}
Popped(c) == IF pc[c] = "popped" THEN 1 ELSE 0

ThreadTypes ==
  /\ pc \in [Threads -> Labels]
  /\ event \in [Posters -> Events \cup {"none"}]
  /\ cur \in [Posters -> Requests \cup {NoRequest}]

PacketTypes ==
  /\ kind \in [Requests -> Kinds \cup {"unsent"}]
  /\ status \in [Requests -> Statuses]
  /\ table \subseteq Requests
  /\ tableLock \in Posters \cup {NoThread}

QueueTypes ==
  /\ reqQ \in Seq(Requests)
  /\ reqCount \in Int
  /\ tasks \in Seq(Requests)
  /\ respQ \in Seq(Response)
  /\ respCount \in Int

HistoryTypes ==
  /\ sending \subseteq Response
  /\ last \in [Requests -> [status : Statuses, error : Errors]]
  /\ lost \subseteq Requests
  /\ abandoned \subseteq Requests
  /\ raced \subseteq Requests

(***************************************************************************)
(* Every variable stays in its range: no handler is run by a thread that   *)
(* has no request, no event is raised that has no status or error code.    *)
(***************************************************************************)
TypeOK == ThreadTypes /\ PacketTypes /\ QueueTypes /\ HistoryTypes

(***************************************************************************)
(* The test for room and the push are two steps (RequestDispatcher.cpp:20- *)
(* 23, ResponseDispatcher.cpp:19-21), so the limits of the queues are not  *)
(* kept, but they are exceeded by no more than the other threads that can  *)
(* be between the two steps, although the counters lag behind the queues.  *)
(***************************************************************************)
QueuesBounded ==
  /\ Len(reqQ) <= MaxRequests + Cardinality(IOThreads) - 1
  /\ Len(respQ) <= MaxResponses + Cardinality(Posters) - 1

(***************************************************************************)
(* The packet of a request is changed without a lock that would order the  *)
(* accesses (handlers, services and the copies made for the responses all  *)
(* use it): that is sound because a request is in at most one place, with  *)
(* one thread, in the request queue or in the pool's tasks, and once only. *)
(***************************************************************************)
Places(r) ==
  {<<"thread", t>> : t \in {t \in Posters : cur[t] = r}}
    \cup {<<"queue", i>> : i \in {i \in DOMAIN reqQ : reqQ[i] = r}}
    \cup {<<"task", i>> : i \in {i \in DOMAIN tasks : tasks[i] = r}}

SingleOwner == \A r \in Requests : Cardinality(Places(r)) <= 1

InProgress(r) == Places(r) # {}

(***************************************************************************)
(* RPCPacketManager knows the requests that wait or run, and forgets those *)
(* that are over: an entry without a place in the pipeline is one whose    *)
(* service threw something that is not a std::exception, which RPCProcessor*)
(* does not catch (RPCProcessor.cpp:65-74); that entry is never removed.   *)
(***************************************************************************)
TableIsLive ==
  \A r \in Requests :
    /\ r \in table => InProgress(r) \/ r \in abandoned
    /\ (\E i \in DOMAIN reqQ : reqQ[i] = r) => r \in table
    /\ (\E i \in DOMAIN tasks : tasks[i] = r) => r \in table

(***************************************************************************)
(* A client reads progress in the order in which it was made: the response *)
(* that is sent next has a later status than the last one sent for its     *)
(* request, whichever threads posted the two.  Only a lookup that raced    *)
(* with another request's insertion or removal may repeat a status.        *)
(***************************************************************************)
ProgressInOrder ==
  \A m \in sending :
    \/ last[m.req].status < m.status
    \/ m.req \in raced /\ last[m.req].status = m.status

IsFinal(m) == m.status \in {COMPLETED, FAILED} \/ m.error # "PKT_NO_ERROR"

(***************************************************************************)
(* A request has one outcome: nothing is sent for it after a response that *)
(* says COMPLETED, FAILED or an error.                                     *)
(***************************************************************************)
OneOutcome == \A m \in sending : ~IsFinal(last[m.req])

(***************************************************************************)
(* The two ways a response tells of a failure agree: it carries an error   *)
(* code if and only if its status is FAILED, whatever went wrong and on    *)
(* whichever thread, unless the status could not be updated because of a   *)
(* racing lookup (RPCPacketManager.cpp:25).                                *)
(***************************************************************************)
FailureSaysFailed ==
  \A m \in sending :
    m.req \in raced \/ (m.error # "PKT_NO_ERROR" <=> m.status = FAILED)

(***************************************************************************)
(* No request ends in silence: when nobody works on it any more and no     *)
(* response waits, its client was sent the outcome, or the outcome found   *)
(* no room in the response queue, or the service threw something that      *)
(* nobody catches, or the outcome was sent with a stale status.            *)
(***************************************************************************)
Answering(r) ==
  \/ \E i \in DOMAIN respQ : respQ[i].req = r
  \/ \E m \in sending : m.req = r

Answered ==
  \A r \in Requests :
    kind[r] = "unsent" \/ InProgress(r) \/ Answering(r)
      \/ IsFinal(last[r]) \/ r \in lost \cup abandoned \cup raced

(***************************************************************************)
(* A dispatcher's thread that waits beside a queue that holds an item will *)
(* be notified: some poster is between linking an item and notify_one.     *)
(* (A stalled one was notified too early, in the gap before its sleep.)    *)
(***************************************************************************)
WaitIsJustified ==
  /\ pc[Dispatcher] = "waiting" /\ reqQ # <<>> =>
       \E t \in IOThreads : Pushing(t)
  /\ pc[Responder] = "waiting" /\ respQ # <<>> =>
       \E t \in Posters : pc[t] = "count"

(***************************************************************************)
(* Only as many requests arrive as Requests has, so again and again every  *)
(* one that arrived is worked off, refused or not, and what was queued for *)
(* its client is sent: neither the mutex of the table, held by one thread  *)
(* and wanted by another, nor a full queue blocks anybody for good.  All   *)
(* that may stay behind is what waits in the queue of a dispatcher's       *)
(* thread that lost its notification (ConcurrentQueue.h:37-42, 79), while  *)
(* that thread sleeps.                                                     *)
(***************************************************************************)
OnlyStalledWaits ==
  /\ \A t \in Posters : cur[t] = NoRequest
  /\ tasks = <<>> /\ sending = {}
  /\ reqQ # <<>> => pc[Dispatcher] = "stalled"
  /\ respQ # <<>> => pc[Responder] = "stalled"

EventuallyResolved == []<>OnlyStalledWaits

(***************************************************************************)
(* A client is told SERVICE_BUSY ("Service busy", RPCClientStub.cpp:39)    *)
(* only when as many requests wait as may wait.  The code does not keep    *)
(* this: size() is -1 while a request is popped that is not yet counted.   *)
(***************************************************************************)
BusyMeansFull ==
  [][\A t \in IOThreads :
       event[t] # "DispatchFailed" /\ event'[t] = "DispatchFailed" =>
         Len(reqQ) + Popped(Dispatcher) >= MaxRequests]_vars
=============================================================================
