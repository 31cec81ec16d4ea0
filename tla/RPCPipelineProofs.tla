------------------------- MODULE RPCPipelineProofs -------------------------
(***************************************************************************)
(* Theorems about RPCPipeline, for any number of threads and requests and  *)
(* any limits of the queues: its types; the queues, by how much they       *)
(* exceed their limits and that a waiting dispatcher will be notified; and *)
(* what becomes of a request.                                              *)
(***************************************************************************)
EXTENDS RPCPipeline, FiniteSetTheorems, TLAPS

(***************************************************************************)
(* TypeOK is not inductive by itself: that ServiceEvent and the lookups    *)
(* are defined rests on what a busy thread holds.  A thread that handles   *)
(* an event has a request; the requests that were queued, and those an IO  *)
(* thread is about to queue, are requests that parsed.                     *)
(***************************************************************************)
BusyLabels == {"add", "adding", "find", "erase", "erasing", "check", "link",
               "count", "return", "run", "popped"}

Parsed(r) == kind[r] \in Kinds \ {"garbled"}

Holding == \A t \in Posters : pc[t] \in BusyLabels => cur[t] \in Requests

ReadersParsed ==
  \A t \in IOThreads :
    event[t] \in {"Deserialized", "Dispatched"} =>
      cur[t] \in Requests /\ Parsed(cur[t])

QueuedParsed == \A i \in DOMAIN reqQ : Parsed(reqQ[i])

DispatchedParsed == pc[Dispatcher] \in BusyLabels => Parsed(cur[Dispatcher])

WorkOK == Holding /\ ReadersParsed /\ QueuedParsed /\ DispatchedParsed
-----------------------------------------------------------------------------
(* The threads are distinct, and the tables of events answer with a        *)
(* status, an error code, a label.                                         *)

LEMMA ThreadFacts ==
  /\ Posters \subseteq Threads
  /\ IOThreads \subseteq Posters /\ Workers \subseteq Posters
  /\ Dispatcher \in Posters /\ Responder \in Threads
  /\ Responder \notin Posters
  /\ Dispatcher \notin IOThreads /\ Dispatcher \notin Workers
  /\ IOThreads \cap Workers = {}
  /\ Consumers \subseteq Threads
  /\ Dispatcher \in Consumers /\ Responder \in Consumers
  /\ NoRequest \notin Requests
  BY ThreadsAssumption DEF Posters, Threads, Consumers

LEMMA StatusFacts ==
  /\ {DEFAULTED, SUBMITTED, WAITING, COMMITED, COMPLETED, FAILED} \subseteq Statuses
  /\ \A e : StatusOf(e) \in Statuses
<1>1. {DEFAULTED, SUBMITTED, WAITING, COMMITED, COMPLETED, FAILED} \subseteq Statuses
  BY DEF Statuses, DEFAULTED, SUBMITTED, WAITING, COMMITED, COMPLETED, FAILED
<1>2. ASSUME NEW e PROVE StatusOf(e) \in Statuses
  BY <1>1 DEF StatusOf
<1> QED BY <1>1, <1>2

LEMMA ErrorFacts == \A e : ErrorOf(e) \in Errors
  BY DEF ErrorOf, Errors

LEMMA LabelFacts ==
  /\ BusyLabels \subseteq Labels
  /\ \A e : FirstStep(e) \in BusyLabels /\ AfterUpdate(e) \in {"erase", "check"}
  /\ {"idle", "pushed", "waiting", "stalled"} \subseteq Labels \ BusyLabels
  BY DEF BusyLabels, Labels, FirstStep, AfterUpdate

LEMMA EventFacts ==
  /\ FailureEvents \subseteq Events
  /\ {"Deserialized", "DeserializedFailed", "Dispatched", "DispatchFailed",
      "Commited", "Completed", "ServiceError"} \subseteq Events
  /\ "none" \notin Events
  BY DEF FailureEvents, FinalEvents, Events

LEMMA ServiceEventFacts ==
  \A k \in Kinds \ {"garbled", "callable"} :
    ServiceEvent(k) \in FailureEvents \ {"DispatchFailed"}
  BY DEF Kinds, ServiceEvent, FailureEvents

LEMMA NotifiedFacts ==
  ASSUME ThreadTypes, NEW c \in Consumers, NEW w \in Notified(c)
  PROVE  /\ w \in Labels
         /\ w \in BusyLabels => w = pc[c]
         /\ w = "popped" <=> pc[c] = "popped"
         /\ w # "waiting"
         /\ w = pc[c] \/ (pc[c] \in {"waiting", "stalled"} /\ w \in {"idle", "stalled"})
  BY ThreadFacts, LabelFacts DEF Notified, ThreadTypes, BusyLabels
-----------------------------------------------------------------------------
(* The steps of the handler chain keep TypeOK and WorkOK.                  *)

LEMMA OnDataTypes ==
  ASSUME TypeOK, WorkOK, NEW t \in IOThreads, NEW r \in Requests,
         NEW k \in Inputs[r], OnData(t, r, k)
  PROVE  TypeOK' /\ WorkOK'
<1> USE ThreadFacts DEF OnData, Raise, Goto
<1>0. k \in Kinds
  BY InputsAssumption
<1>1. ThreadTypes'
  BY LabelFacts, EventFacts DEF TypeOK, ThreadTypes
<1>2. PacketTypes'
  BY <1>0, StatusFacts DEF TypeOK, PacketTypes, tableVars
<1>3. QueueTypes' /\ HistoryTypes'
  BY DEF TypeOK, QueueTypes, HistoryTypes, reqVars, respVars, sendVars, historyVars
<1>4. Holding'
  BY DEF TypeOK, ThreadTypes, WorkOK, Holding
<1>5. ReadersParsed'
  BY <1>0 DEF TypeOK, ThreadTypes, PacketTypes, WorkOK, ReadersParsed, Parsed, Kinds
<1>a. ASSUME NEW q \in Requests, Parsed(q)
      PROVE  Parsed(q)'
  <2>1. q # r
    BY <1>a DEF Parsed, Kinds
  <2>2. kind'[q] = kind[q]
    BY <2>1 DEF TypeOK, PacketTypes
  <2> QED BY <1>a, <2>2 DEF Parsed
<1>6. QueuedParsed'
  <2>1. reqQ' = reqQ /\ \A i \in DOMAIN reqQ : reqQ[i] \in Requests
    BY DEF TypeOK, QueueTypes, reqVars
  <2> QED BY <1>a, <2>1 DEF WorkOK, QueuedParsed
<1>7. DispatchedParsed'
  <2>1. pc'[Dispatcher] = pc[Dispatcher] /\ cur'[Dispatcher] = cur[Dispatcher]
    BY DEF TypeOK, ThreadTypes
  <2> QED BY <1>a, <2>1 DEF WorkOK, Holding, DispatchedParsed
<1> QED BY <1>1, <1>2, <1>3, <1>4, <1>5, <1>6, <1>7 DEF TypeOK, WorkOK
LEMMA ChainTypes ==
  ASSUME TypeOK, WorkOK, NEW t \in Posters, ChainStep(t)
  PROVE  TypeOK' /\ WorkOK'
<1> USE ThreadFacts
<1>1. CASE LockTable(t)
  <2> USE <1>1 DEF LockTable, Goto, workVars, packetVars, reqVars, respVars, sendVars, historyVars
  <2>1. cur[t] \in Requests
    BY DEF WorkOK, Holding, BusyLabels
  <2>3. ThreadTypes'
    BY <2>1, LabelFacts, EventFacts DEF TypeOK, ThreadTypes, BusyLabels
  <2>4. PacketTypes'
    BY <2>1, StatusFacts DEF TypeOK, PacketTypes
  <2>5. QueueTypes' /\ HistoryTypes'
    BY <2>1 DEF TypeOK, QueueTypes, HistoryTypes
  <2>6. \A q : Parsed(q)' <=> Parsed(q)
    BY DEF Parsed
  <2>7. Holding' /\ ReadersParsed'
    BY <2>1, <2>6, LabelFacts DEF TypeOK, ThreadTypes, WorkOK, Holding, ReadersParsed, BusyLabels
  <2>8. QueuedParsed' /\ DispatchedParsed'
    BY <2>1, <2>6, LabelFacts DEF TypeOK, ThreadTypes, QueueTypes, WorkOK, QueuedParsed, DispatchedParsed, BusyLabels
  <2> QED BY <2>3, <2>4, <2>5, <2>7, <2>8 DEF TypeOK, WorkOK
<1>2. CASE AddRequest(t)
  <2> USE <1>2 DEF AddRequest, Goto, workVars, packetVars, reqVars, respVars, sendVars, historyVars
  <2>1. cur[t] \in Requests
    BY DEF WorkOK, Holding, BusyLabels
  <2>3. ThreadTypes'
    BY <2>1, LabelFacts, EventFacts DEF TypeOK, ThreadTypes, BusyLabels
  <2>4. PacketTypes'
    BY <2>1, StatusFacts DEF TypeOK, PacketTypes
  <2>5. QueueTypes' /\ HistoryTypes'
    BY <2>1 DEF TypeOK, QueueTypes, HistoryTypes
  <2>6. \A q : Parsed(q)' <=> Parsed(q)
    BY DEF Parsed
  <2>7. Holding' /\ ReadersParsed'
    BY <2>1, <2>6, LabelFacts DEF TypeOK, ThreadTypes, WorkOK, Holding, ReadersParsed, BusyLabels
  <2>8. QueuedParsed' /\ DispatchedParsed'
    BY <2>1, <2>6, LabelFacts DEF TypeOK, ThreadTypes, QueueTypes, WorkOK, QueuedParsed, DispatchedParsed, BusyLabels
  <2> QED BY <2>3, <2>4, <2>5, <2>7, <2>8 DEF TypeOK, WorkOK
<1>3. CASE RemoveRequest(t)
  <2> USE <1>3 DEF RemoveRequest, Goto, workVars, packetVars, reqVars, respVars, sendVars, historyVars
  <2>1. cur[t] \in Requests
    BY DEF WorkOK, Holding, BusyLabels
  <2>3. ThreadTypes'
    BY <2>1, LabelFacts, EventFacts DEF TypeOK, ThreadTypes, BusyLabels
  <2>4. PacketTypes'
    BY <2>1, StatusFacts DEF TypeOK, PacketTypes
  <2>5. QueueTypes' /\ HistoryTypes'
    BY <2>1 DEF TypeOK, QueueTypes, HistoryTypes
  <2>6. \A q : Parsed(q)' <=> Parsed(q)
    BY DEF Parsed
  <2>7. Holding' /\ ReadersParsed'
    BY <2>1, <2>6, LabelFacts DEF TypeOK, ThreadTypes, WorkOK, Holding, ReadersParsed, BusyLabels
  <2>8. QueuedParsed' /\ DispatchedParsed'
    BY <2>1, <2>6, LabelFacts DEF TypeOK, ThreadTypes, QueueTypes, WorkOK, QueuedParsed, DispatchedParsed, BusyLabels
  <2> QED BY <2>3, <2>4, <2>5, <2>7, <2>8 DEF TypeOK, WorkOK
<1>4. CASE UpdateRequestStatus(t)
  <2> USE <1>4 DEF UpdateRequestStatus, Goto, workVars, tableVars, reqVars, respVars, sendVars, historyVars
  <2>1. cur[t] \in Requests
    BY DEF WorkOK, Holding, BusyLabels
  <2>3. ThreadTypes'
    BY <2>1, LabelFacts, EventFacts DEF TypeOK, ThreadTypes, BusyLabels
  <2>4. PacketTypes'
    BY <2>1, StatusFacts DEF TypeOK, PacketTypes
  <2>5. QueueTypes' /\ HistoryTypes'
    BY <2>1 DEF TypeOK, QueueTypes, HistoryTypes
  <2>6. \A q : Parsed(q)' <=> Parsed(q)
    BY DEF Parsed
  <2>7. Holding' /\ ReadersParsed'
    BY <2>1, <2>6, LabelFacts DEF TypeOK, ThreadTypes, WorkOK, Holding, ReadersParsed, BusyLabels
  <2>8. QueuedParsed' /\ DispatchedParsed'
    BY <2>1, <2>6, LabelFacts DEF TypeOK, ThreadTypes, QueueTypes, WorkOK, QueuedParsed, DispatchedParsed, BusyLabels
  <2> QED BY <2>3, <2>4, <2>5, <2>7, <2>8 DEF TypeOK, WorkOK
<1>5. CASE MissRequest(t)
  <2> USE <1>5 DEF MissRequest, Goto, workVars, packetVars, tableVars, reqVars, respVars, sendVars
  <2>1. cur[t] \in Requests
    BY DEF WorkOK, Holding, BusyLabels
  <2>3. ThreadTypes'
    BY <2>1, LabelFacts, EventFacts DEF TypeOK, ThreadTypes, BusyLabels
  <2>4. PacketTypes'
    BY <2>1, StatusFacts DEF TypeOK, PacketTypes
  <2>5. QueueTypes' /\ HistoryTypes'
    BY <2>1 DEF TypeOK, QueueTypes, HistoryTypes
  <2>6. \A q : Parsed(q)' <=> Parsed(q)
    BY DEF Parsed
  <2>7. Holding' /\ ReadersParsed'
    BY <2>1, <2>6, LabelFacts DEF TypeOK, ThreadTypes, WorkOK, Holding, ReadersParsed, BusyLabels
  <2>8. QueuedParsed' /\ DispatchedParsed'
    BY <2>1, <2>6, LabelFacts DEF TypeOK, ThreadTypes, QueueTypes, WorkOK, QueuedParsed, DispatchedParsed, BusyLabels
  <2> QED BY <2>3, <2>4, <2>5, <2>7, <2>8 DEF TypeOK, WorkOK
<1>6. CASE CheckResponseRoom(t)
  <2> USE <1>6 DEF CheckResponseRoom, Goto, workVars, packetVars, tableVars, reqVars, respVars, sendVars
  <2>1. cur[t] \in Requests
    BY DEF WorkOK, Holding, BusyLabels
  <2>3. ThreadTypes'
    BY <2>1, LabelFacts, EventFacts DEF TypeOK, ThreadTypes, BusyLabels
  <2>4. PacketTypes'
    BY <2>1, StatusFacts DEF TypeOK, PacketTypes
  <2>5. QueueTypes' /\ HistoryTypes'
    BY <2>1 DEF TypeOK, QueueTypes, HistoryTypes
  <2>6. \A q : Parsed(q)' <=> Parsed(q)
    BY DEF Parsed
  <2>7. Holding' /\ ReadersParsed'
    BY <2>1, <2>6, LabelFacts DEF TypeOK, ThreadTypes, WorkOK, Holding, ReadersParsed, BusyLabels
  <2>8. QueuedParsed' /\ DispatchedParsed'
    BY <2>1, <2>6, LabelFacts DEF TypeOK, ThreadTypes, QueueTypes, WorkOK, QueuedParsed, DispatchedParsed, BusyLabels
  <2> QED BY <2>3, <2>4, <2>5, <2>7, <2>8 DEF TypeOK, WorkOK
<1>7. CASE LinkResponse(t)
  <2> USE <1>7 DEF LinkResponse, Goto, workVars, packetVars, tableVars, reqVars, sendVars, historyVars
  <2>1. cur[t] \in Requests
    BY DEF WorkOK, Holding, BusyLabels
  <2>2. CreateResponse(t) \in Response
    BY <2>1, ErrorFacts DEF CreateResponse, Response, TypeOK, PacketTypes
  <2>3. ThreadTypes'
    BY <2>1, LabelFacts, EventFacts DEF TypeOK, ThreadTypes, BusyLabels
  <2>4. PacketTypes'
    BY <2>1, StatusFacts DEF TypeOK, PacketTypes
  <2>5. QueueTypes' /\ HistoryTypes'
    BY <2>1, <2>2 DEF TypeOK, QueueTypes, HistoryTypes
  <2>6. \A q : Parsed(q)' <=> Parsed(q)
    BY DEF Parsed
  <2>7. Holding' /\ ReadersParsed'
    BY <2>1, <2>6, LabelFacts DEF TypeOK, ThreadTypes, WorkOK, Holding, ReadersParsed, BusyLabels
  <2>8. QueuedParsed' /\ DispatchedParsed'
    BY <2>1, <2>6, LabelFacts DEF TypeOK, ThreadTypes, QueueTypes, WorkOK, QueuedParsed, DispatchedParsed, BusyLabels
  <2> QED BY <2>3, <2>4, <2>5, <2>7, <2>8 DEF TypeOK, WorkOK
<1>8. CASE CountResponse(t)
  <2> USE <1>8 DEF CountResponse, workVars, packetVars, tableVars, reqVars, sendVars, historyVars
  <2>1. cur[t] \in Requests
    BY DEF WorkOK, Holding, BusyLabels
  <2>3. ThreadTypes'
    BY <2>1, LabelFacts, EventFacts, NotifiedFacts DEF TypeOK, ThreadTypes, BusyLabels
  <2>4. PacketTypes'
    BY <2>1, StatusFacts DEF TypeOK, PacketTypes
  <2>5. QueueTypes' /\ HistoryTypes'
    BY <2>1 DEF TypeOK, QueueTypes, HistoryTypes
  <2>6. \A q : Parsed(q)' <=> Parsed(q)
    BY DEF Parsed
  <2>7. Holding' /\ ReadersParsed'
    BY <2>1, <2>6, LabelFacts, NotifiedFacts DEF TypeOK, ThreadTypes, WorkOK, Holding, ReadersParsed, BusyLabels
  <2>8. QueuedParsed' /\ DispatchedParsed'
    BY <2>1, <2>6, LabelFacts, NotifiedFacts DEF TypeOK, ThreadTypes, QueueTypes, WorkOK, QueuedParsed, DispatchedParsed, BusyLabels
  <2> QED BY <2>3, <2>4, <2>5, <2>7, <2>8 DEF TypeOK, WorkOK
<1>9. CASE Finish(t)
  <2> USE <1>9 DEF Finish, LetGo, Goto, packetVars, tableVars, reqVars, respVars, sendVars, historyVars
  <2>1. cur[t] \in Requests
    BY DEF WorkOK, Holding, BusyLabels
  <2>3. ThreadTypes'
    BY <2>1, LabelFacts, EventFacts DEF TypeOK, ThreadTypes, BusyLabels
  <2>4. PacketTypes'
    BY <2>1, StatusFacts DEF TypeOK, PacketTypes
  <2>5. QueueTypes' /\ HistoryTypes'
    BY <2>1 DEF TypeOK, QueueTypes, HistoryTypes
  <2>6. \A q : Parsed(q)' <=> Parsed(q)
    BY DEF Parsed
  <2>7. Holding' /\ ReadersParsed'
    BY <2>1, <2>6, LabelFacts DEF TypeOK, ThreadTypes, WorkOK, Holding, ReadersParsed, BusyLabels
  <2>8. QueuedParsed' /\ DispatchedParsed'
    BY <2>1, <2>6, LabelFacts DEF TypeOK, ThreadTypes, QueueTypes, WorkOK, QueuedParsed, DispatchedParsed, BusyLabels
  <2> QED BY <2>3, <2>4, <2>5, <2>7, <2>8 DEF TypeOK, WorkOK
<1> QED BY <1>1, <1>2, <1>3, <1>4, <1>5, <1>6, <1>7, <1>8, <1>9 DEF ChainStep

(* So do the other steps of each thread.                                    *)

LEMMA IOTypes ==
  ASSUME TypeOK, WorkOK, NEW t \in IOThreads, IOStep(t), ~ChainStep(t)
  PROVE  TypeOK' /\ WorkOK'
<1> USE ThreadFacts
<1>1. CASE PostRequestToQueue(t)
  <2> USE <1>1 DEF PostRequestToQueue, Raise, Goto, packetVars, tableVars, reqVars, respVars, sendVars, historyVars
  <2>1. cur[t] \in Requests
    BY DEF WorkOK, Holding, BusyLabels
  <2>3. ThreadTypes'
    BY <2>1, LabelFacts, EventFacts DEF TypeOK, ThreadTypes, BusyLabels
  <2>4. PacketTypes'
    BY <2>1, StatusFacts DEF TypeOK, PacketTypes
  <2>5. QueueTypes' /\ HistoryTypes'
    BY <2>1 DEF TypeOK, QueueTypes, HistoryTypes
  <2>6. \A q : Parsed(q)' <=> Parsed(q)
    BY DEF Parsed
  <2>7. Holding' /\ ReadersParsed'
    BY <2>1, <2>6, LabelFacts DEF TypeOK, ThreadTypes, WorkOK, Holding, ReadersParsed, BusyLabels
  <2>8. QueuedParsed' /\ DispatchedParsed'
    BY <2>1, <2>6, LabelFacts DEF TypeOK, ThreadTypes, QueueTypes, WorkOK, QueuedParsed, DispatchedParsed, BusyLabels
  <2> QED BY <2>3, <2>4, <2>5, <2>7, <2>8 DEF TypeOK, WorkOK
<1>2. CASE LinkRequest(t)
  <2> USE <1>2 DEF LinkRequest, LetGo, Goto, packetVars, tableVars, respVars, sendVars, historyVars
  <2>1. cur[t] \in Requests
    BY DEF WorkOK, Holding, BusyLabels
  <2>3. ThreadTypes'
    BY <2>1, LabelFacts, EventFacts DEF TypeOK, ThreadTypes, BusyLabels
  <2>4. PacketTypes'
    BY <2>1, StatusFacts DEF TypeOK, PacketTypes
  <2>5. QueueTypes' /\ HistoryTypes'
    BY <2>1 DEF TypeOK, QueueTypes, HistoryTypes
  <2>6. \A q : Parsed(q)' <=> Parsed(q)
    BY DEF Parsed
  <2>7. Holding' /\ ReadersParsed'
    BY <2>1, <2>6, LabelFacts DEF TypeOK, ThreadTypes, WorkOK, Holding, ReadersParsed, BusyLabels
  <2>8. QueuedParsed'
    <3>1. Parsed(cur[t])
      BY DEF WorkOK, ReadersParsed
    <3>2. \A i \in DOMAIN reqQ' :
            reqQ'[i] = cur[t] \/ (i \in DOMAIN reqQ /\ reqQ'[i] = reqQ[i])
      BY <2>1 DEF TypeOK, QueueTypes
    <3> QED BY <2>6, <3>1, <3>2 DEF WorkOK, QueuedParsed
  <2>9. DispatchedParsed'
    BY <2>6, LabelFacts DEF TypeOK, ThreadTypes, WorkOK, DispatchedParsed, BusyLabels
  <2> QED BY <2>3, <2>4, <2>5, <2>7, <2>8, <2>9 DEF TypeOK, WorkOK
<1>3. CASE CountRequest(t)
  <2> USE <1>3 DEF CountRequest, workVars, packetVars, tableVars, respVars, sendVars, historyVars
  <2>3. ThreadTypes'
    BY LabelFacts, EventFacts, NotifiedFacts DEF TypeOK, ThreadTypes, BusyLabels
  <2>4. PacketTypes'
    BY StatusFacts DEF TypeOK, PacketTypes
  <2>5. QueueTypes' /\ HistoryTypes'
    BY DEF TypeOK, QueueTypes, HistoryTypes
  <2>6. \A q : Parsed(q)' <=> Parsed(q)
    BY DEF Parsed
  <2>7. Holding' /\ ReadersParsed'
    BY <2>6, LabelFacts, NotifiedFacts DEF TypeOK, ThreadTypes, WorkOK, Holding, ReadersParsed, BusyLabels
  <2>8. QueuedParsed' /\ DispatchedParsed'
    BY <2>6, LabelFacts, NotifiedFacts DEF TypeOK, ThreadTypes, QueueTypes, WorkOK, QueuedParsed, DispatchedParsed, BusyLabels
  <2> QED BY <2>3, <2>4, <2>5, <2>7, <2>8 DEF TypeOK, WorkOK
<1> QED BY <1>1, <1>2, <1>3 DEF IOStep

LEMMA WaitTypes ==
  ASSUME TypeOK, WorkOK, NEW c \in Consumers, Wait(c) \/ SpuriousWakeup(c)
  PROVE  TypeOK' /\ WorkOK'
<1> USE ThreadFacts
<1>1. CASE Wait(c)
  <2> USE <1>1 DEF Wait, Goto, workVars, packetVars, tableVars, reqVars, respVars, sendVars, historyVars
  <2>3. ThreadTypes'
    BY LabelFacts, EventFacts DEF TypeOK, ThreadTypes, BusyLabels
  <2>4. PacketTypes'
    BY StatusFacts DEF TypeOK, PacketTypes
  <2>5. QueueTypes' /\ HistoryTypes'
    BY DEF TypeOK, QueueTypes, HistoryTypes
  <2>6. \A q : Parsed(q)' <=> Parsed(q)
    BY DEF Parsed
  <2>7. Holding' /\ ReadersParsed'
    BY <2>6, LabelFacts DEF TypeOK, ThreadTypes, WorkOK, Holding, ReadersParsed, BusyLabels
  <2>8. QueuedParsed' /\ DispatchedParsed'
    BY <2>6, LabelFacts DEF TypeOK, ThreadTypes, QueueTypes, WorkOK, QueuedParsed, DispatchedParsed, BusyLabels
  <2> QED BY <2>3, <2>4, <2>5, <2>7, <2>8 DEF TypeOK, WorkOK
<1>2. CASE SpuriousWakeup(c)
  <2> USE <1>2 DEF SpuriousWakeup, Goto, workVars, packetVars, tableVars, reqVars, respVars, sendVars, historyVars
  <2>3. ThreadTypes'
    BY LabelFacts, EventFacts DEF TypeOK, ThreadTypes, BusyLabels
  <2>4. PacketTypes'
    BY StatusFacts DEF TypeOK, PacketTypes
  <2>5. QueueTypes' /\ HistoryTypes'
    BY DEF TypeOK, QueueTypes, HistoryTypes
  <2>6. \A q : Parsed(q)' <=> Parsed(q)
    BY DEF Parsed
  <2>7. Holding' /\ ReadersParsed'
    BY <2>6, LabelFacts DEF TypeOK, ThreadTypes, WorkOK, Holding, ReadersParsed, BusyLabels
  <2>8. QueuedParsed' /\ DispatchedParsed'
    BY <2>6, LabelFacts DEF TypeOK, ThreadTypes, QueueTypes, WorkOK, QueuedParsed, DispatchedParsed, BusyLabels
  <2> QED BY <2>3, <2>4, <2>5, <2>7, <2>8 DEF TypeOK, WorkOK
<1> QED BY <1>1, <1>2

LEMMA DispatcherTypes ==
  ASSUME TypeOK, WorkOK, PopRequest \/ DispatchRequest \/ RefuseRequest \/ CommitTask
  PROVE  TypeOK' /\ WorkOK'
<1> USE ThreadFacts
<1>1. CASE PopRequest
  <2> USE <1>1 DEF PopRequest, Goto, packetVars, tableVars, respVars, sendVars, historyVars
  <2>1. /\ Head(reqQ) \in Requests /\ Tail(reqQ) \in Seq(Requests)
        /\ 1 \in DOMAIN reqQ /\ Head(reqQ) = reqQ[1]
        /\ \A i \in DOMAIN Tail(reqQ) :
             i + 1 \in DOMAIN reqQ /\ Tail(reqQ)[i] = reqQ[i + 1]
    BY DEF TypeOK, QueueTypes
  <2>3. ThreadTypes'
    BY <2>1, LabelFacts, EventFacts DEF TypeOK, ThreadTypes, BusyLabels
  <2>4. PacketTypes'
    BY StatusFacts DEF TypeOK, PacketTypes
  <2>5. QueueTypes' /\ HistoryTypes'
    BY DEF TypeOK, QueueTypes, HistoryTypes
  <2>6. \A q : Parsed(q)' <=> Parsed(q)
    BY DEF Parsed
  <2>7. Holding' /\ ReadersParsed'
    BY <2>1, <2>6, LabelFacts DEF TypeOK, ThreadTypes, WorkOK, Holding, ReadersParsed, BusyLabels
  <2>8. QueuedParsed' /\ DispatchedParsed'
    BY <2>1, <2>6, LabelFacts DEF TypeOK, ThreadTypes, QueueTypes, WorkOK, QueuedParsed, DispatchedParsed, BusyLabels
  <2> QED BY <2>3, <2>4, <2>5, <2>7, <2>8 DEF TypeOK, WorkOK
<1>2. CASE DispatchRequest
  <2> USE <1>2 DEF DispatchRequest, Raise, Goto, packetVars, tableVars, respVars, sendVars, historyVars
  <2>1. cur[Dispatcher] \in Requests
    BY DEF WorkOK, Holding, BusyLabels
  <2>3. ThreadTypes'
    BY <2>1, LabelFacts, EventFacts DEF TypeOK, ThreadTypes, BusyLabels
  <2>4. PacketTypes'
    BY <2>1, StatusFacts DEF TypeOK, PacketTypes
  <2>5. QueueTypes' /\ HistoryTypes'
    BY <2>1 DEF TypeOK, QueueTypes, HistoryTypes
  <2>6. \A q : Parsed(q)' <=> Parsed(q)
    BY DEF Parsed
  <2>7. Holding' /\ ReadersParsed'
    BY <2>1, <2>6, LabelFacts DEF TypeOK, ThreadTypes, WorkOK, Holding, ReadersParsed, BusyLabels
  <2>8. QueuedParsed' /\ DispatchedParsed'
    BY <2>1, <2>6, LabelFacts DEF TypeOK, ThreadTypes, QueueTypes, WorkOK, QueuedParsed, DispatchedParsed, BusyLabels
  <2> QED BY <2>3, <2>4, <2>5, <2>7, <2>8 DEF TypeOK, WorkOK
<1>3. CASE RefuseRequest
  <2> USE <1>3 DEF RefuseRequest, Raise, Goto, packetVars, tableVars, reqVars, respVars, sendVars, historyVars
  <2>1. cur[Dispatcher] \in Requests
    BY DEF WorkOK, Holding, BusyLabels
  <2>2. ServiceEvent(kind[cur[Dispatcher]]) \in Events
    BY <2>1, ServiceEventFacts, EventFacts
    DEF WorkOK, DispatchedParsed, Parsed, BusyLabels
  <2>3. ThreadTypes'
    BY <2>1, <2>2, LabelFacts, EventFacts DEF TypeOK, ThreadTypes, BusyLabels
  <2>4. PacketTypes'
    BY <2>1, StatusFacts DEF TypeOK, PacketTypes
  <2>5. QueueTypes' /\ HistoryTypes'
    BY <2>1 DEF TypeOK, QueueTypes, HistoryTypes
  <2>6. \A q : Parsed(q)' <=> Parsed(q)
    BY DEF Parsed
  <2>7. Holding' /\ ReadersParsed'
    BY <2>1, <2>6, LabelFacts DEF TypeOK, ThreadTypes, WorkOK, Holding, ReadersParsed, BusyLabels
  <2>8. QueuedParsed' /\ DispatchedParsed'
    BY <2>1, <2>6, LabelFacts DEF TypeOK, ThreadTypes, QueueTypes, WorkOK, QueuedParsed, DispatchedParsed, BusyLabels
  <2> QED BY <2>3, <2>4, <2>5, <2>7, <2>8 DEF TypeOK, WorkOK
<1>4. CASE CommitTask
  <2> USE <1>4 DEF CommitTask, LetGo, Goto, packetVars, tableVars, reqVars, respVars, sendVars, historyVars
  <2>1. cur[Dispatcher] \in Requests
    BY DEF WorkOK, Holding, BusyLabels
  <2>3. ThreadTypes'
    BY <2>1, LabelFacts, EventFacts DEF TypeOK, ThreadTypes, BusyLabels
  <2>4. PacketTypes'
    BY <2>1, StatusFacts DEF TypeOK, PacketTypes
  <2>5. QueueTypes' /\ HistoryTypes'
    BY <2>1 DEF TypeOK, QueueTypes, HistoryTypes
  <2>6. \A q : Parsed(q)' <=> Parsed(q)
    BY DEF Parsed
  <2>7. Holding' /\ ReadersParsed'
    BY <2>1, <2>6, LabelFacts DEF TypeOK, ThreadTypes, WorkOK, Holding, ReadersParsed, BusyLabels
  <2>8. QueuedParsed' /\ DispatchedParsed'
    BY <2>1, <2>6, LabelFacts DEF TypeOK, ThreadTypes, QueueTypes, WorkOK, QueuedParsed, DispatchedParsed, BusyLabels
  <2> QED BY <2>3, <2>4, <2>5, <2>7, <2>8 DEF TypeOK, WorkOK
<1> QED BY <1>1, <1>2, <1>3, <1>4

LEMMA WorkerTypes ==
  ASSUME TypeOK, WorkOK, NEW t \in Workers, TakeTask(t) \/ Execute(t) \/ ExecuteThrowsOther(t)
  PROVE  TypeOK' /\ WorkOK'
<1> USE ThreadFacts
<1>1. CASE TakeTask(t)
  <2> USE <1>1 DEF TakeTask, Goto, packetVars, tableVars, reqVars, respVars, sendVars, historyVars
  <2>1. Head(tasks) \in Requests
    BY DEF TypeOK, QueueTypes
  <2>3. ThreadTypes'
    BY <2>1, LabelFacts, EventFacts DEF TypeOK, ThreadTypes, BusyLabels
  <2>4. PacketTypes'
    BY StatusFacts DEF TypeOK, PacketTypes
  <2>5. QueueTypes' /\ HistoryTypes'
    BY DEF TypeOK, QueueTypes, HistoryTypes
  <2>6. \A q : Parsed(q)' <=> Parsed(q)
    BY DEF Parsed
  <2>7. Holding' /\ ReadersParsed'
    BY <2>1, <2>6, LabelFacts DEF TypeOK, ThreadTypes, WorkOK, Holding, ReadersParsed, BusyLabels
  <2>8. QueuedParsed' /\ DispatchedParsed'
    BY <2>6, LabelFacts DEF TypeOK, ThreadTypes, QueueTypes, WorkOK, QueuedParsed, DispatchedParsed, BusyLabels
  <2> QED BY <2>3, <2>4, <2>5, <2>7, <2>8 DEF TypeOK, WorkOK
<1>2. CASE Execute(t)
  <2> USE <1>2 DEF Execute, Raise, Goto, packetVars, tableVars, reqVars, respVars, sendVars, historyVars
  <2>1. cur[t] \in Requests
    BY DEF WorkOK, Holding, BusyLabels
  <2>3. ThreadTypes'
    BY <2>1, LabelFacts, EventFacts DEF TypeOK, ThreadTypes, BusyLabels
  <2>4. PacketTypes'
    BY <2>1, StatusFacts DEF TypeOK, PacketTypes
  <2>5. QueueTypes' /\ HistoryTypes'
    BY <2>1 DEF TypeOK, QueueTypes, HistoryTypes
  <2>6. \A q : Parsed(q)' <=> Parsed(q)
    BY DEF Parsed
  <2>7. Holding' /\ ReadersParsed'
    BY <2>1, <2>6, LabelFacts DEF TypeOK, ThreadTypes, WorkOK, Holding, ReadersParsed, BusyLabels
  <2>8. QueuedParsed' /\ DispatchedParsed'
    BY <2>1, <2>6, LabelFacts DEF TypeOK, ThreadTypes, QueueTypes, WorkOK, QueuedParsed, DispatchedParsed, BusyLabels
  <2> QED BY <2>3, <2>4, <2>5, <2>7, <2>8 DEF TypeOK, WorkOK
<1>3. CASE ExecuteThrowsOther(t)
  <2> USE <1>3 DEF ExecuteThrowsOther, LetGo, Goto, packetVars, tableVars, reqVars, respVars, sendVars
  <2>1. cur[t] \in Requests
    BY DEF WorkOK, Holding, BusyLabels
  <2>3. ThreadTypes'
    BY <2>1, LabelFacts, EventFacts DEF TypeOK, ThreadTypes, BusyLabels
  <2>4. PacketTypes'
    BY <2>1, StatusFacts DEF TypeOK, PacketTypes
  <2>5. QueueTypes' /\ HistoryTypes'
    BY <2>1 DEF TypeOK, QueueTypes, HistoryTypes
  <2>6. \A q : Parsed(q)' <=> Parsed(q)
    BY DEF Parsed
  <2>7. Holding' /\ ReadersParsed'
    BY <2>1, <2>6, LabelFacts DEF TypeOK, ThreadTypes, WorkOK, Holding, ReadersParsed, BusyLabels
  <2>8. QueuedParsed' /\ DispatchedParsed'
    BY <2>1, <2>6, LabelFacts DEF TypeOK, ThreadTypes, QueueTypes, WorkOK, QueuedParsed, DispatchedParsed, BusyLabels
  <2> QED BY <2>3, <2>4, <2>5, <2>7, <2>8 DEF TypeOK, WorkOK
<1> QED BY <1>1, <1>2, <1>3

LEMMA ResponderTypes ==
  ASSUME TypeOK, WorkOK, PopResponse \/ Send
  PROVE  TypeOK' /\ WorkOK'
<1> USE ThreadFacts
<1>1. CASE PopResponse
  <2> USE <1>1 DEF PopResponse, Goto, workVars, packetVars, tableVars, reqVars, historyVars
  <2>3. ThreadTypes'
    BY LabelFacts, EventFacts DEF TypeOK, ThreadTypes, BusyLabels
  <2>4. PacketTypes'
    BY StatusFacts DEF TypeOK, PacketTypes
  <2>5. QueueTypes' /\ HistoryTypes'
    BY DEF TypeOK, QueueTypes, HistoryTypes
  <2>6. \A q : Parsed(q)' <=> Parsed(q)
    BY DEF Parsed
  <2>7. Holding' /\ ReadersParsed'
    BY <2>6, LabelFacts DEF TypeOK, ThreadTypes, WorkOK, Holding, ReadersParsed, BusyLabels
  <2>8. QueuedParsed' /\ DispatchedParsed'
    BY <2>6, LabelFacts DEF TypeOK, ThreadTypes, QueueTypes, WorkOK, QueuedParsed, DispatchedParsed, BusyLabels
  <2> QED BY <2>3, <2>4, <2>5, <2>7, <2>8 DEF TypeOK, WorkOK
<1>2. CASE Send
  <2> USE <1>2 DEF Send, Goto, workVars, packetVars, tableVars, reqVars, historyVars
  <2>3. ThreadTypes'
    BY LabelFacts, EventFacts DEF TypeOK, ThreadTypes, BusyLabels
  <2>4. PacketTypes'
    BY StatusFacts DEF TypeOK, PacketTypes
  <2>5. QueueTypes' /\ HistoryTypes'
    <3>1. PICK m \in sending :
            last' = [last EXCEPT ![m.req] = [status |-> m.status, error |-> m.error]]
      OBVIOUS
    <3>2. [status |-> m.status, error |-> m.error] \in [status : Statuses, error : Errors]
      BY <3>1 DEF TypeOK, HistoryTypes, Response
    <3>3. last' \in [Requests -> [status : Statuses, error : Errors]]
      BY <3>1, <3>2 DEF TypeOK, HistoryTypes
    <3> QED BY <3>3 DEF TypeOK, QueueTypes, HistoryTypes
  <2>6. \A q : Parsed(q)' <=> Parsed(q)
    BY DEF Parsed
  <2>7. Holding' /\ ReadersParsed'
    BY <2>6, LabelFacts DEF TypeOK, ThreadTypes, WorkOK, Holding, ReadersParsed, BusyLabels
  <2>8. QueuedParsed' /\ DispatchedParsed'
    BY <2>6, LabelFacts DEF TypeOK, ThreadTypes, QueueTypes, WorkOK, QueuedParsed, DispatchedParsed, BusyLabels
  <2> QED BY <2>3, <2>4, <2>5, <2>7, <2>8 DEF TypeOK, WorkOK
<1> QED BY <1>1, <1>2

-----------------------------------------------------------------------------
(* A step that changes nothing, and every step there is. *)

LEMMA StutterTypes ==
  ASSUME TypeOK, WorkOK, UNCHANGED vars
  PROVE  TypeOK' /\ WorkOK'
<1> USE DEF vars, workVars, packetVars, tableVars, reqVars, respVars, sendVars,
            historyVars
<1>1. TypeOK'
  BY DEF TypeOK, ThreadTypes, PacketTypes, QueueTypes, HistoryTypes
<1>2. \A q : Parsed(q)' <=> Parsed(q)
  BY DEF Parsed
<1>3. WorkOK'
  BY <1>2 DEF WorkOK, Holding, ReadersParsed, QueuedParsed, DispatchedParsed
<1> QED BY <1>1, <1>3

LEMMA InitTypes == Init => TypeOK /\ WorkOK
<1> SUFFICES ASSUME Init PROVE TypeOK /\ WorkOK
  OBVIOUS
<1> USE ThreadFacts DEF Init
<1>1. TypeOK
  <2>1. ThreadTypes
    BY LabelFacts DEF ThreadTypes
  <2>2. PacketTypes
    BY StatusFacts DEF PacketTypes
  <2>3. QueueTypes
    BY DEF QueueTypes
  <2>4. HistoryTypes
    BY StatusFacts DEF HistoryTypes, NoResponse, Errors
  <2> QED BY <2>1, <2>2, <2>3, <2>4 DEF TypeOK
<1>2. WorkOK
  BY DEF WorkOK, Holding, ReadersParsed, QueuedParsed, DispatchedParsed, BusyLabels
<1> QED BY <1>1, <1>2

LEMMA NextTypes ==
  ASSUME TypeOK, WorkOK, [Next]_vars
  PROVE  TypeOK' /\ WorkOK'
<1>1. CASE \E t \in IOThreads, r \in Requests : \E k \in Inputs[r] : OnData(t, r, k)
  BY <1>1, OnDataTypes
<1>2. CASE \E t \in IOThreads : IOStep(t)
  BY <1>2, ThreadFacts, ChainTypes, IOTypes
<1>3. CASE DispatcherStep
  BY <1>3, ThreadFacts, ChainTypes, DispatcherTypes DEF DispatcherStep
<1>4. CASE \E w \in Workers : WorkerStep(w)
  BY <1>4, ThreadFacts, ChainTypes, WorkerTypes DEF WorkerStep
<1>5. CASE ResponderStep
  BY <1>5, ThreadFacts, ResponderTypes DEF ResponderStep
<1>6. CASE \E c \in Consumers : Wait(c) \/ SpuriousWakeup(c)
  BY <1>6, WaitTypes
<1>7. CASE UNCHANGED vars
  BY <1>7, StutterTypes
<1> QED BY <1>1, <1>2, <1>3, <1>4, <1>5, <1>6, <1>7 DEF Next, Progress

(***************************************************************************)
(* Type correctness: no thread runs a handler without a request, and every *)
(* event that can be raised has a status and an error code.                *)
(***************************************************************************)
THEOREM TypeCorrect == Spec => [](TypeOK /\ WorkOK)
<1>1. Init => TypeOK /\ WorkOK
  BY InitTypes
<1>2. TypeOK /\ WorkOK /\ [Next]_vars => TypeOK' /\ WorkOK'
  BY NextTypes
<1> QED BY <1>1, <1>2, PTL DEF Spec
-----------------------------------------------------------------------------
(***************************************************************************)
(* The bound on the request queue is inductive once it speaks of the       *)
(* threads between the test for room and the end of the push: the counter  *)
(* is behind the queue by the threads that linked and did not count, and   *)
(* ahead of it by the dispatcher that popped and did not; and counter plus *)
(* admitted threads stay below the limit plus the number of threads.       *)
(***************************************************************************)
Pushed == {t \in IOThreads : Pushing(t)}

RequestsCounted ==
  reqCount = Len(reqQ) - Cardinality(Pushed) + Popped(Dispatcher)

RequestsAdmitted ==
  reqCount + Cardinality(Admitted) <= MaxRequests + Cardinality(IOThreads) - 1

PushedLetGo == \A t \in IOThreads : Pushing(t) => event[t] = "none"

RequestsWaited ==
  pc[Dispatcher] = "waiting" /\ reqQ # <<>> => \E t \in IOThreads : Pushing(t)

ReqInv == RequestsCounted /\ RequestsAdmitted /\ PushedLetGo /\ RequestsWaited

\* The same for the response queue, which all posters use.
Linking  == {t \in Posters : pc[t] \in {"link", "count"}}
Counting == {t \in Posters : pc[t] = "count"}

ResponsesCounted ==
  respCount = Len(respQ) - Cardinality(Counting) + Popped(Responder)

ResponsesAdmitted ==
  respCount + Cardinality(Linking) <= MaxResponses + Cardinality(Posters) - 1

ResponsesWaited ==
  pc[Responder] = "waiting" /\ respQ # <<>> => \E t \in Posters : pc[t] = "count"

RespInv == ResponsesCounted /\ ResponsesAdmitted /\ ResponsesWaited
-----------------------------------------------------------------------------
LEMMA SubsetSize ==
  ASSUME NEW T, IsFiniteSet(T), NEW S, S \subseteq T
  PROVE  /\ IsFiniteSet(S)
         /\ Cardinality(S) \in Nat /\ Cardinality(T) \in Nat
         /\ Cardinality(S) <= Cardinality(T)
  BY FS_Subset, FS_CardinalityType

LEMMA FiniteThreads == IsFiniteSet(IOThreads) /\ IsFiniteSet(Posters)
<1>1. IsFiniteSet(Workers) /\ IsFiniteSet({Dispatcher})
  BY ThreadsAssumption, FS_Singleton
<1> QED BY <1>1, ThreadsAssumption, FS_Union DEF Posters

LEMMA FiniteParts ==
  /\ IsFiniteSet(Pushed) /\ IsFiniteSet(Admitted)
  /\ IsFiniteSet(Linking) /\ IsFiniteSet(Counting)
  BY FiniteThreads, SubsetSize DEF Pushed, Admitted, Linking, Counting

(* The invariants give the properties. *)
LEMMA BoundFollows ==
  ASSUME TypeOK, ReqInv, RespInv
  PROVE  QueuesBounded /\ WaitIsJustified
<1>1. /\ Cardinality(Pushed) <= Cardinality(Admitted)
      /\ Cardinality(Pushed) \in Nat /\ Cardinality(Admitted) \in Nat
  BY FiniteParts, SubsetSize DEF Pushed, Admitted
<1>2. /\ Cardinality(Counting) <= Cardinality(Linking)
      /\ Cardinality(Counting) \in Nat /\ Cardinality(Linking) \in Nat
  BY FiniteParts, SubsetSize DEF Counting, Linking
<1>3. Cardinality(IOThreads) \in Nat /\ Cardinality(Posters) \in Nat
  BY FiniteThreads, SubsetSize
<1>4. /\ Len(reqQ) \in Nat /\ Len(respQ) \in Nat
      /\ reqCount \in Int /\ respCount \in Int
      /\ Popped(Dispatcher) \in {0, 1} /\ Popped(Responder) \in {0, 1}
  BY DEF TypeOK, QueueTypes, Popped
<1>5. Len(reqQ) <= MaxRequests + Cardinality(IOThreads) - 1
  BY <1>1, <1>3, <1>4, LimitsAssumption
  DEF ReqInv, RequestsCounted, RequestsAdmitted
<1>6. Len(respQ) <= MaxResponses + Cardinality(Posters) - 1
  BY <1>2, <1>3, <1>4, LimitsAssumption
  DEF RespInv, ResponsesCounted, ResponsesAdmitted
<1>7. WaitIsJustified
  BY DEF WaitIsJustified, ReqInv, RequestsWaited, RespInv, ResponsesWaited
<1> QED BY <1>5, <1>6, <1>7 DEF QueuesBounded

(* The handler chains begin and go on with steps away from the queues.     *)
LEMMA StepFacts ==
  \A e : /\ FirstStep(e) \in {"add", "check", "find"}
         /\ AfterUpdate(e) \in {"erase", "check"}
  BY DEF FirstStep, AfterUpdate
-----------------------------------------------------------------------------
(***************************************************************************)
(* Most steps do nothing to the request queue: a poster moves on without   *)
(* being admitted, and nobody counts, pops or waits.                       *)
(***************************************************************************)
QuietForRequests(t) ==
  /\ UNCHANGED reqVars
  /\ pc[t] \notin {"pushed", "popped", "waiting"}
  /\ pc'[t] \notin {"pushed", "popped", "waiting"}
  /\ event'[t] = "Dispatched" => event[t] = "Dispatched"
  /\ \A u \in Posters \ {t} : pc'[u] = pc[u] /\ event'[u] = event[u]

LEMMA QuietKeepsReqInv ==
  ASSUME TypeOK, ReqInv, NEW t \in Posters, QuietForRequests(t)
  PROVE  ReqInv'
<1> USE ThreadFacts DEF QuietForRequests, reqVars
<1>1. Pushed' = Pushed
  BY DEF Pushed, Pushing
<1>2. /\ Cardinality(Admitted') <= Cardinality(Admitted)
      /\ Cardinality(Admitted) \in Nat /\ Cardinality(Admitted') \in Nat
  <2>1. Admitted' \subseteq Admitted
    BY DEF Admitted, Pushing
  <2> QED BY <2>1, FiniteParts, SubsetSize
<1>3. Popped(Dispatcher)' = Popped(Dispatcher)
  BY DEF Popped
<1>4. RequestsCounted'
  BY <1>1, <1>3 DEF ReqInv, RequestsCounted
<1>5. RequestsAdmitted'
  <2>1. Cardinality(IOThreads) \in Nat
    BY FiniteThreads, SubsetSize
  <2> QED BY <1>2, <2>1, LimitsAssumption DEF ReqInv, RequestsAdmitted, TypeOK, QueueTypes
<1>6. PushedLetGo'
  BY DEF ReqInv, PushedLetGo, Pushing
<1>7. RequestsWaited'
  BY DEF ReqInv, RequestsWaited, Pushing
<1> QED BY <1>4, <1>5, <1>6, <1>7 DEF ReqInv

(* The handler chain never touches the request queue.                      *)
LEMMA ChainIsQuiet ==
  ASSUME TypeOK, NEW t \in Posters, ChainStep(t)
  PROVE  QuietForRequests(t)
<1> USE ThreadFacts DEF TypeOK, ThreadTypes, QuietForRequests, Goto, workVars, reqVars
<1>1. CASE LockTable(t)
  BY <1>1 DEF LockTable
<1>2. CASE AddRequest(t)
  BY <1>2 DEF AddRequest
<1>3. CASE RemoveRequest(t)
  BY <1>3 DEF RemoveRequest
<1>4. CASE UpdateRequestStatus(t)
  BY StepFacts, <1>4 DEF UpdateRequestStatus
<1>5. CASE MissRequest(t)
  BY StepFacts, <1>5 DEF MissRequest
<1>6. CASE CheckResponseRoom(t)
  BY <1>6 DEF CheckResponseRoom
<1>7. CASE LinkResponse(t)
  BY <1>7 DEF LinkResponse
<1>8. CASE CountResponse(t)
  BY <1>8 DEF CountResponse
<1>9. CASE Finish(t)
  BY <1>9 DEF Finish, LetGo
<1> QED BY <1>1, <1>2, <1>3, <1>4, <1>5, <1>6, <1>7, <1>8, <1>9 DEF ChainStep

(* Nor do the steps that begin or end the work on a request.               *)
LEMMA WorkIsQuiet ==
  ASSUME TypeOK, WorkOK, NEW t \in Posters,
         \/ \E r \in Requests : \E k \in Inputs[r] : OnData(t, r, k)
         \/ t = Dispatcher /\ (RefuseRequest \/ CommitTask)
         \/ t \in Workers /\ (TakeTask(t) \/ Execute(t) \/ ExecuteThrowsOther(t))
  PROVE  QuietForRequests(t)
<1> USE ThreadFacts DEF TypeOK, ThreadTypes, QuietForRequests, Goto, Raise, LetGo,
                        workVars, reqVars
<1>1. ASSUME NEW r \in Requests, NEW k \in Inputs[r], OnData(t, r, k)
      PROVE  QuietForRequests(t)
  BY <1>1, StepFacts DEF OnData
<1>2. CASE t = Dispatcher /\ RefuseRequest
  <2>1. kind[cur[t]] \in Kinds \ {"garbled", "callable"}
    BY <1>2 DEF RefuseRequest, WorkOK, DispatchedParsed, Parsed, BusyLabels
  <2>2. ServiceEvent(kind[cur[t]]) # "Dispatched"
    BY <2>1, ServiceEventFacts DEF FailureEvents
  <2> QED BY <1>2, <2>2, StepFacts DEF RefuseRequest
<1>3. CASE t = Dispatcher /\ CommitTask
  BY <1>3 DEF CommitTask
<1>4. CASE t \in Workers /\ TakeTask(t)
  BY <1>4 DEF TakeTask
<1>5. CASE t \in Workers /\ Execute(t)
  BY <1>5, StepFacts DEF Execute
<1>6. CASE t \in Workers /\ ExecuteThrowsOther(t)
  BY <1>6 DEF ExecuteThrowsOther
<1> QED BY <1>1, <1>2, <1>3, <1>4, <1>5, <1>6

(* Steps of other threads leave the request queue's invariant alone.       *)
LEMMA ElsewhereKeepsReqInv ==
  ASSUME ReqInv, UNCHANGED <<reqVars, event>>,
         \A u \in Posters : pc'[u] = pc[u]
  PROVE  ReqInv'
<1> USE ThreadFacts DEF reqVars
<1>1. Pushed' = Pushed /\ Admitted' = Admitted
  BY DEF Pushed, Admitted, Pushing
<1>2. Popped(Dispatcher)' = Popped(Dispatcher)
  BY DEF Popped
<1>3. PushedLetGo' /\ RequestsWaited'
  BY DEF ReqInv, PushedLetGo, RequestsWaited, Pushing
<1> QED BY <1>1, <1>2, <1>3 DEF ReqInv, RequestsCounted, RequestsAdmitted

(***************************************************************************)
(* PostRequestToQueue admits a thread only while the counter is below the  *)
(* limit; the other admitted threads are at most all the others there are. *)
(***************************************************************************)
LEMMA AdmissionKeepsReqInv ==
  ASSUME TypeOK, ReqInv, NEW t \in IOThreads, PostRequestToQueue(t)
  PROVE  ReqInv'
<1> USE ThreadFacts DEF PostRequestToQueue, Raise, Goto
<1>1. Pushed' = Pushed
  BY StepFacts DEF Pushed, Pushing, TypeOK, ThreadTypes
<1>2. Popped(Dispatcher)' = Popped(Dispatcher) /\ UNCHANGED reqVars
  BY DEF Popped, TypeOK, ThreadTypes
<1>3. /\ Cardinality(Admitted') \in Nat /\ Cardinality(Admitted) \in Nat
      /\ Cardinality(IOThreads) \in Nat
      /\ Cardinality(Admitted') <= Cardinality(IOThreads)
  <2>1. Admitted' \subseteq IOThreads /\ Admitted \subseteq IOThreads
    BY DEF Admitted
  <2> QED BY <2>1, FiniteThreads, SubsetSize
<1>4. RequestsAdmitted'
  <2>1. CASE HasRoom(reqCount, MaxRequests)
    BY <1>2, <1>3, <2>1, LimitsAssumption
    DEF HasRoom, RequestsAdmitted, reqVars
  <2>2. CASE ~HasRoom(reqCount, MaxRequests)
    <3>1. Admitted' \subseteq Admitted
      BY <2>2, StepFacts DEF Admitted, Pushing, TypeOK, ThreadTypes
    <3>2. Cardinality(Admitted') <= Cardinality(Admitted)
      BY <3>1, FiniteParts, SubsetSize
    <3> QED BY <1>2, <1>3, <3>2, LimitsAssumption
            DEF ReqInv, RequestsAdmitted, TypeOK, QueueTypes, reqVars
  <2> QED BY <2>1, <2>2
<1>5. PushedLetGo' /\ RequestsWaited'
  BY <1>2, StepFacts
  DEF ReqInv, PushedLetGo, RequestsWaited, Pushing, TypeOK, ThreadTypes, reqVars
<1> QED BY <1>1, <1>2, <1>4, <1>5 DEF ReqInv, RequestsCounted, reqVars

LEMMA LinkKeepsReqInv ==
  ASSUME TypeOK, ReqInv, NEW t \in IOThreads, LinkRequest(t), cur[t] \in Requests
  PROVE  ReqInv'
<1> USE ThreadFacts DEF LinkRequest, LetGo, Goto
<1>1. Pushed' = Pushed \cup {t} /\ t \notin Pushed
  BY DEF Pushed, Pushing, TypeOK, ThreadTypes
<1>2. Admitted' = Admitted
  BY DEF Admitted, Pushing, TypeOK, ThreadTypes
<1>3. Cardinality(Pushed') = Cardinality(Pushed) + 1 /\ Cardinality(Pushed) \in Nat
  BY <1>1, FiniteParts, FS_AddElement, SubsetSize
<1>4. Len(reqQ') = Len(reqQ) + 1 /\ Len(reqQ) \in Nat
  BY DEF TypeOK, QueueTypes
<1>5. Popped(Dispatcher)' = Popped(Dispatcher) /\ Popped(Dispatcher) \in {0, 1}
  BY DEF Popped, TypeOK, ThreadTypes
<1>6. RequestsCounted'
  BY <1>3, <1>4, <1>5 DEF ReqInv, RequestsCounted, TypeOK, QueueTypes
<1>7. PushedLetGo' /\ RequestsWaited'
  BY DEF ReqInv, PushedLetGo, RequestsWaited, Pushing, TypeOK, ThreadTypes
<1> QED BY <1>2, <1>6, <1>7 DEF ReqInv, RequestsAdmitted

LEMMA CountKeepsReqInv ==
  ASSUME TypeOK, ReqInv, NEW t \in IOThreads, CountRequest(t)
  PROVE  ReqInv'
<1> USE ThreadFacts DEF CountRequest
<1>1. PICK w \in Notified(Dispatcher) :
        pc' = [pc EXCEPT ![t] = "idle", ![Dispatcher] = w]
  OBVIOUS
<1>2. /\ pc'[t] = "idle" /\ event[t] = "none" /\ event' = event
      /\ \A u \in IOThreads \ {t} : pc'[u] = pc[u]
      /\ pc'[Dispatcher] # "waiting"
      /\ pc'[Dispatcher] = "popped" <=> pc[Dispatcher] = "popped"
  BY <1>1, NotifiedFacts DEF ReqInv, PushedLetGo, Pushing, TypeOK, ThreadTypes, workVars
<1>3. /\ Pushed' = Pushed \ {t} /\ t \in Pushed
      /\ Admitted' = Admitted \ {t} /\ t \in Admitted
  BY <1>2 DEF Pushed, Admitted, Pushing
<1>4. /\ Cardinality(Pushed') = Cardinality(Pushed) - 1
      /\ Cardinality(Admitted') = Cardinality(Admitted) - 1
      /\ Cardinality(Pushed) \in Nat /\ Cardinality(Admitted) \in Nat
  BY <1>3, FiniteParts, FS_RemoveElement, SubsetSize
<1>5. /\ Popped(Dispatcher)' = Popped(Dispatcher) /\ Popped(Dispatcher) \in {0, 1}
      /\ Len(reqQ) \in Nat /\ Cardinality(IOThreads) \in Nat
  BY <1>2, FiniteThreads, SubsetSize DEF Popped, TypeOK, QueueTypes
<1>6. reqCount' = reqCount + 1 /\ reqQ' = reqQ /\ reqCount \in Int
  BY DEF TypeOK, QueueTypes
<1>7. RequestsCounted'
  BY <1>4, <1>5, <1>6 DEF ReqInv, RequestsCounted
<1>8. RequestsAdmitted'
  BY <1>4, <1>5, <1>6, LimitsAssumption DEF ReqInv, RequestsAdmitted
<1>9. PushedLetGo' /\ RequestsWaited'
  BY <1>2 DEF ReqInv, PushedLetGo, RequestsWaited, Pushing
<1> QED BY <1>7, <1>8, <1>9 DEF ReqInv

(* The dispatcher's thread pops, counts, waits and wakes.                  *)
LEMMA DispatcherKeepsReqInv ==
  ASSUME TypeOK, ReqInv,
         PopRequest \/ DispatchRequest \/ Wait(Dispatcher) \/ SpuriousWakeup(Dispatcher)
  PROVE  ReqInv'
<1> USE ThreadFacts DEF Raise, Goto, workVars
<1>1. /\ \A u \in IOThreads : pc'[u] = pc[u] /\ event'[u] = event[u]
      /\ Len(reqQ) \in Nat
  BY DEF PopRequest, DispatchRequest, Wait, SpuriousWakeup, TypeOK, ThreadTypes, QueueTypes
<1>2. Pushed' = Pushed /\ Admitted' = Admitted /\ PushedLetGo'
  BY <1>1 DEF Pushed, Admitted, Pushing, ReqInv, PushedLetGo
<1>3. /\ Cardinality(Pushed) \in Nat /\ Cardinality(Admitted) \in Nat
      /\ Cardinality(IOThreads) \in Nat
  BY FiniteThreads, FiniteParts, SubsetSize
<1>4. CASE PopRequest
  <2>1. Len(reqQ') = Len(reqQ) - 1 /\ UNCHANGED reqCount
    BY <1>4 DEF PopRequest, TypeOK, QueueTypes
  <2>2. Popped(Dispatcher) = 0 /\ Popped(Dispatcher)' = 1
    BY <1>4 DEF PopRequest, Popped, TypeOK, ThreadTypes
  <2>3. RequestsCounted' /\ RequestsAdmitted'
    BY <1>1, <1>2, <1>3, <2>1, <2>2 DEF ReqInv, RequestsCounted, RequestsAdmitted, TypeOK, QueueTypes
  <2>4. RequestsWaited'
    BY <1>4 DEF PopRequest, RequestsWaited, TypeOK, ThreadTypes
  <2> QED BY <1>2, <2>3, <2>4 DEF ReqInv
<1>5. CASE DispatchRequest
  <2>1. reqCount' = reqCount - 1 /\ UNCHANGED reqQ
    BY <1>5 DEF DispatchRequest
  <2>2. Popped(Dispatcher) = 1 /\ Popped(Dispatcher)' = 0
    BY <1>5, StepFacts DEF DispatchRequest, Popped, TypeOK, ThreadTypes
  <2>3. RequestsCounted' /\ RequestsAdmitted'
    <3>1. reqCount \in Int /\ MaxRequests \in Int
      BY LimitsAssumption DEF TypeOK, QueueTypes
    <3>2. RequestsCounted'
      BY <1>1, <1>2, <1>3, <2>1, <2>2, <3>1 DEF ReqInv, RequestsCounted
    <3>3. RequestsAdmitted'
      BY <1>2, <1>3, <2>1, <3>1 DEF ReqInv, RequestsAdmitted
    <3> QED BY <3>2, <3>3
  <2>4. RequestsWaited'
    BY <1>5, StepFacts DEF DispatchRequest, RequestsWaited, TypeOK, ThreadTypes
  <2> QED BY <1>2, <2>3, <2>4 DEF ReqInv
<1>6. CASE Wait(Dispatcher) \/ SpuriousWakeup(Dispatcher)
  <2>1. UNCHANGED reqVars /\ Popped(Dispatcher)' = Popped(Dispatcher)
    BY <1>6 DEF Wait, SpuriousWakeup, Popped, TypeOK, ThreadTypes
  <2>2. RequestsCounted' /\ RequestsAdmitted'
    BY <1>2, <2>1 DEF ReqInv, RequestsCounted, RequestsAdmitted, reqVars
  <2>3. RequestsWaited'
    BY <1>6, <2>1 DEF Wait, SpuriousWakeup, QueueIsEmpty, RequestsWaited, TypeOK, ThreadTypes, reqVars
  <2> QED BY <1>2, <2>2, <2>3 DEF ReqInv
<1> QED BY <1>4, <1>5, <1>6

LEMMA NextKeepsReqInv ==
  ASSUME TypeOK, WorkOK, ReqInv, [Next]_vars
  PROVE  ReqInv'
<1> USE ThreadFacts
<1>1. CASE \E t \in IOThreads, r \in Requests : \E k \in Inputs[r] : OnData(t, r, k)
  BY <1>1, WorkIsQuiet, QuietKeepsReqInv
<1>2. ASSUME NEW t \in IOThreads, IOStep(t) PROVE ReqInv'
  <2>1. LinkRequest(t) => cur[t] \in Requests
    BY DEF LinkRequest, WorkOK, ReadersParsed
  <2> QED BY <1>2, <2>1, ChainIsQuiet, QuietKeepsReqInv, AdmissionKeepsReqInv,
             LinkKeepsReqInv, CountKeepsReqInv DEF IOStep
<1>3. CASE DispatcherStep
  BY <1>3, ChainIsQuiet, WorkIsQuiet, QuietKeepsReqInv, DispatcherKeepsReqInv
  DEF DispatcherStep
<1>4. CASE \E w \in Workers : WorkerStep(w)
  BY <1>4, ChainIsQuiet, WorkIsQuiet, QuietKeepsReqInv DEF WorkerStep
<1>5. CASE \/ ResponderStep \/ Wait(Responder) \/ SpuriousWakeup(Responder)
         \/ UNCHANGED vars
  <2>1. UNCHANGED <<reqVars, event>> /\ \A u \in Posters : pc'[u] = pc[u]
    BY <1>5 DEF ResponderStep, Wait, SpuriousWakeup, PopResponse, Send, Goto, vars,
                workVars, reqVars, TypeOK, ThreadTypes
  <2> QED BY <2>1, ElsewhereKeepsReqInv
<1>6. CASE Wait(Dispatcher) \/ SpuriousWakeup(Dispatcher)
  BY <1>6, DispatcherKeepsReqInv
<1> QED BY <1>1, <1>2, <1>3, <1>4, <1>5, <1>6 DEF Next, Progress, Consumers
-----------------------------------------------------------------------------
(***************************************************************************)
(* The response queue: the steps that do nothing to it admit no poster and *)
(* leave those that are between the link and the count where they are.     *)
(***************************************************************************)
QuietForResponses ==
  /\ UNCHANGED respVars
  /\ pc'[Responder] = pc[Responder]
  /\ \A u \in Posters : /\ pc'[u] = "count" <=> pc[u] = "count"
                        /\ pc'[u] = "link" => pc[u] = "link"

LEMMA QuietKeepsRespInv ==
  ASSUME TypeOK, RespInv, QuietForResponses
  PROVE  RespInv'
<1> USE ThreadFacts DEF QuietForResponses, respVars
<1>1. Counting' = Counting
  BY DEF Counting
<1>2. /\ Cardinality(Linking') <= Cardinality(Linking)
      /\ Cardinality(Linking) \in Nat /\ Cardinality(Linking') \in Nat
  <2>1. Linking' \subseteq Linking
    BY DEF Linking
  <2> QED BY <2>1, FiniteParts, SubsetSize
<1>3. ResponsesCounted'
  BY <1>1 DEF RespInv, ResponsesCounted, Popped
<1>4. ResponsesAdmitted'
  <2>1. Cardinality(Posters) \in Nat
    BY FiniteThreads, SubsetSize
  <2> QED BY <1>2, <2>1, LimitsAssumption
          DEF RespInv, ResponsesAdmitted, TypeOK, QueueTypes
<1>5. ResponsesWaited'
  BY DEF RespInv, ResponsesWaited
<1> QED BY <1>3, <1>4, <1>5 DEF RespInv

LEMMA ChainIsQuietForResponses ==
  ASSUME TypeOK, NEW t \in Posters,
         \/ LockTable(t) \/ AddRequest(t) \/ RemoveRequest(t)
         \/ UpdateRequestStatus(t) \/ MissRequest(t) \/ Finish(t)
  PROVE  QuietForResponses
<1> USE ThreadFacts, StepFacts
    DEF TypeOK, ThreadTypes, QuietForResponses, Goto, LetGo, respVars
<1>1. CASE LockTable(t) \/ AddRequest(t) \/ RemoveRequest(t)
  BY <1>1 DEF LockTable, AddRequest, RemoveRequest
<1>2. CASE UpdateRequestStatus(t) \/ MissRequest(t)
  BY <1>2 DEF UpdateRequestStatus, MissRequest
<1>3. CASE Finish(t)
  BY <1>3 DEF Finish
<1> QED BY <1>1, <1>2, <1>3

LEMMA ReaderIsQuietForResponses ==
  ASSUME TypeOK, NEW t \in IOThreads,
         \/ \E r \in Requests : \E k \in Inputs[r] : OnData(t, r, k)
         \/ PostRequestToQueue(t) \/ LinkRequest(t) \/ CountRequest(t)
  PROVE  QuietForResponses
<1> USE ThreadFacts, StepFacts
    DEF TypeOK, ThreadTypes, QuietForResponses, Goto, Raise, LetGo, respVars
<1>1. ASSUME NEW r \in Requests, NEW k \in Inputs[r], OnData(t, r, k)
      PROVE  QuietForResponses
  BY <1>1 DEF OnData
<1>2. CASE PostRequestToQueue(t) \/ LinkRequest(t)
  BY <1>2 DEF PostRequestToQueue, LinkRequest
<1>3. CASE CountRequest(t)
  BY <1>3, NotifiedFacts DEF CountRequest
<1> QED BY <1>1, <1>2, <1>3

LEMMA ServiceIsQuietForResponses ==
  ASSUME TypeOK,
         \/ PopRequest \/ DispatchRequest \/ RefuseRequest \/ CommitTask
         \/ Wait(Dispatcher) \/ SpuriousWakeup(Dispatcher)
         \/ \E w \in Workers : TakeTask(w) \/ Execute(w) \/ ExecuteThrowsOther(w)
  PROVE  QuietForResponses
<1> USE ThreadFacts, StepFacts
    DEF TypeOK, ThreadTypes, QuietForResponses, Goto, Raise, LetGo, respVars
<1>1. CASE PopRequest \/ DispatchRequest \/ RefuseRequest \/ CommitTask
  BY <1>1 DEF PopRequest, DispatchRequest, RefuseRequest, CommitTask
<1>2. CASE Wait(Dispatcher) \/ SpuriousWakeup(Dispatcher)
  BY <1>2 DEF Wait, SpuriousWakeup
<1>3. ASSUME NEW w \in Workers, TakeTask(w) \/ Execute(w) \/ ExecuteThrowsOther(w)
      PROVE  QuietForResponses
  BY <1>3 DEF TakeTask, Execute, ExecuteThrowsOther
<1> QED BY <1>1, <1>2, <1>3

(* A poster is admitted, links its response and counts it.                 *)
LEMMA PosterKeepsRespInv ==
  ASSUME TypeOK, RespInv, NEW t \in Posters, cur[t] \in Requests,
         CheckResponseRoom(t) \/ LinkResponse(t) \/ CountResponse(t)
  PROVE  RespInv'
<1> USE ThreadFacts
<1>1. /\ Cardinality(Linking) \in Nat /\ Cardinality(Counting) \in Nat
      /\ Cardinality(Posters) \in Nat
      /\ Len(respQ) \in Nat /\ respCount \in Int
      /\ Popped(Responder) \in {0, 1}
  BY FiniteParts, FiniteThreads, SubsetSize DEF TypeOK, QueueTypes, Popped
<1>2. CASE CheckResponseRoom(t)
  <2> USE <1>2 DEF CheckResponseRoom, Goto, respVars
  <2>1. Counting' = Counting /\ Popped(Responder)' = Popped(Responder)
    BY DEF Counting, Popped, TypeOK, ThreadTypes
  <2>2. /\ Cardinality(Linking') \in Nat
        /\ Cardinality(Linking') <= Cardinality(Posters)
    <3>1. Linking' \subseteq Posters
      BY DEF Linking
    <3> QED BY <3>1, FiniteThreads, SubsetSize
  <2>3. ResponsesAdmitted'
    <3>1. CASE HasRoom(respCount, MaxResponses)
      BY <1>1, <2>2, <3>1, LimitsAssumption DEF HasRoom, ResponsesAdmitted
    <3>2. CASE ~HasRoom(respCount, MaxResponses)
      <4>1. Linking' \subseteq Linking
        BY <3>2 DEF Linking, TypeOK, ThreadTypes
      <4>2. Cardinality(Linking') <= Cardinality(Linking)
        BY <4>1, FiniteParts, SubsetSize
      <4> QED BY <1>1, <2>2, <4>2, LimitsAssumption DEF RespInv, ResponsesAdmitted
    <3> QED BY <3>1, <3>2
  <2>4. ResponsesWaited'
    BY DEF RespInv, ResponsesWaited, TypeOK, ThreadTypes
  <2> QED BY <2>1, <2>3, <2>4 DEF RespInv, ResponsesCounted
<1>3. CASE LinkResponse(t)
  <2> USE <1>3 DEF LinkResponse, Goto
  <2>1. Counting' = Counting \cup {t} /\ t \notin Counting /\ Linking' = Linking
    BY DEF Counting, Linking, TypeOK, ThreadTypes
  <2>2. Cardinality(Counting') = Cardinality(Counting) + 1
    BY <2>1, FiniteParts, FS_AddElement
  <2>3. Len(respQ') = Len(respQ) + 1 /\ respCount' = respCount
    BY DEF TypeOK, QueueTypes
  <2>4. Popped(Responder)' = Popped(Responder)
    BY DEF Popped, TypeOK, ThreadTypes
  <2>5. ResponsesCounted'
    BY <1>1, <2>2, <2>3, <2>4 DEF RespInv, ResponsesCounted
  <2>6. ResponsesWaited'
    BY DEF ResponsesWaited, TypeOK, ThreadTypes
  <2> QED BY <2>1, <2>3, <2>5, <2>6 DEF RespInv, ResponsesAdmitted
<1>4. CASE CountResponse(t)
  <2>1. PICK w \in Notified(Responder) :
          pc' = [pc EXCEPT ![t] = "return", ![Responder] = w]
    BY <1>4 DEF CountResponse
  <2>2. /\ pc[t] = "count" /\ pc'[t] = "return"
        /\ \A u \in Posters \ {t} : pc'[u] = pc[u]
        /\ pc'[Responder] # "waiting"
        /\ pc'[Responder] = "popped" <=> pc[Responder] = "popped"
    BY <1>4, <2>1, NotifiedFacts DEF CountResponse, TypeOK, ThreadTypes
  <2>3. /\ Counting' = Counting \ {t} /\ t \in Counting
        /\ Linking' = Linking \ {t} /\ t \in Linking
    BY <2>2 DEF Counting, Linking
  <2>4. /\ Cardinality(Counting') = Cardinality(Counting) - 1
        /\ Cardinality(Linking') = Cardinality(Linking) - 1
    BY <2>3, FiniteParts, FS_RemoveElement
  <2>5. respCount' = respCount + 1 /\ respQ' = respQ
    BY <1>4 DEF CountResponse
  <2>6. Popped(Responder)' = Popped(Responder)
    BY <2>2 DEF Popped
  <2>7. ResponsesCounted'
    BY <1>1, <2>4, <2>5, <2>6 DEF RespInv, ResponsesCounted
  <2>8. ResponsesAdmitted'
    BY <1>1, <2>4, <2>5, LimitsAssumption DEF RespInv, ResponsesAdmitted
  <2>9. ResponsesWaited'
    BY <2>2 DEF ResponsesWaited
  <2> QED BY <2>7, <2>8, <2>9 DEF RespInv
<1> QED BY <1>2, <1>3, <1>4

(* The ResponseDispatcher's thread pops, counts, waits and wakes.          *)
LEMMA ResponderKeepsRespInv ==
  ASSUME TypeOK, RespInv,
         PopResponse \/ Send \/ Wait(Responder) \/ SpuriousWakeup(Responder)
  PROVE  RespInv'
<1> USE ThreadFacts DEF Goto
<1>1. \A u \in Posters : pc'[u] = pc[u]
  BY DEF PopResponse, Send, Wait, SpuriousWakeup, TypeOK, ThreadTypes
<1>2. Counting' = Counting /\ Linking' = Linking
  BY <1>1 DEF Counting, Linking
<1>3. /\ Cardinality(Linking) \in Nat /\ Cardinality(Counting) \in Nat
      /\ Cardinality(Posters) \in Nat
      /\ Len(respQ) \in Nat /\ respCount \in Int
  BY FiniteParts, FiniteThreads, SubsetSize DEF TypeOK, QueueTypes
<1>4. CASE PopResponse
  <2>1. Len(respQ') = Len(respQ) - 1 /\ respCount' = respCount
    BY <1>4 DEF PopResponse, TypeOK, QueueTypes
  <2>2. Popped(Responder) = 0 /\ Popped(Responder)' = 1
    BY <1>4 DEF PopResponse, Popped, TypeOK, ThreadTypes
  <2>3. ResponsesCounted' /\ ResponsesAdmitted'
    BY <1>2, <1>3, <2>1, <2>2 DEF RespInv, ResponsesCounted, ResponsesAdmitted
  <2>4. ResponsesWaited'
    BY <1>4 DEF PopResponse, ResponsesWaited, TypeOK, ThreadTypes
  <2> QED BY <2>3, <2>4 DEF RespInv
<1>5. CASE Send
  <2>1. respCount' = respCount - 1 /\ respQ' = respQ
    BY <1>5 DEF Send
  <2>2. Popped(Responder) = 1 /\ Popped(Responder)' = 0
    BY <1>5 DEF Send, Popped, TypeOK, ThreadTypes
  <2>3. ResponsesCounted' /\ ResponsesAdmitted'
    <3>1. MaxResponses \in Int
      BY LimitsAssumption
    <3>2. ResponsesCounted'
      BY <1>2, <1>3, <2>1, <2>2 DEF RespInv, ResponsesCounted
    <3>3. ResponsesAdmitted'
      BY <1>2, <1>3, <2>1, <3>1 DEF RespInv, ResponsesAdmitted
    <3> QED BY <3>2, <3>3
  <2>4. ResponsesWaited'
    BY <1>5 DEF Send, ResponsesWaited, TypeOK, ThreadTypes
  <2> QED BY <2>3, <2>4 DEF RespInv
<1>6. CASE Wait(Responder) \/ SpuriousWakeup(Responder)
  <2>1. UNCHANGED respVars /\ Popped(Responder)' = Popped(Responder)
    BY <1>6 DEF Wait, SpuriousWakeup, Popped, TypeOK, ThreadTypes
  <2>2. ResponsesCounted' /\ ResponsesAdmitted'
    BY <1>2, <2>1 DEF RespInv, ResponsesCounted, ResponsesAdmitted, respVars
  <2>3. ResponsesWaited'
    BY <1>6, <2>1
    DEF Wait, SpuriousWakeup, QueueIsEmpty, ResponsesWaited, TypeOK, ThreadTypes, respVars
  <2> QED BY <2>2, <2>3 DEF RespInv
<1> QED BY <1>4, <1>5, <1>6

LEMMA NextKeepsRespInv ==
  ASSUME TypeOK, WorkOK, RespInv, [Next]_vars
  PROVE  RespInv'
<1> USE ThreadFacts
<1>1. ASSUME NEW t \in Posters, ChainStep(t) PROVE RespInv'
  <2>1. CASE CheckResponseRoom(t) \/ LinkResponse(t) \/ CountResponse(t)
    <3>1. cur[t] \in Requests
      BY <2>1 DEF CheckResponseRoom, LinkResponse, CountResponse, WorkOK, Holding, BusyLabels
    <3> QED BY <2>1, <3>1, PosterKeepsRespInv
  <2> QED BY <1>1, <2>1, ChainIsQuietForResponses, QuietKeepsRespInv DEF ChainStep
<1>2. CASE \E t \in IOThreads, r \in Requests : \E k \in Inputs[r] : OnData(t, r, k)
  BY <1>2, ReaderIsQuietForResponses, QuietKeepsRespInv
<1>3. CASE \E t \in IOThreads : IOStep(t)
  BY <1>1, <1>3, ReaderIsQuietForResponses, QuietKeepsRespInv DEF IOStep
<1>4. CASE DispatcherStep \/ Wait(Dispatcher) \/ SpuriousWakeup(Dispatcher)
  BY <1>1, <1>4, ServiceIsQuietForResponses, QuietKeepsRespInv DEF DispatcherStep
<1>5. CASE \E w \in Workers : WorkerStep(w)
  BY <1>1, <1>5, ServiceIsQuietForResponses, QuietKeepsRespInv DEF WorkerStep
<1>6. CASE ResponderStep \/ Wait(Responder) \/ SpuriousWakeup(Responder)
  BY <1>6, ResponderKeepsRespInv DEF ResponderStep
<1>7. CASE UNCHANGED vars
  <2>1. QuietForResponses
    BY <1>7 DEF QuietForResponses, vars, respVars
  <2> QED BY <2>1, QuietKeepsRespInv
<1> QED BY <1>2, <1>3, <1>4, <1>5, <1>6, <1>7 DEF Next, Progress, Consumers
-----------------------------------------------------------------------------
LEMMA InitQueues == Init => ReqInv /\ RespInv
<1> SUFFICES ASSUME Init PROVE ReqInv /\ RespInv
  OBVIOUS
<1> USE ThreadFacts DEF Init
<1>1. Pushed = {} /\ Admitted = {} /\ Counting = {} /\ Linking = {}
  BY DEF Pushed, Pushing, Admitted, Counting, Linking
<1>2. Cardinality({}) = 0 /\ Cardinality(IOThreads) \in Nat /\ Cardinality(Posters) \in Nat
  BY FS_EmptySet, FiniteThreads, SubsetSize
<1>3. Popped(Dispatcher) = 0 /\ Popped(Responder) = 0
  BY DEF Popped
<1>4. RequestsCounted /\ RequestsAdmitted /\ ResponsesCounted /\ ResponsesAdmitted
  BY <1>1, <1>2, <1>3, LimitsAssumption
  DEF RequestsCounted, RequestsAdmitted, ResponsesCounted, ResponsesAdmitted
<1>5. PushedLetGo /\ RequestsWaited /\ ResponsesWaited
  BY DEF PushedLetGo, RequestsWaited, ResponsesWaited, Pushing
<1> QED BY <1>4, <1>5 DEF ReqInv, RespInv

LEMMA QueueInvariant == Spec => [](TypeOK /\ ReqInv /\ RespInv)
<1>1. TypeOK /\ WorkOK /\ ReqInv /\ RespInv /\ [Next]_vars => ReqInv' /\ RespInv'
  BY NextKeepsReqInv, NextKeepsRespInv
<1> QED BY <1>1, InitQueues, TypeCorrect, PTL DEF Spec

(***************************************************************************)
(* However many threads post, a queue exceeds its limit by no more than    *)
(* the posters that can be between the test for room and the push.         *)
(***************************************************************************)
THEOREM QueuesStayBounded == Spec => []QueuesBounded
<1>1. TypeOK /\ ReqInv /\ RespInv => QueuesBounded
  BY BoundFollows
<1> QED BY <1>1, QueueInvariant, PTL

(***************************************************************************)
(* No dispatcher's thread sleeps beside a queue with an item unless a push *)
(* is still to notify it, or notified it too early.                        *)
(***************************************************************************)
THEOREM WaitsAreJustified == Spec => []WaitIsJustified
<1>1. TypeOK /\ ReqInv /\ RespInv => WaitIsJustified
  BY BoundFollows
<1> QED BY <1>1, QueueInvariant, PTL
-----------------------------------------------------------------------------
(***************************************************************************)
(* What becomes of a request: one thread or queue has it at a time, the    *)
(* table knows it while it lives, its responses tell of its progress in    *)
(* order, and it is told one outcome.                                      *)
(*                                                                         *)
(* Each of these rests on the one before it, so the invariant is built in  *)
(* layers, and a layer is proved with the layers below it given.           *)
(***************************************************************************)

(***************************************************************************)
(* Control: which events a thread can be raising at each step of a chain,  *)
(* and that a thread holds a request exactly while it works on one.        *)
(***************************************************************************)
QuietLabels == {"idle", "pushed", "waiting", "stalled"}

ControlOK(t) ==
  /\ pc[t] \in {"add", "adding"} => event[t] = "Deserialized"
  /\ pc[t] = "find" => event[t] \in Events \ {"Deserialized", "DeserializedFailed"}
  /\ pc[t] \in {"erase", "erasing"} => Removes(event[t])
  /\ pc[t] \in {"check", "link", "count", "return"} => event[t] \in Events
  /\ pc[t] \in QuietLabels \cup {"run", "popped"} => event[t] = "none"
  /\ cur[t] = NoRequest <=> pc[t] \in QuietLabels

Control == \A t \in Posters : ControlOK(t)

Base == TypeOK /\ WorkOK

LEMMA QuietFacts ==
  /\ QuietLabels \cap BusyLabels = {}
  /\ Labels = QuietLabels \cup BusyLabels
  BY DEF QuietLabels, BusyLabels, Labels

LEMMA EventKinds ==
  /\ \A e : FirstStep(e) = "add" <=> e = "Deserialized"
  /\ \A e : FirstStep(e) = "check" <=> e = "DeserializedFailed"
  /\ \A e : FirstStep(e) \in {"add", "check", "find"}
  /\ \A e : AfterUpdate(e) = IF Removes(e) THEN "erase" ELSE "check"
  /\ \A e : Removes(e) => e \in FinalEvents \ {"DeserializedFailed"}
  /\ ~Removes("none") /\ ~Removes("Deserialized") /\ ~Removes("DeserializedFailed")
  /\ ~Removes("Dispatched") /\ ~Removes("Commited")
  /\ FinalEvents \subseteq Events
  /\ \A e \in FinalEvents : e = "DeserializedFailed" \/ Removes(e)
  /\ Events = FinalEvents \cup {"Deserialized", "Dispatched", "Commited"}
  /\ "DeserializedFailed" \in FinalEvents
  /\ "DispatchFailed" \in FinalEvents
  /\ {"Deserialized", "Dispatched", "Commited", "none"} \cap FinalEvents = {}
  BY DEF FirstStep, AfterUpdate, Removes, FinalEvents, FailureEvents, Events
-----------------------------------------------------------------------------
(* A step is one thread's: the others keep their event and their request,  *)
(* and one of them at most is woken from its wait.                         *)
Stays(u) ==
  /\ event'[u] = event[u]
  /\ cur'[u] = cur[u]
  /\ pc'[u] = pc[u] \/ (pc[u] \in QuietLabels /\ pc'[u] \in QuietLabels)

OthersStay(t) == \A u \in Posters \ {t} : Stays(u)

AllStay == \A u \in Posters : Stays(u)

LEMMA OnDataStays ==
  ASSUME TypeOK, NEW t \in IOThreads, NEW r \in Requests, NEW k, OnData(t, r, k)
  PROVE  OthersStay(t)
  BY ThreadFacts
  DEF OnData, Raise, Goto, OthersStay, Stays, TypeOK, ThreadTypes

LEMMA NotifiedStays ==
  ASSUME TypeOK, NEW c \in Consumers, NEW w \in Notified(c)
  PROVE  w = pc[c] \/ (pc[c] \in QuietLabels /\ w \in QuietLabels)
  BY DEF Notified, QuietLabels

LEMMA ChainStays ==
  ASSUME TypeOK, NEW t \in Posters, ChainStep(t)
  PROVE  OthersStay(t)
<1> USE ThreadFacts DEF OthersStay, Stays, TypeOK, ThreadTypes, workVars
<1>1. CASE LockTable(t) \/ AddRequest(t) \/ RemoveRequest(t)
  BY <1>1 DEF LockTable, AddRequest, RemoveRequest, Goto
<1>2. CASE UpdateRequestStatus(t) \/ MissRequest(t)
  BY <1>2 DEF UpdateRequestStatus, MissRequest, Goto
<1>3. CASE CheckResponseRoom(t) \/ LinkResponse(t)
  BY <1>3 DEF CheckResponseRoom, LinkResponse, Goto
<1>4. CASE CountResponse(t)
  BY <1>4 DEF CountResponse
<1>5. CASE Finish(t)
  BY <1>5 DEF Finish, LetGo, Goto
<1> QED BY <1>1, <1>2, <1>3, <1>4, <1>5 DEF ChainStep

LEMMA IOStays ==
  ASSUME TypeOK, NEW t \in IOThreads,
         PostRequestToQueue(t) \/ LinkRequest(t) \/ CountRequest(t)
  PROVE  OthersStay(t)
<1> USE ThreadFacts DEF OthersStay, Stays, TypeOK, ThreadTypes, workVars
<1>1. CASE PostRequestToQueue(t)
  BY <1>1 DEF PostRequestToQueue, Raise, Goto
<1>2. CASE LinkRequest(t)
  BY <1>2 DEF LinkRequest, LetGo, Goto
<1>3. CASE CountRequest(t)
  BY <1>3, NotifiedStays DEF CountRequest
<1> QED BY <1>1, <1>2, <1>3

LEMMA DispatcherStays ==
  ASSUME TypeOK, PopRequest \/ DispatchRequest \/ RefuseRequest \/ CommitTask
  PROVE  OthersStay(Dispatcher)
  BY ThreadFacts
  DEF PopRequest, DispatchRequest, RefuseRequest, CommitTask, Raise, LetGo,
      Goto, OthersStay, Stays, TypeOK, ThreadTypes

LEMMA WorkerStays ==
  ASSUME TypeOK, NEW w \in Workers,
         TakeTask(w) \/ Execute(w) \/ ExecuteThrowsOther(w)
  PROVE  OthersStay(w)
  BY ThreadFacts
  DEF TakeTask, Execute, ExecuteThrowsOther, Raise, LetGo, Goto, OthersStay,
      Stays, TypeOK, ThreadTypes

LEMMA RestStays ==
  ASSUME TypeOK,
         \/ \E c \in Consumers : Wait(c) \/ SpuriousWakeup(c)
         \/ PopResponse \/ Send
         \/ UNCHANGED vars
  PROVE  AllStay
<1> USE ThreadFacts DEF AllStay, Stays, TypeOK, ThreadTypes, workVars
<1>1. CASE \E c \in Consumers : Wait(c) \/ SpuriousWakeup(c)
  BY <1>1 DEF Wait, SpuriousWakeup, Goto, QuietLabels
<1>2. CASE PopResponse \/ Send
  BY <1>2 DEF PopResponse, Send, Goto
<1>3. CASE UNCHANGED vars
  BY <1>3 DEF vars
<1> QED BY <1>1, <1>2, <1>3
-----------------------------------------------------------------------------
(* The first layer.                                                        *)

LEMMA StaysKeepsControl ==
  ASSUME NEW u \in Posters, ControlOK(u), Stays(u)
  PROVE  ControlOK(u)'
  BY DEF ControlOK, Stays, QuietLabels

LEMMA OthersKeepControl ==
  ASSUME Control, NEW t \in Posters, OthersStay(t), ControlOK(t)'
  PROVE  Control'
  BY StaysKeepsControl DEF Control, OthersStay

LEMMA ChainControl ==
  ASSUME Base, Control, NEW t \in Posters, ChainStep(t)
  PROVE  ControlOK(t)'
<1> USE ThreadFacts, EventKinds
    DEF Base, TypeOK, ThreadTypes, Control, ControlOK, QuietLabels, workVars
<1>1. CASE LockTable(t) \/ AddRequest(t) \/ RemoveRequest(t)
  BY <1>1 DEF LockTable, AddRequest, RemoveRequest, Goto
<1>2. CASE UpdateRequestStatus(t) \/ MissRequest(t)
  BY <1>2 DEF UpdateRequestStatus, MissRequest, Goto
<1>3. CASE CheckResponseRoom(t) \/ LinkResponse(t)
  BY <1>3 DEF CheckResponseRoom, LinkResponse, Goto
<1>4. CASE CountResponse(t)
  BY <1>4 DEF CountResponse
<1>5. CASE Finish(t)
  BY <1>5 DEF Finish, LetGo, Goto
<1> QED BY <1>1, <1>2, <1>3, <1>4, <1>5 DEF ChainStep

LEMMA OnDataControl ==
  ASSUME Base, Control, NEW t \in IOThreads, NEW r \in Requests, NEW k,
         OnData(t, r, k)
  PROVE  ControlOK(t)'
  BY ThreadFacts, EventKinds
  DEF Base, TypeOK, ThreadTypes, Control, ControlOK, QuietLabels, OnData, Raise,
      Goto

LEMMA IOControl ==
  ASSUME Base, Control, NEW t \in IOThreads,
         PostRequestToQueue(t) \/ LinkRequest(t) \/ CountRequest(t)
  PROVE  ControlOK(t)'
<1> USE ThreadFacts, EventKinds
    DEF Base, TypeOK, ThreadTypes, Control, ControlOK, QuietLabels, workVars
<1>1. CASE PostRequestToQueue(t)
  BY <1>1 DEF PostRequestToQueue, Raise, Goto
<1>2. CASE LinkRequest(t)
  BY <1>2 DEF LinkRequest, LetGo, Goto
<1>3. CASE CountRequest(t)
  BY <1>3 DEF CountRequest
<1> QED BY <1>1, <1>2, <1>3

LEMMA DispatcherControl ==
  ASSUME Base, Control, PopRequest \/ DispatchRequest \/ RefuseRequest \/ CommitTask
  PROVE  ControlOK(Dispatcher)'
<1> USE ThreadFacts, EventKinds
    DEF Base, TypeOK, ThreadTypes, Control, ControlOK, QuietLabels
<1>1. CASE PopRequest
  <2>1. Head(reqQ) \in Requests
    BY <1>1 DEF PopRequest, QueueTypes
  <2> QED BY <1>1, <2>1 DEF PopRequest, Goto
<1>2. CASE DispatchRequest
  BY <1>2 DEF DispatchRequest, Raise, Goto
<1>3. CASE RefuseRequest
  <2>1. ServiceEvent(kind[cur[Dispatcher]]) \in FailureEvents
    BY <1>3, ServiceEventFacts
    DEF RefuseRequest, WorkOK, DispatchedParsed, Parsed, BusyLabels
  <2>2. ServiceEvent(kind[cur[Dispatcher]]) \in Events \ {"Deserialized", "DeserializedFailed"}
    BY <2>1 DEF FailureEvents, FinalEvents, Events
  <2> QED BY <1>3, <2>2 DEF RefuseRequest, Raise, Goto
<1>4. CASE CommitTask
  BY <1>4 DEF CommitTask, LetGo, Goto
<1> QED BY <1>1, <1>2, <1>3, <1>4

LEMMA WorkerControl ==
  ASSUME Base, Control, NEW w \in Workers,
         TakeTask(w) \/ Execute(w) \/ ExecuteThrowsOther(w)
  PROVE  ControlOK(w)'
<1> USE ThreadFacts, EventKinds
    DEF Base, TypeOK, ThreadTypes, Control, ControlOK, QuietLabels
<1>1. CASE TakeTask(w)
  <2>1. Head(tasks) \in Requests
    BY <1>1 DEF TakeTask, QueueTypes
  <2> QED BY <1>1, <2>1 DEF TakeTask, Goto
<1>2. CASE Execute(w)
  <2>1. {"Completed", "ServiceError"} \subseteq Events \ {"Deserialized", "DeserializedFailed"}
    BY EventFacts
  <2> QED BY <1>2, <2>1 DEF Execute, Raise, Goto
<1>3. CASE ExecuteThrowsOther(w)
  BY <1>3 DEF ExecuteThrowsOther, LetGo, Goto
<1> QED BY <1>1, <1>2, <1>3

(* Every step there is, by the thread that takes it.                       *)
LEMMA Steps ==
  ASSUME [Next]_vars
  PROVE  \/ \E t \in IOThreads, r \in Requests : \E k \in Inputs[r] : OnData(t, r, k)
         \/ \E t \in Posters : ChainStep(t)
         \/ \E t \in IOThreads :
              PostRequestToQueue(t) \/ LinkRequest(t) \/ CountRequest(t)
         \/ PopRequest \/ DispatchRequest \/ RefuseRequest \/ CommitTask
         \/ \E w \in Workers : TakeTask(w) \/ Execute(w) \/ ExecuteThrowsOther(w)
         \/ \E c \in Consumers : Wait(c) \/ SpuriousWakeup(c)
         \/ PopResponse \/ Send
         \/ UNCHANGED vars
  BY ThreadFacts DEF Next, Progress, IOStep, DispatcherStep, WorkerStep, ResponderStep

LEMMA NextControl ==
  ASSUME Base, Control, [Next]_vars
  PROVE  Control'
<1> USE ThreadFacts DEF Base
<1>1. CASE \E t \in IOThreads, r \in Requests : \E k \in Inputs[r] : OnData(t, r, k)
  BY <1>1, OnDataControl, OnDataStays, OthersKeepControl
<1>2. CASE \E t \in Posters : ChainStep(t)
  BY <1>2, ChainControl, ChainStays, OthersKeepControl
<1>3. CASE \E t \in IOThreads :
             PostRequestToQueue(t) \/ LinkRequest(t) \/ CountRequest(t)
  BY <1>3, IOControl, IOStays, OthersKeepControl
<1>4. CASE PopRequest \/ DispatchRequest \/ RefuseRequest \/ CommitTask
  BY <1>4, DispatcherControl, DispatcherStays, OthersKeepControl
<1>5. CASE \E w \in Workers : TakeTask(w) \/ Execute(w) \/ ExecuteThrowsOther(w)
  BY <1>5, WorkerControl, WorkerStays, OthersKeepControl
<1>6. CASE \/ \E c \in Consumers : Wait(c) \/ SpuriousWakeup(c)
           \/ PopResponse \/ Send
           \/ UNCHANGED vars
  BY <1>6, RestStays, StaysKeepsControl DEF AllStay, Control
<1> QED BY <1>1, <1>2, <1>3, <1>4, <1>5, <1>6, Steps

LEMMA InitControl == Init => Control
  BY ThreadFacts, EventKinds DEF Init, Control, ControlOK, QuietLabels

LEMMA BaseHolds == Spec => [](Base /\ Control)
<1>1. Init => Base /\ Control
  BY InitTypes, InitControl DEF Base
<1>2. Base /\ Control /\ [Next]_vars => Base' /\ Control'
  BY NextTypes, NextControl DEF Base
<1> QED BY <1>1, <1>2, PTL DEF Spec
-----------------------------------------------------------------------------
(***************************************************************************)
(* Ownership: the places a request can be in exclude each other, and a     *)
(* request that has not arrived has none.                                  *)
(***************************************************************************)
Within(s, r) == \E i \in DOMAIN s : s[i] = r

OnceIn(s) == \A i, j \in DOMAIN s : s[i] = s[j] => i = j

Held(r)    == \E t \in Posters : cur[t] = r
InQueue(r) == Within(reqQ, r)
InTasks(r) == Within(tasks, r)
Live(r)    == Held(r) \/ InQueue(r) \/ InTasks(r)

Apart(r) ==
  /\ ~(Held(r) /\ InQueue(r))
  /\ ~(Held(r) /\ InTasks(r))
  /\ ~(InQueue(r) /\ InTasks(r))
  /\ kind[r] = "unsent" => ~Live(r)

OneHolder == \A t, u \in Posters : cur[t] = cur[u] /\ cur[t] # NoRequest => t = u

OnePlace ==
  /\ OneHolder
  /\ OnceIn(reqQ)
  /\ OnceIn(tasks)
  /\ \A r \in Requests : Apart(r)

LEMMA AppendWithin ==
  ASSUME NEW S, NEW s \in Seq(S), NEW x \in S
  PROVE  /\ \A r : Within(Append(s, x), r) <=> Within(s, r) \/ r = x
         /\ OnceIn(s) /\ ~Within(s, x) => OnceIn(Append(s, x))
<1>1. /\ DOMAIN s = 1 .. Len(s) /\ Len(s) \in Nat
      /\ DOMAIN Append(s, x) = 1 .. Len(s) + 1
      /\ \A i \in 1 .. Len(s) : Append(s, x)[i] = s[i]
      /\ Append(s, x)[Len(s) + 1] = x
  OBVIOUS
<1>2. ASSUME NEW i \in 1 .. Len(s) + 1
      PROVE  i \in 1 .. Len(s) \/ i = Len(s) + 1
  BY <1>1
<1>3. \A r : Within(Append(s, x), r) <=> Within(s, r) \/ r = x
  BY <1>1, <1>2 DEF Within
<1>4. OnceIn(s) /\ ~Within(s, x) => OnceIn(Append(s, x))
  BY <1>1, <1>2 DEF OnceIn, Within
<1> QED BY <1>3, <1>4

LEMMA TailWithin ==
  ASSUME NEW S, NEW s \in Seq(S), s # <<>>
  PROVE  /\ Head(s) \in S /\ Tail(s) \in Seq(S) /\ Within(s, Head(s))
         /\ \A r : Within(Tail(s), r) => Within(s, r)
         /\ \A r : Within(s, r) => Within(Tail(s), r) \/ r = Head(s)
         /\ OnceIn(s) => OnceIn(Tail(s)) /\ ~Within(Tail(s), Head(s))
<1>1. /\ DOMAIN s = 1 .. Len(s) /\ Len(s) \in Nat \ {0}
      /\ Head(s) = s[1] /\ Head(s) \in S /\ Tail(s) \in Seq(S)
      /\ DOMAIN Tail(s) = 1 .. Len(s) - 1
      /\ \A i \in 1 .. Len(s) - 1 : Tail(s)[i] = s[i + 1]
  OBVIOUS
<1>2. Within(s, Head(s))
  BY <1>1 DEF Within
<1>3. \A i \in 1 .. Len(s) - 1 : i + 1 \in 1 .. Len(s)
  BY <1>1
<1>4. \A r : Within(Tail(s), r) => Within(s, r)
  BY <1>1, <1>3 DEF Within
<1>5. ASSUME NEW r, Within(s, r)
      PROVE  Within(Tail(s), r) \/ r = Head(s)
  <2>1. PICK i \in 1 .. Len(s) : s[i] = r
    BY <1>1, <1>5 DEF Within
  <2>2. CASE i = 1
    BY <1>1, <2>1, <2>2
  <2>3. CASE i # 1
    <3>1. i - 1 \in 1 .. Len(s) - 1 /\ (i - 1) + 1 = i
      BY <1>1, <2>3
    <3> QED BY <1>1, <2>1, <3>1 DEF Within
  <2> QED BY <2>2, <2>3
<1>6. ASSUME OnceIn(s)
      PROVE  OnceIn(Tail(s)) /\ ~Within(Tail(s), Head(s))
  <2>1. \A i, j \in 1 .. Len(s) - 1 : Tail(s)[i] = Tail(s)[j] => i = j
    <3> SUFFICES ASSUME NEW i \in 1 .. Len(s) - 1, NEW j \in 1 .. Len(s) - 1,
                        Tail(s)[i] = Tail(s)[j]
                 PROVE  i = j
      OBVIOUS
    <3>1. s[i + 1] = s[j + 1] /\ i + 1 \in DOMAIN s /\ j + 1 \in DOMAIN s
      BY <1>1, <1>3
    <3>2. i + 1 = j + 1
      BY <1>6, <3>1 DEF OnceIn
    <3> QED BY <1>1, <3>2
  <2>2. \A i \in 1 .. Len(s) - 1 : Tail(s)[i] # s[1]
    <3> SUFFICES ASSUME NEW i \in 1 .. Len(s) - 1, Tail(s)[i] = s[1]
                 PROVE  FALSE
      OBVIOUS
    <3>1. s[i + 1] = s[1] /\ i + 1 \in DOMAIN s /\ 1 \in DOMAIN s
      BY <1>1, <1>3
    <3>2. i + 1 = 1
      BY <1>6, <3>1 DEF OnceIn
    <3> QED BY <1>1, <3>2
  <2> QED BY <1>1, <2>1, <2>2 DEF OnceIn, Within
<1> QED BY <1>1, <1>2, <1>4, <1>5, <1>6

(* Most steps move no request.                                             *)
Unmoved == UNCHANGED <<cur, kind, reqQ, tasks>>

LEMMA UnmovedKeepsPlace ==
  ASSUME Unmoved
  PROVE  /\ \A r : /\ Held(r)' <=> Held(r)
                   /\ InQueue(r)' <=> InQueue(r)
                   /\ InTasks(r)' <=> InTasks(r)
                   /\ Live(r)' <=> Live(r)
         /\ OnePlace => OnePlace'
<1> USE DEF Unmoved
<1>1. \A r : /\ Held(r)' <=> Held(r)
             /\ InQueue(r)' <=> InQueue(r)
             /\ InTasks(r)' <=> InTasks(r)
             /\ Live(r)' <=> Live(r)
  BY DEF Held, InQueue, InTasks, Live
<1>2. OnePlace => OnePlace'
  BY <1>1 DEF OnePlace, OneHolder, Apart
<1> QED BY <1>1, <1>2

LEMMA MostUnmoved ==
  ASSUME \/ \E t \in Posters :
              \/ LockTable(t) \/ AddRequest(t) \/ RemoveRequest(t)
              \/ UpdateRequestStatus(t) \/ MissRequest(t)
              \/ CheckResponseRoom(t) \/ LinkResponse(t) \/ CountResponse(t)
              \/ PostRequestToQueue(t) \/ CountRequest(t)
         \/ DispatchRequest \/ RefuseRequest
         \/ \E w \in Workers : Execute(w)
         \/ \E c \in Consumers : Wait(c) \/ SpuriousWakeup(c)
         \/ PopResponse \/ Send
         \/ UNCHANGED vars
  PROVE  Unmoved
  BY DEF Unmoved, vars, workVars, packetVars, reqVars, LockTable, AddRequest,
     RemoveRequest, UpdateRequestStatus, MissRequest, CheckResponseRoom,
     LinkResponse, CountResponse, PostRequestToQueue, CountRequest,
     DispatchRequest, RefuseRequest, Execute, Wait, SpuriousWakeup, PopResponse,
     Send

LEMMA TakesUp ==
  ASSUME TypeOK, OnePlace, NEW t \in Posters, NEW r \in Requests, ~Held(r),
         cur[t] = NoRequest, cur' = [cur EXCEPT ![t] = r]
  PROVE  /\ OneHolder'
         /\ \A q \in Requests : Held(q)' <=> Held(q) \/ q = r
  BY ThreadFacts DEF TypeOK, ThreadTypes, OnePlace, OneHolder, Held

LEMMA GivesUp ==
  ASSUME TypeOK, OnePlace, NEW t \in Posters, cur[t] \in Requests,
         cur' = [cur EXCEPT ![t] = NoRequest]
  PROVE  /\ OneHolder'
         /\ \A q \in Requests : Held(q)' <=> Held(q) /\ q # cur[t]
  BY ThreadFacts DEF TypeOK, ThreadTypes, OnePlace, OneHolder, Held

(* What each of the other steps moves, and from where to where.            *)

LEMMA Arrives ==
  ASSUME Base, Control, OnePlace, NEW t \in IOThreads, NEW r \in Requests,
         NEW k \in Inputs[r], OnData(t, r, k)
  PROVE  /\ OnePlace'
         /\ ~Live(r) /\ kind'[r] # "unsent"
         /\ \A q \in Requests :
              /\ Held(q)' <=> Held(q) \/ q = r
              /\ InQueue(q)' <=> InQueue(q)
              /\ InTasks(q)' <=> InTasks(q)
              /\ kind'[q] = "unsent" <=> kind[q] = "unsent" /\ q # r
<1> USE ThreadFacts DEF Base, OnData
<1>1. k \in Kinds /\ "unsent" \notin Kinds
  BY InputsAssumption DEF Kinds
<1>2. ~Live(r) /\ ~Held(r)
  BY DEF OnePlace, Apart, Live
<1>3. cur[t] = NoRequest
  BY DEF Control, ControlOK, QuietLabels
<1>4. OneHolder' /\ \A q \in Requests : Held(q)' <=> Held(q) \/ q = r
  BY <1>2, <1>3, TakesUp
<1>5. reqQ' = reqQ /\ tasks' = tasks
  BY DEF reqVars
<1>6. \A q \in Requests : /\ InQueue(q)' <=> InQueue(q)
                          /\ InTasks(q)' <=> InTasks(q)
  BY <1>5 DEF InQueue, InTasks
<1>7. \A q \in Requests : kind'[q] = "unsent" <=> kind[q] = "unsent" /\ q # r
  BY <1>1 DEF TypeOK, PacketTypes
<1>8. \A q \in Requests : Apart(q)'
  BY <1>2, <1>4, <1>6, <1>7 DEF OnePlace, Apart, Live
<1>9. OnePlace'
  BY <1>4, <1>5, <1>8 DEF OnePlace, OneHolder
<1> QED BY <1>1, <1>2, <1>4, <1>6, <1>7, <1>9

LEMMA Queues ==
  ASSUME Base, Control, OnePlace, NEW t \in IOThreads, LinkRequest(t)
  PROVE  /\ OnePlace'
         /\ cur[t] \in Requests
         /\ \A q \in Requests :
              /\ Held(q)' <=> Held(q) /\ q # cur[t]
              /\ InQueue(q)' <=> InQueue(q) \/ q = cur[t]
              /\ InTasks(q)' <=> InTasks(q)
<1> USE ThreadFacts DEF Base, LinkRequest, LetGo
<1>1. cur[t] \in Requests
  BY DEF WorkOK, Holding, BusyLabels
<1>2. ~InQueue(cur[t]) /\ ~InTasks(cur[t])
  BY <1>1 DEF OnePlace, Apart, Held
<1>3. OneHolder' /\ \A q \in Requests : Held(q)' <=> Held(q) /\ q # cur[t]
  BY <1>1, GivesUp
<1>4. /\ \A q : Within(reqQ', q) <=> Within(reqQ, q) \/ q = cur[t]
      /\ OnceIn(reqQ')
  BY <1>1, <1>2, AppendWithin DEF TypeOK, QueueTypes, OnePlace, InQueue
<1>5. \A q \in Requests : /\ InQueue(q)' <=> InQueue(q) \/ q = cur[t]
                          /\ InTasks(q)' <=> InTasks(q)
                          /\ kind'[q] = kind[q]
  BY <1>4 DEF InQueue, InTasks, packetVars
<1>6. \A q \in Requests : Apart(q)'
  BY <1>1, <1>2, <1>3, <1>5 DEF OnePlace, Apart, Live, Held
<1>7. OnePlace'
  BY <1>3, <1>4, <1>6 DEF OnePlace, OneHolder
<1> QED BY <1>1, <1>3, <1>5, <1>7

LEMMA Leaves ==
  ASSUME Base, Control, OnePlace, NEW t \in Posters,
         Finish(t) \/ ExecuteThrowsOther(t)
  PROVE  /\ OnePlace'
         /\ cur[t] \in Requests
         /\ \A q \in Requests :
              /\ Held(q)' <=> Held(q) /\ q # cur[t]
              /\ InQueue(q)' <=> InQueue(q)
              /\ InTasks(q)' <=> InTasks(q)
<1> USE ThreadFacts DEF Base, Finish, ExecuteThrowsOther, LetGo
<1>1. cur[t] \in Requests
  BY DEF WorkOK, Holding, BusyLabels
<1>2. OneHolder' /\ \A q \in Requests : Held(q)' <=> Held(q) /\ q # cur[t]
  BY <1>1, GivesUp
<1>3. reqQ' = reqQ /\ tasks' = tasks /\ kind' = kind
  BY DEF reqVars, packetVars
<1>4. \A q \in Requests : /\ InQueue(q)' <=> InQueue(q)
                          /\ InTasks(q)' <=> InTasks(q)
  BY <1>3 DEF InQueue, InTasks
<1>5. \A q \in Requests : Apart(q)'
  BY <1>2, <1>3, <1>4 DEF OnePlace, Apart, Live
<1>6. OnePlace'
  BY <1>2, <1>3, <1>5 DEF OnePlace, OneHolder
<1> QED BY <1>1, <1>2, <1>4, <1>6

LEMMA Commits ==
  ASSUME Base, Control, OnePlace, CommitTask
  PROVE  /\ OnePlace'
         /\ cur[Dispatcher] \in Requests
         /\ \A q \in Requests :
              /\ Held(q)' <=> Held(q) /\ q # cur[Dispatcher]
              /\ InQueue(q)' <=> InQueue(q)
              /\ InTasks(q)' <=> InTasks(q) \/ q = cur[Dispatcher]
<1> USE ThreadFacts DEF Base, CommitTask, LetGo
<1>1. cur[Dispatcher] \in Requests
  BY DEF WorkOK, Holding, BusyLabels
<1>2. ~InQueue(cur[Dispatcher]) /\ ~InTasks(cur[Dispatcher])
  BY <1>1 DEF OnePlace, Apart, Held
<1>3. /\ OneHolder'
      /\ \A q \in Requests : Held(q)' <=> Held(q) /\ q # cur[Dispatcher]
  BY <1>1, GivesUp
<1>4. /\ \A q : Within(tasks', q) <=> Within(tasks, q) \/ q = cur[Dispatcher]
      /\ OnceIn(tasks')
  BY <1>1, <1>2, AppendWithin DEF TypeOK, QueueTypes, OnePlace, InTasks
<1>5. \A q \in Requests : /\ InQueue(q)' <=> InQueue(q)
                          /\ InTasks(q)' <=> InTasks(q) \/ q = cur[Dispatcher]
                          /\ kind'[q] = kind[q]
  BY <1>4 DEF InQueue, InTasks, packetVars, reqVars
<1>6. \A q \in Requests : Apart(q)'
  BY <1>1, <1>2, <1>3, <1>5 DEF OnePlace, Apart, Live, Held
<1>7. OnePlace'
  BY <1>3, <1>4, <1>6 DEF OnePlace, OneHolder, reqVars
<1> QED BY <1>1, <1>3, <1>5, <1>7

LEMMA Pops ==
  ASSUME Base, Control, OnePlace, PopRequest
  PROVE  /\ OnePlace'
         /\ Head(reqQ) \in Requests /\ InQueue(Head(reqQ))
         /\ \A q \in Requests :
              /\ Held(q)' <=> Held(q) \/ q = Head(reqQ)
              /\ InQueue(q)' <=> InQueue(q) /\ q # Head(reqQ)
              /\ InTasks(q)' <=> InTasks(q)
<1> USE ThreadFacts DEF Base, PopRequest
<1>1. /\ Head(reqQ) \in Requests /\ Within(reqQ, Head(reqQ))
      /\ \A q : Within(reqQ', q) <=> Within(reqQ, q) /\ q # Head(reqQ)
      /\ OnceIn(reqQ')
  BY TailWithin DEF TypeOK, QueueTypes, OnePlace
<1>2. InQueue(Head(reqQ)) /\ ~Held(Head(reqQ)) /\ ~InTasks(Head(reqQ))
  BY <1>1 DEF OnePlace, Apart, InQueue
<1>3. cur[Dispatcher] = NoRequest
  BY DEF Control, ControlOK, QuietLabels
<1>4. /\ OneHolder'
      /\ \A q \in Requests : Held(q)' <=> Held(q) \/ q = Head(reqQ)
  BY <1>1, <1>2, <1>3, TakesUp
<1>5. \A q \in Requests : /\ InQueue(q)' <=> InQueue(q) /\ q # Head(reqQ)
                          /\ InTasks(q)' <=> InTasks(q)
                          /\ kind'[q] = kind[q]
  BY <1>1 DEF InQueue, InTasks, packetVars
<1>6. \A q \in Requests : Apart(q)'
  BY <1>2, <1>4, <1>5 DEF OnePlace, Apart, Live
<1>7. OnePlace'
  BY <1>1, <1>4, <1>6 DEF OnePlace, OneHolder
<1> QED BY <1>1, <1>2, <1>4, <1>5, <1>7

LEMMA Takes ==
  ASSUME Base, Control, OnePlace, NEW w \in Workers, TakeTask(w)
  PROVE  /\ OnePlace'
         /\ Head(tasks) \in Requests /\ InTasks(Head(tasks))
         /\ \A q \in Requests :
              /\ Held(q)' <=> Held(q) \/ q = Head(tasks)
              /\ InQueue(q)' <=> InQueue(q)
              /\ InTasks(q)' <=> InTasks(q) /\ q # Head(tasks)
<1> USE ThreadFacts DEF Base, TakeTask
<1>1. /\ Head(tasks) \in Requests /\ Within(tasks, Head(tasks))
      /\ \A q : Within(tasks', q) <=> Within(tasks, q) /\ q # Head(tasks)
      /\ OnceIn(tasks')
  BY TailWithin DEF TypeOK, QueueTypes, OnePlace
<1>2. InTasks(Head(tasks)) /\ ~Held(Head(tasks)) /\ ~InQueue(Head(tasks))
  BY <1>1 DEF OnePlace, Apart, InTasks
<1>3. cur[w] = NoRequest
  BY DEF Control, ControlOK, QuietLabels
<1>4. /\ OneHolder'
      /\ \A q \in Requests : Held(q)' <=> Held(q) \/ q = Head(tasks)
  BY <1>1, <1>2, <1>3, TakesUp
<1>5. \A q \in Requests : /\ InQueue(q)' <=> InQueue(q)
                          /\ InTasks(q)' <=> InTasks(q) /\ q # Head(tasks)
                          /\ kind'[q] = kind[q]
  BY <1>1 DEF InQueue, InTasks, packetVars, reqVars
<1>6. \A q \in Requests : Apart(q)'
  BY <1>2, <1>4, <1>5 DEF OnePlace, Apart, Live
<1>7. OnePlace'
  BY <1>1, <1>4, <1>6 DEF OnePlace, OneHolder, reqVars
<1> QED BY <1>1, <1>2, <1>4, <1>5, <1>7
-----------------------------------------------------------------------------
(* The second layer.                                                       *)

LEMMA NextOnePlace ==
  ASSUME Base, Control, OnePlace, [Next]_vars
  PROVE  OnePlace'
<1>1. CASE \E t \in IOThreads, r \in Requests : \E k \in Inputs[r] : OnData(t, r, k)
  BY <1>1, Arrives
<1>2. CASE \E t \in Posters : ChainStep(t)
  BY <1>2, Leaves, MostUnmoved, UnmovedKeepsPlace DEF ChainStep
<1>3. CASE \E t \in IOThreads :
             PostRequestToQueue(t) \/ LinkRequest(t) \/ CountRequest(t)
  BY <1>3, ThreadFacts, Queues, MostUnmoved, UnmovedKeepsPlace
<1>4. CASE PopRequest \/ DispatchRequest \/ RefuseRequest \/ CommitTask
  BY <1>4, Pops, Commits, MostUnmoved, UnmovedKeepsPlace
<1>5. CASE \E w \in Workers : TakeTask(w) \/ Execute(w) \/ ExecuteThrowsOther(w)
  BY <1>5, ThreadFacts, Takes, Leaves, MostUnmoved, UnmovedKeepsPlace
<1>6. CASE \/ \E c \in Consumers : Wait(c) \/ SpuriousWakeup(c)
           \/ PopResponse \/ Send
           \/ UNCHANGED vars
  BY <1>6, MostUnmoved, UnmovedKeepsPlace
<1> QED BY <1>1, <1>2, <1>3, <1>4, <1>5, <1>6, Steps

LEMMA InitOnePlace == Init => OnePlace
  BY ThreadFacts
  DEF Init, OnePlace, OneHolder, OnceIn, Apart, Live, Held, InQueue, InTasks,
      Within

LEMMA OnePlaceHolds == Spec => []OnePlace
<1>1. Base /\ Control /\ OnePlace /\ [Next]_vars => OnePlace'
  BY NextOnePlace
<1> QED BY <1>1, InitOnePlace, BaseHolds, PTL DEF Spec

LEMMA OnePlaceCounts ==
  ASSUME OnePlace, NEW r \in Requests
  PROVE  Cardinality(Places(r)) <= 1
<1>1. ASSUME NEW p \in Places(r), NEW q \in Places(r)
      PROVE  p = q
  <2>1. r # NoRequest
    BY ThreadFacts
  <2>2. /\ \A t, u \in Posters : cur[t] = r /\ cur[u] = r => t = u
        /\ \A i, j \in DOMAIN reqQ : reqQ[i] = r /\ reqQ[j] = r => i = j
        /\ \A i, j \in DOMAIN tasks : tasks[i] = r /\ tasks[j] = r => i = j
    BY <2>1 DEF OnePlace, OneHolder, OnceIn
  <2>3. /\ \A t \in Posters, i \in DOMAIN reqQ : ~(cur[t] = r /\ reqQ[i] = r)
        /\ \A t \in Posters, i \in DOMAIN tasks : ~(cur[t] = r /\ tasks[i] = r)
        /\ \A i \in DOMAIN reqQ, j \in DOMAIN tasks : ~(reqQ[i] = r /\ tasks[j] = r)
    BY DEF OnePlace, Apart, Held, InQueue, InTasks, Within
  <2> QED BY <2>2, <2>3 DEF Places
<1>2. CASE Places(r) = {}
  BY <1>2, FS_EmptySet
<1>3. CASE Places(r) # {}
  <2>1. PICK p : Places(r) = {p}
    BY <1>1, <1>3
  <2> QED BY <2>1, FS_Singleton
<1> QED BY <1>2, <1>3

(***************************************************************************)
(* The packet of a request needs no lock: one thread, the request queue or *)
(* the pool's tasks has it, and has it once (RequestDispatcher.cpp:17-37,  *)
(* RPCProcessor.cpp:17-75).                                                *)
(***************************************************************************)
THEOREM OwnersAreSingle == Spec => []SingleOwner
<1>1. OnePlace => SingleOwner
  BY OnePlaceCounts DEF SingleOwner
<1> QED BY <1>1, OnePlaceHolds, PTL
-----------------------------------------------------------------------------
(***************************************************************************)
(* The table: it holds a thread's request from AddRequest to RemoveRequest *)
(* and the requests that wait in a queue, and forgets all but those whose  *)
(* service nobody caught.                                                  *)
(***************************************************************************)
Outside(t) ==
  \/ pc[t] \in {"add", "adding"}
  \/ event[t] = "DeserializedFailed"
  \/ Removes(event[t]) /\ pc[t] \in {"check", "link", "count", "return"}

HolderKnown(t) == cur[t] # NoRequest => (cur[t] \in table <=> ~Outside(t))

Known(r) ==
  /\ InQueue(r) \/ InTasks(r) => r \in table
  /\ r \in table => Live(r) \/ r \in abandoned
  /\ kind[r] = "unsent" => r \notin table

TableOK ==
  /\ \A t \in Posters : HolderKnown(t)
  /\ \A r \in Requests : Known(r)

\* The layers below this one.
Owned == Base /\ Control /\ OnePlace

LEMMA OwnedHolds == Spec => []Owned
  BY BaseHolds, OnePlaceHolds, PTL DEF Owned

LEMMA StaysKnown ==
  ASSUME Owned, NEW u \in Posters, HolderKnown(u), Stays(u),
         cur[u] \in table' <=> cur[u] \in table
  PROVE  HolderKnown(u)'
  BY DEF Owned, Control, ControlOK, HolderKnown, Stays, Outside

(* A step that changes the table for its own request at most.              *)
LEMMA OthersKnown ==
  ASSUME Owned, TableOK, NEW t \in Posters, OthersStay(t),
         \A q \in Requests : q = cur[t] \/ (q \in table' <=> q \in table),
         HolderKnown(t)'
  PROVE  \A u \in Posters : HolderKnown(u)'
<1> SUFFICES ASSUME NEW u \in Posters \ {t}
             PROVE  HolderKnown(u)'
  OBVIOUS
<1>1. Stays(u) /\ HolderKnown(u) /\ cur'[u] = cur[u]
  BY DEF OthersStay, TableOK, Stays
<1>2. CASE cur[u] = NoRequest
  BY <1>1, <1>2 DEF HolderKnown
<1>3. CASE cur[u] # NoRequest
  <2>1. cur[u] \in Requests
    BY <1>3 DEF Owned, Base, TypeOK, ThreadTypes
  <2>2. cur[u] # cur[t]
    BY <1>3 DEF Owned, OnePlace, OneHolder
  <2> QED BY <1>1, <2>1, <2>2, StaysKnown
<1> QED BY <1>2, <1>3

(* A step that moves no request and changes no membership.                 *)
LEMMA StillKnown ==
  ASSUME TableOK, Unmoved, UNCHANGED <<table, abandoned>>
  PROVE  \A r \in Requests : Known(r)'
  BY UnmovedKeepsPlace DEF TableOK, Known, Unmoved

LEMMA ChainKnown ==
  ASSUME Owned, TableOK, NEW t \in Posters, ChainStep(t)
  PROVE  TableOK'
<1> USE ThreadFacts, EventKinds DEF tableVars, historyVars
<1>1. OthersStay(t)
  BY ChainStays DEF Owned, Base
<1>2. /\ pc[t] \in BusyLabels => cur[t] \in Requests
      /\ HolderKnown(t)
      /\ ControlOK(t)
      /\ TypeOK
  BY DEF Owned, Base, WorkOK, Holding, Control, TableOK
<1>3. CASE LockTable(t) \/ UpdateRequestStatus(t) \/ MissRequest(t)
             \/ CheckResponseRoom(t) \/ LinkResponse(t) \/ CountResponse(t)
  <2>1. UNCHANGED <<table, abandoned>> /\ cur' = cur /\ event' = event
    BY <1>3
    DEF LockTable, UpdateRequestStatus, MissRequest, CheckResponseRoom,
        LinkResponse, CountResponse, workVars
  <2>2. Outside(t)' <=> Outside(t)
    <3>1. CASE LockTable(t) \/ UpdateRequestStatus(t) \/ MissRequest(t)
      BY <1>2, <2>1, <3>1
      DEF Outside, LockTable, UpdateRequestStatus, MissRequest, Goto, ControlOK,
          TypeOK, ThreadTypes
    <3>2. CASE CheckResponseRoom(t) \/ LinkResponse(t) \/ CountResponse(t)
      BY <1>2, <2>1, <3>2
      DEF Outside, CheckResponseRoom, LinkResponse, CountResponse, Goto,
          TypeOK, ThreadTypes
    <3> QED BY <1>3, <3>1, <3>2
  <2>3. HolderKnown(t)'
    BY <1>2, <2>1, <2>2 DEF HolderKnown
  <2>4. \A r \in Requests : Known(r)'
    BY <1>3, <2>1, StillKnown, MostUnmoved
  <2> QED BY <1>1, <2>1, <2>3, <2>4, OthersKnown DEF TableOK
<1>4. CASE AddRequest(t)
  <2>1. table' = table \cup {cur[t]} /\ cur' = cur /\ cur[t] \in Requests
    BY <1>2, <1>4 DEF AddRequest, workVars, BusyLabels
  <2>2. HolderKnown(t)'
    BY <1>2, <1>4, <2>1
    DEF HolderKnown, Outside, AddRequest, Goto, workVars, ControlOK, TypeOK,
        ThreadTypes
  <2>3. \A r \in Requests : Known(r)'
    <3>1. Held(cur[t]) /\ kind[cur[t]] # "unsent" /\ UNCHANGED <<kind, abandoned>>
      BY <1>4, <2>1
      DEF AddRequest, packetVars, Held, Owned, OnePlace, Apart, Live
    <3>2. Unmoved
      BY <1>4, MostUnmoved
    <3> QED BY <2>1, <3>1, <3>2, UnmovedKeepsPlace DEF TableOK, Known, Live
  <2> QED BY <1>1, <2>1, <2>2, <2>3, OthersKnown DEF TableOK
<1>5. CASE RemoveRequest(t)
  <2>1. table' = table \ {cur[t]} /\ cur' = cur /\ cur[t] \in Requests
    BY <1>2, <1>5 DEF RemoveRequest, workVars, BusyLabels
  <2>2. HolderKnown(t)'
    BY <1>2, <1>5, <2>1
    DEF HolderKnown, Outside, RemoveRequest, Goto, workVars, ControlOK, TypeOK,
        ThreadTypes
  <2>3. \A r \in Requests : Known(r)'
    <3>1. /\ ~InQueue(cur[t]) /\ ~InTasks(cur[t])
          /\ UNCHANGED <<kind, abandoned>>
      BY <1>5, <2>1
      DEF RemoveRequest, packetVars, Held, Owned, OnePlace, Apart
    <3>2. Unmoved
      BY <1>5, MostUnmoved
    <3> QED BY <2>1, <3>1, <3>2, UnmovedKeepsPlace DEF TableOK, Known
  <2> QED BY <1>1, <2>1, <2>2, <2>3, OthersKnown DEF TableOK
<1>6. CASE Finish(t)
  <2>1. UNCHANGED <<table, abandoned, kind>> /\ cur'[t] = NoRequest
    BY <1>2, <1>6
    DEF Finish, LetGo, packetVars, TypeOK, ThreadTypes
  <2>2. cur[t] \in Requests /\ cur[t] \notin table
    BY <1>2, <1>6 DEF Finish, HolderKnown, Outside, BusyLabels
  <2>3. \A r \in Requests : Known(r)'
    BY <1>6, <2>1, <2>2, Leaves DEF Owned, TableOK, Known, Live
  <2>4. HolderKnown(t)'
    BY <2>1 DEF HolderKnown
  <2> QED BY <1>1, <2>1, <2>3, <2>4, OthersKnown DEF TableOK
<1> QED BY <1>3, <1>4, <1>5, <1>6 DEF ChainStep

LEMMA IOKnown ==
  ASSUME Owned, TableOK, NEW t \in IOThreads,
         PostRequestToQueue(t) \/ LinkRequest(t) \/ CountRequest(t)
  PROVE  TableOK'
<1> USE ThreadFacts, EventKinds
<1>1. OthersStay(t)
  BY IOStays DEF Owned, Base
<1>2. /\ UNCHANGED <<table, abandoned>>
      /\ HolderKnown(t) /\ ControlOK(t) /\ TypeOK
  BY DEF PostRequestToQueue, LinkRequest, CountRequest, tableVars, historyVars,
         Owned, Base, Control, TableOK
<1>3. CASE PostRequestToQueue(t)
  <2>1. HolderKnown(t)'
    BY <1>2, <1>3
    DEF PostRequestToQueue, Raise, Goto, HolderKnown, Outside, ControlOK,
        TypeOK, ThreadTypes
  <2> QED BY <1>1, <1>2, <1>3, <2>1, OthersKnown, StillKnown, MostUnmoved DEF TableOK
<1>4. CASE LinkRequest(t)
  <2>1. cur'[t] = NoRequest /\ HolderKnown(t)'
    BY <1>2, <1>4
    DEF LinkRequest, LetGo, HolderKnown, TypeOK, ThreadTypes
  <2>2. cur[t] \in table
    BY <1>2, <1>4 DEF LinkRequest, HolderKnown, Outside, ControlOK, QuietLabels
  <2>3. \A r \in Requests : Known(r)'
    BY <1>2, <1>4, <2>2, Queues
    DEF Owned, TableOK, Known, Live, LinkRequest, packetVars
  <2> QED BY <1>1, <1>2, <2>1, <2>3, OthersKnown DEF TableOK
<1>5. CASE CountRequest(t)
  <2>1. cur'[t] = NoRequest /\ HolderKnown(t)'
    BY <1>2, <1>5
    DEF CountRequest, workVars, HolderKnown, ControlOK, QuietLabels
  <2> QED BY <1>1, <1>2, <1>5, <2>1, OthersKnown, StillKnown, MostUnmoved DEF TableOK
<1> QED BY <1>3, <1>4, <1>5

LEMMA OnDataKnown ==
  ASSUME Owned, TableOK, NEW t \in IOThreads, NEW r \in Requests,
         NEW k \in Inputs[r], OnData(t, r, k)
  PROVE  TableOK'
<1> USE ThreadFacts, EventKinds
<1>1. OthersStay(t)
  BY OnDataStays DEF Owned, Base
<1>2. UNCHANGED <<table, abandoned>>
  BY DEF OnData, tableVars, historyVars
<1>3. HolderKnown(t)'
  <2>1. r \notin table
    BY DEF OnData, TableOK, Known
  <2> QED BY <1>2, <2>1
    DEF OnData, Raise, Goto, HolderKnown, Outside, Owned, Base, TypeOK, ThreadTypes
<1>4. \A q \in Requests : Known(q)'
  BY <1>2, Arrives DEF Owned, TableOK, Known, Live
<1> QED BY <1>1, <1>2, <1>3, <1>4, OthersKnown DEF TableOK

LEMMA DispatcherKnown ==
  ASSUME Owned, TableOK, PopRequest \/ DispatchRequest \/ RefuseRequest \/ CommitTask
  PROVE  TableOK'
<1> USE ThreadFacts, EventKinds
<1>1. OthersStay(Dispatcher)
  BY DispatcherStays DEF Owned, Base
<1>2. /\ UNCHANGED <<table, abandoned, kind>>
      /\ HolderKnown(Dispatcher) /\ ControlOK(Dispatcher) /\ Base
  BY DEF PopRequest, DispatchRequest, RefuseRequest, CommitTask, tableVars,
         historyVars, packetVars, Owned, Control, TableOK
<1>3. CASE PopRequest
  <2>1. Head(reqQ) \in Requests /\ InQueue(Head(reqQ)) /\ Head(reqQ) \in table
    BY <1>3, Pops DEF Owned, TableOK, Known
  <2>2. HolderKnown(Dispatcher)'
    BY <1>2, <1>3, <2>1
    DEF PopRequest, Goto, HolderKnown, Outside, ControlOK, QuietLabels, Base,
        TypeOK, ThreadTypes
  <2>3. \A r \in Requests : Known(r)'
    BY <1>2, <1>3, Pops DEF Owned, TableOK, Known, Live
  <2> QED BY <1>1, <1>2, <2>2, <2>3, OthersKnown DEF TableOK
<1>4. CASE DispatchRequest
  <2>1. HolderKnown(Dispatcher)'
    BY <1>2, <1>4
    DEF DispatchRequest, Raise, Goto, HolderKnown, Outside, ControlOK,
        QuietLabels, Base, TypeOK, ThreadTypes
  <2> QED BY <1>1, <1>2, <1>4, <2>1, OthersKnown, StillKnown, MostUnmoved DEF TableOK
<1>5. CASE RefuseRequest
  <2>1. ServiceEvent(kind[cur[Dispatcher]]) \in FailureEvents
    BY <1>2, <1>5, ServiceEventFacts
    DEF RefuseRequest, Base, WorkOK, DispatchedParsed, Parsed, BusyLabels
  <2>2. FirstStep(ServiceEvent(kind[cur[Dispatcher]])) = "find"
        /\ ServiceEvent(kind[cur[Dispatcher]]) # "DeserializedFailed"
    BY <2>1 DEF FailureEvents, FirstStep
  <2>3. HolderKnown(Dispatcher)'
    BY <1>2, <1>5, <2>2
    DEF RefuseRequest, Raise, Goto, HolderKnown, Outside, Base, TypeOK,
        ThreadTypes
  <2> QED BY <1>1, <1>2, <1>5, <2>3, OthersKnown, StillKnown, MostUnmoved DEF TableOK
<1>6. CASE CommitTask
  <2>1. cur'[Dispatcher] = NoRequest /\ HolderKnown(Dispatcher)'
    BY <1>2, <1>6
    DEF CommitTask, LetGo, HolderKnown, Base, TypeOK, ThreadTypes
  <2>2. cur[Dispatcher] \in table
    BY <1>2, <1>6 DEF CommitTask, HolderKnown, Outside, ControlOK, QuietLabels
  <2>3. \A r \in Requests : Known(r)'
    BY <1>2, <1>6, <2>2, Commits DEF Owned, TableOK, Known, Live
  <2> QED BY <1>1, <1>2, <2>1, <2>3, OthersKnown DEF TableOK
<1> QED BY <1>3, <1>4, <1>5, <1>6

LEMMA WorkerKnown ==
  ASSUME Owned, TableOK, NEW w \in Workers,
         TakeTask(w) \/ Execute(w) \/ ExecuteThrowsOther(w)
  PROVE  TableOK'
<1> USE ThreadFacts, EventKinds
<1>1. OthersStay(w)
  BY WorkerStays DEF Owned, Base
<1>2. /\ UNCHANGED <<table, kind>>
      /\ HolderKnown(w) /\ ControlOK(w) /\ Base
  BY DEF TakeTask, Execute, ExecuteThrowsOther, tableVars, packetVars, Owned,
         Control, TableOK
<1>3. CASE TakeTask(w)
  <2>1. Head(tasks) \in Requests /\ InTasks(Head(tasks)) /\ Head(tasks) \in table
    BY <1>3, Takes DEF Owned, TableOK, Known
  <2>2. HolderKnown(w)'
    BY <1>2, <1>3, <2>1
    DEF TakeTask, Goto, HolderKnown, Outside, ControlOK, QuietLabels, Base,
        TypeOK, ThreadTypes
  <2>3. \A r \in Requests : Known(r)'
    BY <1>2, <1>3, Takes
    DEF Owned, TableOK, Known, Live, TakeTask, historyVars
  <2> QED BY <1>1, <1>2, <2>2, <2>3, OthersKnown DEF TableOK
<1>4. CASE Execute(w)
  <2>1. HolderKnown(w)'
    BY <1>2, <1>4
    DEF Execute, Raise, Goto, HolderKnown, Outside, ControlOK, QuietLabels,
        Base, TypeOK, ThreadTypes
  <2>2. abandoned' = abandoned
    BY <1>4 DEF Execute, historyVars
  <2> QED BY <1>1, <1>2, <1>4, <2>1, <2>2, OthersKnown, StillKnown, MostUnmoved
    DEF TableOK
<1>5. CASE ExecuteThrowsOther(w)
  <2>1. cur'[w] = NoRequest /\ HolderKnown(w)'
    BY <1>2, <1>5
    DEF ExecuteThrowsOther, LetGo, HolderKnown, Base, TypeOK, ThreadTypes
  <2>2. abandoned' = abandoned \cup {cur[w]}
    BY <1>5 DEF ExecuteThrowsOther
  <2>3. \A r \in Requests : Known(r)'
    BY <1>2, <1>5, <2>2, Leaves DEF Owned, TableOK, Known, Live
  <2> QED BY <1>1, <1>2, <2>1, <2>3, OthersKnown DEF TableOK
<1> QED BY <1>3, <1>4, <1>5

LEMMA RestKnown ==
  ASSUME Owned, TableOK,
         \/ \E c \in Consumers : Wait(c) \/ SpuriousWakeup(c)
         \/ PopResponse \/ Send
         \/ UNCHANGED vars
  PROVE  TableOK'
<1>1. AllStay
  BY RestStays DEF Owned, Base
<1>2. UNCHANGED <<table, abandoned>>
  BY DEF Wait, SpuriousWakeup, PopResponse, Send, vars, tableVars, historyVars
<1>3. \A u \in Posters : HolderKnown(u)'
  BY <1>1, <1>2, StaysKnown DEF AllStay, TableOK
<1> QED BY <1>2, <1>3, StillKnown, MostUnmoved DEF TableOK

(* The third layer.                                                        *)
LEMMA NextTable ==
  ASSUME Owned, TableOK, [Next]_vars
  PROVE  TableOK'
  BY Steps, OnDataKnown, ChainKnown, IOKnown, DispatcherKnown, WorkerKnown,
     RestKnown

LEMMA InitTable == Init => TableOK
  BY ThreadFacts
  DEF Init, TableOK, HolderKnown, Known, Live, Held, InQueue, InTasks, Within

LEMMA TableHolds == Spec => []TableOK
<1>1. Owned /\ TableOK /\ [Next]_vars => TableOK'
  BY NextTable
<1> QED BY <1>1, InitTable, OwnedHolds, PTL DEF Spec

LEMMA LiveIsInProgress ==
  ASSUME NEW r
  PROVE  Live(r) <=> InProgress(r)
<1>1. Live(r) => InProgress(r)
  <2>1. \A t \in Posters : cur[t] = r => <<"thread", t>> \in Places(r)
    BY DEF Places
  <2>2. \A i \in DOMAIN reqQ : reqQ[i] = r => <<"queue", i>> \in Places(r)
    BY DEF Places
  <2>3. \A i \in DOMAIN tasks : tasks[i] = r => <<"task", i>> \in Places(r)
    BY DEF Places
  <2> QED BY <2>1, <2>2, <2>3
    DEF Live, InProgress, Held, InQueue, InTasks, Within
<1>2. InProgress(r) => Live(r)
  BY DEF Live, InProgress, Places, Held, InQueue, InTasks, Within
<1> QED BY <1>1, <1>2

(***************************************************************************)
(* RPCPacketManager's table holds what waits or runs and nothing else,     *)
(* except the request of a service whose exception nobody catches          *)
(* (RPCPacketManager.cpp:11-51, 80-138).                                   *)
(***************************************************************************)
THEOREM TableIsKept == Spec => []TableIsLive
<1>1. TableOK => TableIsLive
  BY LiveIsInProgress DEF TableOK, Known, TableIsLive, InQueue, InTasks, Within
<1> QED BY <1>1, TableHolds, PTL
-----------------------------------------------------------------------------
(***************************************************************************)
(* Statuses: an event finds a status below the one it writes, and after    *)
(* its update the packet has that one, unless a racing lookup missed it.   *)
(***************************************************************************)
Posting == {"add", "adding", "erase", "erasing", "check", "link"}

Updated == Posting \cup {"count", "return"}

StatusOK(t) ==
  /\ pc[t] = "find" => status[cur[t]] < StatusOf(event[t])
  /\ pc[t] \in Updated =>
       /\ status[cur[t]] <= StatusOf(event[t])
       /\ status[cur[t]] = StatusOf(event[t]) \/ cur[t] \in raced
  /\ pc[t] = "popped" => status[cur[t]] <= WAITING
  /\ pc[t] = "run" => status[cur[t]] <= COMMITED

WaitsBelow(r) ==
  /\ InQueue(r) => status[r] <= WAITING
  /\ InTasks(r) => status[r] <= COMMITED

StatusInv ==
  /\ \A t \in Posters : StatusOK(t)
  /\ \A r \in Requests : WaitsBelow(r)

LEMMA StatusNumbers ==
  /\ WAITING = 2 /\ COMMITED = 3 /\ FAILED = 5
  /\ Statuses \subseteq Int
  /\ StatusOf("Deserialized") = 1
  /\ StatusOf("Dispatched") = 2
  /\ StatusOf("Commited") = 3
  /\ StatusOf("Completed") = 4
  /\ StatusOf("DeserializedFailed") = 5
  /\ \A e \in FailureEvents : StatusOf(e) = 5
  /\ \A e \in Events : StatusOf(e) \in Int
  BY DEF WAITING, COMMITED, FAILED, COMPLETED, SUBMITTED, DEFAULTED, Statuses,
         StatusOf, FailureEvents, FinalEvents, Events

LEMMA PostingFacts ==
  Updated \cap (QuietLabels \cup {"find", "popped", "run"}) = {}
  BY DEF Updated, Posting, QuietLabels

LEMMA StaysStatus ==
  ASSUME Owned, NEW u \in Posters, StatusOK(u), Stays(u),
         cur[u] # NoRequest => status'[cur[u]] = status[cur[u]],
         raced \subseteq raced'
  PROVE  StatusOK(u)'
<1>1. CASE pc[u] \in QuietLabels
  <2>1. pc'[u] \in QuietLabels
    BY <1>1 DEF Stays
  <2> QED BY <2>1, PostingFacts DEF StatusOK, QuietLabels
<1>2. CASE pc[u] \notin QuietLabels
  <2>1. pc'[u] = pc[u] /\ cur'[u] = cur[u] /\ event'[u] = event[u]
    BY <1>2 DEF Stays
  <2>2. status'[cur[u]] = status[cur[u]]
    BY <1>2 DEF Owned, Control, ControlOK
  <2> QED BY <2>1, <2>2 DEF StatusOK
<1> QED BY <1>1, <1>2

(* A step that changes the status of its own request at most.              *)
LEMMA OthersStatus ==
  ASSUME Owned, OnePlace', StatusInv, NEW t \in Posters, OthersStay(t),
         \A q \in Requests : q = cur'[t] \/ status'[q] = status[q],
         raced \subseteq raced', StatusOK(t)'
  PROVE  \A u \in Posters : StatusOK(u)'
<1> SUFFICES ASSUME NEW u \in Posters \ {t}
             PROVE  StatusOK(u)'
  OBVIOUS
<1>1. Stays(u) /\ StatusOK(u)
  BY DEF OthersStay, StatusInv
<1>2. cur[u] # NoRequest => status'[cur[u]] = status[cur[u]]
  <2>1. cur[u] # NoRequest => cur[u] \in Requests /\ cur[u] # cur'[t]
    BY <1>1
    DEF Stays, OnePlace, OneHolder, Owned, Base, TypeOK, ThreadTypes
  <2> QED BY <2>1
<1> QED BY <1>1, <1>2, StaysStatus

(* While the table's invariant holds, only a race makes a lookup miss.     *)
LEMMA MissesRace ==
  ASSUME Owned, TableOK, NEW t \in Posters, MissRequest(t)
  PROVE  cur[t] \in Requests /\ cur[t] \in table /\ raced' = raced \cup {cur[t]}
<1>1. /\ pc[t] = "find" /\ cur[t] \in Requests /\ cur[t] # NoRequest
      /\ ControlOK(t) /\ HolderKnown(t)
  BY ThreadFacts
  DEF MissRequest, BusyLabels, Owned, Base, WorkOK, Holding, Control, TableOK
<1>2. ~Outside(t)
  BY <1>1 DEF Outside, ControlOK
<1> QED BY <1>1, <1>2 DEF MissRequest, HolderKnown

LEMMA ChainStatus ==
  ASSUME Owned, TableOK, OnePlace', StatusInv, NEW t \in Posters, ChainStep(t)
  PROVE  StatusInv'
<1> USE ThreadFacts, EventKinds, StatusNumbers DEF historyVars, packetVars, workVars
<1>1. OthersStay(t)
  BY ChainStays DEF Owned, Base
<1>2. /\ pc[t] \in BusyLabels => cur[t] \in Requests
      /\ StatusOK(t) /\ ControlOK(t) /\ TypeOK
  BY DEF Owned, Base, WorkOK, Holding, Control, StatusInv
<1>3. CASE UpdateRequestStatus(t)
  <2>1. /\ pc[t] = "find" /\ cur[t] \in Requests /\ cur' = cur /\ raced' = raced
        /\ status' = [status EXCEPT ![cur[t]] = StatusOf(event[t])]
        /\ pc'[t] \in {"erase", "check"} /\ event' = event
    BY <1>2, <1>3
    DEF UpdateRequestStatus, Goto, BusyLabels, TypeOK, ThreadTypes
  <2>2. StatusOK(t)'
    BY <1>2, <2>1 DEF StatusOK, ControlOK, TypeOK, PacketTypes
  <2>3. \A r \in Requests : WaitsBelow(r)'
    <3>1. ~InQueue(cur[t]) /\ ~InTasks(cur[t])
      BY <2>1 DEF Owned, OnePlace, Apart, Held
    <3>2. \A r \in Requests : r # cur[t] => status'[r] = status[r]
      BY <1>2, <2>1 DEF TypeOK, PacketTypes
    <3> QED BY <1>3, <3>1, <3>2, MostUnmoved, UnmovedKeepsPlace
      DEF StatusInv, WaitsBelow
  <2>4. \A q \in Requests : q = cur'[t] \/ status'[q] = status[q]
    BY <1>2, <2>1 DEF TypeOK, PacketTypes
  <2> QED BY <1>1, <2>1, <2>2, <2>3, <2>4, OthersStatus DEF StatusInv
<1>4. CASE MissRequest(t)
  <2>1. /\ pc[t] = "find" /\ cur[t] \in Requests /\ cur' = cur
        /\ raced' = raced \cup {cur[t]}
        /\ status' = status /\ pc'[t] \in {"erase", "check"} /\ event' = event
    BY <1>2, <1>4, MissesRace DEF MissRequest, Goto, BusyLabels, TypeOK, ThreadTypes
  <2>2. StatusOK(t)'
    <3>1. /\ status[cur[t]] \in Int /\ StatusOf(event[t]) \in Int
          /\ status[cur[t]] < StatusOf(event[t])
      BY <1>2, <2>1 DEF StatusOK, ControlOK, TypeOK, PacketTypes
    <3>2. /\ status'[cur'[t]] <= StatusOf(event'[t])
          /\ cur'[t] \in raced'
      BY <2>1, <3>1
    <3> QED BY <2>1, <3>2 DEF StatusOK
  <2>3. \A r \in Requests : WaitsBelow(r)'
    BY <1>4, <2>1, MostUnmoved, UnmovedKeepsPlace DEF StatusInv, WaitsBelow
  <2> QED BY <1>1, <2>1, <2>2, <2>3, OthersStatus DEF StatusInv
<1>5. CASE \/ LockTable(t) \/ AddRequest(t) \/ RemoveRequest(t)
           \/ CheckResponseRoom(t) \/ LinkResponse(t) \/ CountResponse(t)
  <2>1. cur' = cur /\ raced' = raced /\ status' = status /\ event' = event
    BY <1>5
    DEF LockTable, AddRequest, RemoveRequest, CheckResponseRoom, LinkResponse,
        CountResponse
  <2>2. pc[t] \in Updated /\ pc'[t] \in Updated
    <3>1. CASE LockTable(t) \/ AddRequest(t) \/ RemoveRequest(t)
      BY <1>2, <3>1
      DEF LockTable, AddRequest, RemoveRequest, Goto, Updated, Posting, TypeOK,
          ThreadTypes
    <3>2. CASE CheckResponseRoom(t) \/ LinkResponse(t) \/ CountResponse(t)
      BY <1>2, <3>2
      DEF CheckResponseRoom, LinkResponse, CountResponse, Goto, Updated,
          Posting, TypeOK, ThreadTypes
    <3> QED BY <1>5, <3>1, <3>2
  <2>3. StatusOK(t)'
    BY <1>2, <2>1, <2>2, PostingFacts DEF StatusOK
  <2>4. \A r \in Requests : WaitsBelow(r)'
    BY <1>5, <2>1, MostUnmoved, UnmovedKeepsPlace DEF StatusInv, WaitsBelow
  <2> QED BY <1>1, <2>1, <2>3, <2>4, OthersStatus DEF StatusInv
<1>6. CASE Finish(t)
  <2>1. raced' = raced /\ status' = status /\ pc'[t] = "idle"
    BY <1>2, <1>6 DEF Finish, LetGo, Goto, TypeOK, ThreadTypes
  <2>2. StatusOK(t)'
    BY <2>1, PostingFacts DEF StatusOK, QuietLabels
  <2>3. \A r \in Requests : WaitsBelow(r)'
    BY <1>6, <2>1, Leaves DEF Owned, StatusInv, WaitsBelow
  <2> QED BY <1>1, <2>1, <2>2, <2>3, OthersStatus DEF StatusInv
<1> QED BY <1>3, <1>4, <1>5, <1>6 DEF ChainStep

LEMMA OnDataStatus ==
  ASSUME Owned, OnePlace', StatusInv, NEW t \in IOThreads, NEW r \in Requests,
         NEW k \in Inputs[r], OnData(t, r, k)
  PROVE  StatusInv'
<1> USE ThreadFacts, EventKinds, StatusNumbers
<1>1. OthersStay(t)
  BY OnDataStays DEF Owned, Base
<1>2. /\ cur'[t] = r /\ raced' = raced
      /\ \A q \in Requests : q # r => status'[q] = status[q]
      /\ status'[r] = StatusOf(event'[t]) /\ StatusOf(event'[t]) \in Int
      /\ pc'[t] \in {"add", "check"}
  BY DEF OnData, Raise, Goto, historyVars, SUBMITTED, Owned, Base, TypeOK,
         ThreadTypes, PacketTypes
<1>3. StatusOK(t)'
  BY <1>2 DEF StatusOK
<1>4. \A q \in Requests : WaitsBelow(q)'
  BY <1>2, Arrives DEF Owned, StatusInv, WaitsBelow, Live
<1> QED BY <1>1, <1>2, <1>3, <1>4, OthersStatus DEF StatusInv

LEMMA IOStatus ==
  ASSUME Owned, OnePlace', StatusInv, NEW t \in IOThreads,
         PostRequestToQueue(t) \/ LinkRequest(t) \/ CountRequest(t)
  PROVE  StatusInv'
<1> USE ThreadFacts, EventKinds, StatusNumbers
<1>1. OthersStay(t)
  BY IOStays DEF Owned, Base
<1>2. /\ UNCHANGED <<status, raced>>
      /\ StatusOK(t) /\ ControlOK(t) /\ Base
  BY DEF PostRequestToQueue, LinkRequest, CountRequest, packetVars, historyVars,
         Owned, Control, StatusInv
<1>3. CASE PostRequestToQueue(t)
  <2>1. /\ cur[t] \in Requests /\ status[cur[t]] \in Int
        /\ status[cur[t]] <= 1
    BY <1>2, <1>3
    DEF PostRequestToQueue, StatusOK, Updated, Base, WorkOK, Holding,
        BusyLabels, TypeOK, PacketTypes
  <2>2. /\ pc'[t] = "find" /\ cur' = cur
        /\ event'[t] \in {"Dispatched", "DispatchFailed"}
    BY <1>2, <1>3
    DEF PostRequestToQueue, Raise, Goto, Base, TypeOK, ThreadTypes
  <2>3. StatusOf("DispatchFailed") = 5
    BY DEF FailureEvents
  <2>4. StatusOK(t)'
    BY <1>2, <2>1, <2>2, <2>3 DEF StatusOK, Updated, Posting
  <2>5. \A r \in Requests : WaitsBelow(r)'
    BY <1>2, <1>3, MostUnmoved, UnmovedKeepsPlace DEF StatusInv, WaitsBelow
  <2> QED BY <1>1, <1>2, <2>4, <2>5, OthersStatus DEF StatusInv
<1>4. CASE LinkRequest(t)
  <2>1. status[cur[t]] <= WAITING
    BY <1>2, <1>4 DEF LinkRequest, StatusOK, Updated
  <2>2. pc'[t] = "pushed"
    BY <1>2, <1>4 DEF LinkRequest, LetGo, Goto, Base, TypeOK, ThreadTypes
  <2>3. StatusOK(t)'
    BY <2>2, PostingFacts DEF StatusOK, QuietLabels
  <2>4. \A r \in Requests : WaitsBelow(r)'
    BY <1>2, <1>4, <2>1, Queues DEF Owned, StatusInv, WaitsBelow
  <2> QED BY <1>1, <1>2, <2>3, <2>4, OthersStatus DEF StatusInv
<1>5. CASE CountRequest(t)
  <2>1. pc'[t] = "idle"
    BY <1>2, <1>5 DEF CountRequest, Base, TypeOK, ThreadTypes
  <2>2. StatusOK(t)'
    BY <2>1, PostingFacts DEF StatusOK, QuietLabels
  <2>3. \A r \in Requests : WaitsBelow(r)'
    BY <1>2, <1>5, MostUnmoved, UnmovedKeepsPlace DEF StatusInv, WaitsBelow
  <2> QED BY <1>1, <1>2, <2>2, <2>3, OthersStatus DEF StatusInv
<1> QED BY <1>3, <1>4, <1>5

LEMMA DispatcherStatus ==
  ASSUME Owned, OnePlace', StatusInv,
         PopRequest \/ DispatchRequest \/ RefuseRequest \/ CommitTask
  PROVE  StatusInv'
<1> USE ThreadFacts, EventKinds, StatusNumbers
<1>1. OthersStay(Dispatcher)
  BY DispatcherStays DEF Owned, Base
<1>2. /\ UNCHANGED <<status, raced>>
      /\ StatusOK(Dispatcher) /\ ControlOK(Dispatcher) /\ Base
  BY DEF PopRequest, DispatchRequest, RefuseRequest, CommitTask, packetVars,
         historyVars, Owned, Control, StatusInv
<1>a. cur[Dispatcher] \in Requests => status[cur[Dispatcher]] \in Int
  BY <1>2 DEF Base, TypeOK, PacketTypes
<1>3. CASE PopRequest
  <2>1. Head(reqQ) \in Requests /\ status[Head(reqQ)] <= WAITING
    BY <1>3, Pops DEF Owned, StatusInv, WaitsBelow
  <2>2. pc'[Dispatcher] = "popped" /\ cur'[Dispatcher] = Head(reqQ)
    BY <1>2, <1>3 DEF PopRequest, Goto, Base, TypeOK, ThreadTypes
  <2>3. StatusOK(Dispatcher)'
    BY <1>2, <2>1, <2>2, PostingFacts DEF StatusOK
  <2>4. \A r \in Requests : WaitsBelow(r)'
    BY <1>2, <1>3, Pops DEF Owned, StatusInv, WaitsBelow
  <2> QED BY <1>1, <1>2, <2>3, <2>4, OthersStatus DEF StatusInv
<1>4. CASE DispatchRequest
  <2>1. cur[Dispatcher] \in Requests /\ status[cur[Dispatcher]] <= 2
    BY <1>2, <1>4
    DEF DispatchRequest, StatusOK, Base, WorkOK, Holding, BusyLabels
  <2>2. /\ pc'[Dispatcher] = "find" /\ cur' = cur
        /\ event'[Dispatcher] = "Commited"
    BY <1>2, <1>4
    DEF DispatchRequest, Raise, Goto, Base, TypeOK, ThreadTypes
  <2>3. StatusOK(Dispatcher)'
    BY <1>2, <1>a, <2>1, <2>2, PostingFacts DEF StatusOK
  <2>4. \A r \in Requests : WaitsBelow(r)'
    BY <1>2, <1>4, MostUnmoved, UnmovedKeepsPlace DEF StatusInv, WaitsBelow
  <2> QED BY <1>1, <1>2, <2>3, <2>4, OthersStatus DEF StatusInv
<1>5. CASE RefuseRequest
  <2>1. cur[Dispatcher] \in Requests /\ status[cur[Dispatcher]] <= 3
    BY <1>2, <1>5
    DEF RefuseRequest, StatusOK, Updated, Base, WorkOK, Holding, BusyLabels
  <2>2. ServiceEvent(kind[cur[Dispatcher]]) \in FailureEvents
    BY <1>2, <1>5, ServiceEventFacts
    DEF RefuseRequest, Base, WorkOK, DispatchedParsed, Parsed, BusyLabels
  <2>3. /\ cur' = cur
        /\ event'[Dispatcher] = ServiceEvent(kind[cur[Dispatcher]])
        /\ pc'[Dispatcher] = FirstStep(event'[Dispatcher])
    BY <1>2, <1>5 DEF RefuseRequest, Raise, Goto, Base, TypeOK, ThreadTypes
  <2>4. pc'[Dispatcher] = "find" /\ StatusOf(event'[Dispatcher]) = 5
    BY <2>2, <2>3 DEF FailureEvents, FirstStep
  <2>5. StatusOK(Dispatcher)'
    BY <1>2, <1>a, <2>1, <2>3, <2>4, PostingFacts DEF StatusOK
  <2>6. \A r \in Requests : WaitsBelow(r)'
    BY <1>2, <1>5, MostUnmoved, UnmovedKeepsPlace DEF StatusInv, WaitsBelow
  <2> QED BY <1>1, <1>2, <2>5, <2>6, OthersStatus DEF StatusInv
<1>6. CASE CommitTask
  <2>1. status[cur[Dispatcher]] <= COMMITED
    BY <1>2, <1>6 DEF CommitTask, StatusOK, Updated
  <2>2. pc'[Dispatcher] = "idle"
    BY <1>2, <1>6 DEF CommitTask, LetGo, Goto, Base, TypeOK, ThreadTypes
  <2>3. StatusOK(Dispatcher)'
    BY <2>2, PostingFacts DEF StatusOK, QuietLabels
  <2>4. \A r \in Requests : WaitsBelow(r)'
    BY <1>2, <1>6, <2>1, Commits DEF Owned, StatusInv, WaitsBelow
  <2> QED BY <1>1, <1>2, <2>3, <2>4, OthersStatus DEF StatusInv
<1> QED BY <1>3, <1>4, <1>5, <1>6

LEMMA WorkerStatus ==
  ASSUME Owned, OnePlace', StatusInv, NEW w \in Workers,
         TakeTask(w) \/ Execute(w) \/ ExecuteThrowsOther(w)
  PROVE  StatusInv'
<1> USE ThreadFacts, EventKinds, StatusNumbers
<1>1. OthersStay(w)
  BY WorkerStays DEF Owned, Base
<1>2. /\ UNCHANGED <<status, raced>>
      /\ StatusOK(w) /\ ControlOK(w) /\ Base
  BY DEF TakeTask, Execute, ExecuteThrowsOther, packetVars, historyVars, Owned,
         Control, StatusInv
<1>3. CASE TakeTask(w)
  <2>1. Head(tasks) \in Requests /\ status[Head(tasks)] <= COMMITED
    BY <1>3, Takes DEF Owned, StatusInv, WaitsBelow
  <2>2. pc'[w] = "run" /\ cur'[w] = Head(tasks)
    BY <1>2, <1>3 DEF TakeTask, Goto, Base, TypeOK, ThreadTypes
  <2>3. StatusOK(w)'
    BY <1>2, <2>1, <2>2, PostingFacts DEF StatusOK
  <2>4. \A r \in Requests : WaitsBelow(r)'
    BY <1>2, <1>3, Takes DEF Owned, StatusInv, WaitsBelow
  <2> QED BY <1>1, <1>2, <2>3, <2>4, OthersStatus DEF StatusInv
<1>4. CASE Execute(w)
  <2>1. /\ cur[w] \in Requests /\ status[cur[w]] <= 3
        /\ status[cur[w]] \in Int
    BY <1>2, <1>4
    DEF Execute, StatusOK, Base, WorkOK, Holding, BusyLabels, TypeOK, PacketTypes
  <2>2. /\ pc'[w] = "find" /\ cur' = cur
        /\ event'[w] \in {"Completed", "ServiceError"}
    BY <1>2, <1>4 DEF Execute, Raise, Goto, Base, TypeOK, ThreadTypes
  <2>3. StatusOf(event'[w]) \in {4, 5}
    BY <2>2 DEF FailureEvents
  <2>4. StatusOK(w)'
    BY <1>2, <2>1, <2>2, <2>3, PostingFacts DEF StatusOK
  <2>5. \A r \in Requests : WaitsBelow(r)'
    BY <1>2, <1>4, MostUnmoved, UnmovedKeepsPlace DEF StatusInv, WaitsBelow
  <2> QED BY <1>1, <1>2, <2>4, <2>5, OthersStatus DEF StatusInv
<1>5. CASE ExecuteThrowsOther(w)
  <2>1. pc'[w] = "idle"
    BY <1>2, <1>5 DEF ExecuteThrowsOther, LetGo, Goto, Base, TypeOK, ThreadTypes
  <2>2. StatusOK(w)'
    BY <2>1, PostingFacts DEF StatusOK, QuietLabels
  <2>3. \A r \in Requests : WaitsBelow(r)'
    BY <1>2, <1>5, Leaves DEF Owned, StatusInv, WaitsBelow
  <2> QED BY <1>1, <1>2, <2>2, <2>3, OthersStatus DEF StatusInv
<1> QED BY <1>3, <1>4, <1>5

LEMMA RestStatus ==
  ASSUME Owned, StatusInv,
         \/ \E c \in Consumers : Wait(c) \/ SpuriousWakeup(c)
         \/ PopResponse \/ Send
         \/ UNCHANGED vars
  PROVE  StatusInv'
<1>1. AllStay
  BY RestStays DEF Owned, Base
<1>2. UNCHANGED <<status, raced>>
  BY DEF Wait, SpuriousWakeup, PopResponse, Send, vars, packetVars, historyVars
<1>3. \A u \in Posters : StatusOK(u)'
  BY <1>1, <1>2, StaysStatus DEF AllStay, StatusInv
<1> QED BY <1>2, <1>3, MostUnmoved, UnmovedKeepsPlace DEF StatusInv, WaitsBelow

(* The fourth layer.                                                       *)
LEMMA NextStatus ==
  ASSUME Owned, TableOK, OnePlace', StatusInv, [Next]_vars
  PROVE  StatusInv'
  BY Steps, OnDataStatus, ChainStatus, IOStatus, DispatcherStatus,
     WorkerStatus, RestStatus

LEMMA InitStatus == Init => StatusInv
  BY ThreadFacts, PostingFacts
  DEF Init, StatusInv, StatusOK, WaitsBelow, InQueue, InTasks, Within, QuietLabels

LEMMA StatusHolds == Spec => []StatusInv
<1>1. Owned /\ OnePlace' /\ TableOK /\ StatusInv /\ [Next]_vars => StatusInv'
  BY NextStatus
<1> QED BY <1>1, InitStatus, OwnedHolds, OnePlaceHolds, TableHolds, PTL DEF Spec
-----------------------------------------------------------------------------
(***************************************************************************)
(* Responses: those of one request, from the last one sent through the one *)
(* being sent to the last one queued, go up in status and only the last of *)
(* them is final.                                                          *)
(***************************************************************************)
Precedes(r, a, b) ==
  /\ ~IsFinal(a)
  /\ a.status < b.status \/ (r \in raced /\ a.status = b.status)

Consistent(m) == m.req \in raced \/ (m.error # "PKT_NO_ERROR" <=> m.status = FAILED)

Responding ==
  IF pc[Responder] = "popped" THEN \E m \in Response : sending = {m}
                              ELSE sending = {}

QueueInOrder ==
  \A i, j \in DOMAIN respQ :
    i < j /\ respQ[i].req = respQ[j].req =>
      Precedes(respQ[i].req, respQ[i], respQ[j])

QueueAfterSent ==
  \A i \in DOMAIN respQ :
    /\ Precedes(respQ[i].req, last[respQ[i].req], respQ[i])
    /\ \A m \in sending :
         m.req = respQ[i].req => Precedes(m.req, m, respQ[i])

SentInOrder == \A m \in sending : Precedes(m.req, last[m.req], m)

AllConsistent ==
  /\ \A i \in DOMAIN respQ : Consistent(respQ[i])
  /\ \A m \in sending : Consistent(m)

StreamOK ==
  Responding /\ QueueInOrder /\ QueueAfterSent /\ SentInOrder /\ AllConsistent

(***************************************************************************)
(* What was posted for a request is no further than its packet, and does   *)
(* not tell an outcome before the thread that has it raised the last event *)
(* and posted; and after that it does, unless something was lost.          *)
(***************************************************************************)
Posted(r) ==
  {last[r]} \cup {m \in sending : m.req = r}
    \cup {respQ[i] : i \in {i \in DOMAIN respQ : respQ[i].req = r}}

Done(t) == pc[t] \in {"count", "return"} /\ event[t] \in FinalEvents

Open(r) == \A x \in Posted(r) : ~IsFinal(x)

Told(r) == r \in lost \cup raced \/ ~Open(r)

Behind(r) == \A x \in Posted(r) : x.status < status[r] \/ r \in raced

HolderTells(t) ==
  cur[t] # NoRequest =>
    /\ Done(t) => Told(cur[t])
    /\ ~Done(t) => Open(cur[t])
    /\ pc[t] \in Posting => Behind(cur[t])

Answers(r) ==
  /\ \A x \in Posted(r) : x.status <= status[r]
  /\ InQueue(r) \/ InTasks(r) => Open(r)
  /\ kind[r] = "unsent" => Posted(r) = {NoResponse}
  /\ kind[r] # "unsent" /\ ~Live(r) => Told(r) \/ r \in abandoned

PostedOK ==
  /\ \A t \in Posters : HolderTells(t)
  /\ \A r \in Requests : Answers(r)

\* The layers below this one.
Lower == Owned /\ TableOK /\ StatusInv

LEMMA LowerHolds == Spec => []Lower
  BY OwnedHolds, TableHolds, StatusHolds, PTL DEF Lower

LEMMA OutcomeFacts ==
  /\ \A e \in FinalEvents : StatusOf(e) \in {COMPLETED, FAILED}
  /\ \A e \in Events \ FinalEvents :
       /\ StatusOf(e) \in Int /\ StatusOf(e) <= COMMITED
       /\ ErrorOf(e) = "PKT_NO_ERROR"
  /\ \A e \in Events : ErrorOf(e) # "PKT_NO_ERROR" <=> StatusOf(e) = FAILED
  /\ COMPLETED = 4 /\ FAILED = 5 /\ COMMITED = 3
  BY DEF FinalEvents, FailureEvents, Events, StatusOf, ErrorOf, SUBMITTED,
         WAITING, COMMITED, COMPLETED, FAILED

LEMMA PostedTypes ==
  ASSUME TypeOK, NEW r \in Requests, NEW x \in Posted(r)
  PROVE  x.status \in Statuses /\ x.status \in Int
<1>1. \A m \in Response : m.status \in Statuses
  BY DEF Response
<1>2. last[r].status \in Statuses /\ \A m \in sending : m.status \in Statuses
  BY <1>1 DEF TypeOK, HistoryTypes
<1>3. \A i \in DOMAIN respQ : respQ[i] \in Response
  BY DEF TypeOK, QueueTypes
<1> QED BY <1>1, <1>2, <1>3, StatusNumbers DEF Posted

(* A step that touches no response.                                        *)
SameResponses == UNCHANGED <<respQ, sending, last>>

Grows == lost \subseteq lost' /\ raced \subseteq raced'

LEMMA SamePosted ==
  ASSUME SameResponses, Grows, NEW r
  PROVE  /\ Posted(r)' = Posted(r)
         /\ Open(r)' <=> Open(r)
         /\ Told(r) => Told(r)'
<1>1. Posted(r)' = Posted(r)
  BY DEF SameResponses, Posted
<1>2. Open(r)' <=> Open(r)
  BY <1>1 DEF Open, IsFinal
<1> QED BY <1>1, <1>2 DEF Told, Grows

LEMMA SameStream ==
  ASSUME SameResponses, Grows, StreamOK,
         pc'[Responder] = "popped" <=> pc[Responder] = "popped"
  PROVE  StreamOK'
<1> USE DEF SameResponses, Grows
<1>2. Responding'
  BY DEF StreamOK, Responding
<1>3. QueueInOrder'
  BY DEF StreamOK, QueueInOrder, Precedes, IsFinal
<1>4. QueueAfterSent'
  BY DEF StreamOK, QueueAfterSent, Precedes, IsFinal
<1>5. SentInOrder'
  BY DEF StreamOK, SentInOrder, Precedes, IsFinal
<1>6. AllConsistent'
  BY DEF StreamOK, AllConsistent, Consistent
<1> QED BY <1>2, <1>3, <1>4, <1>5, <1>6 DEF StreamOK

(* What a step keeps of a request's responses when it adds none: what was  *)
(* posted says the same, if not in the same place.                         *)
Keeps(r) ==
  /\ \A x \in Posted(r)' :
       \E y \in Posted(r) : x.status = y.status /\ x.error = y.error
  /\ Open(r)' <=> Open(r)
  /\ status'[r] = status[r]

LEMMA StaysTells ==
  ASSUME Owned, NEW u \in Posters, HolderTells(u), Stays(u), Grows,
         NEW r, cur[u] = r, r # NoRequest => Keeps(r)
  PROVE  HolderTells(u)'
<1>1. CASE r = NoRequest
  BY <1>1 DEF Stays, HolderTells
<1>2. CASE r # NoRequest
  <2>1. pc'[u] = pc[u] /\ cur'[u] = r /\ event'[u] = event[u]
    BY <1>2 DEF Stays, Owned, Control, ControlOK
  <2>2. Done(u)' <=> Done(u)
    BY <2>1 DEF Done
  <2>3. Told(r) => Told(r)'
    BY <1>2 DEF Told, Grows, Keeps
  <2>4. Behind(r) => Behind(r)'
    BY <1>2 DEF Behind, Grows, Keeps
  <2>5. /\ Done(u) => Told(r)'
        /\ ~Done(u) => Open(r)'
        /\ pc[u] \in Posting => Behind(r)'
    BY <1>2, <2>3, <2>4 DEF HolderTells, Keeps
  <2> QED BY <2>1, <2>2, <2>5 DEF HolderTells, Told, Open, Posted, Behind
<1> QED BY <1>1, <1>2

(* A step that adds responses to its own request at most.                  *)
LEMMA OthersTell ==
  ASSUME Owned, OnePlace', PostedOK, NEW t \in Posters, OthersStay(t), Grows,
         \A q \in Requests : q = cur'[t] \/ Keeps(q),
         HolderTells(t)'
  PROVE  \A u \in Posters : HolderTells(u)'
<1> SUFFICES ASSUME NEW u \in Posters \ {t}
             PROVE  HolderTells(u)'
  OBVIOUS
<1>1. Stays(u) /\ HolderTells(u)
  BY DEF OthersStay, PostedOK
<1>2. PICK r : cur[u] = r
  OBVIOUS
<1>3. r # NoRequest => r \in Requests /\ r # cur'[t]
  BY <1>1, <1>2 DEF Stays, OnePlace, OneHolder, Owned, Base, TypeOK, ThreadTypes
<1> QED BY <1>1, <1>2, <1>3, StaysTells

(* A step that touches no response and moves no request.                   *)
LEMMA UnmovedAnswers ==
  ASSUME TypeOK, TypeOK', PostedOK, Unmoved, SameResponses, Grows,
         abandoned' = abandoned, \A q \in Requests : status[q] <= status'[q]
  PROVE  \A q \in Requests : Answers(q)'
<1> SUFFICES ASSUME NEW q \in Requests
             PROVE  Answers(q)'
  OBVIOUS
<1>1. Answers(q)
  BY DEF PostedOK
<1>2. /\ Posted(q)' = Posted(q)
      /\ Open(q)' <=> Open(q)
      /\ Told(q) => Told(q)'
  BY SamePosted
<1>3. /\ InQueue(q)' <=> InQueue(q)
      /\ InTasks(q)' <=> InTasks(q)
      /\ Live(q)' <=> Live(q)
      /\ kind' = kind
  BY UnmovedKeepsPlace DEF Unmoved
<1>4. \A x \in Posted(q) : x.status <= status'[q]
  <2> TAKE x \in Posted(q)
  <2>1. x.status \in Int /\ status[q] \in Int /\ status'[q] \in Int
    BY PostedTypes, StatusNumbers DEF TypeOK, PacketTypes
  <2>2. x.status <= status[q] /\ status[q] <= status'[q]
    BY <1>1 DEF Answers
  <2> QED BY <2>1, <2>2
<1> QED BY <1>1, <1>2, <1>3, <1>4 DEF Answers

LEMMA SameKeeps ==
  ASSUME SameResponses, Grows, NEW q, status'[q] = status[q]
  PROVE  Keeps(q)
  BY SamePosted DEF Keeps

(* The handler chain of a thread, as far as it touches no response.        *)
LEMMA UpdateTells ==
  ASSUME Lower, TypeOK', OnePlace', PostedOK, StreamOK, NEW t \in Posters,
         UpdateRequestStatus(t) \/ MissRequest(t)
  PROVE  PostedOK' /\ StreamOK'
<1> USE ThreadFacts, EventKinds, StatusNumbers
<1>1. OthersStay(t)
  BY ChainStays DEF ChainStep, Lower, Owned, Base
<1>2. PICK r \in Requests : cur[t] = r
  BY DEF UpdateRequestStatus, MissRequest, BusyLabels, Lower, Owned, Base,
         WorkOK, Holding
<1>3. /\ HolderTells(t) /\ StatusOK(t) /\ ControlOK(t) /\ TypeOK /\ Answers(r)
  BY DEF Lower, Owned, Base, Control, StatusInv, PostedOK
<1>4. /\ pc[t] = "find" /\ pc'[t] \in {"erase", "check"}
      /\ cur'[t] = r /\ event'[t] = event[t]
      /\ SameResponses /\ Unmoved /\ Grows
      /\ pc'[Responder] = pc[Responder] /\ abandoned' = abandoned
  <2>1. CASE UpdateRequestStatus(t)
    BY <1>2, <1>3, <2>1, MostUnmoved
    DEF UpdateRequestStatus, Goto, workVars, respVars, sendVars, historyVars,
        SameResponses, Grows, TypeOK, ThreadTypes
  <2>2. CASE MissRequest(t)
    BY <1>2, <1>3, <2>2, MostUnmoved
    DEF MissRequest, Goto, workVars, respVars, sendVars, SameResponses, Grows,
        TypeOK, ThreadTypes
  <2> QED BY <2>1, <2>2
<1>5. /\ \A q \in Requests : q # r => status'[q] = status[q]
      /\ status[r] <= status'[r]
      /\ status[r] < status'[r] \/ r \in raced'
  <2>1. status[r] \in Int /\ StatusOf(event[t]) \in Int
        /\ status[r] < StatusOf(event[t])
    BY <1>2, <1>3, <1>4 DEF ControlOK, StatusOK, TypeOK, PacketTypes
  <2>2. CASE UpdateRequestStatus(t)
    <3>1. status' = [status EXCEPT ![r] = StatusOf(event[t])]
      BY <1>2, <2>2 DEF UpdateRequestStatus
    <3> QED BY <1>3, <2>1, <3>1 DEF TypeOK, PacketTypes
  <2>3. CASE MissRequest(t)
    <3>1. status' = status /\ r \in raced'
      BY <1>2, <2>3, MissesRace DEF MissRequest, packetVars, Lower
    <3> QED BY <2>1, <3>1
  <2> QED BY <2>2, <2>3
<1>6. HolderTells(t)'
  <2>1. ~Done(t) /\ ~Done(t)'
    BY <1>4 DEF Done
  <2>2. Open(r)'
    BY <1>2, <1>3, <1>4, <2>1, SamePosted DEF HolderTells
  <2>3. Behind(r)'
    <3>1. \A x \in Posted(r) : x.status < status'[r] \/ r \in raced'
      <4> TAKE x \in Posted(r)
      <4>1. x.status \in Int /\ status[r] \in Int /\ status'[r] \in Int
        BY <1>3, PostedTypes DEF TypeOK, PacketTypes
      <4>2. x.status <= status[r]
        BY <1>3 DEF Answers
      <4> QED BY <1>5, <4>1, <4>2
    <3> QED BY <1>4, <3>1, SamePosted DEF Behind
  <2> QED BY <1>4, <2>1, <2>2, <2>3 DEF HolderTells, Open, Behind, Posted
<1>7. \A q \in Requests : q = r \/ Keeps(q)
  BY <1>4, <1>5, SameKeeps
<1>8. \A q \in Requests : status[q] <= status'[q]
  <2> TAKE q \in Requests
  <2>1. status[q] \in Int
    BY <1>3 DEF TypeOK, PacketTypes
  <2> QED BY <1>5, <2>1
<1>9. \A q \in Requests : Answers(q)'
  BY <1>3, <1>4, <1>8, UnmovedAnswers
<1>10. \A u \in Posters : HolderTells(u)'
  BY <1>1, <1>4, <1>6, <1>7, OthersTell DEF Lower
<1>11. StreamOK'
  BY <1>4, SameStream
<1> QED BY <1>9, <1>10, <1>11 DEF PostedOK

LEMMA EqualStatuses ==
  ASSUME TypeOK, status' = status
  PROVE  \A q \in Requests : status[q] <= status'[q]
<1> TAKE q \in Requests
<1>1. status[q] \in Int
  BY StatusNumbers DEF TypeOK, PacketTypes
<1> QED BY <1>1

(* Steps of a chain that keep the responses, the statuses and the requests *)
(* where they are, and only bring their thread closer to its post.         *)
LEMMA OnwardTells ==
  ASSUME Lower, TypeOK', OnePlace', PostedOK, StreamOK, NEW t \in Posters,
         OthersStay(t), SameResponses, Unmoved, Grows, abandoned' = abandoned,
         status' = status, pc'[Responder] = "popped" <=> pc[Responder] = "popped",
         HolderTells(t)'
  PROVE  PostedOK' /\ StreamOK'
<1>1. \A q \in Requests : Answers(q)'
  BY UnmovedAnswers, EqualStatuses DEF Lower, Owned, Base
<1>2. \A q \in Requests : Keeps(q)
  BY SameKeeps
<1>3. \A u \in Posters : HolderTells(u)'
  BY <1>2, OthersTell DEF Lower
<1>4. StreamOK'
  BY SameStream
<1> QED BY <1>1, <1>3, <1>4 DEF PostedOK

(* A thread whose responses are as they were tells what it told.           *)
LEMMA HolderAsBefore ==
  ASSUME SameResponses, Grows, status' = status, cur' = cur, NEW t \in Posters,
         HolderTells(t), Done(t)' <=> Done(t),
         pc'[t] \in Posting => pc[t] \in Posting
  PROVE  HolderTells(t)'
<1>1. PICK r : cur[t] = r
  OBVIOUS
<1>2. Behind(r) => Behind(r)'
  BY SamePosted DEF Behind, Grows
<1>3. (Told(r) => Told(r)') /\ (Open(r)' <=> Open(r))
  BY SamePosted
<1> QED BY <1>1, <1>2, <1>3 DEF HolderTells, Told, Open, Behind, Posted

LEMMA LockTells ==
  ASSUME Lower, TypeOK', OnePlace', PostedOK, StreamOK, NEW t \in Posters,
         LockTable(t) \/ AddRequest(t) \/ RemoveRequest(t)
  PROVE  PostedOK' /\ StreamOK'
<1> USE ThreadFacts
<1>1. OthersStay(t)
  BY ChainStays DEF ChainStep, Lower, Owned, Base
<1>2. /\ SameResponses /\ Unmoved /\ Grows
      /\ abandoned' = abandoned /\ status' = status /\ cur' = cur
  BY MostUnmoved
  DEF LockTable, AddRequest, RemoveRequest, packetVars, respVars, sendVars,
      historyVars, workVars, SameResponses, Grows
<1>3. /\ pc[t] \in Posting /\ pc'[t] \in Posting /\ ~Done(t) /\ ~Done(t)'
      /\ pc'[Responder] = pc[Responder]
  BY DEF LockTable, AddRequest, RemoveRequest, Goto, Posting, Done, Lower,
         Owned, Base, TypeOK, ThreadTypes
<1>4. HolderTells(t)'
  BY <1>2, <1>3, HolderAsBefore DEF PostedOK
<1> QED BY <1>1, <1>2, <1>3, <1>4, OnwardTells

LEMMA RoomTells ==
  ASSUME Lower, TypeOK', OnePlace', PostedOK, StreamOK, NEW t \in Posters,
         CheckResponseRoom(t)
  PROVE  PostedOK' /\ StreamOK'
<1> USE ThreadFacts
<1>1. OthersStay(t)
  BY ChainStays DEF ChainStep, Lower, Owned, Base
<1>2. /\ SameResponses /\ Unmoved /\ Grows
      /\ abandoned' = abandoned /\ status' = status /\ cur' = cur
      /\ event' = event
  BY MostUnmoved
  DEF CheckResponseRoom, packetVars, respVars, sendVars, workVars,
      SameResponses, Grows
<1>3. pc[t] = "check" /\ pc'[Responder] = pc[Responder] /\ ~Done(t)
  BY DEF CheckResponseRoom, Goto, Done, Lower, Owned, Base, TypeOK, ThreadTypes
<1>4. HolderTells(t)'
  <2>1. PICK r \in Requests : cur[t] = r /\ cur'[t] = r
    BY <1>2, <1>3 DEF BusyLabels, Lower, Owned, Base, WorkOK, Holding
  <2>2. /\ Open(r)' /\ Behind(r)'
    <3>1. Open(r) /\ Behind(r)
      BY <1>3, <2>1, ThreadFacts
      DEF PostedOK, HolderTells, Posting, Open, Behind, Posted
    <3> QED BY <1>2, <3>1, SamePosted DEF Behind, Grows
  <2>3. Done(t)' => r \in lost'
    BY <1>2, <1>3, <2>1
    DEF CheckResponseRoom, Goto, Done, Lower, Owned, Base, TypeOK, ThreadTypes
  <2>4. Done(t)' => Told(r)'
    BY <2>3 DEF Told
  <2> QED BY <2>1, <2>2, <2>4 DEF HolderTells, Told, Open, Behind, Posted
<1> QED BY <1>1, <1>2, <1>3, <1>4, OnwardTells

LEMMA CountTells ==
  ASSUME Lower, TypeOK', OnePlace', PostedOK, StreamOK, NEW t \in Posters,
         CountResponse(t)
  PROVE  PostedOK' /\ StreamOK'
<1> USE ThreadFacts
<1>1. OthersStay(t)
  BY ChainStays DEF ChainStep, Lower, Owned, Base
<1>2. /\ SameResponses /\ Unmoved /\ Grows
      /\ abandoned' = abandoned /\ status' = status /\ cur' = cur
      /\ event' = event
  BY MostUnmoved
  DEF CountResponse, packetVars, sendVars, workVars, historyVars,
      SameResponses, Grows
<1>3. /\ pc[t] = "count" /\ pc'[t] = "return"
      /\ pc'[Responder] = "popped" <=> pc[Responder] = "popped"
  BY DEF CountResponse, Notified, Lower, Owned, Base, TypeOK, ThreadTypes
<1>4. HolderTells(t)'
  BY <1>2, <1>3, HolderAsBefore DEF PostedOK, Posting, Done
<1> QED BY <1>1, <1>2, <1>3, <1>4, OnwardTells

(* Steps that raise the next event of a request that has no outcome yet.   *)
LEMMA RaiseTells ==
  ASSUME Lower, TypeOK', OnePlace', PostedOK, StreamOK, NEW t \in Posters,
         \/ t \in IOThreads /\ PostRequestToQueue(t)
         \/ t = Dispatcher /\ (DispatchRequest \/ RefuseRequest)
         \/ t \in Workers /\ Execute(t)
  PROVE  PostedOK' /\ StreamOK'
<1> USE ThreadFacts, EventKinds
<1>1. OthersStay(t)
  BY IOStays, DispatcherStays, WorkerStays DEF Lower, Owned, Base
<1>2. /\ SameResponses /\ Unmoved /\ Grows
      /\ abandoned' = abandoned /\ status' = status /\ cur' = cur
  BY MostUnmoved
  DEF PostRequestToQueue, DispatchRequest, RefuseRequest, Execute, packetVars,
      respVars, sendVars, historyVars, SameResponses, Grows
<1>3. /\ ~Done(t) /\ pc'[t] = FirstStep(event'[t])
      /\ event'[t] \in {"Dispatched", "DispatchFailed", "Commited", "Completed"}
                         \cup FailureEvents
      /\ pc'[Responder] = pc[Responder]
  <2>1. CASE t \in IOThreads /\ PostRequestToQueue(t)
    BY <2>1
    DEF PostRequestToQueue, Raise, Goto, Done, Lower, Owned, Base, TypeOK,
        ThreadTypes
  <2>2. CASE t = Dispatcher /\ DispatchRequest
    BY <2>2
    DEF DispatchRequest, Raise, Goto, Done, Lower, Owned, Base, TypeOK,
        ThreadTypes
  <2>3. CASE t = Dispatcher /\ RefuseRequest
    <3>1. ServiceEvent(kind[cur[Dispatcher]]) \in FailureEvents
      BY <2>3, ServiceEventFacts
      DEF RefuseRequest, Lower, Owned, Base, WorkOK, DispatchedParsed, Parsed,
          BusyLabels
    <3> QED BY <2>3, <3>1
      DEF RefuseRequest, Raise, Goto, Done, Lower, Owned, Base, TypeOK,
          ThreadTypes
  <2>4. CASE t \in Workers /\ Execute(t)
    BY <2>4
    DEF Execute, Raise, Goto, Done, FailureEvents, Lower, Owned, Base, TypeOK,
        ThreadTypes
  <2> QED BY <2>1, <2>2, <2>3, <2>4
<1>4. pc'[t] = "find"
  BY <1>3 DEF FirstStep, FailureEvents
<1>5. HolderTells(t)'
  BY <1>2, <1>3, <1>4, HolderAsBefore DEF PostedOK, Posting, Done
<1> QED BY <1>1, <1>2, <1>3, <1>5, OnwardTells

(* Steps that move a request and touch no response.                        *)
LEMMA MovedTells ==
  ASSUME Lower, TypeOK', OnePlace', PostedOK, StreamOK, NEW t \in Posters,
         OthersStay(t), SameResponses, Grows, abandoned \subseteq abandoned',
         status' = status, kind' = kind, pc'[Responder] = pc[Responder],
         \A q \in Requests : InQueue(q)' \/ InTasks(q)' => Open(q),
         \A q \in Requests : Live(q) /\ ~Live(q)' => Told(q) \/ q \in abandoned',
         HolderTells(t)'
  PROVE  PostedOK' /\ StreamOK'
<1>1. ASSUME NEW q \in Requests
      PROVE  Answers(q)'
  <2>1. Answers(q)
    BY DEF PostedOK
  <2>2. /\ Posted(q)' = Posted(q)
        /\ Open(q)' <=> Open(q)
        /\ Told(q) => Told(q)'
    BY SamePosted
  <2> QED BY <2>1, <2>2 DEF Answers
<1>2. \A q \in Requests : Keeps(q)
  BY SameKeeps
<1>3. \A u \in Posters : HolderTells(u)'
  BY <1>2, OthersTell DEF Lower
<1>4. StreamOK'
  BY SameStream
<1> QED BY <1>1, <1>3, <1>4 DEF PostedOK

LEMMA LeaveTells ==
  ASSUME Lower, TypeOK', OnePlace', PostedOK, StreamOK, NEW t \in Posters,
         Finish(t) \/ (t \in Workers /\ ExecuteThrowsOther(t))
  PROVE  PostedOK' /\ StreamOK'
<1> USE ThreadFacts
<1>1. OthersStay(t)
  BY ChainStays, WorkerStays DEF ChainStep, Lower, Owned, Base
<1>2. /\ SameResponses /\ Grows /\ abandoned \subseteq abandoned'
      /\ status' = status /\ kind' = kind
  BY DEF Finish, ExecuteThrowsOther, packetVars, respVars, sendVars,
         historyVars, SameResponses, Grows
<1>3. pc'[Responder] = pc[Responder] /\ cur'[t] = NoRequest
  BY DEF Finish, ExecuteThrowsOther, LetGo, Goto, Lower, Owned, Base, TypeOK,
         ThreadTypes
<1>4. \A q \in Requests : InQueue(q)' \/ InTasks(q)' => Open(q)
  BY Leaves DEF Lower, Owned, PostedOK, Answers
<1>5. \A q \in Requests : Live(q) /\ ~Live(q)' => Told(q) \/ q \in abandoned'
  <2> SUFFICES ASSUME NEW q \in Requests, Live(q), ~Live(q)'
               PROVE  Told(q) \/ q \in abandoned'
    OBVIOUS
  <2>1. q = cur[t] /\ cur[t] # NoRequest
    BY Leaves DEF Lower, Owned, Live
  <2>2. CASE Finish(t)
    <3>1. Done(t)
      BY <2>2 DEF Finish, Done
    <3> QED BY <2>1, <3>1 DEF PostedOK, HolderTells, Told, Open, Posted
  <2>3. CASE ExecuteThrowsOther(t)
    BY <2>1, <2>3 DEF ExecuteThrowsOther
  <2> QED BY <2>2, <2>3
<1>6. HolderTells(t)'
  BY <1>3 DEF HolderTells
<1> QED BY <1>1, <1>2, <1>3, <1>4, <1>5, <1>6, MovedTells

LEMMA HandOverTells ==
  ASSUME Lower, TypeOK', OnePlace', PostedOK, StreamOK, NEW t \in Posters,
         \/ t \in IOThreads /\ LinkRequest(t)
         \/ t = Dispatcher /\ CommitTask
  PROVE  PostedOK' /\ StreamOK'
<1> USE ThreadFacts, EventKinds
<1>1. OthersStay(t)
  BY IOStays, DispatcherStays DEF Lower, Owned, Base
<1>2. /\ SameResponses /\ Grows /\ abandoned' = abandoned
      /\ status' = status /\ kind' = kind
  BY DEF LinkRequest, CommitTask, packetVars, respVars, sendVars,
         historyVars, SameResponses, Grows
<1>3. pc'[Responder] = pc[Responder] /\ cur'[t] = NoRequest
  BY DEF LinkRequest, CommitTask, LetGo, Goto, Lower, Owned, Base, TypeOK,
         ThreadTypes
<1>4. \A q \in Requests :
        /\ InQueue(q)' \/ InTasks(q)' => InQueue(q) \/ InTasks(q) \/ q = cur[t]
        /\ Live(q)' <=> Live(q)
  <2>1. CASE t \in IOThreads /\ LinkRequest(t)
    BY <2>1, Queues DEF Lower, Owned, Live, Held
  <2>2. CASE t = Dispatcher /\ CommitTask
    BY <2>2, Commits DEF Lower, Owned, Live, Held
  <2> QED BY <2>1, <2>2
<1>5. \A q \in Requests : q = cur[t] => Open(q)
  <2>1. ~Done(t)
    BY DEF LinkRequest, CommitTask, Done
  <2> QED BY <2>1 DEF PostedOK, HolderTells, Open, Posted
<1>6. \A q \in Requests : InQueue(q)' \/ InTasks(q)' => Open(q)
  BY <1>4, <1>5 DEF PostedOK, Answers
<1>7. HolderTells(t)'
  BY <1>3 DEF HolderTells
<1> QED BY <1>1, <1>2, <1>3, <1>4, <1>6, <1>7, MovedTells

LEMMA PickUpTells ==
  ASSUME Lower, TypeOK', OnePlace', PostedOK, StreamOK, NEW t \in Posters,
         \/ t = Dispatcher /\ PopRequest
         \/ t \in Workers /\ TakeTask(t)
  PROVE  PostedOK' /\ StreamOK'
<1> USE ThreadFacts
<1>1. OthersStay(t)
  BY DispatcherStays, WorkerStays DEF Lower, Owned, Base
<1>2. /\ SameResponses /\ Grows /\ abandoned' = abandoned
      /\ status' = status /\ kind' = kind
  BY DEF PopRequest, TakeTask, packetVars, respVars, sendVars, historyVars,
         SameResponses, Grows
<1>3. PICK r \in Requests :
        /\ InQueue(r) \/ InTasks(r)
        /\ cur'[t] = r
        /\ \A q \in Requests :
             /\ InQueue(q)' \/ InTasks(q)' => InQueue(q) \/ InTasks(q)
             /\ Live(q)' <=> Live(q)
  <2>1. CASE t = Dispatcher /\ PopRequest
    BY <2>1, Pops DEF PopRequest, Lower, Owned, Base, TypeOK, ThreadTypes, Live
  <2>2. CASE t \in Workers /\ TakeTask(t)
    BY <2>2, Takes DEF TakeTask, Lower, Owned, Base, TypeOK, ThreadTypes, Live
  <2> QED BY <2>1, <2>2
<1>4. pc'[Responder] = pc[Responder] /\ pc'[t] \in {"popped", "run"}
  BY DEF PopRequest, TakeTask, Goto, Lower, Owned, Base, TypeOK, ThreadTypes
<1>5. \A q \in Requests : InQueue(q)' \/ InTasks(q)' => Open(q)
  BY <1>3 DEF PostedOK, Answers
<1>6. HolderTells(t)'
  <2>1. Open(r)'
    BY <1>2, <1>3, SamePosted DEF PostedOK, Answers
  <2>2. ~Done(t)' /\ pc'[t] \notin Posting
    BY <1>4 DEF Done, Posting
  <2> QED BY <1>3, <2>1, <2>2 DEF HolderTells, Open, Posted
<1> QED BY <1>1, <1>2, <1>3, <1>4, <1>5, <1>6, MovedTells

LEMMA CountRequestTells ==
  ASSUME Lower, TypeOK', OnePlace', PostedOK, StreamOK, NEW t \in IOThreads,
         CountRequest(t)
  PROVE  PostedOK' /\ StreamOK'
<1> USE ThreadFacts
<1>1. OthersStay(t)
  BY IOStays DEF Lower, Owned, Base
<1>2. /\ SameResponses /\ Unmoved /\ Grows
      /\ abandoned' = abandoned /\ status' = status /\ cur' = cur
  BY MostUnmoved
  DEF CountRequest, packetVars, respVars, sendVars, historyVars, workVars,
      SameResponses, Grows
<1>3. pc[t] = "pushed" /\ pc'[t] = "idle" /\ pc'[Responder] = pc[Responder]
  BY DEF CountRequest, Lower, Owned, Base, TypeOK, ThreadTypes, Consumers
<1>4. HolderTells(t)'
  BY <1>2, <1>3, HolderAsBefore DEF PostedOK, Posting, Done
<1> QED BY <1>1, <1>2, <1>3, <1>4, OnwardTells

LEMMA OnDataTells ==
  ASSUME Lower, TypeOK', OnePlace', PostedOK, StreamOK, NEW t \in IOThreads,
         NEW r \in Requests, NEW k \in Inputs[r], OnData(t, r, k)
  PROVE  PostedOK' /\ StreamOK'
<1> USE ThreadFacts
<1>1. OthersStay(t)
  BY OnDataStays DEF Lower, Owned, Base
<1>2. /\ SameResponses /\ Grows /\ abandoned' = abandoned
      /\ \A q \in Requests : q # r => status'[q] = status[q]
      /\ status'[r] \in {1, 5}
  BY DEF OnData, respVars, sendVars, historyVars, SameResponses, Grows,
         SUBMITTED, FAILED, Lower, Owned, Base, TypeOK, PacketTypes
<1>3. /\ cur'[t] = r /\ pc'[t] \in {"add", "check"}
      /\ pc'[Responder] = pc[Responder]
  BY DEF OnData, Raise, Goto, FirstStep, Lower, Owned, Base, TypeOK, ThreadTypes
<1>4. Posted(r) = {NoResponse} /\ Posted(r)' = {NoResponse}
  BY <1>2, SamePosted DEF PostedOK, Answers, OnData
<1>5. NoResponse.status = 0 /\ ~IsFinal(NoResponse)
  BY DEF NoResponse, IsFinal, DEFAULTED, COMPLETED, FAILED
<1>6. HolderTells(t)'
  <2>1. Open(r)' /\ Behind(r)'
    BY <1>2, <1>4, <1>5 DEF Open, Behind
  <2>2. ~Done(t)'
    BY <1>3 DEF Done
  <2> QED BY <1>3, <2>1, <2>2 DEF HolderTells, Open, Behind, Posted
<1>7. \A q \in Requests : q = cur'[t] \/ Keeps(q)
  BY <1>2, <1>3, SameKeeps
<1>8. ASSUME NEW q \in Requests
      PROVE  Answers(q)'
  <2>1. Answers(q)
    BY DEF PostedOK
  <2>2. /\ Posted(q)' = Posted(q)
        /\ Open(q)' <=> Open(q)
        /\ Told(q) => Told(q)'
    BY <1>2, SamePosted
  <2>3. /\ InQueue(q)' <=> InQueue(q)
        /\ InTasks(q)' <=> InTasks(q)
        /\ Live(q)' <=> Live(q) \/ q = r
        /\ kind'[q] = "unsent" <=> kind[q] = "unsent" /\ q # r
    BY Arrives DEF Lower, Owned, Live
  <2>4. \A x \in Posted(q) : x.status <= status'[q]
    BY <1>2, <1>4, <1>5, <2>1 DEF Answers
  <2> QED BY <1>2, <2>1, <2>2, <2>3, <2>4 DEF Answers
<1>9. \A u \in Posters : HolderTells(u)'
  BY <1>1, <1>2, <1>6, <1>7, OthersTell DEF Lower
<1>10. StreamOK'
  BY <1>2, <1>3, SameStream
<1> QED BY <1>8, <1>9, <1>10 DEF PostedOK

LEMMA WaitTells ==
  ASSUME Lower, TypeOK', PostedOK, StreamOK,
         (\E c \in Consumers : Wait(c) \/ SpuriousWakeup(c)) \/ UNCHANGED vars
  PROVE  PostedOK' /\ StreamOK'
<1> USE ThreadFacts
<1>1. AllStay
  BY RestStays DEF Lower, Owned, Base
<1>2. /\ SameResponses /\ Unmoved /\ Grows
      /\ abandoned' = abandoned /\ status' = status
  BY MostUnmoved
  DEF Wait, SpuriousWakeup, vars, packetVars, respVars, sendVars, historyVars,
      SameResponses, Grows
<1>3. pc'[Responder] = "popped" <=> pc[Responder] = "popped"
  BY DEF Wait, SpuriousWakeup, Goto, vars, Lower, Owned, Base, TypeOK, ThreadTypes
<1>4. \A q \in Requests : Answers(q)'
  BY <1>2, UnmovedAnswers, EqualStatuses DEF Lower, Owned, Base
<1>5. \A u \in Posters : HolderTells(u)'
  <2> TAKE u \in Posters
  <2>1. PICK r : cur[u] = r
    OBVIOUS
  <2>2. Keeps(r)
    BY <1>2, SameKeeps
  <2> QED BY <1>1, <1>2, <2>1, <2>2, StaysTells DEF AllStay, PostedOK, Lower
<1>6. StreamOK'
  BY <1>2, <1>3, SameStream
<1> QED BY <1>4, <1>5, <1>6 DEF PostedOK

(* A response is posted: it is the furthest of its request, and it is the  *)
(* final one if the event is.                                              *)
LEMMA NewResponse ==
  ASSUME Lower, PostedOK, NEW t \in Posters, LinkResponse(t)
  PROVE  /\ cur[t] \in Requests
         /\ CreateResponse(t) \in Response /\ CreateResponse(t).req = cur[t]
         /\ CreateResponse(t).status = status[cur[t]]
         /\ Consistent(CreateResponse(t))
         /\ event[t] \in FinalEvents =>
              IsFinal(CreateResponse(t)) \/ cur[t] \in raced
         /\ event[t] \notin FinalEvents => ~IsFinal(CreateResponse(t))
         /\ \A x \in Posted(cur[t]) :
              Precedes(cur[t], x, CreateResponse(t))
<1> USE ThreadFacts, StatusNumbers
<1>1. /\ pc[t] = "link" /\ cur[t] \in Requests /\ cur[t] # NoRequest
      /\ event[t] \in Events
  BY DEF LinkResponse, BusyLabels, Lower, Owned, Base, WorkOK, Holding,
         Control, ControlOK
<1>2. /\ CreateResponse(t) \in Response /\ CreateResponse(t).req = cur[t]
      /\ CreateResponse(t).status = status[cur[t]]
      /\ CreateResponse(t).error = ErrorOf(event[t])
  BY <1>1, ErrorFacts
  DEF CreateResponse, Response, Lower, Owned, Base, TypeOK, PacketTypes
<1>3. /\ status[cur[t]] \in Int
      /\ status[cur[t]] <= StatusOf(event[t])
      /\ status[cur[t]] = StatusOf(event[t]) \/ cur[t] \in raced
  BY <1>1
  DEF Lower, StatusInv, StatusOK, Updated, Posting, Owned, Base, TypeOK,
      PacketTypes
<1>4. Consistent(CreateResponse(t))
  BY <1>1, <1>2, <1>3, OutcomeFacts DEF Consistent
<1>5. /\ event[t] \in FinalEvents =>
           IsFinal(CreateResponse(t)) \/ cur[t] \in raced
      /\ event[t] \notin FinalEvents => ~IsFinal(CreateResponse(t))
  BY <1>1, <1>2, <1>3, OutcomeFacts DEF IsFinal
<1>6. ASSUME NEW x \in Posted(cur[t])
      PROVE  Precedes(cur[t], x, CreateResponse(t))
  <2>1. ~IsFinal(x)
    BY <1>1 DEF PostedOK, HolderTells, Done, Open
  <2>2. x.status < status[cur[t]] \/ cur[t] \in raced
    BY <1>1 DEF PostedOK, HolderTells, Behind, Posting
  <2>3. x.status <= status[cur[t]] /\ x.status \in Int
    BY <1>1, PostedTypes DEF PostedOK, Answers, Lower, Owned, Base
  <2> QED BY <1>2, <1>3, <2>1, <2>2, <2>3 DEF Precedes
<1> QED BY <1>1, <1>2, <1>4, <1>5, <1>6

LEMMA LinkStream ==
  ASSUME Lower, PostedOK, StreamOK, NEW t \in Posters, LinkResponse(t)
  PROVE  StreamOK'
<1> USE ThreadFacts
<1>1. /\ respQ' = Append(respQ, CreateResponse(t))
      /\ UNCHANGED <<sending, last, raced>>
      /\ pc'[Responder] = pc[Responder]
  BY DEF LinkResponse, sendVars, historyVars, Goto, Lower, Owned, Base, TypeOK,
         ThreadTypes
<1>2. PICK m \in Response :
        /\ CreateResponse(t) = m
        /\ Consistent(m)
        /\ \A x \in Posted(m.req) : Precedes(m.req, x, m)
  BY NewResponse
<1>3. /\ DOMAIN respQ = 1 .. Len(respQ) /\ Len(respQ) \in Nat
      /\ DOMAIN respQ' = 1 .. Len(respQ) + 1
      /\ \A i \in 1 .. Len(respQ) : respQ'[i] = respQ[i]
      /\ respQ'[Len(respQ) + 1] = m
      /\ \A i \in 1 .. Len(respQ) + 1 : i \in 1 .. Len(respQ) \/ i = Len(respQ) + 1
  BY <1>1, <1>2 DEF Lower, Owned, Base, TypeOK, QueueTypes
<1>4. \A r, a, b : Precedes(r, a, b)' <=> Precedes(r, a, b)
  BY <1>1 DEF Precedes, IsFinal
<1>5. /\ \A i \in DOMAIN respQ : respQ[i].req = m.req => Precedes(m.req, respQ[i], m)
      /\ Precedes(m.req, last[m.req], m)
      /\ \A x \in sending : x.req = m.req => Precedes(m.req, x, m)
  BY <1>2 DEF Posted
<1>6. Responding'
  BY <1>1 DEF StreamOK, Responding
<1>7. QueueInOrder'
  <2> SUFFICES ASSUME NEW i \in 1 .. Len(respQ) + 1, NEW j \in 1 .. Len(respQ) + 1,
                      i < j, respQ'[i].req = respQ'[j].req
               PROVE  Precedes(respQ[i].req, respQ[i], respQ[j])'
    BY <1>3 DEF QueueInOrder
  <2>1. i \in 1 .. Len(respQ) /\ respQ'[i] = respQ[i]
    BY <1>3
  <2>2. CASE j \in 1 .. Len(respQ)
    <3>1. Precedes(respQ[i].req, respQ[i], respQ[j])
      BY <1>3, <2>1, <2>2 DEF StreamOK, QueueInOrder
    <3> QED BY <1>1, <1>3, <2>1, <2>2, <3>1 DEF Precedes, IsFinal
  <2>3. CASE j = Len(respQ) + 1
    <3>1. Precedes(m.req, respQ[i], m) /\ respQ[i].req = m.req
      BY <1>3, <1>5, <2>1, <2>3
    <3> QED BY <1>1, <1>3, <2>1, <2>3, <3>1 DEF Precedes, IsFinal
  <2> QED BY <1>3, <2>2, <2>3
<1>8. QueueAfterSent'
  <2> SUFFICES ASSUME NEW i \in 1 .. Len(respQ) + 1
               PROVE  /\ Precedes(respQ[i].req, last[respQ[i].req], respQ[i])'
                      /\ \A x \in sending' :
                           x.req = respQ'[i].req => Precedes(x.req, x, respQ[i])'
    BY <1>3 DEF QueueAfterSent
  <2>1. CASE i \in 1 .. Len(respQ)
    <3>1. /\ Precedes(respQ[i].req, last[respQ[i].req], respQ[i])
          /\ \A x \in sending : x.req = respQ[i].req => Precedes(x.req, x, respQ[i])
      BY <1>3, <2>1 DEF StreamOK, QueueAfterSent
    <3> QED BY <1>1, <1>3, <2>1, <3>1 DEF Precedes, IsFinal
  <2>2. CASE i = Len(respQ) + 1
    BY <1>1, <1>3, <1>5, <2>2 DEF Precedes, IsFinal
  <2> QED BY <1>3, <2>1, <2>2
<1>9. SentInOrder'
  BY <1>1 DEF StreamOK, SentInOrder, Precedes, IsFinal
<1>10. AllConsistent'
  <2>1. Consistent(m)'
    BY <1>1, <1>2 DEF Consistent
  <2>2. \A i \in 1 .. Len(respQ) : Consistent(respQ[i])'
    BY <1>1, <1>3 DEF StreamOK, AllConsistent, Consistent
  <2>3. \A x \in sending' : Consistent(x)'
    BY <1>1 DEF StreamOK, AllConsistent, Consistent
  <2> QED BY <1>3, <2>1, <2>2, <2>3 DEF AllConsistent, Consistent
<1> QED BY <1>6, <1>7, <1>8, <1>9, <1>10 DEF StreamOK

LEMMA LinkPosted ==
  ASSUME Lower, NEW t \in Posters, LinkResponse(t),
         NEW m \in Response, m = CreateResponse(t), NEW q
  PROVE  /\ q = m.req => Posted(q)' = Posted(q) \cup {m}
         /\ q # m.req => Posted(q)' = Posted(q)
<1>1. /\ respQ' = Append(respQ, m)
      /\ UNCHANGED <<sending, last>>
  BY DEF LinkResponse, sendVars
<1>2. /\ DOMAIN respQ = 1 .. Len(respQ) /\ Len(respQ) \in Nat
      /\ DOMAIN respQ' = 1 .. Len(respQ) + 1
      /\ \A i \in 1 .. Len(respQ) : respQ'[i] = respQ[i]
      /\ respQ'[Len(respQ) + 1] = m
      /\ 1 .. Len(respQ) + 1 = 1 .. Len(respQ) \cup {Len(respQ) + 1}
  BY <1>1 DEF Lower, Owned, Base, TypeOK, QueueTypes
<1>3. {respQ[i] : i \in {i \in DOMAIN respQ : respQ[i].req = q}}'
        = {respQ[i] : i \in {i \in DOMAIN respQ : respQ[i].req = q}}
            \cup IF q = m.req THEN {m} ELSE {}
  BY <1>2
<1> QED BY <1>1, <1>3 DEF Posted

LEMMA LinkTells ==
  ASSUME Lower, TypeOK', OnePlace', PostedOK, StreamOK, NEW t \in Posters,
         LinkResponse(t)
  PROVE  PostedOK' /\ StreamOK'
<1> USE ThreadFacts
<1>1. OthersStay(t)
  BY ChainStays DEF ChainStep, Lower, Owned, Base
<1>2. /\ Unmoved /\ Grows /\ abandoned' = abandoned /\ status' = status
      /\ raced' = raced /\ lost' = lost /\ cur' = cur /\ event' = event
      /\ kind' = kind
  BY MostUnmoved
  DEF LinkResponse, packetVars, historyVars, workVars, Grows
<1>3. pc[t] = "link" /\ pc'[t] = "count"
  BY DEF LinkResponse, Goto, Lower, Owned, Base, TypeOK, ThreadTypes
<1>4. PICK m \in Response :
        /\ CreateResponse(t) = m /\ m.req \in Requests /\ m.req = cur[t]
        /\ m.status = status[m.req]
        /\ event[t] \in FinalEvents => IsFinal(m) \/ m.req \in raced
        /\ event[t] \notin FinalEvents => ~IsFinal(m)
  BY NewResponse
<1>5. /\ Posted(m.req)' = Posted(m.req) \cup {m}
      /\ \A q \in Requests : q # m.req => Posted(q)' = Posted(q)
  BY <1>4, LinkPosted
<1>6. Open(m.req)
  BY <1>3, <1>4 DEF PostedOK, HolderTells, Done, Open, Posted
<1>7. HolderTells(t)'
  <2>1. event[t] \in FinalEvents => Told(m.req)'
    BY <1>2, <1>4, <1>5 DEF Told, Open, IsFinal
  <2>2. event[t] \notin FinalEvents => Open(m.req)'
    BY <1>4, <1>5, <1>6 DEF Open, IsFinal
  <2>3. (Done(t)' <=> event[t] \in FinalEvents) /\ pc'[t] \notin Posting
    BY <1>2, <1>3 DEF Done, Posting
  <2> QED BY <1>2, <1>4, <2>1, <2>2, <2>3 DEF HolderTells, Told, Open, Posted
<1>8. \A q \in Requests : q = cur'[t] \/ Keeps(q)
  BY <1>2, <1>4, <1>5 DEF Keeps, Open, IsFinal
<1>9. \A u \in Posters : HolderTells(u)'
  BY <1>1, <1>2, <1>7, <1>8, OthersTell DEF Lower
<1>10. ASSUME NEW q \in Requests
       PROVE  Answers(q)'
  <2>1. Answers(q)
    BY DEF PostedOK
  <2>2. /\ InQueue(q)' <=> InQueue(q)
        /\ InTasks(q)' <=> InTasks(q)
        /\ Live(q)' <=> Live(q)
    BY <1>2, UnmovedKeepsPlace DEF Unmoved
  <2>3. CASE q # m.req
    <3>1. Posted(q)' = Posted(q)
      BY <1>5, <2>3
    <3>2. (Open(q)' <=> Open(q)) /\ (Told(q)' <=> Told(q))
      BY <1>2, <3>1 DEF Told, Open, IsFinal
    <3> QED BY <1>2, <2>1, <2>2, <3>1, <3>2 DEF Answers
  <2>4. CASE q = m.req
    <3>1. Live(q) /\ ~InQueue(q) /\ ~InTasks(q) /\ kind[q] # "unsent"
      BY <1>4, <2>4
      DEF Live, Held, Lower, Owned, Base, OnePlace, Apart, WorkOK, TypeOK, ThreadTypes
    <3>2. \A x \in Posted(q)' : x.status <= status[q]
      <4>1. status[q] \in Int
        BY StatusNumbers DEF Lower, Owned, Base, TypeOK, PacketTypes
      <4> QED BY <1>4, <1>5, <2>1, <2>4, <4>1 DEF Answers
    <3> QED BY <1>2, <2>2, <3>1, <3>2 DEF Answers
  <2> QED BY <2>3, <2>4
<1>11. StreamOK'
  BY LinkStream
<1> QED BY <1>9, <1>10, <1>11 DEF PostedOK

(* The responder takes responses off the queue and hands them to the       *)
(* session; what was posted stays posted.                                  *)
LEMMA RespondTells ==
  ASSUME Lower, TypeOK', PostedOK, PopResponse \/ Send,
         \A q \in Requests : Keeps(q),
         \A q \in Requests : kind[q] = "unsent" => Posted(q)' = Posted(q)
  PROVE  PostedOK'
<1>1. /\ Unmoved /\ Grows /\ abandoned' = abandoned /\ status' = status
      /\ raced' = raced /\ lost' = lost /\ kind' = kind
  BY MostUnmoved
  DEF PopResponse, Send, packetVars, historyVars, Grows
<1>2. AllStay
  BY RestStays DEF Lower, Owned, Base
<1>3. \A u \in Posters : HolderTells(u)'
  <2> TAKE u \in Posters
  <2>1. PICK r : cur[u] = r
    OBVIOUS
  <2>2. r # NoRequest => Keeps(r)
    BY <2>1 DEF Lower, Owned, Base, TypeOK, ThreadTypes
  <2> QED BY <1>1, <1>2, <2>1, <2>2, StaysTells DEF AllStay, PostedOK, Lower
<1>4. ASSUME NEW q \in Requests
      PROVE  Answers(q)'
  <2>1. Answers(q) /\ Keeps(q)
    BY DEF PostedOK
  <2>2. /\ InQueue(q)' <=> InQueue(q)
        /\ InTasks(q)' <=> InTasks(q)
        /\ Live(q)' <=> Live(q)
    BY <1>1, UnmovedKeepsPlace
  <2>3. (Open(q)' <=> Open(q)) /\ (Told(q) => Told(q)')
    BY <1>1, <2>1 DEF Keeps, Told
  <2>4. \A x \in Posted(q)' : x.status <= status[q]
    BY <2>1 DEF Keeps, Answers
  <2> QED BY <1>1, <2>1, <2>2, <2>3, <2>4 DEF Answers
<1> QED BY <1>3, <1>4 DEF PostedOK

LEMMA PopResponseFacts ==
  ASSUME Lower, StreamOK, PopResponse
  PROVE  /\ sending = {} /\ sending' = {respQ[1]} /\ respQ[1] \in Response
         /\ last' = last /\ raced' = raced
         /\ DOMAIN respQ = 1 .. Len(respQ) /\ Len(respQ) \in Nat \ {0}
         /\ DOMAIN respQ' = 1 .. Len(respQ) - 1
         /\ \A i \in 1 .. Len(respQ) - 1 :
              respQ'[i] = respQ[i + 1] /\ i + 1 \in 1 .. Len(respQ)
         /\ \A i \in 1 .. Len(respQ) : i = 1 \/ i - 1 \in 1 .. Len(respQ) - 1
<1>1. respQ \in Seq(Response) /\ respQ # <<>>
  BY DEF PopResponse, Lower, Owned, Base, TypeOK, QueueTypes
<1>2. sending' = {Head(respQ)} /\ respQ' = Tail(respQ) /\ last' = last /\ raced' = raced
  BY DEF PopResponse, historyVars
<1>3. sending = {}
  BY DEF PopResponse, StreamOK, Responding
<1> QED BY <1>1, <1>2, <1>3

LEMMA PopResponseTells ==
  ASSUME Lower, TypeOK', PostedOK, StreamOK, PopResponse
  PROVE  PostedOK' /\ StreamOK'
<1> USE ThreadFacts
<1>1. ASSUME NEW q
      PROVE  Posted(q)' = Posted(q)
  <2>1. {respQ[i] : i \in {i \in DOMAIN respQ : respQ[i].req = q}}
          = {m \in {respQ[1]} : m.req = q}
              \cup {respQ[i] : i \in {i \in DOMAIN respQ : respQ[i].req = q}}'
    <3> DEFINE before == {respQ[i] : i \in {i \in DOMAIN respQ : respQ[i].req = q}}
               after == {respQ'[i] : i \in {i \in DOMAIN respQ' : respQ'[i].req = q}}
    <3>1. ASSUME NEW x \in before
          PROVE  x \in {m \in {respQ[1]} : m.req = q} \cup after
      <4>1. PICK i \in DOMAIN respQ : respQ[i].req = q /\ x = respQ[i]
        OBVIOUS
      <4>2. CASE i = 1
        BY <4>1, <4>2
      <4>3. CASE i # 1
        <5>1. i - 1 \in 1 .. Len(respQ) - 1 /\ respQ'[i - 1] = respQ[i]
          BY <4>1, <4>3, PopResponseFacts
        <5> QED BY <4>1, <5>1, PopResponseFacts
      <4> QED BY <4>2, <4>3
    <3>2. ASSUME NEW x \in after
          PROVE  x \in before
      BY PopResponseFacts
    <3>3. {m \in {respQ[1]} : m.req = q} \subseteq before
      <4>1. 1 \in DOMAIN respQ
        BY PopResponseFacts
      <4> QED BY <4>1
    <3> QED BY <3>1, <3>2, <3>3
  <2> QED BY <2>1, PopResponseFacts DEF Posted
<1>2. \A q \in Requests : Keeps(q)
  <2> TAKE q \in Requests
  <2>1. Posted(q)' = Posted(q) /\ status' = status
    BY <1>1 DEF PopResponse, packetVars
  <2> QED BY <2>1 DEF Keeps, Open, IsFinal
<1>3. PostedOK'
  BY <1>1, <1>2, RespondTells
<1>4. Responding'
  BY PopResponseFacts DEF PopResponse, Goto, Responding, Lower, Owned, Base,
                          TypeOK, ThreadTypes
<1>5. QueueInOrder'
  <2> SUFFICES ASSUME NEW i \in 1 .. Len(respQ) - 1, NEW j \in 1 .. Len(respQ) - 1,
                      i < j, respQ'[i].req = respQ'[j].req
               PROVE  Precedes(respQ[i].req, respQ[i], respQ[j])'
    BY PopResponseFacts DEF QueueInOrder
  <2>1. Precedes(respQ[i + 1].req, respQ[i + 1], respQ[j + 1])
    BY PopResponseFacts DEF StreamOK, QueueInOrder
  <2> QED BY <2>1, PopResponseFacts DEF Precedes, IsFinal
<1>6. QueueAfterSent'
  <2> SUFFICES ASSUME NEW i \in 1 .. Len(respQ) - 1
               PROVE  /\ Precedes(respQ[i].req, last[respQ[i].req], respQ[i])'
                      /\ \A x \in sending' :
                           x.req = respQ'[i].req => Precedes(x.req, x, respQ[i])'
    BY PopResponseFacts DEF QueueAfterSent
  <2>1. Precedes(respQ[i + 1].req, last[respQ[i + 1].req], respQ[i + 1])
    BY PopResponseFacts DEF StreamOK, QueueAfterSent
  <2>2. respQ[1].req = respQ[i + 1].req =>
          Precedes(respQ[1].req, respQ[1], respQ[i + 1])
    BY PopResponseFacts DEF StreamOK, QueueInOrder
  <2> QED BY <2>1, <2>2, PopResponseFacts DEF Precedes, IsFinal
<1>7. SentInOrder'
  <2>1. Precedes(respQ[1].req, last[respQ[1].req], respQ[1])
    BY PopResponseFacts DEF StreamOK, QueueAfterSent
  <2> QED BY <2>1, PopResponseFacts DEF SentInOrder, Precedes, IsFinal
<1>8. AllConsistent'
  <2>1. \A i \in 1 .. Len(respQ) : Consistent(respQ[i])
    BY PopResponseFacts DEF StreamOK, AllConsistent
  <2> QED BY <2>1, PopResponseFacts DEF AllConsistent, Consistent
<1> QED BY <1>3, <1>4, <1>5, <1>6, <1>7, <1>8 DEF StreamOK

LEMMA SendTells ==
  ASSUME Lower, TypeOK', PostedOK, StreamOK, Send
  PROVE  PostedOK' /\ StreamOK'
<1> USE ThreadFacts
<1>1. PICK m \in Response : sending = {m}
  BY DEF Send, StreamOK, Responding
<1>2. PICK w : /\ w = [status |-> m.status, error |-> m.error]
               /\ w.status = m.status /\ w.error = m.error
  <2> DEFINE o == [status |-> m.status, error |-> m.error]
  <2>1. o.status = m.status /\ o.error = m.error
    OBVIOUS
  <2> HIDE DEF o
  <2>2. \E v : v = o /\ v.status = m.status /\ v.error = m.error
    BY <2>1
  <2> QED BY <2>2 DEF o
<1>3. /\ last' = [last EXCEPT ![m.req] = w]
      /\ m.req \in Requests /\ last'[m.req] = w
      /\ \A q : q # m.req => last'[q] = last[q]
      /\ sending' = {} /\ respQ' = respQ /\ raced' = raced
      /\ status' = status
  BY <1>1, <1>2 DEF Send, historyVars, packetVars, Response, Lower, Owned, Base,
                    TypeOK, HistoryTypes
<1>4. m \in Posted(m.req) /\ Precedes(m.req, last[m.req], m)
  BY <1>1 DEF Posted, StreamOK, SentInOrder
<1>5. \A q : q # m.req => Posted(q)' = Posted(q)
  BY <1>1, <1>3 DEF Posted
<1>6. /\ \A x \in Posted(m.req)' : x = w \/ x \in Posted(m.req)
      /\ w \in Posted(m.req)'
      /\ \A x \in Posted(m.req) :
           x = last[m.req] \/ x = m \/ x \in Posted(m.req)'
  BY <1>1, <1>3 DEF Posted
<1>7. ASSUME NEW q \in Requests
      PROVE  Keeps(q)
  <2>1. CASE q # m.req
    BY <1>3, <1>5, <2>1 DEF Keeps, Open, IsFinal
  <2>2. CASE q = m.req
    <3>1. Open(q)' <=> Open(q)
      BY <1>2, <1>4, <1>6, <2>2 DEF Open, IsFinal, Precedes
    <3>2. \A x \in Posted(q)' :
            \E y \in Posted(q) : x.status = y.status /\ x.error = y.error
      BY <1>2, <1>4, <1>6, <2>2
    <3> QED BY <1>3, <3>1, <3>2 DEF Keeps
  <2> QED BY <2>1, <2>2
<1>8. ASSUME NEW q \in Requests, kind[q] = "unsent"
      PROVE  Posted(q)' = Posted(q)
  <2>1. q # m.req
    <3>1. "req" \in DOMAIN m /\ "req" \notin DOMAIN NoResponse
      BY DEF Response, NoResponse
    <3>2. m # NoResponse
      BY <3>1
    <3> QED BY <1>4, <1>8, <3>2 DEF PostedOK, Answers
  <2> QED BY <1>5, <2>1
<1>9. PostedOK'
  BY <1>7, <1>8, RespondTells
<1>10. Responding'
  BY <1>3 DEF Send, Goto, Responding, Lower, Owned, Base, TypeOK, ThreadTypes
<1>11. QueueInOrder' /\ SentInOrder' /\ AllConsistent'
  BY <1>3 DEF StreamOK, QueueInOrder, SentInOrder, AllConsistent, Precedes,
              IsFinal, Consistent
<1>12. QueueAfterSent'
  <2> SUFFICES ASSUME NEW i \in DOMAIN respQ
               PROVE  Precedes(respQ[i].req, last[respQ[i].req], respQ[i])'
    BY <1>3 DEF QueueAfterSent
  <2>1. Precedes(respQ[i].req, last[respQ[i].req], respQ[i])
    BY DEF StreamOK, QueueAfterSent
  <2>2. respQ[i].req = m.req => Precedes(m.req, m, respQ[i])
    BY <1>1 DEF StreamOK, QueueAfterSent
  <2> QED BY <1>2, <1>3, <2>1, <2>2 DEF Precedes, IsFinal
<1> QED BY <1>9, <1>10, <1>11, <1>12 DEF StreamOK

(* The fifth layer.                                                        *)
LEMMA NextTells ==
  ASSUME Lower, TypeOK', OnePlace', PostedOK, StreamOK, [Next]_vars
  PROVE  PostedOK' /\ StreamOK'
<1> USE ThreadFacts
<1>1. CASE \E t \in IOThreads, r \in Requests : \E k \in Inputs[r] : OnData(t, r, k)
  BY <1>1, OnDataTells
<1>2. CASE \E t \in Posters : ChainStep(t)
  BY <1>2, LockTells, UpdateTells, RoomTells, LinkTells, CountTells, LeaveTells
  DEF ChainStep
<1>3. CASE \E t \in IOThreads :
             PostRequestToQueue(t) \/ LinkRequest(t) \/ CountRequest(t)
  BY <1>3, RaiseTells, HandOverTells, CountRequestTells
<1>4. CASE PopRequest \/ DispatchRequest \/ RefuseRequest \/ CommitTask
  BY <1>4, PickUpTells, RaiseTells, HandOverTells
<1>5. CASE \E w \in Workers : TakeTask(w) \/ Execute(w) \/ ExecuteThrowsOther(w)
  BY <1>5, PickUpTells, RaiseTells, LeaveTells
<1>6. CASE (\E c \in Consumers : Wait(c) \/ SpuriousWakeup(c)) \/ UNCHANGED vars
  BY <1>6, WaitTells
<1>7. CASE PopResponse \/ Send
  BY <1>7, PopResponseTells, SendTells
<1> QED BY <1>1, <1>2, <1>3, <1>4, <1>5, <1>6, <1>7, Steps

LEMMA InitTells == Init => PostedOK /\ StreamOK
<1> SUFFICES ASSUME Init
             PROVE  PostedOK /\ StreamOK
  OBVIOUS
<1> USE ThreadFacts DEF Init
<1>1. \A r \in Requests : Posted(r) = {NoResponse}
  BY DEF Posted
<1>2. NoResponse.status = DEFAULTED /\ DEFAULTED <= DEFAULTED
  BY DEF NoResponse, DEFAULTED
<1>3. \A t \in Posters : HolderTells(t)
  BY DEF HolderTells
<1>4. \A r \in Requests : ~InQueue(r) /\ ~InTasks(r) /\ kind[r] = "unsent"
  BY DEF InQueue, InTasks, Within
<1>5. \A r \in Requests : Answers(r)
  BY <1>1, <1>2, <1>4 DEF Answers
<1>6. StreamOK
  BY DEF StreamOK, Responding, QueueInOrder, QueueAfterSent, SentInOrder,
         AllConsistent
<1> QED BY <1>3, <1>5, <1>6 DEF PostedOK

LEMMA OutcomeHolds == Spec => [](Lower /\ PostedOK /\ StreamOK)
<1>1. Lower /\ TypeOK' /\ OnePlace' /\ PostedOK /\ StreamOK /\ [Next]_vars
        => PostedOK' /\ StreamOK'
  BY NextTells
<1>2. Lower => TypeOK /\ OnePlace
  BY DEF Lower, Owned, Base
<1> QED BY <1>1, <1>2, InitTells, LowerHolds, PTL DEF Spec
-----------------------------------------------------------------------------
(***************************************************************************)
(* A client reads the progress of its request in the order in which it was *)
(* made, although an IO thread, the dispatcher and a worker post it one    *)
(* after the other: only a status that a racing lookup could not update    *)
(* (RPCPacketManager.cpp:25) is told twice.                                *)
(***************************************************************************)
THEOREM ProgressIsInOrder == Spec => []ProgressInOrder
<1>1. StreamOK => ProgressInOrder
  BY DEF StreamOK, SentInOrder, Precedes, ProgressInOrder
<1> QED BY <1>1, OutcomeHolds, PTL

(***************************************************************************)
(* A client is told one outcome: the events that end a request are raised  *)
(* by the thread that has it, as the last thing it does with it            *)
(* (RPCProcessor.cpp:17-75), so nothing is posted after a final response.  *)
(***************************************************************************)
THEOREM OutcomeIsLast == Spec => []OneOutcome
<1>1. StreamOK => OneOutcome
  BY DEF StreamOK, SentInOrder, Precedes, OneOutcome
<1> QED BY <1>1, OutcomeHolds, PTL

(***************************************************************************)
(* The error code and the status of a response are set by two handlers,    *)
(* ResponseDispatcher's and RPCPacketManager's, in tables of their own:    *)
(* they agree on which responses tell of a failure, except for a status    *)
(* that a racing lookup could not update.                                  *)
(***************************************************************************)
THEOREM ErrorAgreesWithStatus == Spec => []FailureSaysFailed
<1>1. StreamOK => FailureSaysFailed
  BY DEF StreamOK, AllConsistent, Consistent, FailureSaysFailed
<1> QED BY <1>1, OutcomeHolds, PTL

(***************************************************************************)
(* No request ends in silence.  When the pipeline is done with it and no   *)
(* response waits, its client was sent the outcome, or the outcome found   *)
(* the response queue full, or the service threw what nobody catches, or a *)
(* lookup raced.                                                           *)
(***************************************************************************)
THEOREM RequestsAreAnswered == Spec => []Answered
<1>1. Lower /\ PostedOK => Answered
  <2> SUFFICES ASSUME Lower, PostedOK, NEW r \in Requests,
                      kind[r] # "unsent", ~InProgress(r),
                      r \notin lost \cup abandoned \cup raced
               PROVE  Answering(r) \/ IsFinal(last[r])
    BY DEF Answered
  <2>1. ~Open(r)
    BY LiveIsInProgress DEF PostedOK, Answers, Told
  <2>2. PICK x \in Posted(r) : IsFinal(x)
    BY <2>1 DEF Open
  <2> QED BY <2>2 DEF Posted, Answering
<1> QED BY <1>1, OutcomeHolds, PTL
=============================================================================
