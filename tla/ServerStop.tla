----------------------------- MODULE ServerStop -----------------------------
(***************************************************************************)
(* How a server ends.  A signal stops the io_context of AsyncTcpServer;    *)
(* Start returns, and ~RPCServer frees its parts one after the other while *)
(* the threads of IOServicePool and ThreadPool, and those of the two       *)
(* dispatchers, go on.  A dispatcher's thread is joined by its destructor, *)
(* the pools are stopped when the program exits.                           *)
(*                                                                         *)
(* Requests and responses are counted, not told apart, and the queues are  *)
(* never full: what becomes of a request while the server serves is in     *)
(* RPCPipeline.  Using what was freed is undefined: in the model a thread  *)
(* that is about to do it stops.                                           *)
(***************************************************************************)
EXTENDS Naturals, FiniteSets

CONSTANTS
  Workers,     \* ThreadPool's threads: at least 2, whatever its argument
  MaxRequests  \* requests that arrive (bounds the calls)

ASSUME WorkersAssumption == IsFiniteSet(Workers) /\ Cardinality(Workers) >= 2
ASSUME MaxRequestsAssumption == MaxRequests \in Nat

Dispatchers == {"request", "response"}

VARIABLES
  main,       \* next step of the thread that owns the RPCServer
  gone,       \* the parts of the RPCServer that were freed
  session,    \* "none", "open" or "closed"
  issued,     \* requests that arrived
  queue,      \* the number of items in m_requestQueue of each dispatcher
  quitting,   \* whether the empty item is behind them
  isStopped,  \* of each dispatcher
  thread,     \* next step of m_dispatcherThread
  tasks,      \* the number of m_tasks of the ThreadPool
  poolStop,   \* m_stop of the ThreadPool
  worker,     \* next step of each of its threads
  exited,     \* the pools that were stopped
  quiet       \* history: nothing was under way when ~RPCServer began

mainVars     == <<main, gone, exited, quiet>>
sessionVars  == <<session, issued>>
dispatchVars == <<queue, quitting, isStopped, thread>>
poolVars     == <<tasks, poolStop, worker>>
vars == <<mainVars, sessionVars, dispatchVars, poolVars>>

Init ==
  /\ main = "serving"
  /\ gone = {}
  /\ session = "none"
  /\ issued = 0
  /\ queue = [d \in Dispatchers |-> 0]
  /\ quitting = [d \in Dispatchers |-> FALSE]
  /\ isStopped = [d \in Dispatchers |-> FALSE]
  /\ thread = [d \in Dispatchers |-> "check"]
  /\ tasks = 0
  /\ poolStop = FALSE
  /\ worker = [w \in Workers |-> "check"]
  /\ exited = {}
  /\ quiet = FALSE
-----------------------------------------------------------------------------
(* Push of ConcurrentQueue: notify_one may come in the gap between the     *)
(* predicate and the sleep, and then wakes nobody.                         *)

Notified(t) == IF t \in {"waiting", "stalled"} THEN {"test", "stalled"} ELSE {t}

Notify(ds) ==
  \E request \in Notified(thread["request"]) :
  \E response \in Notified(thread["response"]) :
    thread' = [d \in Dispatchers |->
                 IF d \notin ds THEN thread[d]
                 ELSE IF d = "request" THEN request ELSE response]

Post(requests, responses) ==
  queue' = [request |-> queue["request"] + requests,
            response |-> queue["response"] + responses]
-----------------------------------------------------------------------------
(* Sessions, on the threads of IOServicePool.                              *)

Connect ==
  /\ main = "serving"
  /\ session = "none"
  /\ session' = "open"
  /\ UNCHANGED <<mainVars, issued, dispatchVars, poolVars>>

Disconnect ==
  /\ session = "open"
  /\ session' = "closed"
  /\ UNCHANGED <<mainVars, issued, dispatchVars, poolVars>>

(* RPCServerStub lives as long as the session, but what it refers to is    *)
(* the RPCEventHandler of the RPCServer.                                   *)
Deserialized == {"deserialized", "dispatch"}

OnData ==
  /\ session = "open"
  /\ issued < MaxRequests
  /\ Deserialized \cap gone = {}
  /\ issued' = issued + 1
  /\ Post(1, 2)
  /\ Notify(Dispatchers)
  /\ UNCHANGED <<mainVars, session, quitting, isStopped, poolVars>>
-----------------------------------------------------------------------------
(* The thread of a dispatcher.                                             *)

Goto(d, label) == thread' = [thread EXCEPT ![d] = label]

CheckStopped(d) ==
  /\ thread[d] = "check"
  /\ Goto(d, IF isStopped[d] THEN "ended" ELSE "test")
  /\ UNCHANGED <<mainVars, sessionVars, queue, quitting, isStopped, poolVars>>

WaitForItem(d) ==
  /\ thread[d] = "test"
  /\ queue[d] = 0 /\ ~quitting[d]
  /\ Goto(d, "waiting")
  /\ UNCHANGED <<mainVars, sessionVars, queue, quitting, isStopped, poolVars>>

SpuriousWakeup(d) ==
  /\ thread[d] \in {"waiting", "stalled"}
  /\ Goto(d, "test")
  /\ UNCHANGED <<mainVars, sessionVars, queue, quitting, isStopped, poolVars>>

\* Mutant: neither the flag nor the empty item is looked at.
LeavesNot(d, isQuit) == FALSE

Leaves(d, isQuit) == isStopped[d] \/ isQuit

Take(d, isQuit) ==
  /\ Goto(d, IF Leaves(d, isQuit) THEN "ended" ELSE "dispatch")
  /\ isStopped' = [isStopped EXCEPT ![d] = @ /\ ~Leaves(d, isQuit)]
  /\ UNCHANGED <<mainVars, sessionVars, poolVars>>

WaitPop(d) ==
  /\ thread[d] = "test"
  /\ \/ /\ queue[d] > 0
        /\ queue' = [queue EXCEPT ![d] = @ - 1]
        /\ UNCHANGED quitting
        /\ Take(d, FALSE)
     \/ /\ queue[d] = 0 /\ quitting[d]
        /\ quitting' = [quitting EXCEPT ![d] = FALSE]
        /\ UNCHANGED queue
        /\ Take(d, TRUE)

(* DispatchDSCMessage is virtual, and pure in the base class that is left  *)
(* while ~Dispatcher runs.                                                 *)
DispatchResponse ==
  /\ thread["response"] = "dispatch"
  /\ "response" \notin gone
  /\ Goto("response", "check")
  /\ UNCHANGED <<mainVars, sessionVars, queue, quitting, isStopped, poolVars>>

(* OnCommited: the processor, which is one of its handlers, refuses the    *)
(* request, or commits it to the pool.                                     *)
OnCommitedParts == {"request", "commited", "service"}

RefuseRequest ==
  /\ thread["request"] = "dispatch"
  /\ OnCommitedParts \cap gone = {}
  /\ Post(0, 2)
  /\ \E label \in Notified(thread["response"]) :
       thread' = [request |-> "check", response |-> label]
  /\ UNCHANGED <<mainVars, sessionVars, quitting, isStopped, poolVars>>

(* Commit pushes under the mutex of the condition variable, so no worker   *)
(* is between its predicate and its sleep.                                 *)
\* Mutant: the push takes no lock, and the notification may be missed.
WokenOrMissed(w) ==
  \E label \in {"test", "stalled"} : worker' = [worker EXCEPT ![w] = label]

Woken(w) == worker' = [worker EXCEPT ![w] = "test"]

NotifyWorker ==
  LET asleep == {w \in Workers : worker[w] = "waiting"}
  IN  \/ asleep = {} /\ UNCHANGED worker
      \/ \E w \in asleep : Woken(w)

CommitTask ==
  /\ thread["request"] = "dispatch"
  /\ {"request", "commited"} \cap gone = {}
  /\ tasks' = tasks + 1
  /\ NotifyWorker
  /\ Post(0, 1)
  /\ \E label \in Notified(thread["response"]) :
       thread' = [request |-> "check", response |-> label]
  /\ UNCHANGED <<mainVars, sessionVars, quitting, isStopped, poolStop>>
-----------------------------------------------------------------------------
(* The threads of the ThreadPool.                                          *)

CheckPool(w) ==
  /\ worker[w] = "check"
  /\ worker' = [worker EXCEPT ![w] = IF poolStop THEN "ended" ELSE "test"]
  /\ UNCHANGED <<mainVars, sessionVars, dispatchVars, tasks, poolStop>>

TakeTask(w) ==
  /\ worker[w] = "test"
  /\ tasks > 0
  /\ tasks' = tasks - 1
  /\ worker' = [worker EXCEPT ![w] = "run"]
  /\ UNCHANGED <<mainVars, sessionVars, dispatchVars, poolStop>>

WaitForTask(w) ==
  /\ worker[w] = "test"
  /\ tasks = 0
  /\ worker' = [worker EXCEPT ![w] = IF poolStop THEN "ended" ELSE "waiting"]
  /\ UNCHANGED <<mainVars, sessionVars, dispatchVars, tasks, poolStop>>

WakeWorker(w) ==
  /\ worker[w] \in {"waiting", "stalled"}
  /\ worker' = [worker EXCEPT ![w] = "test"]
  /\ UNCHANGED <<mainVars, sessionVars, dispatchVars, tasks, poolStop>>

(* A task holds a plain pointer to the RPCProcessor, which goes with the   *)
(* handlers of OnCommited; it ends in OnCompleted or OnServiceError.       *)
Outcomes == {{"commited", "processed"}, {"commited", "service"}}

Execute(w) ==
  /\ worker[w] = "run"
  /\ \E parts \in Outcomes : parts \cap gone = {}
  /\ worker' = [worker EXCEPT ![w] = "check"]
  /\ Post(0, 1)
  /\ Notify({"response"})
  /\ UNCHANGED <<mainVars, sessionVars, quitting, isStopped, tasks, poolStop>>
-----------------------------------------------------------------------------
(* The thread that owns the server: the signal, and ~AsyncTcpServer.       *)

Quiet ==
  /\ session # "open"
  /\ \A d \in Dispatchers : queue[d] = 0 /\ thread[d] # "dispatch"
  /\ tasks = 0
  /\ \A w \in Workers : worker[w] # "run"

Signal ==
  /\ main = "serving"
  /\ main' = "free"
  /\ quiet' = Quiet
  /\ UNCHANGED <<gone, exited, sessionVars, dispatchVars, poolVars>>

(* ~RPCEventHandler frees its lists in the reverse of their order, and     *)
(* with the last of them the dispatchers: first of each the derived part.  *)
Parts ==
  <<"service", "processed", "commited", "dispatch", "deserializedFailed",
    "deserialized", "response", "request">>

FreePart(i) ==
  /\ main = "free"
  /\ Parts[i] \notin gone
  /\ \A j \in 1 .. i - 1 : Parts[j] \in gone
  /\ gone' = gone \cup {Parts[i]}
  /\ main' = IF Parts[i] \in Dispatchers THEN "stop" ELSE "free"
  /\ UNCHANGED <<exited, quiet, sessionVars, dispatchVars, poolVars>>

Last == IF "request" \in gone THEN "request" ELSE "response"

\* Mutant: the thread is not woken.
StopDispatcherSilent ==
  /\ main = "stop"
  /\ isStopped' = [isStopped EXCEPT ![Last] = TRUE]
  /\ main' = "join"
  /\ UNCHANGED <<gone, exited, quiet, sessionVars, queue, quitting, thread,
                 poolVars>>

StopDispatcher ==
  /\ main = "stop"
  /\ isStopped' = [isStopped EXCEPT ![Last] = TRUE]
  /\ quitting' = [quitting EXCEPT ![Last] = TRUE]
  /\ Notify({Last})
  /\ main' = "join"
  /\ UNCHANGED <<gone, exited, quiet, sessionVars, queue, poolVars>>

JoinDispatcher ==
  /\ main = "join"
  /\ thread[Last] = "ended"
  /\ main' = IF Last = "request" THEN "exit" ELSE "free"
  /\ UNCHANGED <<gone, exited, quiet, sessionVars, dispatchVars, poolVars>>

(* At exit the pools are destroyed, in an order the program does not set.  *)
(* m_stop is written without the mutex: a worker may be in the gap.        *)
StopThreadPool ==
  /\ main = "exit"
  /\ "ThreadPool" \notin exited
  /\ poolStop' = TRUE
  /\ main' = "joinWorkers"
  /\ worker' \in [Workers -> {"check", "test", "waiting", "stalled", "run",
                              "ended"}]
  /\ \A w \in Workers : worker'[w] \in Notified(worker[w])
  /\ UNCHANGED <<gone, exited, quiet, sessionVars, dispatchVars, tasks>>

JoinWorkers ==
  /\ main = "joinWorkers"
  /\ \A w \in Workers : worker[w] = "ended"
  /\ exited' = exited \cup {"ThreadPool"}
  /\ main' = IF exited = {} THEN "exit" ELSE "done"
  /\ UNCHANGED <<gone, quiet, sessionVars, dispatchVars, poolVars>>

(* IOServicePool::Stop: run() does not return while a session reads.       *)
StopIOServicePool ==
  /\ main = "exit"
  /\ "IOServicePool" \notin exited
  /\ session # "open"
  /\ exited' = exited \cup {"IOServicePool"}
  /\ main' = IF exited = {} THEN "exit" ELSE "done"
  /\ UNCHANGED <<gone, quiet, sessionVars, dispatchVars, poolVars>>
-----------------------------------------------------------------------------
DispatcherStep(d) == CheckStopped(d) \/ WaitForItem(d) \/ WaitPop(d)

RequestStep == DispatcherStep("request") \/ RefuseRequest \/ CommitTask
ResponseStep == DispatcherStep("response") \/ DispatchResponse

WorkerStep(w) ==
  CheckPool(w) \/ TakeTask(w) \/ WaitForTask(w) \/ Execute(w)

StopStep ==
  \/ \E i \in DOMAIN Parts : FreePart(i)
  \/ StopDispatcher \/ JoinDispatcher
  \/ StopThreadPool \/ JoinWorkers \/ StopIOServicePool

Next ==
  \/ Connect \/ Disconnect \/ OnData
  \/ RequestStep \/ ResponseStep
  \/ \E d \in Dispatchers : SpuriousWakeup(d)
  \/ \E w \in Workers : WorkerStep(w) \/ WakeWorker(w)
  \/ Signal \/ StopStep

Spec == Init /\ [][Next]_vars

(***************************************************************************)
(* Threads go on.  The signal need not come, the peer need not leave, and  *)
(* no thread is owed a spurious wakeup.                                    *)
(***************************************************************************)
FairSpec ==
  /\ Spec
  /\ WF_vars(RequestStep)
  /\ WF_vars(ResponseStep)
  /\ \A w \in Workers : WF_vars(WorkerStep(w))
  /\ WF_vars(StopStep)
-----------------------------------------------------------------------------
(* Properties.                                                             *)

(* A thread is about to use a part of the server that was freed.           *)
Dangling ==
  \/ session = "open" /\ issued < MaxRequests /\ Deserialized \cap gone # {}
  \/ thread["request"] = "dispatch" /\ OnCommitedParts \cap gone # {}
  \/ thread["response"] = "dispatch" /\ "response" \in gone
  \/ \E w \in Workers : worker[w] = "run" /\ UNION Outcomes \cap gone # {}

(***************************************************************************)
(* A server on which nothing is under way when it is stopped, and to which *)
(* nobody is connected, ends without touching what it freed, however its   *)
(* threads and its destructor overlap (Dispatcher.h:31-67).  With a client *)
(* connected, or a request on its way, it may not.                         *)
(***************************************************************************)
QuietStopIsClean == quiet => ~Dangling

(***************************************************************************)
(* A server that is told to stop ends, unless a thread sleeps through the  *)
(* notification that should end its wait, or a client stays: exit joins    *)
(* the threads of IOServicePool, which serve it (IOServicePool.cpp:38-48). *)
(***************************************************************************)
Stalled ==
  \/ \E d \in Dispatchers : thread[d] = "stalled"
  \/ \E w \in Workers : worker[w] = "stalled"

StopEnds ==
  main = "free" ~> main = "done" \/ Dangling \/ Stalled \/ session = "open"

(***************************************************************************)
(* A task that was committed is taken by a worker, unless the pool stops:  *)
(* no worker sleeps through a Commit (ThreadPool.h:68-72).                 *)
(***************************************************************************)
CommittedIsTaken == tasks > 0 ~> tasks = 0 \/ poolStop \/ Dangling
=============================================================================
