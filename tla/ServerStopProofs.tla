-------------------------- MODULE ServerStopProofs --------------------------
(***************************************************************************)
(* That stopping an idle server is clean, for any number of workers and of *)
(* requests served before.                                                 *)
(***************************************************************************)
EXTENDS ServerStop, TLAPS

Labels == {"check", "test", "waiting", "stalled", "dispatch", "ended"}

TypeOK ==
  /\ session \in {"none", "open", "closed"}
  /\ queue \in [Dispatchers -> Nat]
  /\ thread \in [Dispatchers -> Labels]
  /\ isStopped \in [Dispatchers -> BOOLEAN]
  /\ quitting \in [Dispatchers -> BOOLEAN]
  /\ worker \in [Workers -> {"check", "test", "waiting", "stalled", "run",
                             "ended"}]
  /\ tasks \in Nat

(***************************************************************************)
(* What was idle when ~RPCServer began stays idle: nobody connects any     *)
(* more, and of the requests' threads only those of the dispatchers move,  *)
(* from the empty item to their end.                                       *)
(***************************************************************************)
StaysQuiet == quiet => Quiet /\ main # "serving"

IInv == TypeOK /\ StaysQuiet

LEMMA InitInv == Init => IInv
BY DEF Init, IInv, TypeOK, StaysQuiet, Labels, Dispatchers

(***************************************************************************)
(* A notification moves a thread that sleeps, if any, and no other.        *)
(***************************************************************************)
LEMMA NotifyType ==
  ASSUME thread \in [Dispatchers -> Labels], NEW ds, Notify(ds)
  PROVE  /\ thread' \in [Dispatchers -> Labels]
         /\ \A d \in Dispatchers : thread'[d] = "dispatch" => thread[d] = "dispatch"
BY DEF Notify, Notified, Labels, Dispatchers

LEMMA OneNotified ==
  ASSUME thread \in [Dispatchers -> Labels],
         \E label \in Notified(thread["response"]) :
           thread' = [request |-> "check", response |-> label]
  PROVE  thread' \in [Dispatchers -> Labels]
BY DEF Notified, Labels, Dispatchers

-----------------------------------------------------------------------------
(* Sessions, and the dispatchers.                                          *)

LEMMA SessionStepInv ==
  IInv /\ (Connect \/ Disconnect \/ OnData) => IInv'
<1>. SUFFICES ASSUME IInv PROVE Connect \/ Disconnect \/ OnData => IInv'
  OBVIOUS
<1>1. CASE Connect
  BY <1>1
  DEF Connect, IInv, TypeOK, StaysQuiet, mainVars, dispatchVars, poolVars
<1>2. CASE Disconnect
  BY <1>2
  DEF Disconnect, IInv, TypeOK, StaysQuiet, Quiet, mainVars, dispatchVars,
      poolVars
<1>3. CASE OnData
  <2>1. thread' \in [Dispatchers -> Labels]
    BY <1>3, NotifyType DEF OnData, IInv, TypeOK
  <2>2. queue' \in [Dispatchers -> Nat]
    BY <1>3 DEF OnData, Post, IInv, TypeOK, Dispatchers
  <2>. QED
    BY <1>3, <2>1, <2>2
    DEF OnData, IInv, TypeOK, StaysQuiet, Quiet, mainVars, poolVars
<1>. QED
  BY <1>1, <1>2, <1>3

LEMMA LoopStepInv ==
  ASSUME NEW d \in Dispatchers, IInv,
         CheckStopped(d) \/ WaitForItem(d) \/ SpuriousWakeup(d) \/ WaitPop(d)
  PROVE  IInv'
<1>1. CASE CheckStopped(d)
  BY <1>1
  DEF CheckStopped, Goto, Labels, IInv, TypeOK, StaysQuiet, Quiet, mainVars,
      sessionVars, poolVars
<1>2. CASE WaitForItem(d)
  BY <1>2
  DEF WaitForItem, Goto, Labels, IInv, TypeOK, StaysQuiet, Quiet, mainVars,
      sessionVars, poolVars
<1>3. CASE SpuriousWakeup(d)
  BY <1>3
  DEF SpuriousWakeup, Goto, Labels, IInv, TypeOK, StaysQuiet, Quiet, mainVars,
      sessionVars, poolVars
<1>4. CASE WaitPop(d)
  <2>1. CASE queue[d] > 0 /\ queue' = [queue EXCEPT ![d] = @ - 1]
               /\ UNCHANGED quitting /\ Take(d, FALSE)
    BY <2>1
    DEF Take, Leaves, Goto, Labels, IInv, TypeOK, StaysQuiet, Quiet, mainVars,
        sessionVars, poolVars
  <2>2. CASE queue[d] = 0 /\ quitting' = [quitting EXCEPT ![d] = FALSE]
               /\ UNCHANGED queue /\ Take(d, TRUE)
    BY <2>2
    DEF Take, Leaves, Goto, Labels, IInv, TypeOK, StaysQuiet, Quiet, mainVars,
        sessionVars, poolVars
  <2>. QED
    BY <1>4, <2>1, <2>2 DEF WaitPop
<1>. QED
  BY <1>1, <1>2, <1>3, <1>4

LEMMA DispatchStepInv ==
  IInv /\ (DispatchResponse \/ RefuseRequest \/ CommitTask) => IInv'
<1>. SUFFICES ASSUME IInv
              PROVE DispatchResponse \/ RefuseRequest \/ CommitTask => IInv'
  OBVIOUS
<1>. {"request", "response"} \subseteq Dispatchers
  BY DEF Dispatchers
<1>1. CASE DispatchResponse
  BY <1>1
  DEF DispatchResponse, Goto, Labels, IInv, TypeOK, StaysQuiet, Quiet, mainVars,
      sessionVars, poolVars
<1>2. CASE RefuseRequest
  <2>1. thread' \in [Dispatchers -> Labels]
    BY <1>2, OneNotified DEF RefuseRequest, IInv, TypeOK
  <2>2. queue' \in [Dispatchers -> Nat]
    BY <1>2 DEF RefuseRequest, Post, IInv, TypeOK, Dispatchers
  <2>. QED
    BY <1>2, <2>1, <2>2
    DEF RefuseRequest, IInv, TypeOK, StaysQuiet, Quiet, mainVars, sessionVars,
        poolVars
<1>3. CASE CommitTask
  <2>1. thread' \in [Dispatchers -> Labels]
    BY <1>3, OneNotified DEF CommitTask, IInv, TypeOK
  <2>2. queue' \in [Dispatchers -> Nat]
    BY <1>3 DEF CommitTask, Post, IInv, TypeOK, Dispatchers
  <2>. QED
    BY <1>3, <2>1, <2>2
    DEF CommitTask, NotifyWorker, Woken, IInv, TypeOK, StaysQuiet, Quiet,
        mainVars, sessionVars
<1>. QED
  BY <1>1, <1>2, <1>3

LEMMA WorkerStepInv ==
  ASSUME NEW w \in Workers, IInv, WorkerStep(w) \/ WakeWorker(w)
  PROVE  IInv'
<1>1. CASE CheckPool(w) \/ WaitForTask(w) \/ WakeWorker(w)
  BY <1>1
  DEF CheckPool, WaitForTask, WakeWorker, IInv, TypeOK, StaysQuiet, Quiet,
      mainVars, sessionVars, dispatchVars
<1>2. CASE TakeTask(w)
  BY <1>2
  DEF TakeTask, IInv, TypeOK, StaysQuiet, Quiet, mainVars, sessionVars,
      dispatchVars
<1>3. CASE Execute(w)
  <2>1. thread' \in [Dispatchers -> Labels]
    BY <1>3, NotifyType DEF Execute, IInv, TypeOK
  <2>2. queue' \in [Dispatchers -> Nat]
    BY <1>3 DEF Execute, Post, IInv, TypeOK, Dispatchers
  <2>. QED
    BY <1>3, <2>1, <2>2
    DEF Execute, IInv, TypeOK, StaysQuiet, Quiet, mainVars, sessionVars
<1>. QED
  BY <1>1, <1>2, <1>3 DEF WorkerStep
-----------------------------------------------------------------------------
(* The thread that stops the server: it never goes back to serving.        *)

LEMMA StopStepInv == IInv /\ (Signal \/ StopStep) => IInv'
<1>. SUFFICES ASSUME IInv PROVE Signal \/ StopStep => IInv'
  OBVIOUS
<1>1. CASE Signal
  BY <1>1
  DEF Signal, IInv, TypeOK, StaysQuiet, Quiet, sessionVars, dispatchVars,
      poolVars
<1>2. CASE \E i \in DOMAIN Parts : FreePart(i)
  BY <1>2
  DEF FreePart, IInv, TypeOK, StaysQuiet, Quiet, sessionVars, dispatchVars,
      poolVars
<1>3. CASE StopDispatcher
  <2>1. /\ thread' \in [Dispatchers -> Labels]
        /\ \A d \in Dispatchers :
             thread'[d] = "dispatch" => thread[d] = "dispatch"
    BY <1>3, NotifyType DEF StopDispatcher, IInv, TypeOK
  <2>. QED
    BY <1>3, <2>1
    DEF StopDispatcher, IInv, TypeOK, StaysQuiet, Quiet, sessionVars, poolVars
<1>4. CASE JoinDispatcher \/ JoinWorkers \/ StopIOServicePool
  BY <1>4
  DEF JoinDispatcher, JoinWorkers, StopIOServicePool, IInv, TypeOK, StaysQuiet,
      Quiet, sessionVars, dispatchVars, poolVars
<1>5. CASE StopThreadPool
  <2>1. \A w \in Workers : worker'[w] = "run" => worker[w] = "run"
    BY <1>5 DEF StopThreadPool, Notified, IInv, TypeOK
  <2>. QED
    BY <1>5, <2>1
    DEF StopThreadPool, IInv, TypeOK, StaysQuiet, Quiet, sessionVars,
        dispatchVars
<1>. QED
  BY <1>1, <1>2, <1>3, <1>4, <1>5 DEF StopStep

LEMMA NextInv == IInv /\ [Next]_vars => IInv'
<1>. SUFFICES ASSUME IInv, [Next]_vars PROVE IInv'
  OBVIOUS
<1>1. CASE UNCHANGED vars
  BY <1>1
  DEF vars, mainVars, sessionVars, dispatchVars, poolVars, IInv, TypeOK,
      StaysQuiet, Quiet
<1>2. {"request", "response"} \subseteq Dispatchers
  BY DEF Dispatchers
<1>. QED
  BY <1>1, <1>2, SessionStepInv, LoopStepInv, DispatchStepInv, WorkerStepInv,
     StopStepInv
  DEF Next, RequestStep, ResponseStep, DispatcherStep

(***************************************************************************)
(* A server on which nothing is under way when it is stopped, and to which *)
(* nobody is connected, ends without touching what it freed.               *)
(***************************************************************************)
THEOREM QuietStopsAreClean == Spec => []QuietStopIsClean
<1>1. IInv => QuietStopIsClean
  BY DEF IInv, TypeOK, StaysQuiet, Quiet, QuietStopIsClean, Dangling, Dispatchers
<1>. QED
  BY InitInv, NextInv, <1>1, PTL DEF Spec
=============================================================================
