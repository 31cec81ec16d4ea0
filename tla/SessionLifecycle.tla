-------------------------- MODULE SessionLifecycle --------------------------
(***************************************************************************)
(* Sessions of a server from accept to destruction.  HandleAccept runs     *)
(* Session::Start on the acceptor's thread; the completions of a session's *)
(* reads and writes run on an IO thread, one at a time, and may do so      *)
(* while Start is still under way, because it arms the first read before   *)
(* it calls OnConnect and before it writes m_closed.  Both threads may run *)
(* Session::Close.  SessionManager::m_sessions has no lock: insert and     *)
(* erase take a begin and an end, and what two overlapping operations      *)
(* leave behind is anybody's guess.                                        *)
(***************************************************************************)
EXTENDS Naturals, FiniteSets

CONSTANTS
  Sessions,     \* sessions there may be (bounds the connections)
  MaxSessions,  \* m_maxSessionCount
  Acceptor,     \* the thread that runs the ConAcceptor's io_context
  NoSession     \* the acceptor waits for a connection

ASSUME SessionsAssumption ==
  /\ IsFiniteSet(Sessions)
  /\ MaxSessions \in Nat
  /\ Acceptor \notin Sessions
  /\ NoSession \notin Sessions

\* The IO thread, while it runs a handler of s, is called s.
Threads == Sessions \cup {Acceptor}

VARIABLES
  accepting,  \* the session the acceptor works on
  pc,         \* next step of each thread
  next,       \* what Close returns to, on the acceptor's thread
  read,       \* the part of a message that is being read
  arrived,    \* sessions where it has arrived, and the handler is due
  unwritable, \* sessions with no write, or none any more, that could fail
  closed,     \* m_closed
  open,       \* the socket is open
  table,      \* SessionManager::m_sessions
  users,      \* threads inside an operation on m_sessions
  touched,    \* history: sessions that were accepted or failed to be
  collided,   \* history: sessions whose operation on m_sessions overlapped
  early,      \* history: sessions an IO thread closed before OnConnect was over
  late,       \* history: OnData calls after the socket was closed
  destroyed   \* sessions whose destructor has run

ioVars == <<read, arrived, unwritable>>
tableVars == <<table, users, collided, early>>
vars == <<accepting, pc, next, ioVars, closed, open, tableVars, touched, late,
          destroyed>>

Init ==
  /\ accepting = NoSession
  /\ pc = [t \in Threads |-> "idle"]
  /\ next = "idle"
  /\ read = [s \in Sessions |-> "none"]
  /\ arrived = {}
  /\ unwritable = {}
  /\ closed = [s \in Sessions |-> TRUE]
  /\ open = [s \in Sessions |-> FALSE]
  /\ table = {}
  /\ users = {}
  /\ touched = {}
  /\ collided = {}
  /\ early = {}
  /\ late = [s \in Sessions |-> 0]
  /\ destroyed = {}

Goto(t, label) == pc' = [pc EXCEPT ![t] = label]

\* The session a thread works on.
SessionOf(t) == IF t = Acceptor THEN accepting ELSE t

\* The first statement of Close.
BeginClose(t) ==
  /\ closed' = [closed EXCEPT ![SessionOf(t)] = TRUE]
  /\ Goto(t, "remove")
-----------------------------------------------------------------------------
(* m_sessions.  A thread that enters while others are inside collides with *)
(* them; an operation that collided may or may not have had its effect.    *)

Enter(t) ==
  /\ users' = users \cup {t}
  /\ collided' = IF users = {} THEN collided
                 ELSE collided \cup {SessionOf(u) : u \in users \cup {t}}

Leave(t, after) ==
  /\ users' = users \ {t}
  /\ table' \in IF SessionOf(t) \in collided THEN {table, after} ELSE {after}

(* Session::Close on thread t: m_closed, OnClose (RemoveSession), and then *)
(* the socket.  It does not ask whether the session is closed already.     *)

\* Mutant: OnClose is not raised, the session stays in the table.
BeginRemoveNot(t) ==
  /\ pc[t] = "remove"
  /\ Goto(t, "shut")
  /\ UNCHANGED <<accepting, next, ioVars, closed, open, tableVars, touched,
                 late, destroyed>>

BeginRemove(t) ==
  /\ pc[t] = "remove"
  /\ Enter(t)
  /\ early' = IF t = accepting /\ pc[Acceptor] \in {"connect", "adding"}
              THEN early \cup {t} ELSE early
  /\ Goto(t, "removing")
  /\ UNCHANGED <<accepting, next, ioVars, closed, open, table, touched, late,
                 destroyed>>

EndRemove(t) ==
  /\ pc[t] = "removing"
  /\ Leave(t, table \ {SessionOf(t)})
  /\ Goto(t, "shut")
  /\ UNCHANGED <<accepting, next, ioVars, closed, open, collided, early,
                 touched, late, destroyed>>

\* Mutant: the socket is left open.
ShutSocketNot(t) ==
  /\ pc[t] = "shut"
  /\ Goto(t, IF t = Acceptor THEN next ELSE "idle")
  /\ UNCHANGED <<accepting, next, ioVars, closed, open, tableVars, touched,
                 late, destroyed>>

ShutSocket(t) ==
  /\ pc[t] = "shut"
  /\ open' = [open EXCEPT ![SessionOf(t)] = FALSE]
  /\ Goto(t, IF t = Acceptor THEN next ELSE "idle")
  /\ UNCHANGED <<accepting, next, ioVars, closed, tableVars, touched, late,
                 destroyed>>
-----------------------------------------------------------------------------
(* ConAcceptor::HandleAccept and Session::Start on the acceptor's thread.  *)

Accept(s) ==
  /\ accepting = NoSession
  /\ s \notin touched
  /\ accepting' = s
  /\ touched' = touched \cup {s}
  /\ open' = [open EXCEPT ![s] = TRUE]
  /\ read' = [read EXCEPT ![s] = "head"]
  /\ Goto(Acceptor, "connect")
  /\ UNCHANGED <<next, arrived, unwritable, closed, tableVars, late, destroyed>>

AcceptFails(s) ==
  /\ accepting = NoSession
  /\ s \notin touched
  /\ accepting' = s
  /\ touched' = touched \cup {s}
  /\ unwritable' = unwritable \cup {s}
  /\ next' = "release"
  /\ closed' = [closed EXCEPT ![s] = TRUE]
  /\ Goto(Acceptor, "remove")
  /\ UNCHANGED <<read, arrived, open, tableVars, late, destroyed>>

\* Mutant: > in place of >=.
HasSlotInclusive == Cardinality(table) <= MaxSessions

HasSlot == Cardinality(table) < MaxSessions

(* SessionManager::AddSession, called by OnConnect.  A session too many is *)
(* closed, and Start goes on as if it were not.                            *)
BeginAdd ==
  /\ pc[Acceptor] = "connect"
  /\ HasSlot
  /\ Enter(Acceptor)
  /\ Goto(Acceptor, "adding")
  /\ UNCHANGED <<accepting, next, ioVars, closed, open, table, early, touched,
                 late, destroyed>>

EndAdd ==
  /\ pc[Acceptor] = "adding"
  /\ Leave(Acceptor, table \cup {accepting})
  /\ Goto(Acceptor, "opened")
  /\ UNCHANGED <<accepting, next, ioVars, closed, open, collided, early,
                 touched, late, destroyed>>

Reject ==
  /\ pc[Acceptor] = "connect"
  /\ ~HasSlot
  /\ next' = "opened"
  /\ BeginClose(Acceptor)
  /\ UNCHANGED <<accepting, ioVars, open, tableVars, touched, late, destroyed>>

\* The last statement of Start.
MarkOpened ==
  /\ pc[Acceptor] = "opened"
  /\ closed' = [closed EXCEPT ![accepting] = FALSE]
  /\ Goto(Acceptor, "release")
  /\ UNCHANGED <<accepting, next, ioVars, open, tableVars, touched, late,
                 destroyed>>

\* The acceptor lets the session go and waits for the next connection.
StartAccept ==
  /\ pc[Acceptor] = "release"
  /\ accepting' = NoSession
  /\ next' = "idle"
  /\ Goto(Acceptor, "idle")
  /\ UNCHANGED <<ioVars, closed, open, tableVars, touched, late,
                 destroyed>>
-----------------------------------------------------------------------------
(* The session's handlers on the IO thread.  While the socket is open the  *)
(* rest of the head or body may arrive; the handler comes later.           *)

ReadCompletes(s) ==
  /\ read[s] # "none" /\ open[s]
  /\ arrived' = arrived \cup {s}
  /\ UNCHANGED <<accepting, pc, next, read, unwritable, closed, open, tableVars,
                 touched, late, destroyed>>

HandleHeadRead(s) ==
  /\ pc[s] = "idle"
  /\ read[s] = "head" /\ s \in arrived
  /\ read' = [read EXCEPT ![s] = "body"]
  /\ arrived' = arrived \ {s}
  /\ UNCHANGED <<accepting, pc, next, unwritable, closed, open, tableVars,
                 touched, late, destroyed>>

\* OnData, and the next read.
HandleBodyRead(s) ==
  /\ pc[s] = "idle"
  /\ read[s] = "body" /\ s \in arrived
  /\ late' = IF open[s] THEN late ELSE [late EXCEPT ![s] = @ + 1]
  /\ read' = [read EXCEPT ![s] = "head"]
  /\ arrived' = arrived \ {s}
  /\ UNCHANGED <<accepting, pc, next, unwritable, closed, open, tableVars,
                 touched, destroyed>>

\* Mutant: neither handler looks at the error code.
HandleReadErrorNot(s) ==
  /\ pc[s] = "idle"
  /\ read[s] # "none" /\ s \notin arrived
  /\ late[s] < 2
  /\ late' = IF open[s] \/ read[s] = "head" THEN late
             ELSE [late EXCEPT ![s] = @ + 1]
  /\ read' = [read EXCEPT ![s] = IF @ = "head" THEN "body" ELSE "head"]
  /\ UNCHANGED <<accepting, pc, next, arrived, unwritable, closed, open,
                 tableVars, touched, destroyed>>

(* Either handler gets an error (the client is gone or the socket was      *)
(* closed) or a head it does not accept.                                   *)
HandleReadError(s) ==
  /\ pc[s] = "idle"
  /\ read[s] # "none" /\ s \notin arrived
  /\ read' = [read EXCEPT ![s] = "none"]
  /\ BeginClose(s)
  /\ UNCHANGED <<accepting, next, arrived, unwritable, open, tableVars, touched,
                 late, destroyed>>

(* A write fails, and its handler closes the session: at most once, for   *)
(* SendQueue starts no write after one failed.  The handler holds a        *)
(* reference, so this may be the last thing that happens to the session.   *)
HandleWriteError(s) ==
  /\ pc[s] = "idle"
  /\ s \in touched \ (destroyed \cup unwritable)
  /\ unwritable' = unwritable \cup {s}
  /\ BeginClose(s)
  /\ UNCHANGED <<accepting, next, read, arrived, open, tableVars, touched, late,
                 destroyed>>
-----------------------------------------------------------------------------
(* The last shared_ptr goes: the table, pending handlers and threads at    *)
(* work each hold one.  (~Session of a session that is not m_closed calls  *)
(* Close, whose shared_from_this() throws: there is no owner any more.)    *)
Referenced(s) ==
  \/ s \in table \/ s = accepting \/ pc[s] # "idle"
  \/ read[s] # "none"

\* What is recorded of the session is forgotten with it.
Destroy(s) ==
  /\ s \in touched \ destroyed
  /\ ~Referenced(s)
  /\ destroyed' = destroyed \cup {s}
  /\ unwritable' = unwritable \ {s}
  /\ collided' = collided \ {s}
  /\ early' = early \ {s}
  /\ late' = [late EXCEPT ![s] = 0]
  /\ UNCHANGED <<accepting, pc, next, read, arrived, closed, open, table, users,
                 touched>>

CloseStep(t) == BeginRemove(t) \/ EndRemove(t) \/ ShutSocket(t)

AcceptorStep ==
  \/ BeginAdd \/ EndAdd \/ Reject \/ MarkOpened \/ StartAccept
  \/ CloseStep(Acceptor)

HandlerStep(s) == HandleHeadRead(s) \/ HandleBodyRead(s) \/ CloseStep(s)

Next ==
  \/ \E s \in Sessions : Accept(s) \/ AcceptFails(s)
  \/ AcceptorStep
  \/ \E s \in Sessions : \/ ReadCompletes(s) \/ HandlerStep(s)
                         \/ HandleReadError(s) \/ HandleWriteError(s)
                         \/ Destroy(s)

Spec == Init /\ [][Next]_vars

(***************************************************************************)
(* Threads run what they have to run, a read on a closed socket fails,     *)
(* and a session nobody refers to is destroyed at once.  Clients need not  *)
(* connect, send or go away.                                               *)
(***************************************************************************)
Fairness ==
  /\ WF_vars(AcceptorStep)
  /\ \A s \in Sessions : /\ WF_vars(HandlerStep(s))
                         /\ WF_vars(~open[s] /\ HandleReadError(s))
                         /\ WF_vars(Destroy(s))

FairSpec == Spec /\ Fairness
-----------------------------------------------------------------------------
(* Properties.                                                             *)

Labels == {"idle", "connect", "adding", "opened", "release", "remove",
           "removing", "shut"}

(***************************************************************************)
(* Every variable stays in its range, the table within m_maxSessionCount   *)
(* (SessionManager.cpp:15, although nothing serialises the operations).    *)
(***************************************************************************)
TypeOK ==
  /\ accepting \in Sessions \cup {NoSession}
  /\ pc \in [Threads -> Labels]
  /\ next \in {"idle", "opened", "release"}
  /\ read \in [Sessions -> {"none", "head", "body"}]
  /\ arrived \subseteq Sessions
  /\ unwritable \subseteq Sessions
  /\ closed \in [Sessions -> BOOLEAN] /\ open \in [Sessions -> BOOLEAN]
  /\ table \subseteq Sessions /\ Cardinality(table) <= MaxSessions
  /\ users \subseteq Threads
  /\ touched \subseteq Sessions /\ collided \subseteq Sessions
  /\ early \subseteq Sessions /\ destroyed \subseteq Sessions
  /\ late \in [Sessions -> Nat]

Active(s) ==
  s = accepting \/ pc[s] # "idle" \/ read[s] # "none"

(***************************************************************************)
(* An entry of m_sessions whose session has no operation left, and so will *)
(* never be removed, is one that an IO thread closed before OnConnect put  *)
(* it there (Session.cpp:38-45), or one whose insertion or removal met     *)
(* another operation on the unprotected map.                               *)
(***************************************************************************)
EntriesAreLive == \A s \in table : Active(s) \/ s \in early \cup collided

(***************************************************************************)
(* After the socket is closed the upper layer gets at most one message     *)
(* more: the body whose read had completed already.  The read that follows *)
(* it fails (Session.cpp:107-115).                                         *)
(***************************************************************************)
OneLateMessage == \A s \in Sessions : late[s] <= 1

(***************************************************************************)
(* A session that begins to close is destroyed in the end, however often   *)
(* Close is called: no reference is left, no read stays armed on its       *)
(* socket, except in the races that leave an entry behind in m_sessions.   *)
(***************************************************************************)
EventuallyDestroyed ==
  \A s \in Sessions :
    pc[s] = "remove" ~> s \in destroyed \/ s \in early \cup collided

(***************************************************************************)
(* The destructor closes a session that is not closed (Session.cpp:18-20:  *)
(* "if (!m_closed) Close();", and then logs "destroyed."); it cannot, so   *)
(* m_closed must hold by then.  The code does not keep this: the last      *)
(* statement of Start overwrites what a Close before it has written.       *)
(***************************************************************************)
DestroyedWhenClosed == \A s \in destroyed : closed[s]
=============================================================================
