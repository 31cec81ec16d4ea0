----------------------- MODULE SessionLifecycleProofs -----------------------
(***************************************************************************)
(* What SessionLifecycle promises for every number of sessions and every   *)
(* m_maxSessionCount: the types with the bound of the table, that entries  *)
(* of the table are live, and that the upper layer hears of a closed       *)
(* session at most once more.                                              *)
(***************************************************************************)
EXTENDS SessionLifecycle, FiniteSetTheorems, TLAPS

(***************************************************************************)
(* The strengthening.  The acceptor has a session while it is at work, and *)
(* only it adds to the table, so the room it saw is still there.           *)
(***************************************************************************)
AcceptorOK ==
  /\ pc[Acceptor] # "idle" => accepting \in Sessions
  /\ Acceptor \in users => pc[Acceptor] \in {"adding", "removing"}
  /\ pc[Acceptor] = "adding" => Cardinality(table) < MaxSessions

(* A session in the table has a read armed, or is on its way out of it, or *)
(* met a race; one that is about to be inserted is on its way out (and     *)
(* will find itself there) or was closed too early.                        *)
WillLeave(s) ==
  \/ read[s] # "none"
  \/ pc[s] \in {"remove", "removing"}
  \/ s \in early \cup collided

Entering(s) == accepting = s /\ pc[Acceptor] \in {"connect", "adding"}

EntriesOK ==
  /\ \A s \in table : WillLeave(s)
  /\ \A s \in Sessions :
       Entering(s) => read[s] # "none" \/ pc[s] = "remove" \/ s \in early

(* Nothing arrives on a closed socket, so what had arrived is the last.    *)
LateOK ==
  \A s \in Sessions :
    /\ s \notin touched => late[s] = 0 /\ read[s] = "none"
    /\ open[s] => late[s] = 0
    /\ late[s] <= 1
    /\ late[s] = 1 => s \notin arrived

LEMMA AddToTable ==
  ASSUME NEW s \in Sessions, TypeOK, Cardinality(table) < MaxSessions
  PROVE  Cardinality(table \cup {s}) <= MaxSessions
<1>1. IsFiniteSet(table)
  BY SessionsAssumption, FS_Subset DEF TypeOK
<1>2. Cardinality(table) \in Nat /\ MaxSessions \in Nat
  BY <1>1, FS_CardinalityType, SessionsAssumption
<1>3. Cardinality(table \cup {s}) = IF s \in table THEN Cardinality(table)
                                       ELSE Cardinality(table) + 1
  BY <1>1, FS_AddElement
<1>. QED
  BY <1>2, <1>3 DEF TypeOK

LEMMA RemoveFromTable ==
  ASSUME NEW s, TypeOK
  PROVE  Cardinality(table \ {s}) <= Cardinality(table)
<1>1. IsFiniteSet(table)
  BY SessionsAssumption, FS_Subset DEF TypeOK
<1>. QED
  BY <1>1, FS_Subset

LEMMA TableNumbers ==
  ASSUME TypeOK
  PROVE  Cardinality(table) \in Nat /\ MaxSessions \in Nat
BY SessionsAssumption, FS_Subset, FS_CardinalityType DEF TypeOK

LEMMA InitTypes == Init => TypeOK /\ AcceptorOK
<1>. SUFFICES ASSUME Init PROVE TypeOK /\ AcceptorOK
  OBVIOUS
<1>1. Cardinality(table) = 0
  BY FS_EmptySet DEF Init
<1>. QED
  BY <1>1, SessionsAssumption
  DEF Init, TypeOK, AcceptorOK, Threads, Labels

LEMMA SessionsAreThreads ==
  ASSUME TypeOK, AcceptorOK
  PROVE  /\ Acceptor \in Threads
         /\ \A s \in Sessions : s \in Threads /\ s # Acceptor
         /\ \A t \in Threads : pc[t] # "idle" => SessionOf(t) \in Sessions
         /\ \A t \in users : SessionOf(t) \in Sessions
BY SessionsAssumption DEF TypeOK, AcceptorOK, Threads, SessionOf

(***************************************************************************)
(* The actions keep the types.  Only EndAdd needs the room BeginAdd saw.   *)
(***************************************************************************)
LEMMA CloseStepTypes ==
  ASSUME TypeOK, AcceptorOK, NEW t \in Threads, CloseStep(t)
  PROVE  TypeOK' /\ AcceptorOK'
<1>1. CASE BeginRemove(t)
  BY <1>1, SessionsAreThreads
  DEF BeginRemove, Enter, Goto, TypeOK, AcceptorOK, ioVars, Labels, Threads
<1>2. CASE EndRemove(t)
  <2>1. Cardinality(table \ {SessionOf(t)}) <= Cardinality(table)
    BY RemoveFromTable
  <2>2. /\ table' \subseteq table
        /\ Cardinality(table') <= Cardinality(table)
    BY <1>2, <2>1, TableNumbers DEF EndRemove, Leave
  <2>3. Cardinality(table') \in Nat
    BY <2>2, SessionsAssumption, FS_Subset, FS_CardinalityType DEF TypeOK
  <2>4. AcceptorOK'
    BY <1>2, <2>2, <2>3, TableNumbers, SessionsAreThreads
    DEF EndRemove, Leave, Goto, TypeOK, AcceptorOK, Labels, Threads
  <2>. QED
    BY <1>2, <2>2, <2>3, <2>4, TableNumbers, SessionsAreThreads
    DEF EndRemove, Leave, Goto, TypeOK, ioVars, Labels
<1>3. CASE ShutSocket(t)
  <2>1. CASE t = Acceptor
    BY <1>3, <2>1, SessionsAreThreads
    DEF ShutSocket, Goto, TypeOK, AcceptorOK, ioVars, tableVars, Labels, Threads
  <2>2. CASE t # Acceptor
    BY <1>3, <2>2, SessionsAreThreads
    DEF ShutSocket, Goto, TypeOK, AcceptorOK, ioVars, tableVars, Labels, Threads
  <2>. QED
    BY <2>1, <2>2
<1>. QED
  BY <1>1, <1>2, <1>3 DEF CloseStep

LEMMA AcceptorStepTypes ==
  ASSUME TypeOK, AcceptorOK, AcceptorStep
  PROVE  TypeOK' /\ AcceptorOK'
<1>1. CASE BeginAdd
  BY <1>1, SessionsAreThreads
  DEF BeginAdd, HasSlot, Enter, Goto, TypeOK, AcceptorOK, ioVars, Labels, Threads
<1>2. CASE EndAdd
  <2>1. accepting \in Sessions /\ Cardinality(table) < MaxSessions
    BY <1>2 DEF EndAdd, AcceptorOK
  <2>2. Cardinality(table \cup {accepting}) <= MaxSessions
    BY <2>1, AddToTable
  <2>3. table' \subseteq Sessions /\ Cardinality(table') <= MaxSessions
    BY <1>2, <2>1, <2>2, SessionsAreThreads DEF EndAdd, Leave, SessionOf, TypeOK
  <2>. QED
    BY <1>2, <2>1, <2>3, SessionsAreThreads
    DEF EndAdd, Leave, Goto, TypeOK, AcceptorOK, ioVars, Labels, Threads
<1>3. CASE Reject
  BY <1>3, SessionsAreThreads
  DEF Reject, BeginClose, Goto, TypeOK, AcceptorOK, ioVars, tableVars, Labels,
      Threads
<1>4. CASE MarkOpened
  BY <1>4, SessionsAreThreads
  DEF MarkOpened, Goto, TypeOK, AcceptorOK, ioVars, tableVars, Labels, Threads
<1>5. CASE StartAccept
  BY <1>5, SessionsAreThreads
  DEF StartAccept, Goto, TypeOK, AcceptorOK, ioVars, tableVars, Labels,
      Threads
<1>. QED
  BY <1>1, <1>2, <1>3, <1>4, <1>5, CloseStepTypes, SessionsAreThreads
  DEF AcceptorStep

LEMMA OtherStepTypes ==
  ASSUME TypeOK, AcceptorOK, NEW s \in Sessions,
         \/ Accept(s) \/ AcceptFails(s) \/ ReadCompletes(s)
         \/ HandleHeadRead(s) \/ HandleBodyRead(s) \/ HandleReadError(s)
         \/ HandleWriteError(s) \/ Destroy(s)
  PROVE  TypeOK' /\ AcceptorOK'
<1>1. CASE Accept(s)
  BY <1>1, SessionsAreThreads, SessionsAssumption
  DEF Accept, Goto, TypeOK, AcceptorOK, tableVars, Labels, Threads
<1>2. CASE AcceptFails(s)
  BY <1>2, SessionsAreThreads, SessionsAssumption
  DEF AcceptFails, Goto, TypeOK, AcceptorOK, tableVars, Labels, Threads
<1>3. CASE ReadCompletes(s)
  BY <1>3 DEF ReadCompletes, TypeOK, AcceptorOK, tableVars
<1>4. CASE HandleHeadRead(s)
  BY <1>4 DEF HandleHeadRead, TypeOK, AcceptorOK, tableVars
<1>5. CASE HandleBodyRead(s)
  BY <1>5 DEF HandleBodyRead, TypeOK, AcceptorOK, tableVars
<1>6. CASE HandleReadError(s)
  BY <1>6, SessionsAreThreads
  DEF HandleReadError, BeginClose, Goto, TypeOK, AcceptorOK, tableVars, Labels,
      Threads, SessionOf
<1>7. CASE HandleWriteError(s)
  BY <1>7, SessionsAreThreads
  DEF HandleWriteError, BeginClose, Goto, TypeOK, AcceptorOK, tableVars, Labels,
      Threads, SessionOf
<1>8. CASE Destroy(s)
  BY <1>8 DEF Destroy, TypeOK, AcceptorOK
<1>. QED
  BY <1>1, <1>2, <1>3, <1>4, <1>5, <1>6, <1>7, <1>8

(***************************************************************************)
(* One name for the ways a step can be taken, for the proofs below.        *)
(***************************************************************************)
LEMMA NextCases ==
  ASSUME Next
  PROVE  \/ AcceptorStep
         \/ \E s \in Sessions :
              \/ CloseStep(s) \/ Accept(s) \/ AcceptFails(s)
              \/ ReadCompletes(s) \/ HandleHeadRead(s) \/ HandleBodyRead(s)
              \/ HandleReadError(s) \/ HandleWriteError(s) \/ Destroy(s)
BY DEF Next, HandlerStep

LEMMA NextTypes ==
  ASSUME TypeOK, AcceptorOK, [Next]_vars
  PROVE  TypeOK' /\ AcceptorOK'
<1>1. CASE UNCHANGED vars
  BY <1>1 DEF vars, ioVars, tableVars, TypeOK, AcceptorOK
<1>2. CASE Next
  BY <1>2, NextCases, AcceptorStepTypes, CloseStepTypes, OtherStepTypes,
     SessionsAreThreads
<1>. QED
  BY <1>1, <1>2

(***************************************************************************)
(* Every variable stays in its range, and m_sessions never holds more than *)
(* m_maxSessionCount sessions, although Close on IO threads and AddSession *)
(* on the acceptor's thread work on it without a lock.                     *)
(***************************************************************************)
THEOREM TypeCorrect == Spec => []TypeOK
<1>1. Init => TypeOK /\ AcceptorOK
  BY InitTypes
<1>2. TypeOK /\ AcceptorOK /\ [Next]_vars => (TypeOK /\ AcceptorOK)'
  BY NextTypes
<1>. QED
  BY <1>1, <1>2, PTL DEF Spec
-----------------------------------------------------------------------------
LEMMA LateStep ==
  ASSUME TypeOK, LateOK, [Next]_vars
  PROVE  LateOK'
<1>1. CASE UNCHANGED vars
  BY <1>1 DEF vars, ioVars, LateOK
<1>2. CASE AcceptorStep
  BY <1>2
  DEF AcceptorStep, BeginAdd, EndAdd, Reject, MarkOpened, StartAccept, CloseStep,
      BeginRemove, EndRemove, ShutSocket, ioVars, LateOK, TypeOK
<1>3. ASSUME NEW s \in Sessions, CloseStep(s) PROVE LateOK'
  BY <1>3 DEF CloseStep, BeginRemove, EndRemove, ShutSocket, ioVars, LateOK, TypeOK
<1>4. ASSUME NEW s \in Sessions, Accept(s) \/ AcceptFails(s) PROVE LateOK'
  BY <1>4 DEF Accept, AcceptFails, LateOK, TypeOK
<1>5. ASSUME NEW s \in Sessions, ReadCompletes(s) PROVE LateOK'
  BY <1>5 DEF ReadCompletes, LateOK, TypeOK
<1>6. ASSUME NEW s \in Sessions, HandleHeadRead(s) PROVE LateOK'
  BY <1>6 DEF HandleHeadRead, LateOK, TypeOK
<1>7. ASSUME NEW s \in Sessions, HandleBodyRead(s) PROVE LateOK'
  BY <1>7 DEF HandleBodyRead, LateOK, TypeOK
<1>8. ASSUME NEW s \in Sessions, HandleReadError(s) \/ HandleWriteError(s)
      PROVE LateOK'
  BY <1>8 DEF HandleReadError, HandleWriteError, LateOK, TypeOK
<1>9. ASSUME NEW s \in Sessions, Destroy(s) PROVE LateOK'
  BY <1>9 DEF Destroy, LateOK, TypeOK
<1>. QED
  BY <1>1, <1>2, <1>3, <1>4, <1>5, <1>6, <1>7, <1>8, <1>9, NextCases

(***************************************************************************)
(* The upper layer gets at most one message of a session after its socket  *)
(* is closed, the one whose body had arrived before (Session.cpp:107-115). *)
(***************************************************************************)
THEOREM LateMessagesEnd == Spec => []OneLateMessage
<1>1. Init => TypeOK /\ AcceptorOK /\ LateOK
  BY InitTypes DEF Init, LateOK
<1>2. TypeOK /\ AcceptorOK /\ LateOK /\ [Next]_vars
        => (TypeOK /\ AcceptorOK /\ LateOK)'
  BY NextTypes, LateStep
<1>3. LateOK => OneLateMessage
  BY DEF LateOK, OneLateMessage
<1>. QED
  BY <1>1, <1>2, <1>3, PTL DEF Spec
-----------------------------------------------------------------------------
LEMMA CloseStepEntries ==
  ASSUME TypeOK, AcceptorOK, EntriesOK, NEW t \in Threads, CloseStep(t)
  PROVE  EntriesOK'
<1>1. CASE BeginRemove(t)
  BY <1>1, SessionsAreThreads
  DEF BeginRemove, Enter, Goto, SessionOf, EntriesOK, WillLeave, Entering,
      TypeOK, ioVars
<1>2. CASE EndRemove(t)
  <2>1. /\ table' \subseteq table
        /\ SessionOf(t) \in table' => SessionOf(t) \in collided
    BY <1>2 DEF EndRemove, Leave
  <2>. QED
    BY <1>2, <2>1, SessionsAreThreads
    DEF EndRemove, Goto, SessionOf, EntriesOK, WillLeave, Entering, TypeOK, ioVars
<1>3. CASE ShutSocket(t)
  BY <1>3, SessionsAreThreads
  DEF ShutSocket, Goto, SessionOf, EntriesOK, WillLeave, Entering, TypeOK,
      ioVars, tableVars
<1>. QED
  BY <1>1, <1>2, <1>3 DEF CloseStep

LEMMA AcceptorStepEntries ==
  ASSUME TypeOK, AcceptorOK, EntriesOK, AcceptorStep
  PROVE  EntriesOK'
<1>1. CASE BeginAdd
  BY <1>1, SessionsAreThreads
  DEF BeginAdd, Enter, Goto, EntriesOK, WillLeave, Entering, TypeOK, ioVars
<1>2. CASE EndAdd
  <2>1. table' \subseteq table \cup {accepting} /\ accepting \in Sessions
    BY <1>2 DEF EndAdd, Leave, SessionOf, AcceptorOK
  <2>2. WillLeave(accepting)
    BY <1>2, <2>1 DEF EndAdd, EntriesOK, WillLeave, Entering
  <2>. QED
    BY <1>2, <2>1, <2>2, SessionsAreThreads
    DEF EndAdd, Goto, EntriesOK, WillLeave, Entering, TypeOK, ioVars
<1>3. CASE Reject \/ MarkOpened \/ StartAccept
  BY <1>3, SessionsAreThreads
  DEF Reject, MarkOpened, StartAccept, BeginClose, Goto, EntriesOK, WillLeave,
      Entering, TypeOK, ioVars, tableVars
<1>. QED
  BY <1>1, <1>2, <1>3, CloseStepEntries, SessionsAreThreads DEF AcceptorStep

LEMMA OtherStepEntries ==
  ASSUME TypeOK, AcceptorOK, EntriesOK, NEW s \in Sessions,
         \/ Accept(s) \/ AcceptFails(s) \/ ReadCompletes(s)
         \/ HandleHeadRead(s) \/ HandleBodyRead(s) \/ HandleReadError(s)
         \/ HandleWriteError(s) \/ Destroy(s)
  PROVE  EntriesOK'
<1>1. CASE Accept(s) \/ AcceptFails(s)
  BY <1>1, SessionsAreThreads
  DEF Accept, AcceptFails, Goto, EntriesOK, WillLeave, Entering, TypeOK, tableVars
<1>2. CASE ReadCompletes(s) \/ HandleHeadRead(s) \/ HandleBodyRead(s)
  BY <1>2
  DEF ReadCompletes, HandleHeadRead, HandleBodyRead, EntriesOK, WillLeave,
      Entering, TypeOK, tableVars
<1>3. CASE HandleReadError(s)
  BY <1>3, SessionsAreThreads
  DEF HandleReadError, BeginClose, Goto, EntriesOK, WillLeave, Entering, TypeOK,
      tableVars
<1>4. CASE HandleWriteError(s)
  BY <1>4, SessionsAreThreads
  DEF HandleWriteError, BeginClose, Goto, EntriesOK, WillLeave, Entering, TypeOK,
      tableVars
<1>5. CASE Destroy(s)
  BY <1>5
  DEF Destroy, Referenced, EntriesOK, WillLeave, Entering, TypeOK
<1>. QED
  BY <1>1, <1>2, <1>3, <1>4, <1>5

(***************************************************************************)
(* An entry of m_sessions whose session has nothing left to do was closed  *)
(* by an IO thread before OnConnect inserted it, or its insertion or       *)
(* removal met another operation on the map (Session.cpp:38-45,            *)
(* SessionManager.cpp:13-29): nothing else leaves entries behind.          *)
(***************************************************************************)
THEOREM OnlyRacesLeaveEntries == Spec => []EntriesAreLive
<1>1. Init => TypeOK /\ AcceptorOK /\ EntriesOK
  BY InitTypes, SessionsAssumption DEF Init, EntriesOK, Entering, Threads
<1>2. TypeOK /\ AcceptorOK /\ EntriesOK /\ [Next]_vars
        => (TypeOK /\ AcceptorOK /\ EntriesOK)'
  <2>1. ASSUME TypeOK, AcceptorOK, EntriesOK, UNCHANGED vars PROVE EntriesOK'
    BY <2>1
    DEF vars, ioVars, tableVars, EntriesOK, WillLeave, Entering
  <2>. QED
    BY <2>1, NextTypes, NextCases, AcceptorStepEntries, CloseStepEntries,
       OtherStepEntries, SessionsAreThreads
<1>3. TypeOK /\ EntriesOK => EntriesAreLive
  BY DEF TypeOK, EntriesOK, WillLeave, EntriesAreLive, Active
<1>. QED
  BY <1>1, <1>2, <1>3, PTL DEF Spec
=============================================================================
