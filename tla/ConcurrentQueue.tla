-------------------------- MODULE ConcurrentQueue --------------------------
(***************************************************************************)
(* ConcurrentQueue<T> at the granularity of its mutexes.  The list has a   *)
(* dummy node at its end: m_head = m_tail means that it is empty.  Push    *)
(* fills the dummy and links a new one under m_tailMutex, WaitPop moves    *)
(* m_head under m_headMutex and looks at m_tail under m_tailMutex.  Two    *)
(* things happen outside of any mutex: the count, and notify_one.          *)
(*                                                                         *)
(* Nodes are numbered from 1 in the order in which they are linked, and a  *)
(* node that was unlinked stays in `nodes', so that what was taken can be  *)
(* told from it.                                                           *)
(***************************************************************************)
EXTENDS Integers, Sequences, FiniteSets

CONSTANTS
  Producers,  \* threads that call Push
  Consumers,  \* threads that call WaitPop
  Items,      \* items they push, each once (bounds the pushes)
  NoItem,     \* a producer that pushes nothing
  NoThread    \* a mutex is free

ASSUME ThreadsAssumption ==
  /\ IsFiniteSet(Producers)
  /\ IsFiniteSet(Consumers)
  /\ Producers \cap Consumers = {}
  /\ NoThread \notin Producers \cup Consumers
  /\ NoItem \notin Items

Threads == Producers \cup Consumers

VARIABLES
  pc,        \* next step of each thread
  item,      \* what each producer pushes
  nodes,     \* the data of the nodes that were filled, in their order
  head,      \* number of the node m_head points to
  tail,      \* number of the node m_tail points to
  headLock,  \* consumer that holds m_headMutex
  tailLock,  \* producer that holds m_tailMutex (get_tail is one step)
  count,     \* m_count
  missed,    \* history: consumers a notification failed to reach
  unused     \* items that have not been pushed

listVars == <<nodes, head, tail>>
lockVars == <<headLock, tailLock>>
vars == <<pc, item, listVars, lockVars, count, missed, unused>>

Init ==
  /\ pc = [t \in Threads |-> "idle"]
  /\ item = [p \in Producers |-> NoItem]
  /\ nodes = <<>>
  /\ head = 1
  /\ tail = 1
  /\ headLock = NoThread
  /\ tailLock = NoThread
  /\ count = 0
  /\ missed = {}
  /\ unused = Items

Goto(t, label) == pc' = [pc EXCEPT ![t] = label]
-----------------------------------------------------------------------------
(* Push.                                                                   *)

Push(p, x) ==
  /\ pc[p] = "idle"
  /\ x \in unused
  /\ tailLock = NoThread
  /\ tailLock' = p
  /\ item' = [item EXCEPT ![p] = x]
  /\ unused' = unused \ {x}
  /\ Goto(p, "fill")
  /\ UNCHANGED <<listVars, headLock, count, missed>>

(* m_tail->data and m_tail->next.                                          *)
FillTail(p) ==
  /\ pc[p] = "fill"
  /\ nodes' = Append(SubSeq(nodes, 1, tail - 1), item[p])
  /\ Goto(p, "move")
  /\ UNCHANGED <<item, head, tail, lockVars, count, missed, unused>>

MoveTail(p) ==
  /\ pc[p] = "move"
  /\ tail' = tail + 1
  /\ tailLock' = NoThread
  /\ item' = [item EXCEPT ![p] = NoItem]
  /\ Goto(p, "count")
  /\ UNCHANGED <<nodes, head, headLock, count, missed, unused>>

CountPush(p) ==
  /\ pc[p] = "count"
  /\ count' = count + 1
  /\ Goto(p, "notify")
  /\ UNCHANGED <<item, listVars, lockVars, missed, unused>>

\* Mutant: Push does not notify.
NotifyNot(p) ==
  /\ pc[p] = "notify"
  /\ Goto(p, "idle")
  /\ UNCHANGED <<item, listVars, lockVars, count, missed, unused>>

(* notify_one reaches one of the threads that sleep.  One that has found   *)
(* the list empty and is about to sleep is not among them.                 *)
Asleep == {c \in Consumers : pc[c] = "asleep"}
AboutToSleep == {c \in Consumers : pc[c] = "gap"}

Notify(p) ==
  /\ pc[p] = "notify"
  /\ \/ \E c \in Asleep :
          /\ pc' = [pc EXCEPT ![p] = "idle", ![c] = "idle"]
          /\ missed' = missed \ {c}
     \/ /\ Asleep = {}
        /\ Goto(p, "idle")
        /\ missed' = missed \cup AboutToSleep
  /\ UNCHANGED <<item, listVars, lockVars, count, unused>>
-----------------------------------------------------------------------------
(* WaitPop.                                                                *)

LockHead(c) ==
  /\ pc[c] = "idle"
  /\ headLock = NoThread
  /\ headLock' = c
  /\ Goto(c, "test")
  /\ UNCHANGED <<item, listVars, tailLock, count, missed, unused>>

\* Mutant: the predicate looks at m_head->next instead, without a mutex.
TestNext(c) ==
  /\ pc[c] = "test"
  /\ Goto(c, IF head <= Len(nodes) THEN "pop" ELSE "gap")
  /\ UNCHANGED <<item, listVars, lockVars, count, missed, unused>>

NotEmpty == head # tail

(* The predicate of the wait; get_tail() needs m_tailMutex.                *)
Test(c) ==
  /\ pc[c] = "test"
  /\ tailLock = NoThread
  /\ Goto(c, IF NotEmpty THEN "pop" ELSE "gap")
  /\ UNCHANGED <<item, listVars, lockVars, count, missed, unused>>

(* The wait releases the mutex and blocks at once.                         *)
Sleep(c) ==
  /\ pc[c] = "gap"
  /\ headLock' = NoThread
  /\ Goto(c, "asleep")
  /\ UNCHANGED <<item, listVars, tailLock, count, missed, unused>>

SpuriousWakeup(c) ==
  /\ pc[c] = "asleep"
  /\ missed' = missed \ {c}
  /\ Goto(c, "idle")
  /\ UNCHANGED <<item, listVars, lockVars, count, unused>>

\* Mutant: the whole list is unlinked.
PopHeadAll(c) ==
  /\ pc[c] = "pop"
  /\ head' = tail
  /\ headLock' = NoThread
  /\ Goto(c, "popped")
  /\ UNCHANGED <<item, nodes, tail, tailLock, count, missed, unused>>

PopHead(c) ==
  /\ pc[c] = "pop"
  /\ head' = head + 1
  /\ headLock' = NoThread
  /\ Goto(c, "popped")
  /\ UNCHANGED <<item, nodes, tail, tailLock, count, missed, unused>>

\* Mutant: WaitPop does not count.
CountPopNot(c) ==
  /\ pc[c] = "popped"
  /\ Goto(c, "idle")
  /\ UNCHANGED <<item, listVars, lockVars, count, missed, unused>>

CountPop(c) ==
  /\ pc[c] = "popped"
  /\ count' = count - 1
  /\ Goto(c, "idle")
  /\ UNCHANGED <<item, listVars, lockVars, missed, unused>>
-----------------------------------------------------------------------------
PushStep(p) == FillTail(p) \/ MoveTail(p) \/ CountPush(p) \/ Notify(p)

PopStep(c) ==
  LockHead(c) \/ Test(c) \/ Sleep(c) \/ PopHead(c) \/ CountPop(c)

Next ==
  \/ \E p \in Producers : PushStep(p) \/ \E x \in Items : Push(p, x)
  \/ \E c \in Consumers : PopStep(c) \/ SpuriousWakeup(c)

Spec == Init /\ [][Next]_vars

(***************************************************************************)
(* A thread that has begun to push or pop goes on.  Nobody has to push,    *)
(* and no thread is owed a spurious wakeup.                                *)
(***************************************************************************)
FairSpec ==
  /\ Spec
  /\ \A p \in Producers : WF_vars(PushStep(p))
  /\ \A c \in Consumers : WF_vars(PopStep(c))
-----------------------------------------------------------------------------
(* Properties.                                                             *)

Labels == {"idle", "fill", "move", "count", "notify",
           "test", "gap", "asleep", "pop", "popped"}

(***************************************************************************)
(* Every variable stays in its range: m_head never passes m_tail.          *)
(***************************************************************************)
TypeOK ==
  /\ pc \in [Threads -> Labels]
  /\ item \in [Producers -> Items \cup {NoItem}]
  /\ nodes \in Seq(Items)
  /\ tail \in 1 .. Len(nodes) + 1
  /\ head \in 1 .. tail
  /\ headLock \in Consumers \cup {NoThread}
  /\ tailLock \in Producers \cup {NoThread}
  /\ count \in Int
  /\ missed \subseteq Consumers
  /\ unused \subseteq Items

(***************************************************************************)
(* pop_head reads m_head->next without m_tailMutex (ConcurrentQueue.h:30-  *)
(* 35) and Push writes m_tail->next without m_headMutex: never on the same *)
(* node, because a consumer that pops has seen m_tail beyond its node.     *)
(***************************************************************************)
EndsApart ==
  \A c \in Consumers, p \in Producers :
    pc[c] = "pop" /\ pc[p] \in {"fill", "move"} => head < tail

(***************************************************************************)
(* All consumers sleep beside an item, or are about to, only if a producer *)
(* is on its way to notify_one, or one came in the gap between a           *)
(* consumer's predicate and its sleep: Push does not take m_headMutex, so  *)
(* that is the one way to lose a wakeup (ConcurrentQueue.h:40, 78-79).     *)
(***************************************************************************)
SleepIsJustified ==
  head # tail /\ Consumers # {}
      /\ (\A c \in Consumers : pc[c] \in {"gap", "asleep"})
    => \/ \E p \in Producers : pc[p] \in {"count", "notify"}
       \/ missed # {}

(***************************************************************************)
(* size() is not the number of items, but differs from it by no more than  *)
(* the threads that are between the list and the count.  It may be below   *)
(* zero (ConcurrentQueue.h:52, 62-65, 78).                                 *)
(***************************************************************************)
SizeIsClose ==
  /\ count >= tail - head - Cardinality(Producers)
  /\ count <= tail - head + Cardinality(Consumers)

(***************************************************************************)
(* However pushes and pops overlap, the queue is first in, first out, and  *)
(* each item comes out once.                                               *)
(***************************************************************************)
Abstract == INSTANCE FifoQueue
  WITH queue <- SubSeq(nodes, head, tail - 1),
       taken <- SubSeq(nodes, 1, head - 1)

ImplementsQueue == Abstract!Spec

(***************************************************************************)
(* Every item that is pushed is popped, unless a notification is missed.   *)
(***************************************************************************)
Linked(x) == \E i \in 1 .. tail - 1 : nodes[i] = x
Unlinked(x) == \E i \in 1 .. head - 1 : nodes[i] = x

EventuallyPopped ==
  \A x \in Items : Linked(x) ~> Unlinked(x) \/ missed # {}
=============================================================================
