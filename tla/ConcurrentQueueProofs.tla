----------------------- MODULE ConcurrentQueueProofs -----------------------
(***************************************************************************)
(* Theorems about ConcurrentQueue, for any threads and items.              *)
(***************************************************************************)
EXTENDS ConcurrentQueue, FiniteSetTheorems, SequenceTheorems, TLAPS

(***************************************************************************)
(* What the properties rest on.  Each mutex is held by the thread whose    *)
(* step says so; the list is one node longer than m_tail says while a      *)
(* producer is between filling the dummy and moving m_tail; and a consumer *)
(* that pops has seen an item nobody else can take.                        *)
(***************************************************************************)
Roles ==
  /\ \A p \in Producers : pc[p] \in {"idle", "fill", "move", "count", "notify"}
  /\ \A c \in Consumers :
       pc[c] \in {"idle", "test", "gap", "asleep", "pop", "popped"}

TailHeld == \A p \in Producers : pc[p] \in {"fill", "move"} <=> tailLock = p
HeadHeld == \A c \in Consumers : pc[c] \in {"test", "gap", "pop"} <=> headLock = c

LastNode ==
  /\ \A p \in Producers : pc[p] \in {"fill", "move"} => item[p] \in Items
  /\ \A p \in Producers : pc[p] = "move" => Len(nodes) = tail
  /\ (\A p \in Producers : pc[p] # "move") => Len(nodes) = tail - 1

PopsItem == \A c \in Consumers : pc[c] = "pop" => head < tail

Inv ==
  /\ TypeOK /\ Roles /\ TailHeld /\ HeadHeld
  /\ LastNode /\ PopsItem /\ SleepIsJustified
-----------------------------------------------------------------------------
LEMMA InitInv == Init => Inv
  BY ThreadsAssumption
  DEF Init, Inv, TypeOK, Threads, Labels, Roles, TailHeld, HeadHeld, LastNode,
      PopsItem, SleepIsJustified

(* A thread is a producer or a consumer.                                   *)
LEMMA ThreadFacts ==
  /\ \A p \in Producers : p \in Threads /\ p \notin Consumers /\ p # NoThread
  /\ \A c \in Consumers : c \in Threads /\ c \notin Producers /\ c # NoThread
  BY ThreadsAssumption DEF Threads

LEMMA PushKeepsInv ==
  ASSUME Inv, NEW p \in Producers, NEW x \in Items, Push(p, x)
  PROVE  Inv'
  BY ThreadFacts
  DEF Inv, Push, Goto, TypeOK, Labels, Roles, TailHeld, HeadHeld, LastNode,
      PopsItem, SleepIsJustified, listVars

(* Filling the dummy appends to the list.                                  *)
LEMMA FillAppends ==
  ASSUME Inv, NEW p \in Producers, FillTail(p)
  PROVE  /\ nodes' = Append(nodes, item[p])
         /\ nodes' \in Seq(Items)
         /\ Len(nodes) = tail - 1
         /\ Len(nodes') = tail
         /\ \A i \in 1 .. Len(nodes) : nodes'[i] = nodes[i]
<1>1. nodes \in Seq(Items) /\ item[p] \in Items /\ tail \in Nat
  BY DEF Inv, TypeOK, LastNode, FillTail
<1>2. Len(nodes) = tail - 1
  <2>1. \A q \in Producers : pc[q] # "move"
    BY ThreadFacts DEF Inv, TailHeld, FillTail
  <2> QED BY <2>1 DEF Inv, LastNode
<1>3. SubSeq(nodes, 1, tail - 1) = nodes
  BY <1>1, <1>2, SubSeqFull
<1> QED BY <1>1, <1>2, <1>3, AppendProperties DEF FillTail

LEMMA FillKeepsInv ==
  ASSUME Inv, NEW p \in Producers, FillTail(p)
  PROVE  Inv'
<1>1. TypeOK'
  <2>1. nodes' \in Seq(Items) /\ tail' \in 1 .. Len(nodes') + 1
    BY FillAppends DEF Inv, TypeOK, FillTail
  <2>2. pc' \in [Threads -> Labels]
    BY ThreadFacts DEF Inv, TypeOK, FillTail, Goto, Labels
  <2> QED BY <2>1, <2>2 DEF Inv, TypeOK, FillTail, lockVars
<1>2. LastNode'
  BY FillAppends, ThreadFacts
  DEF Inv, TypeOK, LastNode, TailHeld, FillTail, Goto, lockVars
<1>3. Roles' /\ TailHeld' /\ HeadHeld' /\ PopsItem' /\ SleepIsJustified'
  BY ThreadFacts
  DEF Inv, TypeOK, Roles, TailHeld, HeadHeld, PopsItem, SleepIsJustified,
      FillTail, Goto, lockVars
<1> QED BY <1>1, <1>2, <1>3 DEF Inv

LEMMA MoveKeepsInv ==
  ASSUME Inv, NEW p \in Producers, MoveTail(p)
  PROVE  Inv'
<1>1. Len(nodes) = tail /\ tail \in Nat /\ head \in Nat
  BY DEF Inv, TypeOK, LastNode, MoveTail
<1>2. \A q \in Producers : pc'[q] \notin {"fill", "move"}
  BY ThreadFacts DEF Inv, TypeOK, TailHeld, MoveTail, Goto
<1>3. TypeOK' /\ LastNode' /\ PopsItem'
  BY <1>1, <1>2, ThreadFacts
  DEF Inv, TypeOK, LastNode, PopsItem, MoveTail, Goto, Labels
<1>4. Roles' /\ TailHeld' /\ HeadHeld'
  BY <1>2, ThreadFacts DEF Inv, TypeOK, Roles, TailHeld, HeadHeld, MoveTail, Goto
<1>5. SleepIsJustified'
  BY ThreadFacts DEF Inv, TypeOK, SleepIsJustified, MoveTail, Goto
<1> QED BY <1>3, <1>4, <1>5 DEF Inv

LEMMA CountPushKeepsInv ==
  ASSUME Inv, NEW p \in Producers, CountPush(p)
  PROVE  Inv'
<1>1. pc'[p] = "notify" /\ \A t \in Threads : t # p => pc'[t] = pc[t]
  BY ThreadFacts DEF Inv, TypeOK, CountPush, Goto
<1>2. TypeOK'
  BY ThreadFacts DEF Inv, TypeOK, CountPush, Goto, Labels, listVars, lockVars
<1>3. Roles' /\ TailHeld' /\ HeadHeld' /\ LastNode' /\ PopsItem'
  BY <1>1, ThreadFacts
  DEF Inv, Roles, TailHeld, HeadHeld, LastNode, PopsItem, CountPush, listVars, lockVars
<1>4. SleepIsJustified'
  BY <1>1, ThreadFacts
  DEF Inv, SleepIsJustified, CountPush, listVars
<1> QED BY <1>2, <1>3, <1>4 DEF Inv

(* A notification wakes a consumer, or there is none to wake and those     *)
(* about to sleep have missed it.                                          *)
LEMMA NotifyKeepsInv ==
  ASSUME Inv, NEW p \in Producers, Notify(p)
  PROVE  Inv'
<1>0. UNCHANGED <<item, nodes, head, tail, headLock, tailLock, count, unused>>
  BY DEF Notify, listVars, lockVars
<1>1. CASE \E c \in Asleep : /\ pc' = [pc EXCEPT ![p] = "idle", ![c] = "idle"]
                             /\ missed' = missed \ {c}
  <2>1. PICK c \in Asleep : /\ pc' = [pc EXCEPT ![p] = "idle", ![c] = "idle"]
                            /\ missed' = missed \ {c}
    BY <1>1
  <2>2. c \in Consumers /\ pc[c] = "asleep" /\ pc[p] = "notify"
    BY DEF Asleep, Notify
  <2>3. /\ pc'[p] = "idle" /\ pc'[c] = "idle"
        /\ \A t \in Threads : t \notin {p, c} => pc'[t] = pc[t]
    BY <2>1, <2>2, ThreadFacts DEF Inv, TypeOK
  <2>4. TypeOK'
    BY <1>0, <2>1, <2>2, ThreadFacts DEF Inv, TypeOK, Labels
  <2>5. Roles' /\ TailHeld' /\ HeadHeld' /\ LastNode' /\ PopsItem'
    BY <1>0, <2>2, <2>3, ThreadFacts
    DEF Inv, Roles, TailHeld, HeadHeld, LastNode, PopsItem
  <2>6. SleepIsJustified'
    BY <2>2, <2>3 DEF SleepIsJustified
  <2> QED BY <2>4, <2>5, <2>6 DEF Inv
<1>2. CASE /\ Asleep = {}
           /\ Goto(p, "idle")
           /\ missed' = missed \cup AboutToSleep
  <2>1. /\ pc'[p] = "idle" /\ pc[p] = "notify"
        /\ \A t \in Threads : t # p => pc'[t] = pc[t]
    BY <1>2, ThreadFacts DEF Inv, TypeOK, Goto, Notify
  <2>2. TypeOK'
    BY <1>0, <1>2, ThreadFacts DEF Inv, TypeOK, Goto, Labels, AboutToSleep
  <2>3. Roles' /\ TailHeld' /\ HeadHeld' /\ LastNode' /\ PopsItem'
    BY <1>0, <2>1, ThreadFacts
    DEF Inv, Roles, TailHeld, HeadHeld, LastNode, PopsItem
  <2>4. SleepIsJustified'
    <3> SUFFICES ASSUME Consumers # {},
                        \A c \in Consumers : pc'[c] \in {"gap", "asleep"}
                 PROVE  missed' # {}
      BY DEF SleepIsJustified
    <3>1. PICK c \in Consumers : pc'[c] \in {"gap", "asleep"}
      OBVIOUS
    <3>2. pc[c] = "gap"
      BY <1>2, <2>1, <3>1, ThreadFacts DEF Asleep
    <3> QED BY <1>2, <3>2 DEF AboutToSleep
  <2> QED BY <2>2, <2>3, <2>4 DEF Inv
<1> QED BY <1>1, <1>2 DEF Notify
-----------------------------------------------------------------------------
LEMMA LockHeadKeepsInv ==
  ASSUME Inv, NEW c \in Consumers, LockHead(c)
  PROVE  Inv'
<1>1. /\ pc'[c] = "test" /\ pc[c] = "idle"
      /\ \A t \in Threads : t # c => pc'[t] = pc[t]
  BY ThreadFacts DEF Inv, TypeOK, LockHead, Goto
<1>2. TypeOK'
  BY ThreadFacts DEF Inv, TypeOK, LockHead, Goto, Labels, listVars
<1>3. Roles' /\ TailHeld' /\ LastNode' /\ PopsItem'
  BY <1>1, ThreadFacts
  DEF Inv, Roles, TailHeld, LastNode, PopsItem, LockHead, listVars
<1>4. HeadHeld'
  BY <1>1, ThreadFacts DEF Inv, HeadHeld, LockHead
<1>5. SleepIsJustified'
  BY <1>1 DEF SleepIsJustified
<1> QED BY <1>2, <1>3, <1>4, <1>5 DEF Inv

LEMMA TestKeepsInv ==
  ASSUME Inv, NEW c \in Consumers, Test(c)
  PROVE  Inv'
<1>1. /\ pc'[c] = IF NotEmpty THEN "pop" ELSE "gap"
      /\ pc[c] = "test"
      /\ \A t \in Threads : t # c => pc'[t] = pc[t]
  BY ThreadFacts DEF Inv, TypeOK, Test, Goto
<1>2. TypeOK'
  BY ThreadFacts DEF Inv, TypeOK, Test, Goto, Labels, listVars, lockVars
<1>3. Roles' /\ TailHeld' /\ HeadHeld' /\ LastNode'
  BY <1>1, ThreadFacts
  DEF Inv, Roles, TailHeld, HeadHeld, LastNode, Test, listVars, lockVars
<1>4. PopsItem'
  BY <1>1, ThreadFacts DEF Inv, TypeOK, PopsItem, Test, NotEmpty, listVars
<1>5. SleepIsJustified'
  BY <1>1 DEF SleepIsJustified, Test, NotEmpty, listVars
<1> QED BY <1>2, <1>3, <1>4, <1>5 DEF Inv

LEMMA SleepKeepsInv ==
  ASSUME Inv, NEW c \in Consumers, Sleep(c)
  PROVE  Inv'
<1>1. /\ pc'[c] = "asleep" /\ pc[c] = "gap"
      /\ \A t \in Threads : t # c => pc'[t] = pc[t]
  BY ThreadFacts DEF Inv, TypeOK, Sleep, Goto
<1>2. TypeOK'
  BY ThreadFacts DEF Inv, TypeOK, Sleep, Goto, Labels, listVars
<1>3. Roles' /\ TailHeld' /\ LastNode' /\ PopsItem'
  BY <1>1, ThreadFacts
  DEF Inv, Roles, TailHeld, LastNode, PopsItem, Sleep, listVars
<1>4. HeadHeld'
  BY <1>1, ThreadFacts DEF Inv, HeadHeld, Sleep
<1>5. SleepIsJustified'
  BY <1>1, ThreadFacts DEF Inv, SleepIsJustified, Sleep, listVars
<1> QED BY <1>2, <1>3, <1>4, <1>5 DEF Inv

LEMMA WakeupKeepsInv ==
  ASSUME Inv, NEW c \in Consumers, SpuriousWakeup(c)
  PROVE  Inv'
<1>1. /\ pc'[c] = "idle" /\ pc[c] = "asleep"
      /\ \A t \in Threads : t # c => pc'[t] = pc[t]
  BY ThreadFacts DEF Inv, TypeOK, SpuriousWakeup, Goto
<1>2. TypeOK'
  BY ThreadFacts
  DEF Inv, TypeOK, SpuriousWakeup, Goto, Labels, listVars, lockVars
<1>3. Roles' /\ TailHeld' /\ HeadHeld' /\ LastNode' /\ PopsItem'
  BY <1>1, ThreadFacts
  DEF Inv, Roles, TailHeld, HeadHeld, LastNode, PopsItem, SpuriousWakeup,
      listVars, lockVars
<1>4. SleepIsJustified'
  BY <1>1 DEF SleepIsJustified
<1> QED BY <1>2, <1>3, <1>4 DEF Inv

(* The consumer that pops holds m_headMutex: m_head moves under no other.  *)
LEMMA PopHeadKeepsInv ==
  ASSUME Inv, NEW c \in Consumers, PopHead(c)
  PROVE  Inv'
<1>1. /\ pc'[c] = "popped" /\ pc[c] = "pop"
      /\ \A t \in Threads : t # c => pc'[t] = pc[t]
  BY ThreadFacts DEF Inv, TypeOK, PopHead, Goto
<1>2. head < tail /\ head' = head + 1
  BY <1>1 DEF Inv, PopsItem, PopHead
<1>3. \A d \in Consumers : pc'[d] \notin {"test", "gap", "pop"}
  BY <1>1, ThreadFacts DEF Inv, HeadHeld
<1>4. TypeOK'
  BY <1>2, ThreadFacts DEF Inv, TypeOK, PopHead, Goto, Labels
<1>5. Roles' /\ TailHeld' /\ LastNode'
  BY <1>1, ThreadFacts DEF Inv, Roles, TailHeld, LastNode, PopHead
<1>6. HeadHeld' /\ PopsItem'
  BY <1>3, ThreadFacts DEF HeadHeld, PopsItem, PopHead
<1>7. SleepIsJustified'
  BY <1>1 DEF SleepIsJustified
<1> QED BY <1>4, <1>5, <1>6, <1>7 DEF Inv

LEMMA CountPopKeepsInv ==
  ASSUME Inv, NEW c \in Consumers, CountPop(c)
  PROVE  Inv'
<1>1. /\ pc'[c] = "idle" /\ pc[c] = "popped"
      /\ \A t \in Threads : t # c => pc'[t] = pc[t]
  BY ThreadFacts DEF Inv, TypeOK, CountPop, Goto
<1>2. TypeOK'
  BY ThreadFacts DEF Inv, TypeOK, CountPop, Goto, Labels, listVars, lockVars
<1>3. Roles' /\ TailHeld' /\ HeadHeld' /\ LastNode' /\ PopsItem'
  BY <1>1, ThreadFacts
  DEF Inv, Roles, TailHeld, HeadHeld, LastNode, PopsItem, CountPop,
      listVars, lockVars
<1>4. SleepIsJustified'
  BY <1>1 DEF SleepIsJustified
<1> QED BY <1>2, <1>3, <1>4 DEF Inv

LEMMA NextKeepsInv == Inv /\ [Next]_vars => Inv'
<1> SUFFICES ASSUME Inv, [Next]_vars
             PROVE  Inv'
  OBVIOUS
<1>1. CASE UNCHANGED vars
  BY <1>1
  DEF vars, listVars, lockVars, Inv, TypeOK, Roles, TailHeld, HeadHeld,
      LastNode, PopsItem, SleepIsJustified
<1>2. ASSUME NEW p \in Producers, PushStep(p)
      PROVE  Inv'
  BY <1>2, FillKeepsInv, MoveKeepsInv, CountPushKeepsInv, NotifyKeepsInv
  DEF PushStep
<1>3. ASSUME NEW c \in Consumers, PopStep(c)
      PROVE  Inv'
  BY <1>3, LockHeadKeepsInv, TestKeepsInv, SleepKeepsInv, PopHeadKeepsInv,
     CountPopKeepsInv
  DEF PopStep
<1> QED BY <1>1, <1>2, <1>3, PushKeepsInv, WakeupKeepsInv DEF Next

LEMMA Invariance == Spec => []Inv
  BY InitInv, NextKeepsInv, PTL DEF Spec
-----------------------------------------------------------------------------
(***************************************************************************)
(* m_head never passes m_tail (ConcurrentQueue.h:30-35, 74-77).            *)
(***************************************************************************)
THEOREM TypeCorrect == Spec => []TypeOK
<1>1. Inv => TypeOK
  BY DEF Inv
<1> QED BY <1>1, Invariance, PTL

(***************************************************************************)
(* Producers and consumers do not touch the same node, though they hold    *)
(* different mutexes (ConcurrentQueue.h:30-35, 74-77).                     *)
(***************************************************************************)
THEOREM EndsStayApart == Spec => []EndsApart
<1>1. Inv => EndsApart
  BY DEF Inv, PopsItem, EndsApart
<1> QED BY <1>1, Invariance, PTL

(***************************************************************************)
(* Only a notification in the gap is lost (ConcurrentQueue.h:40, 78-79).   *)
(***************************************************************************)
THEOREM SleepsAreJustified == Spec => []SleepIsJustified
<1>1. Inv => SleepIsJustified
  BY DEF Inv
<1> QED BY <1>1, Invariance, PTL
-----------------------------------------------------------------------------
(* m_count is the number of items, but for the threads on their way to it. *)
Counting == {p \in Producers : pc[p] = "count"}
Popped == {c \in Consumers : pc[c] = "popped"}

CountMatches ==
  count = tail - head - Cardinality(Counting) + Cardinality(Popped)

LEMMA Cardinalities ==
  /\ IsFiniteSet(Counting) /\ IsFiniteSet(Popped)
  /\ Cardinality(Counting) \in 0 .. Cardinality(Producers)
  /\ Cardinality(Popped) \in 0 .. Cardinality(Consumers)
  /\ Cardinality(Producers) \in Nat /\ Cardinality(Consumers) \in Nat
<1>1. Counting \subseteq Producers /\ Popped \subseteq Consumers
  BY DEF Counting, Popped
<1>2. /\ IsFiniteSet(Counting) /\ IsFiniteSet(Popped)
      /\ Cardinality(Counting) <= Cardinality(Producers)
      /\ Cardinality(Popped) <= Cardinality(Consumers)
  BY <1>1, ThreadsAssumption, FS_Subset
<1> QED BY <1>2, ThreadsAssumption, FS_CardinalityType

LEMMA InitMatches == Init => CountMatches
<1> SUFFICES ASSUME Init PROVE CountMatches
  OBVIOUS
<1>1. Counting = {} /\ Popped = {}
  BY ThreadFacts DEF Init, Counting, Popped
<1> QED BY <1>1, FS_EmptySet DEF Init, CountMatches

(* The steps between the list and the count, and those of the count.       *)
LEMMA MoveKeepsCount ==
  ASSUME Inv, CountMatches, NEW p \in Producers, MoveTail(p)
  PROVE  CountMatches'
<1>1. /\ pc[p] = "move" /\ pc'[p] = "count"
      /\ \A t \in Threads : t # p => pc'[t] = pc[t]
  BY ThreadFacts DEF Inv, TypeOK, MoveTail, Goto
<1>2. Counting' = Counting \cup {p} /\ p \notin Counting /\ Popped' = Popped
  BY <1>1, ThreadFacts DEF Counting, Popped
<1>3. Cardinality(Counting') = Cardinality(Counting) + 1
  BY <1>2, Cardinalities, FS_AddElement
<1> QED BY <1>2, <1>3, Cardinalities DEF CountMatches, MoveTail, Inv, TypeOK

LEMMA CountPushKeepsCount ==
  ASSUME Inv, CountMatches, NEW p \in Producers, CountPush(p)
  PROVE  CountMatches'
<1>1. /\ pc[p] = "count" /\ pc'[p] = "notify"
      /\ \A t \in Threads : t # p => pc'[t] = pc[t]
  BY ThreadFacts DEF Inv, TypeOK, CountPush, Goto
<1>2. Counting' = Counting \ {p} /\ p \in Counting /\ Popped' = Popped
  BY <1>1, ThreadFacts DEF Counting, Popped
<1>3. Cardinality(Counting') = Cardinality(Counting) - 1
  BY <1>2, Cardinalities, FS_RemoveElement
<1> QED BY <1>2, <1>3, Cardinalities
        DEF CountMatches, CountPush, listVars, Inv, TypeOK

LEMMA PopHeadKeepsCount ==
  ASSUME Inv, CountMatches, NEW c \in Consumers, PopHead(c)
  PROVE  CountMatches'
<1>1. /\ pc[c] = "pop" /\ pc'[c] = "popped"
      /\ \A t \in Threads : t # c => pc'[t] = pc[t]
  BY ThreadFacts DEF Inv, TypeOK, PopHead, Goto
<1>2. Popped' = Popped \cup {c} /\ c \notin Popped /\ Counting' = Counting
  BY <1>1, ThreadFacts DEF Counting, Popped
<1>3. Cardinality(Popped') = Cardinality(Popped) + 1
  BY <1>2, Cardinalities, FS_AddElement
<1> QED BY <1>2, <1>3, Cardinalities DEF CountMatches, PopHead, Inv, TypeOK

LEMMA CountPopKeepsCount ==
  ASSUME Inv, CountMatches, NEW c \in Consumers, CountPop(c)
  PROVE  CountMatches'
<1>1. /\ pc[c] = "popped" /\ pc'[c] = "idle"
      /\ \A t \in Threads : t # c => pc'[t] = pc[t]
  BY ThreadFacts DEF Inv, TypeOK, CountPop, Goto
<1>2. Popped' = Popped \ {c} /\ c \in Popped /\ Counting' = Counting
  BY <1>1, ThreadFacts DEF Counting, Popped
<1>3. Cardinality(Popped') = Cardinality(Popped) - 1
  BY <1>2, Cardinalities, FS_RemoveElement
<1> QED BY <1>2, <1>3, Cardinalities
        DEF CountMatches, CountPop, listVars, Inv, TypeOK

(* No other step moves an end of the list, or a thread to or from a count. *)
LEMMA OthersKeepCount ==
  ASSUME CountMatches, UNCHANGED <<head, tail, count>>,
         \A p \in Producers : pc[p] = "count" <=> pc'[p] = "count",
         \A c \in Consumers : pc[c] = "popped" <=> pc'[c] = "popped"
  PROVE  CountMatches'
<1>1. Counting' = Counting /\ Popped' = Popped
  BY DEF Counting, Popped
<1> QED BY <1>1 DEF CountMatches

LEMMA ProducersKeepCount ==
  ASSUME Inv, CountMatches, NEW p \in Producers,
         FillTail(p) \/ Notify(p) \/ \E x \in Items : Push(p, x)
  PROVE  CountMatches'
<1>1. CASE FillTail(p) \/ \E x \in Items : Push(p, x)
  BY <1>1, OthersKeepCount, ThreadFacts
  DEF Inv, TypeOK, FillTail, Push, Goto, listVars
<1>2. CASE Notify(p)
  BY <1>2, OthersKeepCount, ThreadFacts
  DEF Inv, TypeOK, Notify, Asleep, Goto, listVars
<1> QED BY <1>1, <1>2

LEMMA ConsumersKeepCount ==
  ASSUME Inv, CountMatches, NEW c \in Consumers,
         LockHead(c) \/ Test(c) \/ Sleep(c) \/ SpuriousWakeup(c)
  PROVE  CountMatches'
  BY OthersKeepCount, ThreadFacts
  DEF Inv, TypeOK, LockHead, Test, Sleep, SpuriousWakeup, Goto, listVars

LEMMA CountInvariance == Spec => []CountMatches
<1>1. Inv /\ CountMatches /\ [Next]_vars => CountMatches'
  <2> SUFFICES ASSUME Inv, CountMatches, [Next]_vars
               PROVE  CountMatches'
    OBVIOUS
  <2>1. CASE UNCHANGED vars
    BY <2>1, OthersKeepCount DEF vars, listVars
  <2> QED BY <2>1, MoveKeepsCount, CountPushKeepsCount, PopHeadKeepsCount,
             CountPopKeepsCount, ProducersKeepCount, ConsumersKeepCount
          DEF Next, PushStep, PopStep
<1> QED BY <1>1, InitMatches, Invariance, PTL DEF Spec

(***************************************************************************)
(* size() is off by no more than the threads between the list and the      *)
(* count (ConcurrentQueue.h:52, 62-65, 78).                                *)
(***************************************************************************)
THEOREM SizeStaysClose == Spec => []SizeIsClose
<1>1. Inv /\ CountMatches => SizeIsClose
  BY Cardinalities DEF Inv, TypeOK, CountMatches, SizeIsClose
<1> QED BY <1>1, Invariance, CountInvariance, PTL
-----------------------------------------------------------------------------
(* Parts of the list.                                                      *)
LEMMA SamePart ==
  ASSUME NEW s \in Seq(Items), NEW t \in Seq(Items),
         NEW m \in Nat \ {0}, NEW n \in Nat,
         n <= Len(s), n <= Len(t), \A i \in 1 .. n : s[i] = t[i]
  PROVE  SubSeq(s, m, n) = SubSeq(t, m, n)
<1>1. \A i \in m .. n : s[i] \in Items /\ t[i] \in Items
  OBVIOUS
<1>2. /\ SubSeq(s, m, n) \in Seq(Items) /\ SubSeq(t, m, n) \in Seq(Items)
      /\ Len(SubSeq(s, m, n)) = Len(SubSeq(t, m, n))
      /\ Len(SubSeq(s, m, n)) = IF m <= n THEN n - m + 1 ELSE 0
      /\ \A i \in 1 .. n - m + 1 : /\ SubSeq(s, m, n)[i] = s[m + i - 1]
                                  /\ SubSeq(t, m, n)[i] = t[m + i - 1]
  BY <1>1, SubSeqProperties
<1>3. \A i \in 1 .. Len(SubSeq(s, m, n)) : SubSeq(s, m, n)[i] = SubSeq(t, m, n)[i]
  BY <1>2
<1> QED BY <1>2, <1>3, SeqEqual

LEMMA LongerPart ==
  ASSUME NEW s \in Seq(Items), NEW m \in 1 .. Len(s), NEW n \in m .. Len(s)
  PROVE  SubSeq(s, m, n) = Append(SubSeq(s, m, n - 1), s[n])
<1>1. /\ SubSeq(s, m, n - 1) \in Seq(Items)
      /\ Len(SubSeq(s, m, n - 1)) = n - m
      /\ \A i \in 1 .. n - m : SubSeq(s, m, n - 1)[i] = s[m + i - 1]
  <2>1. \A i \in m .. n - 1 : s[i] \in Items
    OBVIOUS
  <2> QED BY <2>1, SubSeqProperties
<1>2. /\ SubSeq(s, m, n) \in Seq(Items)
      /\ Len(SubSeq(s, m, n)) = n - m + 1
      /\ \A i \in 1 .. n - m + 1 : SubSeq(s, m, n)[i] = s[m + i - 1]
  <2>1. \A i \in m .. n : s[i] \in Items
    OBVIOUS
  <2> QED BY <2>1, SubSeqProperties
<1> QED BY <1>1, <1>2

Queue == SubSeq(nodes, head, tail - 1)
Taken == SubSeq(nodes, 1, head - 1)

LEMMA InitRefines == Init => Abstract!Init
  BY SubSeqEmpty DEF Init, Abstract!Init

(* What is filled is in the queue once m_tail has moved.                   *)
LEMMA FillRefines ==
  ASSUME Inv, NEW p \in Producers, FillTail(p)
  PROVE  Queue' = Queue /\ Taken' = Taken
<1>1. /\ nodes \in Seq(Items) /\ nodes' \in Seq(Items)
      /\ Len(nodes) = tail - 1 /\ Len(nodes') = tail
      /\ \A i \in 1 .. tail - 1 : nodes[i] = nodes'[i]
      /\ head \in 1 .. tail /\ tail \in Nat \ {0}
      /\ head' = head /\ tail' = tail
  BY FillAppends DEF Inv, TypeOK, FillTail
<1>2. SubSeq(nodes, head, tail - 1) = SubSeq(nodes', head, tail - 1)
  BY <1>1, SamePart
<1>3. SubSeq(nodes, 1, head - 1) = SubSeq(nodes', 1, head - 1)
  BY <1>1, SamePart
<1> QED BY <1>1, <1>2, <1>3 DEF Queue, Taken

LEMMA MoveRefines ==
  ASSUME Inv, NEW p \in Producers, MoveTail(p)
  PROVE  /\ Queue' = Append(Queue, nodes[tail])
         /\ Taken' = Taken
         /\ nodes[tail] \in Items
<1>1. /\ nodes \in Seq(Items) /\ Len(nodes) = tail
      /\ head \in 1 .. tail /\ tail \in Nat \ {0}
      /\ head' = head /\ tail' = tail + 1 /\ nodes' = nodes
  BY DEF Inv, TypeOK, LastNode, MoveTail
<1>2. SubSeq(nodes, head, tail) = Append(SubSeq(nodes, head, tail - 1), nodes[tail])
  BY <1>1, LongerPart
<1> QED BY <1>1, <1>2 DEF Queue, Taken

LEMMA PopRefines ==
  ASSUME Inv, NEW c \in Consumers, PopHead(c)
  PROVE  /\ Queue # <<>>
         /\ Taken' = Append(Taken, Head(Queue))
         /\ Queue' = Tail(Queue)
<1>1. /\ nodes \in Seq(Items) /\ head \in 1 .. Len(nodes)
      /\ tail - 1 \in head .. Len(nodes)
      /\ head' = head + 1 /\ tail' = tail /\ nodes' = nodes
  BY DEF Inv, TypeOK, PopsItem, PopHead
<1>2. Head(Queue) = nodes[head] /\ Tail(Queue) = SubSeq(nodes, head + 1, tail - 1)
  BY <1>1, HeadTailOfSubSeq DEF Queue
<1>3. Queue # <<>>
  <2>1. \A i \in head .. tail - 1 : nodes[i] \in Items
    BY <1>1
  <2>2. Len(Queue) = tail - 1 - head + 1
    BY <1>1, <2>1, SubSeqProperties DEF Queue
  <2> QED BY <1>1, <2>2
<1>4. SubSeq(nodes, 1, head) = Append(SubSeq(nodes, 1, head - 1), nodes[head])
  BY <1>1, LongerPart
<1>5. head + 1 - 1 = head
  BY <1>1
<1>6. Taken' = SubSeq(nodes, 1, head) /\ Queue' = SubSeq(nodes, head + 1, tail - 1)
  BY <1>1, <1>5 DEF Queue, Taken
<1> QED BY <1>2, <1>3, <1>4, <1>6 DEF Taken

(***************************************************************************)
(* However pushes and pops overlap, the queue is first in, first out: each *)
(* step of the list is a step of FifoQueue, and the others stutter         *)
(* (ConcurrentQueue.h:30-54, 67-80).                                       *)
(***************************************************************************)
THEOREM RefinesQueue == Spec => ImplementsQueue
<1>1. Init => Abstract!Init
  BY InitRefines
<1>2. Inv /\ [Next]_vars => [Abstract!Next]_(Abstract!vars)
  <2> SUFFICES ASSUME Inv, [Next]_vars
               PROVE  Abstract!Next \/ UNCHANGED <<Queue, Taken>>
    BY DEF Abstract!vars, Queue, Taken
  <2>1. ASSUME UNCHANGED listVars
        PROVE  Queue' = Queue /\ Taken' = Taken
    BY <2>1 DEF listVars, Queue, Taken
  <2>2. ASSUME NEW p \in Producers, MoveTail(p)
        PROVE  Abstract!Next
    <3>1. Abstract!Put(nodes[tail]) /\ nodes[tail] \in Items
      BY <2>2, MoveRefines DEF Abstract!Put, Queue, Taken
    <3> QED BY <3>1 DEF Abstract!Next
  <2>3. ASSUME NEW c \in Consumers, PopHead(c)
        PROVE  Abstract!Next
    BY <2>3, PopRefines DEF Abstract!Next, Abstract!Take, Queue, Taken
  <2>4. CASE UNCHANGED vars
    BY <2>1, <2>4 DEF vars
  <2>5. ASSUME NEW p \in Producers, CountPush(p) \/ Notify(p) \/ \E x \in Items : Push(p, x)
        PROVE  UNCHANGED listVars
    BY <2>5 DEF CountPush, Notify, Push
  <2>6. ASSUME NEW c \in Consumers,
               LockHead(c) \/ Test(c) \/ Sleep(c) \/ SpuriousWakeup(c) \/ CountPop(c)
        PROVE  UNCHANGED listVars
    BY <2>6 DEF LockHead, Test, Sleep, SpuriousWakeup, CountPop
  <2> QED BY <2>1, <2>2, <2>3, <2>4, <2>5, <2>6, FillRefines
          DEF Next, PushStep, PopStep
<1> QED BY <1>1, <1>2, Invariance, PTL DEF Spec, ImplementsQueue, Abstract!Spec
=============================================================================
