-------------------------- MODULE SendQueueProofs --------------------------
(***************************************************************************)
(* Theorems about SendQueue, for any packets and any capacity.             *)
(***************************************************************************)
EXTENDS SendQueue, FiniteSetTheorems, SequenceTheorems, TLAPS

(***************************************************************************)
(* What the properties rest on.  The queue is the end of the sequence of   *)
(* accepted packets; the frames of the packets before it are on the wire,  *)
(* and of the first packet in the queue as much as its write has done.  If *)
(* nothing is being written, nothing is queued or the socket is closed.    *)
(***************************************************************************)
Written == Len(accepted) - Len(sendQ)

QueueIsTheRest ==
  /\ Written \in Nat
  /\ \A i \in DOMAIN sendQ : sendQ[i] = accepted[Written + i]

OneWrite ==
  \A w \in writes :
    /\ writes = {w}
    /\ sendQ # <<>> /\ w.packet = Head(sendQ)

WrittenSoFar ==
  \A w \in writes :
    /\ Len(wire) = 2 * Written + w.done
    /\ w.result = "ok" <=> w.done = 2

NothingWritten ==
  writes = {} =>
    \/ sendQ = <<>> /\ Len(wire) = 2 * Written
    \/ sendQ # <<>> /\ ~open /\ Len(wire) \in {2 * Written, 2 * Written + 1}

FramesInOrder ==
  \A k \in DOMAIN accepted :
    /\ 2 * k - 1 <= Len(wire) =>
         wire[2 * k - 1] = [packet |-> accepted[k], part |-> 1]
    /\ 2 * k <= Len(wire) =>
         wire[2 * k] = [packet |-> accepted[k], part |-> 2]

Inv == /\ TypeOK /\ QueueIsTheRest /\ OneWrite
       /\ WrittenSoFar /\ NothingWritten /\ FramesInOrder
-----------------------------------------------------------------------------
LEMMA InitInv == Init => Inv
  BY CapacityAssumption
  DEF Init, Inv, TypeOK, QueueIsTheRest, OneWrite, WrittenSoFar, NothingWritten,
      FramesInOrder, Written

LEMMA WriteFacts ==
  /\ \A p \in Packets : AsyncWrite(p) \in Write
  /\ \A w \in Write : /\ w.packet \in Packets
                      /\ w.done \in {0, 1, 2}
                      /\ w.result \in {"none", "ok", "failed"}
  BY DEF AsyncWrite, Write

(* The writes in progress account for all of the wire.                     *)
LEMMA WireLength ==
  ASSUME Inv
  PROVE  /\ Len(wire) \in Nat /\ Len(sendQ) \in Nat /\ Len(accepted) \in Nat
         /\ Written \in Nat /\ Written + Len(sendQ) = Len(accepted)
         /\ 2 * Written <= Len(wire)
         /\ sendQ = <<>> => Len(wire) = 2 * Written
         /\ sendQ # <<>> => Len(sendQ) > 0 /\ Len(wire) <= 2 * Written + 2
<1>1. /\ Len(wire) \in Nat /\ Len(sendQ) \in Nat /\ Len(accepted) \in Nat
      /\ Written \in Nat /\ Written + Len(sendQ) = Len(accepted)
      /\ sendQ # <<>> => Len(sendQ) > 0
  BY DEF Inv, TypeOK, QueueIsTheRest, Written
<1>2. CASE writes = {}
  BY <1>1, <1>2 DEF Inv, NothingWritten
<1>3. CASE writes # {}
  <2>1. PICK w \in writes : TRUE
    BY <1>3
  <2>2. w.done \in {0, 1, 2}
    BY WriteFacts DEF Inv, TypeOK
  <2>3. sendQ # <<>> /\ Len(wire) = 2 * Written + w.done
    BY DEF Inv, OneWrite, WrittenSoFar
  <2> QED BY <1>1, <2>2, <2>3
<1> QED BY <1>2, <1>3

LEMMA SendKeepsInv ==
  ASSUME Inv, NEW p \in Packets, Send(p)
  PROVE  Inv'
<1>1. CASE IsFull
  BY <1>1 DEF Send, Inv, TypeOK, QueueIsTheRest, OneWrite, WrittenSoFar,
              NothingWritten, FramesInOrder, Written
<1>2. CASE ~IsFull
  <2>1. /\ sendQ' = Append(sendQ, p) /\ accepted' = Append(accepted, p)
        /\ wire' = wire /\ open' = open /\ dropped' = dropped
    BY <1>2 DEF Send
  <2>2. /\ Len(sendQ') = Len(sendQ) + 1 /\ Len(accepted') = Len(accepted) + 1
        /\ Written' = Written
        /\ \A i \in 1 .. Len(sendQ) : sendQ'[i] = sendQ[i]
        /\ \A i \in 1 .. Len(accepted) : accepted'[i] = accepted[i]
        /\ sendQ'[Len(sendQ) + 1] = p /\ accepted'[Len(accepted) + 1] = p
        /\ sendQ' \in Seq(Packets) /\ accepted' \in Seq(Packets)
        /\ sendQ \in Seq(Packets) /\ accepted \in Seq(Packets)
    BY <2>1 DEF Inv, TypeOK, Written
  <2>3. writes' = IF sendQ = <<>> THEN {AsyncWrite(p)} ELSE writes
    BY <1>2 DEF Send, QueuePending, Inv, OneWrite
  <2>4. TypeOK'
    <3>1. writes' \subseteq Write
      BY <2>3, WriteFacts DEF Inv, TypeOK
    <3>2. Len(sendQ) < Capacity
      BY <1>2, WireLength, CapacityAssumption DEF IsFull
    <3>3. Len(sendQ') <= Capacity
      BY <2>2, <3>2, WireLength, CapacityAssumption
    <3> QED BY <2>1, <2>2, <3>1, <3>3 DEF Inv, TypeOK
  <2>5. QueueIsTheRest'
    <3>1. ASSUME NEW i \in DOMAIN sendQ'
          PROVE  sendQ'[i] = accepted'[Written + i]
      <4>1. i \in 1 .. Len(sendQ) + 1
        BY <2>2
      <4>2. CASE i = Len(sendQ) + 1
        BY <2>2, <4>2, WireLength
      <4>3. CASE i \in 1 .. Len(sendQ)
        <5>1. Written + i \in 1 .. Len(accepted)
          BY <4>3, WireLength
        <5>2. sendQ[i] = accepted[Written + i]
          BY <2>2, <4>3 DEF Inv, QueueIsTheRest
        <5> QED BY <2>2, <4>3, <5>1, <5>2
      <4> QED BY <4>1, <4>2, <4>3, WireLength
    <3> QED BY <2>2, <3>1, WireLength DEF QueueIsTheRest
  <2>6. OneWrite'
    <3>1. sendQ # <<>> => Head(sendQ') = Head(sendQ) /\ sendQ' # <<>>
      BY <2>1, <2>2
    <3>2. sendQ = <<>> => Head(sendQ') = p /\ sendQ' # <<>>
      BY <2>1, <2>2
    <3> QED BY <2>3, <3>1, <3>2 DEF Inv, OneWrite, AsyncWrite
  <2>7. WrittenSoFar'
    <3>1. CASE sendQ = <<>>
      BY <2>1, <2>2, <2>3, <3>1, WireLength DEF WrittenSoFar, AsyncWrite
    <3>2. CASE sendQ # <<>>
      BY <2>1, <2>2, <2>3, <3>2 DEF Inv, WrittenSoFar
    <3> QED BY <3>1, <3>2
  <2>8. NothingWritten'
    <3>1. CASE writes' = {}
      <4>1. sendQ # <<>> /\ writes = {}
        BY <2>3, <3>1
      <4>2. ~open /\ Len(wire) \in {2 * Written, 2 * Written + 1}
        BY <4>1 DEF Inv, NothingWritten
      <4>3. sendQ' # <<>>
        BY <2>2, WireLength
      <4> QED BY <2>1, <2>2, <4>2, <4>3 DEF NothingWritten
    <3> QED BY <3>1 DEF NothingWritten
  <2>9. FramesInOrder'
    <3>1. ASSUME NEW k \in DOMAIN accepted',
                 2 * k - 1 <= Len(wire)
          PROVE  k \in DOMAIN accepted /\ accepted'[k] = accepted[k]
      <4>1. k \in 1 .. Len(accepted) + 1 /\ Len(wire) <= 2 * Len(accepted)
        BY <2>2, WireLength
      <4>2. k \in 1 .. Len(accepted)
        BY <3>1, <4>1, WireLength
      <4> QED BY <2>2, <4>2
    <3>2. ASSUME NEW k \in DOMAIN accepted', 2 * k <= Len(wire)
          PROVE  2 * k - 1 <= Len(wire)
      BY <2>2, <3>2, WireLength
    <3> QED BY <2>1, <3>1, <3>2 DEF Inv, FramesInOrder
  <2> QED BY <2>4, <2>5, <2>6, <2>7, <2>8, <2>9 DEF Inv
<1> QED BY <1>1, <1>2

(* The completion of a write: the packet leaves the queue.                 *)
LEMMA WrittenKeepsInv ==
  ASSUME Inv, NEW w \in writes, HandleWritten(w)
  PROVE  Inv'
<1>1. /\ writes = {w} /\ sendQ # <<>> /\ w.packet = Head(sendQ)
      /\ Len(wire) = 2 * Written + 2
  <2>1. w.done = 2
    BY DEF HandleWritten, Inv, WrittenSoFar
  <2> QED BY <2>1 DEF Inv, OneWrite, WrittenSoFar
<1>2. /\ sendQ' = Tail(sendQ) /\ wire' = wire /\ open' = open
      /\ accepted' = accepted /\ dropped' = dropped
  BY DEF HandleWritten
<1>3. /\ Len(sendQ') = Len(sendQ) - 1
      /\ \A i \in 1 .. Len(sendQ) - 1 : sendQ'[i] = sendQ[i + 1]
      /\ sendQ \in Seq(Packets) /\ sendQ' \in Seq(Packets)
      /\ DOMAIN sendQ = 1 .. Len(sendQ) /\ DOMAIN sendQ' = 1 .. Len(sendQ) - 1
      /\ sendQ' # <<>> => Head(sendQ') \in Packets
  BY <1>1, <1>2 DEF Inv, TypeOK
<1>4. writes' = IF sendQ' = <<>> THEN {} ELSE {AsyncWrite(Head(sendQ'))}
  BY <1>1 DEF HandleWritten
<1>5. Written' = Written + 1
  BY <1>2, <1>3, WireLength DEF Written
<1>6. TypeOK'
  <2>1. writes' \subseteq Write
    BY <1>3, <1>4, WriteFacts
  <2>2. Len(sendQ') <= Capacity
    BY <1>3, WireLength, CapacityAssumption DEF Inv, TypeOK
  <2> QED BY <1>2, <1>3, <2>1, <2>2 DEF Inv, TypeOK
<1>7. QueueIsTheRest'
  <2>1. ASSUME NEW i \in DOMAIN sendQ'
        PROVE  sendQ'[i] = accepted[Written + 1 + i]
    <3>1. i \in 1 .. Len(sendQ) - 1 /\ i + 1 \in 1 .. Len(sendQ)
      BY <1>3, WireLength
    <3>2. sendQ[i + 1] = accepted[Written + (i + 1)]
      BY <1>3, <3>1 DEF Inv, QueueIsTheRest
    <3>3. Written + (i + 1) = Written + 1 + i
      BY <3>1, WireLength
    <3>4. sendQ'[i] = sendQ[i + 1]
      BY <1>3, <3>1
    <3> QED BY <3>2, <3>3, <3>4
  <2> QED BY <1>2, <1>5, <2>1, WireLength DEF QueueIsTheRest
<1>8. OneWrite'
  BY <1>4 DEF OneWrite, AsyncWrite
<1>12. Len(wire') = 2 * Written'
  BY <1>1, <1>2, <1>5, WireLength
<1>9. WrittenSoFar'
  <2>1. \A x \in writes' : x.done = 0 /\ x.result = "none"
    BY <1>4 DEF AsyncWrite
  <2>2. 2 * Written' \in Nat
    BY <1>5, WireLength
  <2> QED BY <1>12, <2>1, <2>2 DEF WrittenSoFar
<1>10. NothingWritten'
  BY <1>4, <1>12 DEF NothingWritten
<1>11. FramesInOrder'
  BY <1>2 DEF Inv, FramesInOrder
<1> QED BY <1>6, <1>7, <1>8, <1>9, <1>10, <1>11 DEF Inv

(* A failure leaves the queue as it is and closes the socket.              *)
LEMMA FailureKeepsInv ==
  ASSUME Inv, Close \/ \E w \in writes : HandleFailed(w) \/ WriteFails(w)
  PROVE  Inv'
<1>1. UNCHANGED <<sendQ, wire, accepted, dropped>> /\ open' \in {open, FALSE}
  BY DEF Close, HandleFailed, WriteFails
<1>2. QueueIsTheRest' /\ FramesInOrder' /\ Written' = Written
  BY <1>1 DEF Inv, QueueIsTheRest, FramesInOrder, Written
<1>3. CASE Close
  BY <1>1, <1>2, <1>3 DEF Close, Inv, TypeOK, OneWrite, WrittenSoFar, NothingWritten
<1>4. ASSUME NEW w \in writes, HandleFailed(w)
      PROVE  Inv'
  <2>1. writes = {w} /\ writes' = {} /\ open' = FALSE
    BY <1>4 DEF HandleFailed, Inv, OneWrite
  <2>2. sendQ # <<>> /\ w.done \in {0, 1}
    <3>1. w.result # "ok"
      BY <1>4 DEF HandleFailed
    <3> QED BY <3>1, WriteFacts DEF Inv, TypeOK, OneWrite, WrittenSoFar
  <2>3. Len(wire) \in {2 * Written, 2 * Written + 1}
    <3>1. Len(wire) = 2 * Written + w.done
      BY DEF Inv, WrittenSoFar
    <3> QED BY <2>2, <3>1, WireLength
  <2>4. TypeOK' /\ OneWrite' /\ WrittenSoFar' /\ NothingWritten'
    BY <1>1, <1>2, <2>1, <2>2, <2>3
    DEF Inv, TypeOK, OneWrite, WrittenSoFar, NothingWritten
  <2> QED BY <1>2, <2>4 DEF Inv
<1>5. ASSUME NEW w \in writes, WriteFails(w)
      PROVE  Inv'
  <2>1. DEFINE v == [w EXCEPT !.result = "failed"]
  <2>2. writes = {w} /\ writes' = {v} /\ open' = open
    BY <1>5 DEF WriteFails, Inv, OneWrite
  <2>3. v \in Write /\ v.packet = w.packet /\ v.done = w.done /\ v.result = "failed"
    BY DEF Inv, TypeOK, Write
  <2>4. w.done # 2
    BY <1>5 DEF WriteFails, Inv, WrittenSoFar
  <2>5. TypeOK' /\ OneWrite' /\ WrittenSoFar' /\ NothingWritten'
    BY <1>1, <1>2, <2>2, <2>3, <2>4
    DEF Inv, TypeOK, OneWrite, WrittenSoFar, NothingWritten
  <2> QED BY <1>2, <2>5 DEF Inv
<1> QED BY <1>3, <1>4, <1>5

(* A write that goes on adds the next piece of its frame to the wire.      *)
LEMMA WritePieceKeepsInv ==
  ASSUME Inv, NEW w \in writes, WritePiece(w)
  PROVE  Inv'
<1> DEFINE piece == [packet |-> w.packet, part |-> w.done + 1]
           v == Progress(w, w.done + 1)
<1>1. /\ writes = {w} /\ sendQ # <<>> /\ w.packet = Head(sendQ)
      /\ Len(wire) = 2 * Written + w.done
      /\ w \in Write /\ w.done \in {0, 1}
  <2>1. w \in Write /\ w.done # 2
    BY DEF WritePiece, Inv, TypeOK, WrittenSoFar
  <2> QED BY <2>1, WriteFacts DEF Inv, OneWrite, WrittenSoFar
<1>2. /\ wire' = Append(wire, piece) /\ writes' = {v}
      /\ UNCHANGED <<sendQ, open, accepted, dropped>> /\ Written' = Written
  BY <1>1 DEF WritePiece, Written
<1>3. /\ v \in Write /\ v.packet = w.packet /\ v.done = w.done + 1
      /\ v.result = "ok" <=> v.done = 2
  <2>1. w.packet \in Packets /\ w.done + 1 \in {1, 2}
    BY <1>1, WriteFacts
  <2> QED BY <2>1 DEF Progress, Write
<1>4. piece \in Piece
  BY <1>1, WriteFacts DEF Piece
<1>5. /\ Len(wire') = Len(wire) + 1 /\ wire' \in Seq(Piece)
      /\ \A i \in 1 .. Len(wire) : wire'[i] = wire[i]
      /\ wire'[Len(wire) + 1] = piece
  BY <1>2, <1>4 DEF Inv, TypeOK
<1>6. TypeOK'
  BY <1>2, <1>3, <1>5 DEF Inv, TypeOK
<1>7. QueueIsTheRest'
  BY <1>2 DEF Inv, QueueIsTheRest
<1>8. OneWrite'
  BY <1>1, <1>2, <1>3 DEF OneWrite
<1>9. WrittenSoFar' /\ NothingWritten'
  BY <1>1, <1>2, <1>3, <1>5, WireLength DEF WrittenSoFar, NothingWritten
<1>10. FramesInOrder'
  <2>1. w.packet = accepted[Written + 1]
    <3>1. w.packet = sendQ[1] /\ 1 \in DOMAIN sendQ
      BY <1>1 DEF Inv, TypeOK
    <3> QED BY <3>1 DEF Inv, QueueIsTheRest
  <2>2. ASSUME NEW k \in DOMAIN accepted, 2 * k - 1 <= Len(wire')
        PROVE  wire'[2 * k - 1] = [packet |-> accepted[k], part |-> 1]
    <3>1. k \in Nat \ {0}
      BY DEF Inv, TypeOK
    <3>2. CASE 2 * k - 1 <= Len(wire)
      <4>1. 2 * k - 1 \in 1 .. Len(wire)
        BY <3>1, <3>2, WireLength
      <4> QED BY <1>5, <3>2, <4>1 DEF Inv, FramesInOrder
    <3>3. CASE 2 * k - 1 > Len(wire)
      <4>1. 2 * k - 1 = Len(wire) + 1 /\ w.done = 0 /\ k = Written + 1
        BY <1>1, <1>5, <2>2, <3>1, <3>3, WireLength
      <4> QED BY <1>5, <2>1, <4>1
    <3> QED BY <3>1, <3>2, <3>3, WireLength
  <2>3. ASSUME NEW k \in DOMAIN accepted, 2 * k <= Len(wire')
        PROVE  wire'[2 * k] = [packet |-> accepted[k], part |-> 2]
    <3>1. k \in Nat \ {0}
      BY DEF Inv, TypeOK
    <3>2. CASE 2 * k <= Len(wire)
      <4>1. 2 * k \in 1 .. Len(wire)
        BY <3>1, <3>2, WireLength
      <4> QED BY <1>5, <3>2, <4>1 DEF Inv, FramesInOrder
    <3>3. CASE 2 * k > Len(wire)
      <4>1. 2 * k = 2 * Written + w.done + 1
        BY <1>1, <1>5, <2>3, <3>1, <3>3, WireLength
      <4>2. w.done = 1 /\ k = Written + 1
        BY <1>1, <3>1, <4>1, WireLength
      <4>3. 2 * k = Len(wire) + 1
        BY <1>1, <4>1
      <4> QED BY <1>5, <2>1, <4>2, <4>3
    <3> QED BY <3>1, <3>2, <3>3, WireLength
  <2> QED BY <1>2, <2>2, <2>3 DEF FramesInOrder
<1> QED BY <1>6, <1>7, <1>8, <1>9, <1>10 DEF Inv

LEMMA NextKeepsInv == Inv /\ [Next]_vars => Inv'
<1> SUFFICES ASSUME Inv, [Next]_vars PROVE Inv'
  OBVIOUS
<1>1. CASE UNCHANGED vars
  BY <1>1 DEF vars, Inv, TypeOK, QueueIsTheRest, OneWrite, WrittenSoFar,
              NothingWritten, FramesInOrder, Written
<1> QED BY <1>1, SendKeepsInv, WrittenKeepsInv, FailureKeepsInv, WritePieceKeepsInv
        DEF Next, Step

LEMMA Invariance == Spec => []Inv
  BY InitInv, NextKeepsInv, PTL DEF Spec
-----------------------------------------------------------------------------
(***************************************************************************)
(* The peer of a Session reads whole frames, in the order of the calls     *)
(* that were accepted; none is repeated or mixed with another.             *)
(***************************************************************************)
THEOREM FramesStayIntact == Spec => []FramesIntact
<1>1. Inv => FramesIntact
  <2> SUFFICES ASSUME Inv PROVE FramesIntact
    OBVIOUS
  <2>1. Len(wire) <= 2 * Len(accepted)
    BY WireLength
  <2> QED BY <2>1 DEF FramesIntact, Inv, FramesInOrder
<1> QED BY <1>1, Invariance, PTL

(***************************************************************************)
(* At most one asynchronous write runs, and its buffer is alive.           *)
(***************************************************************************)
THEOREM BuffersStayAlive == Spec => []BufferAlive
<1>1. Inv => BufferAlive
  <2> SUFFICES ASSUME Inv PROVE BufferAlive
    OBVIOUS
  <2>1. CASE writes = {}
    BY <2>1, FS_EmptySet DEF BufferAlive
  <2>2. CASE writes # {}
    <3>1. PICK w \in writes : writes = {w}
      BY <2>2 DEF Inv, OneWrite
    <3>2. Cardinality(writes) = 1
      BY <3>1, FS_Singleton
    <3> QED BY <3>2 DEF BufferAlive, Inv, OneWrite
  <2> QED BY <2>1, <2>2
<1> QED BY <1>1, Invariance, PTL

(***************************************************************************)
(* Until the connection breaks, a queue that holds packets is worked off.  *)
(***************************************************************************)
THEOREM PendingIsWritten == Spec => []PendingMeansWriting
<1>1. Inv => PendingMeansWriting
  BY DEF Inv, NothingWritten, PendingMeansWriting
<1> QED BY <1>1, Invariance, PTL
-----------------------------------------------------------------------------
(***************************************************************************)
(* The refinement.  The frames of the packets that left the queue have     *)
(* been received, and that of the first packet in it may have been.        *)
(***************************************************************************)
LEMMA SeqOf ==
  ASSUME NEW S, NEW n \in Nat, NEW s, DOMAIN s = 1 .. n, s = [k \in 1 .. n |-> s[k]],
         \A k \in 1 .. n : s[k] \in S
  PROVE  s \in Seq(S) /\ Len(s) = n
  OBVIOUS

LEMMA Appended ==
  ASSUME NEW S, NEW s \in Seq(S), NEW e \in S
  PROVE  /\ Append(s, e) \in Seq(S)
         /\ Len(Append(s, e)) = Len(s) + 1
         /\ \A k \in 1 .. Len(s) : Append(s, e)[k] = s[k]
         /\ Append(s, e)[Len(s) + 1] = e
  BY AppendProperties

LEMMA Halves ==
  \A n \in Nat : /\ (2 * n) \div 2 = n
                 /\ (2 * n + 1) \div 2 = n
                 /\ (2 * n + 2) \div 2 = n + 1
  OBVIOUS

LEMMA ReceivedFacts ==
  ASSUME Inv
  PROVE  /\ Len(Received) \in {Written, Written + 1}
         /\ Len(Received) <= Len(accepted)
<1>1. Len(wire) \in {2 * Written, 2 * Written + 1, 2 * Written + 2}
  BY WireLength
<1>2. Len(wire) \div 2 \in {Written, Written + 1}
  BY <1>1, Halves, WireLength
<1>3. Len(Received) = Len(wire) \div 2
  BY <1>2, WireLength DEF Received
<1>4. sendQ = <<>> => Len(wire) \div 2 = Written
  BY Halves, WireLength
<1> QED BY <1>2, <1>3, <1>4, WireLength

LEMMA InitRefines == Init => Channel!Init
<1> SUFFICES ASSUME Init PROVE Channel!Init
  OBVIOUS
<1>1. Received = <<>>
  <2>1. Len(wire) \div 2 = 0
    BY DEF Init
  <2> QED BY <2>1 DEF Received
<1>2. ~Broken
  BY DEF Init, Broken
<1> QED BY <1>1, <1>2 DEF Init, Channel!Init

LEMMA OfferedFacts ==
  ASSUME NEW p \in Packets, Send(p)
  PROVE  p \notin Channel!Offered
  BY DEF Send, Channel!Offered

LEMMA SendRefines ==
  ASSUME Inv, NEW p \in Packets, Send(p)
  PROVE  Channel!Next
<1>1. Received' = Received /\ wire' = wire
  BY DEF Send, Received
<1>2. Broken' <=> Broken
  <2>1. \A w \in writes' : w \in writes \/ w.result = "none"
    BY DEF Send, AsyncWrite
  <2>2. \A w \in writes : w \in writes' /\ open' = open
    BY DEF Send
  <2>3. open' = open
    BY DEF Send
  <2> QED BY <2>1, <2>2, <2>3 DEF Broken
<1>3. CASE IsFull
  <2>1. Broken \/ Channel!Undelivered + 1 >= Capacity
    BY <1>3, WireLength, ReceivedFacts, CapacityAssumption
    DEF IsFull, Channel!Undelivered
  <2>2. accepted' = accepted /\ dropped' = dropped \cup {p}
    BY <1>3 DEF Send
  <2>3. Channel!Refuse(p)
    BY <1>1, <1>2, <2>1, <2>2, OfferedFacts, Zenon DEF Channel!Refuse
  <2> QED BY <2>3 DEF Channel!Next
<1>4. CASE ~IsFull
  <2>1. Broken \/ Channel!Undelivered < Capacity
    BY <1>4, WireLength, ReceivedFacts, CapacityAssumption
    DEF IsFull, Channel!Undelivered
  <2>2. accepted' = Append(accepted, p) /\ dropped' = dropped
    BY <1>4 DEF Send
  <2>3. Channel!Accept(p)
    BY <1>1, <1>2, <2>1, <2>2, OfferedFacts, Zenon DEF Channel!Accept
  <2> QED BY <2>3 DEF Channel!Next
<1> QED BY <1>3, <1>4

LEMMA HandlersRefine ==
  ASSUME Inv, NEW w \in writes, HandleWritten(w) \/ HandleFailed(w)
  PROVE  UNCHANGED Channel!vars
<1>1. UNCHANGED <<accepted, dropped, wire>>
  BY DEF HandleWritten, HandleFailed
<1>2. Received' = Received
  BY <1>1 DEF Received
<1>3. Broken' <=> Broken
  <2>1. CASE HandleWritten(w)
    <3>1. \A x \in writes' : x.result = "none"
      BY <2>1 DEF HandleWritten, Inv, OneWrite, AsyncWrite
    <3>2. \A x \in writes : x.result # "failed"
      BY <2>1 DEF HandleWritten, Inv, OneWrite
    <3> QED BY <2>1, <3>1, <3>2 DEF HandleWritten, Broken
  <2>2. CASE HandleFailed(w)
    BY <2>2 DEF HandleFailed, Broken
  <2> QED BY <2>1, <2>2
<1> QED BY <1>1, <1>2, <1>3 DEF Channel!vars

LEMMA FailureRefines ==
  ASSUME Inv, Close \/ \E w \in writes : WriteFails(w)
  PROVE  Channel!Next
<1>1. UNCHANGED <<accepted, dropped, wire>>
  BY DEF Close, WriteFails
<1>2. Received' = Received
  BY <1>1 DEF Received
<1>3. Broken'
  <2>1. CASE Close
    BY <2>1 DEF Close, Broken
  <2>2. ASSUME NEW w \in writes, WriteFails(w) PROVE Broken'
    <3>1. w \in Write
      BY DEF Inv, TypeOK
    <3>2. [w EXCEPT !.result = "failed"].result = "failed"
      BY <3>1 DEF Write
    <3> QED BY <2>2, <3>2 DEF WriteFails, Broken
  <2> QED BY <2>1, <2>2
<1>4. Channel!Break
  BY <1>1, <1>2, <1>3 DEF Channel!Break
<1> QED BY <1>4 DEF Channel!Next

LEMMA WritePieceRefines ==
  ASSUME Inv, Inv', NEW w \in writes, WritePiece(w)
  PROVE  Channel!Next \/ UNCHANGED Channel!vars
<1>1. /\ writes = {w} /\ Len(wire) = 2 * Written + w.done /\ w.done \in {0, 1}
      /\ sendQ # <<>> /\ open
  <2>1. w \in Write /\ w.done # 2
    BY DEF WritePiece, Inv, TypeOK, WrittenSoFar
  <2> QED BY <2>1, WriteFacts DEF WritePiece, Inv, OneWrite, WrittenSoFar
<1>2. UNCHANGED <<accepted, dropped, open>> /\ Written' = Written
  BY DEF WritePiece, Written
<1>3. /\ Len(wire') = Len(wire) + 1
      /\ \A i \in 1 .. Len(wire) : wire'[i] = wire[i]
  BY DEF WritePiece, Inv, TypeOK
<1>4. ~Broken /\ ~Broken'
  BY <1>1, <1>2 DEF WritePiece, Broken, Progress
<1>5. Received = [k \in 1 .. Written |-> wire[2 * k].packet] /\ Len(Received) = Written
  <2>1. Len(wire) \in {2 * Written, 2 * Written + 1} /\ Written \in Nat
    BY <1>1, WireLength
  <2>2. Len(wire) \div 2 = Written
    BY <2>1, Halves
  <2> QED BY <2>1, <2>2 DEF Received
<1>8. Len(Received) = Written
  BY <1>5
<1>6. CASE w.done = 0
  <2>1. Len(wire') \div 2 = Written
    BY <1>1, <1>3, <1>6, Halves, WireLength
  <2>2. \A k \in 1 .. Written : 2 * k \in 1 .. Len(wire)
    BY <1>1, <1>6, WireLength
  <2>3. \A k \in 1 .. Written : wire'[2 * k] = wire[2 * k]
    BY <1>3, <2>2
  <2>4. Received' = Received
    BY <1>5, <2>1, <2>3 DEF Received
  <2>5. Broken' <=> Broken
    BY <1>4
  <2> QED BY <1>2, <2>4, <2>5 DEF Channel!vars
<1>7. CASE w.done = 1
  <2>1. Len(wire') \div 2 = Written + 1
    <3>1. Len(wire') = 2 * Written + 2
      BY <1>1, <1>3, <1>7, WireLength
    <3> QED BY <3>1, Halves, WireLength
  <2>2. \A k \in 1 .. Written : 2 * k \in 1 .. Len(wire)
    BY <1>1, <1>7, WireLength
  <2>3. Received' = [k \in 1 .. Written + 1 |-> wire'[2 * k].packet]
    BY <2>1 DEF Received
  <2>4. wire'[2 * (Written + 1)].packet = accepted[Written + 1]
    <3>1. Written + 1 \in DOMAIN accepted
      BY <1>1, WireLength DEF Inv, TypeOK
    <3>2. 2 * (Written + 1) <= Len(wire')
      BY <1>1, <1>3, <1>7, WireLength
    <3>3. wire'[2 * (Written + 1)] = [packet |-> accepted[Written + 1], part |-> 2]
      BY <1>2, <3>1, <3>2 DEF Inv, FramesInOrder
    <3> QED BY <3>3
  <2>5. Received' = Append(Received, accepted[Written + 1])
    <3>1. \A k \in 1 .. Written : wire'[2 * k] = wire[2 * k]
      BY <1>3, <2>2
    <3>2. accepted[Written + 1] \in Packets
      BY <1>1, WireLength DEF Inv, TypeOK
    <3>3. \A k \in 1 .. Written : wire[2 * k].packet \in Packets
      <4>1. \A i \in 1 .. Len(wire) : wire[i] \in Piece
        BY DEF Inv, TypeOK
      <4>2. \A q \in Piece : q.packet \in Packets
        BY DEF Piece
      <4> QED BY <2>2, <4>1, <4>2
    <3>4. /\ Received \in Seq(Packets) /\ Received' \in Seq(Packets)
          /\ Len(Received') = Written + 1
      <4>1. \A k \in 1 .. Written + 1 : k \in 1 .. Written \/ k = Written + 1
        BY WireLength
      <4>2. \A k \in 1 .. Written + 1 : wire'[2 * k].packet \in Packets
        BY <2>4, <3>1, <3>2, <3>3, <4>1
      <4>3. /\ DOMAIN Received = 1 .. Written
            /\ Received = [k \in 1 .. Written |-> Received[k]]
            /\ \A k \in 1 .. Written : Received[k] \in Packets
        BY <1>5, <3>3
      <4>4. /\ DOMAIN Received' = 1 .. Written + 1
            /\ Received' = [k \in 1 .. Written + 1 |-> Received'[k]]
            /\ \A k \in 1 .. Written + 1 : Received'[k] \in Packets
        BY <2>3, <4>2
      <4>5. Written \in Nat /\ Written + 1 \in Nat
        BY WireLength
      <4>6. Received \in Seq(Packets)
        BY <4>3, <4>5, SeqOf
      <4>7. Received' \in Seq(Packets) /\ Len(Received') = Written + 1
        BY <4>4, <4>5, SeqOf
      <4> QED BY <4>6, <4>7
    <3>7. Received \in Seq(Packets)
      BY <3>4
    <3>5. \A k \in 1 .. Written + 1 :
            Received'[k] = Append(Received, accepted[Written + 1])[k]
      <4>1. \A k \in 1 .. Written : Received'[k] = Received[k]
        BY <1>5, <2>3, <3>1, WireLength
      <4>2. Received'[Written + 1] = accepted[Written + 1]
        BY <2>3, <2>4, WireLength
      <4>3. /\ Append(Received, accepted[Written + 1])[Written + 1] = accepted[Written + 1]
            /\ \A k \in 1 .. Written :
                 Append(Received, accepted[Written + 1])[k] = Received[k]
        BY <1>8, <3>2, <3>7, Appended
      <4>4. \A k \in 1 .. Written + 1 : k \in 1 .. Written \/ k = Written + 1
        BY WireLength
      <4> QED BY <4>1, <4>2, <4>3, <4>4
    <3>6. /\ Append(Received, accepted[Written + 1]) \in Seq(Packets)
          /\ Len(Append(Received, accepted[Written + 1])) = Written + 1
      BY <1>8, <3>2, <3>7, Appended
    <3> QED BY <3>4, <3>5, <3>6, SeqEqual
  <2>8. Channel!Undelivered > 0
    BY <1>1, <1>5, WireLength DEF Channel!Undelivered
  <2>9. Channel!Deliver
    <3>1. Received' = Append(Received, accepted[Len(Received) + 1])
      BY <1>5, <2>5
    <3>2. ~Broken
      BY <1>4
    <3>3. Broken' <=> Broken
      BY <1>4
    <3> QED BY <1>2, <2>8, <3>1, <3>2, <3>3 DEF Channel!Deliver
  <2> QED BY <2>9 DEF Channel!Next
<1> QED BY <1>1, <1>6, <1>7

(***************************************************************************)
(* The write side of a Session is a FIFO channel of its capacity.          *)
(***************************************************************************)
THEOREM RefinesChannel == Spec => ImplementsChannelSafety
<1>1. Init => Channel!Init
  BY InitRefines
<1>2. Inv /\ Inv' /\ [Next]_vars => [Channel!Next]_(Channel!vars)
  <2> SUFFICES ASSUME Inv, Inv', [Next]_vars
               PROVE  Channel!Next \/ UNCHANGED Channel!vars
    OBVIOUS
  <2>1. CASE UNCHANGED vars
    <3>1. Received' = Received /\ (Broken' <=> Broken)
      BY <2>1 DEF vars, Received, Broken
    <3> QED BY <2>1, <3>1 DEF vars, Channel!vars
  <2> QED BY <2>1, SendRefines, HandlersRefine, FailureRefines, WritePieceRefines
          DEF Next, Step
<1> QED BY <1>1, <1>2, Invariance, PTL DEF Spec, ImplementsChannelSafety, Channel!Safety
=============================================================================
