----------------------------- MODULE SendQueue -----------------------------
(***************************************************************************)
(* The write side of a Session.  Any thread may call Send; HandleWrite and *)
(* the handlers that close the session run on the session's IO thread.     *)
(* Both change m_sendQueue under m_sendQueueMutex, so each is one step.    *)
(*                                                                         *)
(* boost::asio::async_write takes a frame (length header and body) to the  *)
(* socket piece by piece and then posts its handler; the buffer belongs to *)
(* the packet in the queue.  Two pieces per frame are enough to see frames *)
(* cut off or mixed with one another.                                      *)
(***************************************************************************)
EXTENDS Naturals, Sequences, FiniteSets

CONSTANTS
  Packets,    \* packets that callers may send, each once (bounds the calls)
  Capacity    \* m_sendQueueMaxSize

\* m_sendQueueMaxSize is a uint8_t; SEND_QUEUE_MAX_SIZE is 32.
ASSUME CapacityAssumption == Capacity \in 1 .. 255

VARIABLES
  sendQ,     \* m_sendQueue
  writes,    \* the asynchronous writes that have not called HandleWrite
  wire,      \* the pieces of frames that reached the socket, in order
  open,      \* the socket is not closed
  accepted,  \* history: packets that Send queued, in order
  dropped    \* history: packets that Send turned away

vars == <<sendQ, writes, wire, open, accepted, dropped>>

Write == [packet : Packets, done : 0 .. 2, result : {"none", "ok", "failed"}]

Piece == [packet : Packets, part : 1 .. 2]

Init ==
  /\ sendQ = <<>>
  /\ writes = {}
  /\ wire = <<>>
  /\ open = TRUE
  /\ accepted = <<>>
  /\ dropped = {}

AsyncWrite(p) == [packet |-> p, done |-> 0, result |-> "none"]
-----------------------------------------------------------------------------
(* Session::Send does not look at m_closed.  A packet that finds others in *)
(* the queue leaves its write to HandleWrite.                              *)

\* Mutant: the write is started whatever the queue holds.
QueuePendingNever == FALSE

IsFull == Len(sendQ) >= Capacity

QueuePending == sendQ # <<>>

Send(p) ==
  /\ p \notin dropped /\ \A i \in DOMAIN accepted : accepted[i] # p
  /\ IF IsFull
     THEN /\ dropped' = dropped \cup {p}
          /\ UNCHANGED <<sendQ, writes, accepted>>
     ELSE /\ sendQ' = Append(sendQ, p)
          /\ writes' = IF QueuePending THEN writes
                                       ELSE writes \cup {AsyncWrite(p)}
          /\ accepted' = Append(accepted, p)
          /\ UNCHANGED dropped
  /\ UNCHANGED <<wire, open>>

(* HandleWrite after a write that succeeded drops the packet and starts    *)
(* the next one; after a write that failed it closes the session, and the  *)
(* packet stays in the queue.                                              *)

\* Mutants: the queue is not popped; the next write is not started.
HandleWrittenKeeps(w) ==
  /\ w.result = "ok"
  /\ writes' = (writes \ {w}) \cup {AsyncWrite(Head(sendQ))}
  /\ UNCHANGED <<sendQ, wire, open, accepted, dropped>>

HandleWrittenStops(w) ==
  /\ w.result = "ok"
  /\ sendQ' = Tail(sendQ)
  /\ writes' = writes \ {w}
  /\ UNCHANGED <<wire, open, accepted, dropped>>

HandleWritten(w) ==
  /\ w.result = "ok"
  /\ sendQ' = Tail(sendQ)
  /\ writes' = IF Tail(sendQ) = <<>>
               THEN writes \ {w}
               ELSE (writes \ {w}) \cup {AsyncWrite(Head(Tail(sendQ)))}
  /\ UNCHANGED <<wire, open, accepted, dropped>>

\* Mutant: the failed packet is dropped, the session stays and goes on.
HandleFailedGoesOn(w) ==
  /\ w.result = "failed"
  /\ sendQ' = Tail(sendQ)
  /\ writes' = IF Tail(sendQ) = <<>>
               THEN writes \ {w}
               ELSE (writes \ {w}) \cup {AsyncWrite(Head(Tail(sendQ)))}
  /\ UNCHANGED <<wire, open, accepted, dropped>>

HandleFailed(w) ==
  /\ w.result = "failed"
  /\ writes' = writes \ {w}
  /\ open' = FALSE
  /\ UNCHANGED <<sendQ, wire, accepted, dropped>>

(* Session::Close, called for any other reason (a read that failed).       *)
Close ==
  /\ open
  /\ open' = FALSE
  /\ UNCHANGED <<sendQ, writes, wire, accepted, dropped>>
-----------------------------------------------------------------------------
(* The write operation of Boost.Asio and the network under it.             *)

Progress(w, n) ==
  [packet |-> w.packet, done |-> n, result |-> IF n = 2 THEN "ok" ELSE "none"]

WritePiece(w) ==
  /\ open
  /\ w.result = "none"
  /\ wire' = Append(wire, [packet |-> w.packet, part |-> w.done + 1])
  /\ writes' = (writes \ {w}) \cup
               {Progress(w, w.done + 1)}
  /\ UNCHANGED <<sendQ, open, accepted, dropped>>

WriteFails(w) ==
  /\ w.result = "none"
  /\ writes' = (writes \ {w}) \cup {[w EXCEPT !.result = "failed"]}
  /\ UNCHANGED <<sendQ, wire, open, accepted, dropped>>

Step(w) == HandleWritten(w) \/ HandleFailed(w) \/ WritePiece(w) \/ WriteFails(w)

Next ==
  \/ \E p \in Packets : Send(p)
  \/ \E w \in writes : Step(w)
  \/ Close

Spec == Init /\ [][Next]_vars

(***************************************************************************)
(* A write goes on or fails, and its handler is called: the peer reads, or *)
(* the connection breaks.  Nobody has to send or to close.                 *)
(***************************************************************************)
FairSpec == Spec /\ WF_vars(\E w \in writes : Step(w))
-----------------------------------------------------------------------------
(* Properties.                                                             *)

(***************************************************************************)
(* Every variable stays in its range, the queue within its capacity.       *)
(***************************************************************************)
TypeOK ==
  /\ sendQ \in Seq(Packets) /\ Len(sendQ) <= Capacity
  /\ writes \subseteq Write
  /\ wire \in Seq(Piece)
  /\ open \in BOOLEAN
  /\ accepted \in Seq(Packets)
  /\ dropped \subseteq Packets

(***************************************************************************)
(* async_write does not copy: while it runs its packet is alive because it *)
(* is still the first of the queue, and no second write runs beside it     *)
(* (Session.cpp:152-154, 168-177).                                         *)
(***************************************************************************)
BufferAlive ==
  /\ Cardinality(writes) <= 1
  /\ \A w \in writes : sendQ # <<>> /\ w.packet = Head(sendQ)

(***************************************************************************)
(* The stream the peer sees is made of the frames of the accepted packets  *)
(* in the order of their acceptance, none repeated, none cut off in the    *)
(* middle and followed by another: whatever fails, and however calls of    *)
(* Send from several threads meet the completions.                         *)
(***************************************************************************)
FramesIntact ==
  /\ Len(wire) <= 2 * Len(accepted)
  /\ \A k \in DOMAIN accepted :
       /\ 2 * k - 1 <= Len(wire) =>
            wire[2 * k - 1] = [packet |-> accepted[k], part |-> 1]
       /\ 2 * k <= Len(wire) =>
            wire[2 * k] = [packet |-> accepted[k], part |-> 2]

Broken == ~open \/ \E w \in writes : w.result = "failed"

(***************************************************************************)
(* A Session whose queue holds packets is writing the first of them, until *)
(* the connection breaks: nobody relies on a completion that never comes.  *)
(***************************************************************************)
PendingMeansWriting == sendQ # <<>> => writes # {} \/ ~open

(***************************************************************************)
(* The comment at Session.cpp:142 takes a queue that is not empty as the   *)
(* sign that its packets wait to be sent or are being sent.  The code does *)
(* not keep this: HandleWrite leaves the queue as it is after a failure.   *)
(***************************************************************************)
QueuedIsBeingSent == sendQ # <<>> => writes # {}

(***************************************************************************)
(* The write side is a FIFO channel: what the peer makes of the stream are *)
(* the whole frames in it, and a failed or closed socket is a broken       *)
(* channel.  So accepted packets arrive in order and once, and one is      *)
(* refused only when the queue is full or the connection is broken         *)
(* (Session.cpp:134-139).                                                  *)
(***************************************************************************)
Received == [k \in 1 .. (Len(wire) \div 2) |-> wire[2 * k].packet]

Channel == INSTANCE FifoChannel
  WITH refused <- dropped, delivered <- Received, broken <- Broken

ImplementsChannelSafety == Channel!Safety

(***************************************************************************)
(* With the fairness of FairSpec it also delivers every packet it accepts  *)
(* unless the connection breaks: each completion starts the next write     *)
(* (Session.cpp:168-178).                                                  *)
(***************************************************************************)
ImplementsChannel == Channel!Spec
=============================================================================
