---------------------------- MODULE FifoChannel ----------------------------
(***************************************************************************)
(* What the write side of a Session promises to those who call Send: the   *)
(* peer receives whole packets, those that were accepted and no others,    *)
(* each once and in the order of their acceptance, until the connection    *)
(* breaks.  A packet may be refused only when the channel is broken or     *)
(* close to its capacity.                                                  *)
(***************************************************************************)
EXTENDS Naturals, Sequences

CONSTANTS Packets, Capacity

VARIABLES
  accepted,   \* packets Send accepted, in order
  refused,    \* packets it turned away
  delivered,  \* packets the peer received
  broken      \* the connection carries nothing any more

vars == <<accepted, refused, delivered, broken>>

Offered == {accepted[i] : i \in DOMAIN accepted} \cup refused

Undelivered == Len(accepted) - Len(delivered)

Init ==
  /\ accepted = <<>>
  /\ refused = {}
  /\ delivered = <<>>
  /\ broken = FALSE

Accept(p) ==
  /\ p \notin Offered
  /\ broken \/ Undelivered < Capacity
  /\ accepted' = Append(accepted, p)
  /\ UNCHANGED <<refused, delivered, broken>>

\* The place of a packet is free a little after the peer could receive it.
Refuse(p) ==
  /\ p \notin Offered
  /\ broken \/ Undelivered + 1 >= Capacity
  /\ refused' = refused \cup {p}
  /\ UNCHANGED <<accepted, delivered, broken>>

Deliver ==
  /\ ~broken
  /\ Undelivered > 0
  /\ delivered' = Append(delivered, accepted[Len(delivered) + 1])
  /\ UNCHANGED <<accepted, refused, broken>>

Break ==
  /\ broken' = TRUE
  /\ UNCHANGED <<accepted, refused, delivered>>

Next == (\E p \in Packets : Accept(p) \/ Refuse(p)) \/ Deliver \/ Break

Safety == Init /\ [][Next]_vars

Spec == Safety /\ WF_vars(Deliver)
=============================================================================
