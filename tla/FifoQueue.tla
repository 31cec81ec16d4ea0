----------------------------- MODULE FifoQueue -----------------------------
(***************************************************************************)
(* What a ConcurrentQueue promises: items come out in the order in which   *)
(* they went in, each once.                                                *)
(***************************************************************************)
EXTENDS Naturals, Sequences

CONSTANT Items

VARIABLES
  queue,  \* items in the queue
  taken   \* history: items taken out, in order

vars == <<queue, taken>>

Init ==
  /\ queue = <<>>
  /\ taken = <<>>

Put(x) ==
  /\ queue' = Append(queue, x)
  /\ UNCHANGED taken

Take ==
  /\ queue # <<>>
  /\ taken' = Append(taken, Head(queue))
  /\ queue' = Tail(queue)

Next == Take \/ \E x \in Items : Put(x)

Spec == Init /\ [][Next]_vars
=============================================================================
