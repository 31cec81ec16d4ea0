----------------------------- MODULE RemoteCall -----------------------------
(***************************************************************************)
(* What RPCClient::RemoteCall promises: while the call lasts its caller's  *)
(* knowledge of the request only advances, up to COMPLETED, and the call   *)
(* ends by itself.                                                         *)
(***************************************************************************)
EXTENDS Naturals

CONSTANT Completed  \* the last status a request without an error can have

VARIABLES
  phase,  \* "none", "waiting" or "over"
  known   \* the status of the packet the client holds, 0 without one

vars == <<phase, known>>

Init ==
  /\ phase = "none"
  /\ known = 0

Begin ==
  /\ phase = "none"
  /\ phase' = "waiting"
  /\ UNCHANGED known

Learn ==
  /\ phase = "waiting"
  /\ known' \in known + 1 .. Completed
  /\ UNCHANGED phase

End ==
  /\ phase = "waiting"
  /\ phase' = "over"
  /\ UNCHANGED known

Next == Begin \/ Learn \/ End

Spec == Init /\ [][Next]_vars

FairSpec == Spec /\ WF_vars(End)
=============================================================================
