--------------------------- MODULE MCRPCPipeline ---------------------------
EXTENDS RPCPipeline, TLC

CONSTANTS r1, r2

\* One request is executed, beside one that is refused for its parameters or
\* does not parse.
ExecutedBesideRefused ==
  (r1 :> {"callable"}) @@ (r2 :> {"garbled", "badparams"})

\* No request names a service that is registered.
Unknown == [r \in Requests |-> {"unknown"}]

\* One request of any kind, and beside it one that parses and is refused by the
\* last check: both may want the table, its mutex and the request queue.
AnyBesideRefused == (r1 :> Kinds) @@ (r2 :> {"badparams"})

\* What decides which steps come next.  It leaves out the histories, and the
\* status and error code a packet or a response carries: no action reads one of
\* them but to set another of them.
ControlState ==
  <<pc, workVars, kind, tableVars, reqVars, tasks, respCount,
    [i \in DOMAIN respQ |-> respQ[i].req], {m.req : m \in sending}>>

Symmetry == Permutations(IOThreads) \cup Permutations(Workers)
=============================================================================
