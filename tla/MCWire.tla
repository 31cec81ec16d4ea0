------------------------------- MODULE MCWire -------------------------------
(* Requests for Wire: one of each kind, and some of each size that matters.*)
EXTENDS Wire

Strings == STRING
Uuid   == Text("session", 36)
Server == Text("serverID", 8)
Client == Text("Client", 6)
Gbk    == [text |-> <<"GBK">>, size |-> 8, utf8 |-> FALSE]

Greet(name, msg, from) ==
  CreateHelloWorldServiceRequestPacket(name, msg, from, Server)

OfSize(name, size) == IF size = 0 THEN Empty ELSE Text(name, size)

Sized(n, m) == Greet(OfSize("name", n), OfSize("message", m), Client)

(* Answered; answered up to a status that no longer fits; too large to be  *)
(* read; too large for 16 bits and cut between two fields, or in one.      *)
BySize ==
  {Sized(n, m) : n, m \in {0, 5, 115, 850, 860, 1700, 1900, 2000}}
    \cup {Sized(5, 65443), Sized(5, 65440)}

ByText ==
  {Greet(Gbk, Text("message", 5), Client), Greet(Text("name", 5), Gbk, Client),
   Greet(Text("name", 5), Text("message", 5), Gbk)}

ByKind ==
  {NewPacket,
   SetNames(Sized(5, 5), Text("mine", 36), Empty),
   SetNames(Sized(5, 5), Empty, Text("NoSuchService", 13)),
   SetParameters(Sized(5, 5), PackResult(NewResult)),
   SetResult(Sized(5, 5), PackResult(NewResult)),
   SetTime(SetTime(Sized(5, 5), "failed_time", Time), "completed_time", Time),
   [Sized(5, 5) EXCEPT !["parameters"] = <<>>]}
    \cup {SetCodes(Sized(5, 5), type, PKT_NO_ERROR, COMPLETED) : type \in 0 .. 4}

AllRequests == BySize \cup ByText \cup ByKind
=============================================================================
