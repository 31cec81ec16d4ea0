----------------------------- MODULE RPCPacket ------------------------------
(***************************************************************************)
(* The messages of RPCPacket.proto as the generated code treats them, and  *)
(* google.protobuf.Any as far as RPCPacket uses it.  A message is a record *)
(* of its fields; what it becomes on the wire is a sequence of encoded     *)
(* fields, each with its size in bytes, of which only the size and the     *)
(* order matter.  Unknown fields never arise: every packet is made by this *)
(* code.                                                                   *)
(***************************************************************************)
EXTENDS Naturals, Sequences, SequencesExt

CONSTANT Pieces  \* what strings are put together from

(* A string: the pieces it was put together from, its length in bytes, and *)
(* whether it is well-formed UTF-8.                                        *)
Empty == [text |-> <<>>, size |-> 0, utf8 |-> TRUE]

Text(name, size) == [text |-> <<name>>, size |-> size, utf8 |-> TRUE]

Concat(a, b) ==
  [text |-> a.text \o b.text,
   size |-> a.size + b.size,
   utf8 |-> a.utf8 /\ b.utf8]

DEFAULT_RESPONSE == 0
TASK_REQUEST     == 1
TASK_RESPONSE    == 2

(* In the order of the field numbers, from 1; every tag takes one byte.    *)
Fields ==
  <<"type", "error", "status", "from", "to", "inner_id", "created_time",
    "post_time", "commited_time", "completed_time", "failed_time",
    "request_id", "service", "parameters", "result">>
ParametersFields == <<"name", "message">>
ResultFields == <<"message">>

IsEnum(f) == f \in {"type", "error", "status"}
IsAny(f)  == f \in {"parameters", "result"}
IsString(f) == ~IsEnum(f) /\ ~IsAny(f)

(* An Any is a sequence of at most one, empty when its has-bit is clear.   *)
Default(f) == IF IsEnum(f) THEN 0 ELSE IF IsAny(f) THEN <<>> ELSE Empty

NewPacket == [f \in ToSet(Fields) |-> Default(f)]
NewParameters == [f \in ToSet(ParametersFields) |-> Default(f)]
NewResult == [f \in ToSet(ResultFields) |-> Default(f)]

Clear(m) == [f \in DOMAIN m |-> Default(f)]
-----------------------------------------------------------------------------
(* Setters.                                                                *)

SetCodes(p, type, error, status) ==
  [p EXCEPT !["type"] = type, !["error"] = error, !["status"] = status]

SetAddresses(p, from, to, innerID) ==
  [p EXCEPT !["from"] = from, !["to"] = to, !["inner_id"] = innerID]

SetTime(p, f, time) == [p EXCEPT ![f] = time]

SetNames(p, requestID, service) ==
  [p EXCEPT !["request_id"] = requestID, !["service"] = service]

SetParameters(p, any) == [p EXCEPT !["parameters"] = <<any>>]
SetResult(p, any)     == [p EXCEPT !["result"] = <<any>>]

SetNameAndMessage(m, name, message) ==
  [m EXCEPT !["name"] = name, !["message"] = message]
SetMessage(m, message) == [m EXCEPT !["message"] = message]
-----------------------------------------------------------------------------
(* Sizes.  A message has less than 2^31 bytes.                             *)

VarintSize(n) ==
  IF n < 128 THEN 1
  ELSE IF n < 16384 THEN 2
  ELSE IF n < 2097152 THEN 3
  ELSE IF n < 268435456 THEN 4
  ELSE 5

Delimited(n) == VarintSize(n) + n

Total(sizes) == FoldLeft(LAMBDA n, size : n + size, 0, sizes)

Size(bytes) == Total([i \in DOMAIN bytes |-> bytes[i].size])

AnySize(any) ==
  LET field(n) == IF n = 0 THEN 0 ELSE 1 + Delimited(n)
  IN  field(any.type_url.size) + field(Size(any.value))

FieldSize(f, v) ==
  1 + (IF IsEnum(f) THEN 1
       ELSE Delimited(IF IsAny(f) THEN AnySize(v[1]) ELSE v.size))

(* Fields with their default value are not written.                        *)
Present(fields, m) ==
  FoldLeft(LAMBDA s, f : IF m[f] = Default(f) THEN s ELSE Append(s, f),
           <<>>, fields)

SizeOfFields(fields, m) ==
  Total([i \in DOMAIN fields |-> FieldSize(fields[i], m[fields[i]])])

\* Mutant: an Any that is present is not counted.
SizeOfStrings(fields, m) ==
  SizeOfFields(SelectSeq(Present(fields, m), LAMBDA f : ~IsAny(f)), m)

SizeOf(fields, m) == SizeOfFields(Present(fields, m), m)

ByteSizeLong(p) == SizeOf(Fields, p)

Encode(fields, m) ==
  LET present == Present(fields, m)
  IN  [i \in DOMAIN present |->
         [field |-> present[i],
          value |-> m[present[i]],
          size  |-> FieldSize(present[i], m[present[i]])]]

Serialize(p) == Encode(Fields, p)
SerializeParameters(m) == Encode(ParametersFields, m)
SerializeResult(m) == Encode(ResultFields, m)
-----------------------------------------------------------------------------
(* Any::MergeFrom, for b # <<>>.                                           *)
MergeAny(a, b) ==
  IF a = <<>>
  THEN b
  ELSE <<[type_url |-> IF b[1].type_url = Empty THEN a[1].type_url
                                                ELSE b[1].type_url,
          value |-> IF b[1].value = <<>> THEN a[1].value ELSE b[1].value]>>

(* A default value never overwrites.                                       *)
MergeFrom(to, from) ==
  [f \in DOMAIN to |->
     IF from[f] = Default(f) THEN to[f]
     ELSE IF IsAny(f) THEN MergeAny(to[f], from[f])
     ELSE from[f]]

CopyFrom(to, from) == MergeFrom(Clear(to), from)

(* The first n bytes; what is left of a field that was cut does not parse. *)
Cut(bytes, n) ==
  LET prefix(k) == SubSeq(bytes, 1, k)
      head == prefix(Max({k \in 0 .. Len(bytes) : Size(prefix(k)) <= n}))
      rest == n - Size(head)
  IN  IF rest = 0 \/ head = bytes
      THEN head
      ELSE Append(head, [field |-> "torn", value |-> 0, size |-> rest])

(* TcParser: strings are verified, the last value wins, an Any merges.     *)
Parses(bytes) ==
  \A i \in DOMAIN bytes :
    LET f == bytes[i].field IN
      f # "torn" /\ (IsString(f) => bytes[i].value.utf8)

ParseField(f, v, bytes) ==
  FoldLeft(LAMBDA w, b : IF b.field # f THEN w
                         ELSE IF IsAny(f) THEN MergeAny(w, b.value)
                         ELSE b.value,
           v, bytes)

ParseInto(m, bytes) == [f \in DOMAIN m |-> ParseField(f, m[f], bytes)]

Parse(bytes) == ParseInto(NewPacket, bytes)
ParseParameters(bytes) == ParseInto(NewParameters, bytes)
ParseResult(bytes) == ParseInto(NewResult, bytes)
-----------------------------------------------------------------------------
(* Any::PackFrom and Any::UnpackTo; the URL is what was packed, after      *)
(* type.googleapis.com/DSFramework.DSRPC.Packet.                           *)

ParametersUrl == Text("HelloWorldServiceParameters", 72)
ResultUrl     == Text("HelloWorldServiceResult", 68)

PackParameters(m) ==
  [type_url |-> ParametersUrl, value |-> SerializeParameters(m)]
PackResult(m) ==
  [type_url |-> ResultUrl, value |-> SerializeResult(m)]

Unpacks(any, url) == any # <<>> /\ any[1].type_url = url /\ Parses(any[1].value)
-----------------------------------------------------------------------------
(* The packets a program can make: the setters are typed, and what an Any  *)
(* holds was put there by PackFrom.                                        *)

Texts ==
  {t \in [text : Seq(Pieces), size : Nat, utf8 : BOOLEAN] :
     t.size = 0 => t = Empty}
Codes == 0 .. 127  \* those of one byte
Bytes ==
  Seq([field : ToSet(ParametersFields) \cup ToSet(ResultFields),
       value : Texts, size : Nat])
Anys  == [type_url : Texts, value : Bytes]
Values == Codes \cup Texts \cup Seq(Anys)

IsPacked(any) ==
  LET parameters == ParseParameters(any.value)
      result     == ParseResult(any.value)
  IN  \/ /\ parameters \in [ToSet(ParametersFields) -> Texts]
         /\ any = PackParameters(parameters)
      \/ /\ result \in [ToSet(ResultFields) -> Texts]
         /\ any = PackResult(result)

IsFieldValue(f, v) ==
  IF IsEnum(f) THEN v \in Codes
  ELSE IF IsAny(f)
  THEN v \in Seq(Anys) /\ (v # <<>> => v = <<v[1]>> /\ IsPacked(v[1]))
  ELSE v \in Texts

IsPacket(p) ==
  /\ p = [f \in ToSet(Fields) |-> p[f]]
  /\ \A f \in ToSet(Fields) : IsFieldValue(f, p[f])
=============================================================================
