----------------------------- MODULE WireProofs -----------------------------
(***************************************************************************)
(* What either end makes of the other's bytes, whatever packets clients    *)
(* send: nothing is garbled, answers belong together, small requests are   *)
(* answered, greetings are heard.                                          *)
(*                                                                         *)
(* The encoding is made of folds, so its facts are proved by induction,    *)
(* first on sequences (a fold is the last entry of a table), then on the   *)
(* fields of a message (what is written, what is read back, what it costs, *)
(* what is left of it when it is cut), then for the packets of this        *)
(* program and the answers made from them.  The invariant of the           *)
(* specification comes last.                                               *)
(***************************************************************************)
EXTENDS Wire, Integers, SequenceTheorems, WellFoundedInduction, TLAPS

(***************************************************************************)
(* Induction.  The library's theorems about it take an operator; the least *)
(* element of a set of naturals, which is what they rest on, does not.     *)
(***************************************************************************)
LEMMA LeastElement ==
  ASSUME NEW T, T \subseteq Nat, T # {}
  PROVE  \E n \in T : \A k \in T : n <= k
<1>1. PICK R : R = {ss \in Nat \X Nat : ss[1] < ss[2]} /\ IsWellFoundedOn(R, Nat)
  BY NatLessThanWellFounded DEF OpToRel
<1>2. PICK n \in T : \A k \in T : <<k, n>> \notin R
  BY <1>1, WFMin
<1>3. \A k \in T : ~(k < n)
  <2>1. \A k \in T : <<k, n>> \in Nat \X Nat
    OBVIOUS
  <2> QED BY <1>1, <1>2, <2>1
<1> QED BY <1>3

LEMMA Induction ==
  ASSUME NEW T, 0 \in T, \A n \in Nat : n \in T => n + 1 \in T
  PROVE  Nat \subseteq T
<1>1. SUFFICES ASSUME Nat \ T # {} PROVE FALSE
  OBVIOUS
<1>2. PICK n \in Nat \ T : \A k \in Nat \ T : n <= k
  <2>1. Nat \ T \subseteq Nat
    OBVIOUS
  <2> QED BY <1>1, <2>1, LeastElement
<1>3. n - 1 \in Nat /\ n - 1 \notin Nat \ T
  BY <1>2
<1> QED BY <1>3

(* Induction up to a bound.                                                *)
LEMMA BoundedInduction ==
  ASSUME NEW len \in Nat, NEW T, 0 \in T,
         \A n \in 0 .. len - 1 : n \in T => n + 1 \in T
  PROVE  0 .. len \subseteq T
<1>1. PICK U : U = {n \in Nat : n <= len => n \in T}
  OBVIOUS
<1>2. 0 \in U /\ \A n \in Nat : n \in U => n + 1 \in U
  BY <1>1
<1>3. Nat \subseteq U
  BY <1>2, Induction
<1> QED BY <1>1, <1>3

(* Of a bounded set of naturals there is a greatest, which Max chooses.    *)
LEMMA Greatest ==
  ASSUME NEW len \in Nat, NEW S \in SUBSET (0 .. len), S # {}
  PROVE  Max(S) \in S /\ \A k \in S : k <= Max(S)
<1>1. PICK T : T = {n \in Nat : \A k \in S : k <= n}
  OBVIOUS
<1>2. len \in T /\ T \subseteq Nat
  BY <1>1
<1>3. PICK n \in T : \A k \in T : n <= k
  BY <1>2, LeastElement
<1>4. n \in S
  <2>1. SUFFICES ASSUME n \notin S PROVE FALSE
    OBVIOUS
  <2>2. n \in Nat /\ \A k \in S : k \in Nat /\ k < n
    BY <1>1, <2>1
  <2>3. n - 1 \in Nat
    <3>1. PICK k : k \in S
      OBVIOUS
    <3>2. k \in Nat /\ k < n
      BY <2>2, <3>1
    <3> QED BY <2>2, <3>2
  <2>5. ASSUME NEW k \in S PROVE k <= n - 1
    BY <2>2
  <2>4. n - 1 \in T
    BY <1>1, <2>3, <2>5
  <2> QED BY <1>3, <2>2, <2>4
<1>5. \E x \in S : \A y \in S : x >= y
  BY <1>1, <1>3, <1>4
<1>6. Max(S) \in S /\ \A y \in S : Max(S) >= y
  BY <1>5 DEF Max
<1> QED BY <1>6

LEMMA GreatestIs ==
  ASSUME NEW len \in Nat, NEW S \in SUBSET (0 .. len), NEW n \in S,
         \A k \in S : k <= n
  PROVE  Max(S) = n
<1>1. Max(S) \in S /\ n <= Max(S)
  BY Greatest
<1>2. \A k \in S : k \in Int /\ (k <= n /\ n <= k => k = n)
  OBVIOUS
<1> QED BY <1>1, <1>2
-----------------------------------------------------------------------------
(***************************************************************************)
(* Folds.  FoldLeft takes the last of the indices that are left, so it is  *)
(* a table over sets of indices; each lemma ends in a table over lengths.  *)
(***************************************************************************)
LEMMA LastIndex ==
  ASSUME NEW n \in Nat
  PROVE  /\ \A s \in SUBSET (1 .. n + 1) : n + 1 \in s => Max(s) = n + 1
         /\ Max(1 .. n + 1) = n + 1
         /\ \A s \in SUBSET (1 .. n + 1) : n + 1 \notin s => s \in SUBSET (1 .. n)
         /\ (1 .. n + 1) \ {n + 1} = 1 .. n
<1>1. ASSUME NEW s \in SUBSET (1 .. n + 1), n + 1 \in s
      PROVE  Max(s) = n + 1
  <2>1. s \in SUBSET (0 .. n + 1) /\ \A k \in s : k <= n + 1
    OBVIOUS
  <2> QED BY <1>1, <2>1, GreatestIs
<1>2. n + 1 \in 1 .. n + 1
  OBVIOUS
<1> QED BY <1>1, <1>2

(* A sum.                                                                  *)
LEMMA Totals ==
  ASSUME NEW s, NEW len \in Nat, DOMAIN s = 1 .. len
  PROVE  \E acc : /\ acc[0] = 0
                  /\ \A i \in 1 .. len : acc[i] = acc[i - 1] + s[i]
                  /\ Total(s) = acc[len]
<1> DEFINE
  Entry(S, t) == IF S = {} THEN 0 ELSE t[S \ {Max(S)}] + s[Max(S)]
  Table(n, t) == t = [S \in SUBSET (1 .. n) |-> Entry(S, t)]
<1>1. \E t : Table(0, t)
  <2>1. PICK t : t = [S \in SUBSET (1 .. 0) |-> 0]
    OBVIOUS
  <2>2. \A S \in SUBSET (1 .. 0) : S = {}
    OBVIOUS
  <2> QED BY <2>1, <2>2
<1>2. ASSUME NEW n \in Nat, NEW t, Table(n, t)
      PROVE  \E u : Table(n + 1, u)
  <2>1. PICK u : u = [S \in SUBSET (1 .. n + 1) |->
                        IF n + 1 \in S
                        THEN t[S \ {n + 1}] + s[n + 1]
                        ELSE t[S]]
    OBVIOUS
  <2>2. ASSUME NEW S \in SUBSET (1 .. n + 1)
        PROVE  u[S] = Entry(S, u)
    <3>1. CASE n + 1 \in S
      <4>1. Max(S) = n + 1 /\ S # {}
        BY <3>1, LastIndex
      <4>2. S \ {n + 1} \in SUBSET (1 .. n + 1) /\ n + 1 \notin S \ {n + 1}
        OBVIOUS
      <4> QED BY <2>1, <3>1, <4>1, <4>2
    <3>2. CASE n + 1 \notin S
      <4>1. S \in SUBSET (1 .. n)
        BY <3>2, LastIndex
      <4>2. u[S] = Entry(S, t)
        BY <1>2, <2>1, <3>2, <4>1
      <4>3. S \ {Max(S)} \in SUBSET (1 .. n + 1) /\ n + 1 \notin S \ {Max(S)}
        BY <3>2
      <4> QED BY <2>1, <4>2, <4>3
    <3> QED BY <3>1, <3>2
  <2>3. u = [S \in SUBSET (1 .. n + 1) |-> Entry(S, u)]
    <3> HIDE DEF Entry
    <3>1. u = [S \in SUBSET (1 .. n + 1) |-> u[S]]
      BY <2>1
    <3> QED BY <2>2, <3>1
  <2> QED BY <2>3
<1>3. \E t : Table(len, t)
  <2>1. PICK T : T = {n \in Nat : \E t : Table(n, t)}
    OBVIOUS
  <2>. HIDE DEF Table
  <2>2. 0 \in T /\ \A n \in Nat : n \in T => n + 1 \in T
    BY <1>1, <1>2, <2>1
  <2> QED BY <2>1, <2>2, Induction
<1>4. PICK t : Table(len, t) /\ Total(s) = t[1 .. len]
  <2>1. Total(s) = (CHOOSE t : Table(len, t))[1 .. len]
    BY DEF Total, FoldLeft, MapThenFoldSet
  <2> QED BY <1>3, <2>1
<1>5. t[{}] = 0
  BY <1>4
<1>6. ASSUME NEW i \in 1 .. len
      PROVE  t[1 .. i] = t[1 .. i - 1] + s[i]
  <2>1. Max(1 .. i) = i /\ (1 .. i) \ {i} = 1 .. i - 1
    <3>1. i - 1 \in Nat /\ (i - 1) + 1 = i
      OBVIOUS
    <3> QED BY <3>1, LastIndex
  <2>2. 1 .. i \in SUBSET (1 .. len) /\ 1 .. i # {}
    OBVIOUS
  <2> QED BY <1>4, <2>1, <2>2
<1>7. PICK acc : acc = [i \in 0 .. len |-> t[1 .. i]]
  OBVIOUS
<1>8. 1 .. 0 = {} /\ \A i \in 1 .. len : i - 1 \in 0 .. len /\ i \in 0 .. len
  OBVIOUS
<1>9. acc[0] = 0 /\ acc[len] = t[1 .. len]
  BY <1>5, <1>7, <1>8
<1>10. \A i \in 1 .. len : acc[i] = acc[i - 1] + s[i]
  BY <1>6, <1>7, <1>8
<1> QED BY <1>4, <1>9, <1>10

(* The fields that are written.                                            *)
WithField(fs, m, f) == IF m[f] = Default(f) THEN fs ELSE Append(fs, f)

LEMMA Presents ==
  ASSUME NEW m, NEW s, NEW len \in Nat, DOMAIN s = 1 .. len
  PROVE  \E acc : /\ acc[0] = <<>>
                  /\ \A i \in 1 .. len : acc[i] = WithField(acc[i - 1], m, s[i])
                  /\ Present(s, m) = acc[len]
<1> DEFINE
  Entry(S, t) == IF S = {} THEN <<>> ELSE WithField(t[S \ {Max(S)}], m, s[Max(S)])
  Table(n, t) == t = [S \in SUBSET (1 .. n) |-> Entry(S, t)]
<1>1. \E t : Table(0, t)
  <2>1. PICK t : t = [S \in SUBSET (1 .. 0) |-> <<>>]
    OBVIOUS
  <2>2. \A S \in SUBSET (1 .. 0) : S = {}
    OBVIOUS
  <2> QED BY <2>1, <2>2
<1>2. ASSUME NEW n \in Nat, NEW t, Table(n, t)
      PROVE  \E u : Table(n + 1, u)
  <2>1. PICK u : u = [S \in SUBSET (1 .. n + 1) |->
                        IF n + 1 \in S
                        THEN WithField(t[S \ {n + 1}], m, s[n + 1])
                        ELSE t[S]]
    OBVIOUS
  <2>2. ASSUME NEW S \in SUBSET (1 .. n + 1)
        PROVE  u[S] = Entry(S, u)
    <3>1. CASE n + 1 \in S
      <4>1. Max(S) = n + 1 /\ S # {}
        BY <3>1, LastIndex
      <4>2. S \ {n + 1} \in SUBSET (1 .. n + 1) /\ n + 1 \notin S \ {n + 1}
        OBVIOUS
      <4> QED BY <2>1, <3>1, <4>1, <4>2
    <3>2. CASE n + 1 \notin S
      <4>1. S \in SUBSET (1 .. n)
        BY <3>2, LastIndex
      <4>2. u[S] = Entry(S, t)
        BY <1>2, <2>1, <3>2, <4>1
      <4>3. S \ {Max(S)} \in SUBSET (1 .. n + 1) /\ n + 1 \notin S \ {Max(S)}
        BY <3>2
      <4> QED BY <2>1, <4>2, <4>3
    <3> QED BY <3>1, <3>2
  <2>3. u = [S \in SUBSET (1 .. n + 1) |-> Entry(S, u)]
    <3> HIDE DEF Entry
    <3>1. u = [S \in SUBSET (1 .. n + 1) |-> u[S]]
      BY <2>1
    <3> QED BY <2>2, <3>1
  <2> QED BY <2>3
<1>3. \E t : Table(len, t)
  <2>1. PICK T : T = {n \in Nat : \E t : Table(n, t)}
    OBVIOUS
  <2>. HIDE DEF Table
  <2>2. 0 \in T /\ \A n \in Nat : n \in T => n + 1 \in T
    BY <1>1, <1>2, <2>1
  <2> QED BY <2>1, <2>2, Induction
<1>4. PICK t : Table(len, t) /\ Present(s, m) = t[1 .. len]
  <2>1. Present(s, m) = (CHOOSE t : Table(len, t))[1 .. len]
    BY DEF WithField, Present, FoldLeft, MapThenFoldSet
  <2> QED BY <1>3, <2>1
<1>5. t[{}] = <<>>
  BY <1>4
<1>6. ASSUME NEW i \in 1 .. len
      PROVE  t[1 .. i] = WithField(t[1 .. i - 1], m, s[i])
  <2>1. Max(1 .. i) = i /\ (1 .. i) \ {i} = 1 .. i - 1
    <3>1. i - 1 \in Nat /\ (i - 1) + 1 = i
      OBVIOUS
    <3> QED BY <3>1, LastIndex
  <2>2. 1 .. i \in SUBSET (1 .. len) /\ 1 .. i # {}
    OBVIOUS
  <2> QED BY <1>4, <2>1, <2>2
<1>7. PICK acc : acc = [i \in 0 .. len |-> t[1 .. i]]
  OBVIOUS
<1>8. 1 .. 0 = {} /\ \A i \in 1 .. len : i - 1 \in 0 .. len /\ i \in 0 .. len
  OBVIOUS
<1>9. acc[0] = <<>> /\ acc[len] = t[1 .. len]
  BY <1>5, <1>7, <1>8
<1>10. \A i \in 1 .. len : acc[i] = WithField(acc[i - 1], m, s[i])
  BY <1>6, <1>7, <1>8
<1> QED BY <1>4, <1>9, <1>10

(* The value of a field as its bytes are read.                             *)
WithValue(v, f, b) ==
  IF b.field # f THEN v ELSE IF IsAny(f) THEN MergeAny(v, b.value) ELSE b.value

LEMMA Parsings ==
  ASSUME NEW f, NEW v, NEW s, NEW len \in Nat, DOMAIN s = 1 .. len
  PROVE  \E acc : /\ acc[0] = v
                  /\ \A i \in 1 .. len : acc[i] = WithValue(acc[i - 1], f, s[i])
                  /\ ParseField(f, v, s) = acc[len]
<1> DEFINE
  Entry(S, t) == IF S = {} THEN v ELSE WithValue(t[S \ {Max(S)}], f, s[Max(S)])
  Table(n, t) == t = [S \in SUBSET (1 .. n) |-> Entry(S, t)]
<1>1. \E t : Table(0, t)
  <2>1. PICK t : t = [S \in SUBSET (1 .. 0) |-> v]
    OBVIOUS
  <2>2. \A S \in SUBSET (1 .. 0) : S = {}
    OBVIOUS
  <2> QED BY <2>1, <2>2
<1>2. ASSUME NEW n \in Nat, NEW t, Table(n, t)
      PROVE  \E u : Table(n + 1, u)
  <2>1. PICK u : u = [S \in SUBSET (1 .. n + 1) |->
                        IF n + 1 \in S
                        THEN WithValue(t[S \ {n + 1}], f, s[n + 1])
                        ELSE t[S]]
    OBVIOUS
  <2>2. ASSUME NEW S \in SUBSET (1 .. n + 1)
        PROVE  u[S] = Entry(S, u)
    <3>1. CASE n + 1 \in S
      <4>1. Max(S) = n + 1 /\ S # {}
        BY <3>1, LastIndex
      <4>2. S \ {n + 1} \in SUBSET (1 .. n + 1) /\ n + 1 \notin S \ {n + 1}
        OBVIOUS
      <4> QED BY <2>1, <3>1, <4>1, <4>2
    <3>2. CASE n + 1 \notin S
      <4>1. S \in SUBSET (1 .. n)
        BY <3>2, LastIndex
      <4>2. u[S] = Entry(S, t)
        BY <1>2, <2>1, <3>2, <4>1
      <4>3. S \ {Max(S)} \in SUBSET (1 .. n + 1) /\ n + 1 \notin S \ {Max(S)}
        BY <3>2
      <4> QED BY <2>1, <4>2, <4>3
    <3> QED BY <3>1, <3>2
  <2>3. u = [S \in SUBSET (1 .. n + 1) |-> Entry(S, u)]
    <3> HIDE DEF Entry
    <3>1. u = [S \in SUBSET (1 .. n + 1) |-> u[S]]
      BY <2>1
    <3> QED BY <2>2, <3>1
  <2> QED BY <2>3
<1>3. \E t : Table(len, t)
  <2>1. PICK T : T = {n \in Nat : \E t : Table(n, t)}
    OBVIOUS
  <2>. HIDE DEF Table
  <2>2. 0 \in T /\ \A n \in Nat : n \in T => n + 1 \in T
    BY <1>1, <1>2, <2>1
  <2> QED BY <2>1, <2>2, Induction
<1>4. PICK t : Table(len, t) /\ ParseField(f, v, s) = t[1 .. len]
  <2>1. ParseField(f, v, s) = (CHOOSE t : Table(len, t))[1 .. len]
    BY DEF WithValue, ParseField, FoldLeft, MapThenFoldSet
  <2> QED BY <1>3, <2>1
<1>5. t[{}] = v
  BY <1>4
<1>6. ASSUME NEW i \in 1 .. len
      PROVE  t[1 .. i] = WithValue(t[1 .. i - 1], f, s[i])
  <2>1. Max(1 .. i) = i /\ (1 .. i) \ {i} = 1 .. i - 1
    <3>1. i - 1 \in Nat /\ (i - 1) + 1 = i
      OBVIOUS
    <3> QED BY <3>1, LastIndex
  <2>2. 1 .. i \in SUBSET (1 .. len) /\ 1 .. i # {}
    OBVIOUS
  <2> QED BY <1>4, <2>1, <2>2
<1>7. PICK acc : acc = [i \in 0 .. len |-> t[1 .. i]]
  OBVIOUS
<1>8. 1 .. 0 = {} /\ \A i \in 1 .. len : i - 1 \in 0 .. len /\ i \in 0 .. len
  OBVIOUS
<1>9. acc[0] = v /\ acc[len] = t[1 .. len]
  BY <1>5, <1>7, <1>8
<1>10. \A i \in 1 .. len : acc[i] = WithValue(acc[i - 1], f, s[i])
  BY <1>6, <1>7, <1>8
<1> QED BY <1>4, <1>9, <1>10
-----------------------------------------------------------------------------
(***************************************************************************)
(* The fields of RPCPacket.proto, by what they hold, and sums of sizes.    *)
(***************************************************************************)
Field == ToSet(Fields)

HasFields(p) == p = [f \in Field |-> p[f]]

Addressing == {"from", "to", "inner_id"}
CodeFields == {"type", "error", "status"}
Times      == {"created_time", "post_time", "commited_time", "completed_time",
               "failed_time"}
Names      == {"request_id", "service"}
AnyFields  == {"parameters", "result"}

LEMMA FieldFacts ==
  Addressing \cup CodeFields \cup Times \cup Names \cup AnyFields \subseteq Field
<1>1. \A i \in 1 .. 15 : Fields[i] \in Field
  BY DEF Field, Fields, ToSet
<1>2. /\ Fields[1] = "type" /\ Fields[2] = "error" /\ Fields[3] = "status"
      /\ Fields[4] = "from" /\ Fields[5] = "to" /\ Fields[6] = "inner_id"
      /\ Fields[7] = "created_time" /\ Fields[8] = "post_time"
      /\ Fields[9] = "commited_time" /\ Fields[10] = "completed_time"
      /\ Fields[11] = "failed_time" /\ Fields[12] = "request_id"
      /\ Fields[13] = "service" /\ Fields[14] = "parameters"
      /\ Fields[15] = "result"
  BY DEF Fields
<1> QED BY <1>1, <1>2 DEF Addressing, CodeFields, Times, Names, AnyFields

LEMMA TotalIsNat ==
  ASSUME NEW s, NEW len \in Nat, DOMAIN s = 1 .. len, \A i \in 1 .. len : s[i] \in Nat
  PROVE  Total(s) \in Nat
<1>1. PICK acc : /\ acc[0] = 0
                 /\ \A i \in 1 .. len : acc[i] = acc[i - 1] + s[i]
                 /\ Total(s) = acc[len]
  BY Totals
<1>2. PICK T : T = {n \in 0 .. len : acc[n] \in Nat}
  OBVIOUS
<1>3. 0 \in T
  BY <1>1, <1>2
<1>4. ASSUME NEW n \in 0 .. len - 1, n \in T PROVE n + 1 \in T
  <2>1. n + 1 \in 1 .. len /\ (n + 1) - 1 = n
    OBVIOUS
  <2>2. acc[n + 1] = acc[n] + s[n + 1]
    BY <1>1, <2>1
  <2> QED BY <1>2, <1>4, <2>1, <2>2
<1>5. 0 .. len \subseteq T
  BY <1>3, <1>4, BoundedInduction
<1> QED BY <1>1, <1>2, <1>5

LEMMA TotalIsLarge ==
  ASSUME NEW s, NEW len \in Nat, DOMAIN s = 1 .. len,
         \A i \in 1 .. len : s[i] \in Nat \ {0}
  PROVE  Total(s) >= len
<1>1. PICK acc : /\ acc[0] = 0
                 /\ \A i \in 1 .. len : acc[i] = acc[i - 1] + s[i]
                 /\ Total(s) = acc[len]
  BY Totals
<1>2. PICK T : T = {n \in 0 .. len : acc[n] \in Nat /\ acc[n] >= n}
  OBVIOUS
<1>3. 0 \in T
  BY <1>1, <1>2
<1>4. ASSUME NEW n \in 0 .. len - 1, n \in T PROVE n + 1 \in T
  <2>1. n + 1 \in 1 .. len /\ (n + 1) - 1 = n
    OBVIOUS
  <2>2. acc[n + 1] = acc[n] + s[n + 1] /\ s[n + 1] \in Nat \ {0}
    BY <1>1, <2>1
  <2> QED BY <1>2, <1>4, <2>1, <2>2
<1>5. 0 .. len \subseteq T
  BY <1>3, <1>4, BoundedInduction
<1> QED BY <1>1, <1>2, <1>5

(* One number more.                                                        *)
LEMMA TotalOfMore ==
  ASSUME NEW s, NEW len \in Nat, DOMAIN s = 1 .. len,
         NEW t, DOMAIN t = 1 .. len + 1, \A i \in 1 .. len : t[i] = s[i]
  PROVE  Total(t) = Total(s) + t[len + 1]
<1>1. PICK a : /\ a[0] = 0
               /\ \A i \in 1 .. len : a[i] = a[i - 1] + s[i]
               /\ Total(s) = a[len]
  BY Totals
<1>2. PICK b : /\ b[0] = 0
               /\ \A i \in 1 .. len + 1 : b[i] = b[i - 1] + t[i]
               /\ Total(t) = b[len + 1]
  BY Totals
<1>3. PICK T : T = {n \in 0 .. len : a[n] = b[n]}
  OBVIOUS
<1>4. 0 \in T
  BY <1>1, <1>2, <1>3
<1>5. ASSUME NEW n \in 0 .. len - 1, n \in T PROVE n + 1 \in T
  <2>1. n + 1 \in 1 .. len /\ n + 1 \in 1 .. len + 1 /\ (n + 1) - 1 = n
    OBVIOUS
  <2>2. a[n + 1] = a[n] + s[n + 1] /\ b[n + 1] = b[n] + t[n + 1]
    BY <1>1, <1>2, <2>1
  <2> QED BY <1>3, <1>5, <2>1, <2>2
<1>6. len \in T
  BY <1>4, <1>5, BoundedInduction
<1>7. b[len + 1] = b[len] + t[len + 1]
  <2>1. len + 1 \in 1 .. len + 1 /\ (len + 1) - 1 = len
    OBVIOUS
  <2> QED BY <1>2, <2>1
<1> QED BY <1>1, <1>2, <1>3, <1>6, <1>7
-----------------------------------------------------------------------------
(***************************************************************************)
(* A message of some fields, each with its number.                         *)
(***************************************************************************)
FieldName == ToSet(Fields) \cup {"name", "message"}

Numbered(fs) ==
  /\ fs \in Seq(FieldName)
  /\ \A i, j \in 1 .. Len(fs) : fs[i] = fs[j] => i = j

IsMessage(fs, m) == m = [f \in ToSet(fs) |-> m[f]]

Upto(fs, m, n) ==
  [f \in ToSet(fs) |->
     IF \E i \in 1 .. n : fs[i] = f THEN m[f] ELSE Default(f)]

(* The fields of p are those among the first n whose value is not default. *)
AreWritten(p, fs, m, n) ==
  /\ Numbered(p)
  /\ \A f \in FieldName :
       (\E j \in 1 .. Len(p) : p[j] = f) <=>
         (m[f] # Default(f) /\ \E i \in 1 .. n : fs[i] = f)

LEMMA OneMoreWritten ==
  ASSUME NEW fs, Numbered(fs), NEW m, NEW n \in 0 .. Len(fs) - 1,
         NEW p, AreWritten(p, fs, m, n), m[fs[n + 1]] # Default(fs[n + 1])
  PROVE  AreWritten(Append(p, fs[n + 1]), fs, m, n + 1)
<1>1. PICK g : g = fs[n + 1] /\ g \in FieldName
  BY DEF Numbered
<1>2. PICK q : q = Append(p, g)
  OBVIOUS
<1>3. p \in Seq(FieldName) /\ Len(p) \in Nat /\ Len(fs) \in Nat
  BY DEF AreWritten, Numbered
<1>4. /\ q \in Seq(FieldName) /\ Len(q) = Len(p) + 1 /\ q[Len(p) + 1] = g
      /\ \A j \in 1 .. Len(p) : q[j] = p[j]
      /\ \A j \in 1 .. Len(q) : j \in 1 .. Len(p) \/ j = Len(p) + 1
  BY <1>1, <1>2, <1>3
<1>5. \A i \in 1 .. n + 1 : i \in 1 .. n \/ i = n + 1
  OBVIOUS
<1>6. n + 1 \in 1 .. Len(fs) /\ \A i \in 1 .. n : i \in 1 .. Len(fs) /\ i # n + 1
  BY <1>3
<1>7. ~ \E j \in 1 .. Len(p) : p[j] = g
  <2>1. ~ \E i \in 1 .. n : fs[i] = g
    BY <1>1, <1>6 DEF Numbered
  <2> QED BY <1>1, <2>1 DEF AreWritten
<1>8. ASSUME NEW i \in 1 .. Len(q), NEW j \in 1 .. Len(q), q[i] = q[j]
      PROVE  i = j
  <2>1. \A k, l \in 1 .. Len(p) : p[k] = p[l] => k = l
    BY DEF AreWritten, Numbered
  <2>2. CASE i \in 1 .. Len(p) /\ j \in 1 .. Len(p)
    BY <1>4, <1>8, <2>1, <2>2
  <2>3. CASE i \notin 1 .. Len(p) \/ j \notin 1 .. Len(p)
    BY <1>4, <1>7, <1>8, <2>3
  <2> QED BY <2>2, <2>3
<1>9. ASSUME NEW f \in FieldName
      PROVE  (\E j \in 1 .. Len(q) : q[j] = f) <=>
                (m[f] # Default(f) /\ \E i \in 1 .. n + 1 : fs[i] = f)
  <2>1. CASE f = g
    <3>1. Len(p) + 1 \in 1 .. Len(q) /\ n + 1 \in 1 .. n + 1
      BY <1>3, <1>4
    <3> QED BY <1>1, <1>4, <2>1, <3>1
  <2>2. CASE f # g
    <3>1. (\E j \in 1 .. Len(q) : q[j] = f) <=> \E j \in 1 .. Len(p) : p[j] = f
      <4>1. \A j \in 1 .. Len(p) : j \in 1 .. Len(q)
        BY <1>3, <1>4
      <4> QED BY <1>4, <2>2, <4>1
    <3>2. (\E i \in 1 .. n + 1 : fs[i] = f) <=> \E i \in 1 .. n : fs[i] = f
      <4>1. \A i \in 1 .. n : i \in 1 .. n + 1
        OBVIOUS
      <4> QED BY <1>1, <1>5, <2>2, <4>1
    <3> QED BY <3>1, <3>2 DEF AreWritten
  <2> QED BY <2>1, <2>2
<1>10. Numbered(q)
  BY <1>4, <1>8 DEF Numbered
<1> QED BY <1>1, <1>2, <1>9, <1>10 DEF AreWritten

LEMMA NotWritten ==
  ASSUME NEW fs, Numbered(fs), NEW m, NEW n \in 0 .. Len(fs) - 1,
         NEW p, AreWritten(p, fs, m, n), m[fs[n + 1]] = Default(fs[n + 1])
  PROVE  AreWritten(p, fs, m, n + 1)
<1>1. \A i \in 1 .. n : i \in 1 .. n + 1
  OBVIOUS
<1>2. \A i \in 1 .. n + 1 : i \in 1 .. n \/ i = n + 1
  OBVIOUS
<1> QED BY <1>1, <1>2 DEF AreWritten

(* The table of the fields that are written, after each field.             *)
IsPresentTable(acc, fs, m) ==
  /\ acc[0] = <<>>
  /\ \A i \in 1 .. Len(fs) :
       acc[i] = IF m[fs[i]] = Default(fs[i]) THEN acc[i - 1]
                                             ELSE Append(acc[i - 1], fs[i])
  /\ Present(fs, m) = acc[Len(fs)]

LEMMA PresentTable ==
  ASSUME NEW fs, Numbered(fs), NEW m
  PROVE  \E acc : IsPresentTable(acc, fs, m)
<1>1. Len(fs) \in Nat /\ DOMAIN fs = 1 .. Len(fs)
  BY DEF Numbered
<1> QED BY <1>1, Presents DEF IsPresentTable, WithField

LEMMA TableIsWritten ==
  ASSUME NEW fs, Numbered(fs), NEW m, NEW acc, IsPresentTable(acc, fs, m)
  PROVE  \A n \in 0 .. Len(fs) : AreWritten(acc[n], fs, m, n)
<1>0. Len(fs) \in Nat
  BY DEF Numbered
<1>1. PICK T : T = {n \in 0 .. Len(fs) : AreWritten(acc[n], fs, m, n)}
  OBVIOUS
<1>2. 0 \in T
  <2>1. acc[0] = <<>> /\ 1 .. 0 = {} /\ <<>> \in Seq(FieldName) /\ Len(<<>>) = 0
    BY DEF IsPresentTable
  <2>2. AreWritten(acc[0], fs, m, 0)
    BY <2>1 DEF AreWritten, Numbered
  <2> QED BY <1>0, <1>1, <2>2
<1>3. ASSUME NEW n \in 0 .. Len(fs) - 1, n \in T PROVE n + 1 \in T
  <2>1. n + 1 \in 1 .. Len(fs) /\ (n + 1) - 1 = n
    BY <1>0
  <2>2. acc[n + 1] = IF m[fs[n + 1]] = Default(fs[n + 1]) THEN acc[n]
                     ELSE Append(acc[n], fs[n + 1])
    BY <2>1 DEF IsPresentTable
  <2>3. AreWritten(acc[n], fs, m, n)
    BY <1>1, <1>3
  <2>4. AreWritten(acc[n + 1], fs, m, n + 1)
    BY <2>2, <2>3, OneMoreWritten, NotWritten
  <2> QED BY <1>0, <1>1, <2>1, <2>4
<1> QED BY <1>0, <1>1, <1>2, <1>3, BoundedInduction

LEMMA PresentIsWritten ==
  ASSUME NEW fs, Numbered(fs), NEW m
  PROVE  AreWritten(Present(fs, m), fs, m, Len(fs))
<1>1. Len(fs) \in 0 .. Len(fs)
  BY DEF Numbered
<1>2. PICK acc : IsPresentTable(acc, fs, m)
  BY PresentTable
<1>3. AreWritten(acc[Len(fs)], fs, m, Len(fs))
  BY <1>1, <1>2, TableIsWritten
<1> QED BY <1>2, <1>3 DEF IsPresentTable

(***************************************************************************)
(* What the first bytes of a message say: the message up to some field.    *)
(***************************************************************************)
LEMMA PrefixInTable ==
  ASSUME NEW fs, Numbered(fs), NEW m, NEW acc, IsPresentTable(acc, fs, m)
  PROVE  \A n \in 0 .. Len(fs) : \A k \in 0 .. Len(acc[n]) :
           \E i \in 0 .. n : SubSeq(acc[n], 1, k) = acc[i]
<1> DEFINE Has(n) == \A k \in 0 .. Len(acc[n]) :
                       \E i \in 0 .. n : SubSeq(acc[n], 1, k) = acc[i]
<1>0. Len(fs) \in Nat
  BY DEF Numbered
<1>1. PICK T : T = {n \in 0 .. Len(fs) : Has(n)}
  OBVIOUS
<1>2. 0 \in T
  <2>1. acc[0] = <<>> /\ Len(<<>>) = 0
    BY DEF IsPresentTable
  <2>2. \A k \in 0 .. 0 : SubSeq(<<>>, 1, k) = <<>>
    OBVIOUS
  <2>3. 0 \in 0 .. 0
    OBVIOUS
  <2>4. Has(0)
    BY <2>1, <2>2, <2>3
  <2> QED BY <1>0, <1>1, <2>4
<1>3. ASSUME NEW n \in 0 .. Len(fs) - 1, n \in T PROVE n + 1 \in T
  <2>1. n + 1 \in 1 .. Len(fs) /\ (n + 1) - 1 = n /\ n \in 0 .. Len(fs)
    BY <1>0
  <2>2. acc[n + 1] = IF m[fs[n + 1]] = Default(fs[n + 1]) THEN acc[n]
                     ELSE Append(acc[n], fs[n + 1])
    BY <2>1 DEF IsPresentTable
  <2>3. Has(n)
    BY <1>1, <1>3
  <2>4. ASSUME NEW k \in 0 .. Len(acc[n + 1])
        PROVE  \E i \in 0 .. n + 1 : SubSeq(acc[n + 1], 1, k) = acc[i]
    <3>1. CASE m[fs[n + 1]] = Default(fs[n + 1])
      <4>1. PICK i \in 0 .. n : SubSeq(acc[n], 1, k) = acc[i]
        BY <2>2, <2>3, <3>1
      <4> QED BY <2>2, <3>1, <4>1
    <3>2. CASE m[fs[n + 1]] # Default(fs[n + 1])
      <4>1. acc[n] \in Seq(FieldName) /\ acc[n + 1] \in Seq(FieldName)
        <5>1. n + 1 \in 0 .. Len(fs)
          BY <2>1
        <5> QED BY <2>1, <5>1, TableIsWritten DEF AreWritten, Numbered
      <4>2. PICK p, q : p = acc[n] /\ q = acc[n + 1]
        OBVIOUS
      <4>3. q = Append(p, fs[n + 1]) /\ fs[n + 1] \in FieldName
        BY <2>1, <2>2, <3>2, <4>2 DEF Numbered
      <4>4. /\ Len(q) = Len(p) + 1 /\ Len(p) \in Nat
            /\ \A j \in 1 .. Len(p) : q[j] = p[j]
        BY <4>1, <4>2, <4>3
      <4>5. CASE k = Len(q)
        <5>1. SubSeq(q, 1, k) = q
          BY <4>1, <4>2, <4>5
        <5> QED BY <2>1, <4>2, <5>1
      <4>6. CASE k # Len(q)
        <5>1. k \in 0 .. Len(p)
          BY <4>2, <4>4, <4>6
        <5>2. SubSeq(q, 1, k) = SubSeq(p, 1, k)
          BY <4>1, <4>2, <4>4, <5>1
        <5>3. PICK i \in 0 .. n : SubSeq(p, 1, k) = acc[i]
          BY <2>3, <4>2, <5>1
        <5> QED BY <4>2, <5>2, <5>3
      <4> QED BY <4>5, <4>6
    <3> QED BY <3>1, <3>2
  <2> QED BY <1>0, <1>1, <2>1, <2>4
<1> QED BY <1>0, <1>1, <1>2, <1>3, BoundedInduction

LEMMA UptoFacts ==
  ASSUME NEW fs, Numbered(fs), NEW m, NEW n \in 0 .. Len(fs)
  PROVE  /\ IsMessage(fs, Upto(fs, m, n))
         /\ \A i \in 1 .. Len(fs) :
              Upto(fs, m, n)[fs[i]] = IF i <= n THEN m[fs[i]] ELSE Default(fs[i])
<1>1. Len(fs) \in Nat /\ DOMAIN fs = 1 .. Len(fs)
  BY DEF Numbered
<1>2. ASSUME NEW i \in 1 .. Len(fs)
      PROVE  Upto(fs, m, n)[fs[i]] = IF i <= n THEN m[fs[i]] ELSE Default(fs[i])
  <2>1. fs[i] \in ToSet(fs)
    BY <1>1 DEF ToSet
  <2>2. (\E j \in 1 .. n : fs[j] = fs[i]) <=> i <= n
    <3>1. \A j \in 1 .. n : j \in 1 .. Len(fs)
      BY <1>1
    <3>2. i <= n => i \in 1 .. n
      BY <1>1
    <3> QED BY <1>1, <3>1, <3>2 DEF Numbered
  <2> QED BY <2>1, <2>2 DEF Upto
<1> QED BY <1>2 DEF IsMessage, Upto

LEMMA PresentUpto ==
  ASSUME NEW fs, Numbered(fs), NEW m, NEW acc, IsPresentTable(acc, fs, m),
         NEW n \in 0 .. Len(fs)
  PROVE  Present(fs, Upto(fs, m, n)) = acc[n]
<1>0. Len(fs) \in Nat
  BY DEF Numbered
<1>1. PICK r : r = Upto(fs, m, n)
  OBVIOUS
<1>2. \A i \in 1 .. Len(fs) : r[fs[i]] = IF i <= n THEN m[fs[i]] ELSE Default(fs[i])
  BY <1>1, UptoFacts
<1>3. PICK tab : IsPresentTable(tab, fs, r)
  BY PresentTable
<1>4. PICK T : T = {i \in 0 .. Len(fs) : tab[i] = acc[IF i <= n THEN i ELSE n]}
  OBVIOUS
<1>5. 0 \in T
  BY <1>0, <1>3, <1>4 DEF IsPresentTable
<1>6. ASSUME NEW i \in 0 .. Len(fs) - 1, i \in T PROVE i + 1 \in T
  <2>1. i + 1 \in 1 .. Len(fs) /\ (i + 1) - 1 = i /\ i + 1 \in 0 .. Len(fs)
    BY <1>0
  <2>2. PICK f : f = fs[i + 1]
    OBVIOUS
  <2>3. /\ tab[i + 1] = IF r[f] = Default(f) THEN tab[i] ELSE Append(tab[i], f)
        /\ acc[i + 1] = IF m[f] = Default(f) THEN acc[i] ELSE Append(acc[i], f)
    BY <1>3, <2>1, <2>2 DEF IsPresentTable
  <2>4. r[f] = IF i + 1 <= n THEN m[f] ELSE Default(f)
    BY <1>2, <2>1, <2>2
  <2>5. tab[i] = acc[IF i <= n THEN i ELSE n]
    BY <1>4, <1>6
  <2>6. tab[i + 1] = acc[IF i + 1 <= n THEN i + 1 ELSE n]
    <3>1. CASE i + 1 <= n
      BY <1>0, <2>3, <2>4, <2>5, <3>1
    <3>2. CASE ~(i + 1 <= n)
      <4>1. i <= n => i = n
        BY <1>0, <3>2
      <4> QED BY <2>3, <2>4, <2>5, <3>2, <4>1
    <3> QED BY <3>1, <3>2
  <2> QED BY <1>4, <2>1, <2>6
<1>7. Len(fs) \in T
  <2>1. 0 .. Len(fs) \subseteq T
    BY <1>0, <1>5, <1>6, BoundedInduction
  <2> QED BY <1>0, <2>1
<1>8. tab[Len(fs)] = acc[n]
  BY <1>0, <1>4, <1>7
<1> QED BY <1>1, <1>3, <1>8 DEF IsPresentTable

EncodedField(f, v) == [field |-> f, value |-> v, size |-> FieldSize(f, v)]

LEMMA Encoded ==
  ASSUME NEW fs, Numbered(fs), NEW m, NEW p, p = Present(fs, m)
  PROVE  /\ p \in Seq(FieldName) /\ Len(p) \in Nat
         /\ Encode(fs, m) = [i \in 1 .. Len(p) |-> Encode(fs, m)[i]]
         /\ \A i \in 1 .. Len(p) : Encode(fs, m)[i] = EncodedField(p[i], m[p[i]])
         /\ Len(Encode(fs, m)) = Len(p)
         /\ DOMAIN Encode(fs, m) = 1 .. Len(p)
<1>1. p \in Seq(FieldName)
  BY PresentIsWritten DEF AreWritten, Numbered
<1>2. DOMAIN p = 1 .. Len(p) /\ Len(p) \in Nat
  BY <1>1
<1>3. Encode(fs, m) = [i \in 1 .. Len(p) |-> EncodedField(p[i], m[p[i]])]
  BY <1>2 DEF Encode, EncodedField
<1>4. PICK b : b = Encode(fs, m)
  OBVIOUS
<1>5. /\ DOMAIN b = 1 .. Len(p) /\ Len(b) = Len(p)
      /\ b = [i \in 1 .. Len(p) |-> b[i]]
      /\ \A i \in 1 .. Len(p) : b[i] = EncodedField(p[i], m[p[i]])
  BY <1>2, <1>3, <1>4
<1> QED BY <1>1, <1>2, <1>4, <1>5

LEMMA PrefixesAreMessages ==
  ASSUME NEW fs, Numbered(fs), NEW m, NEW k \in 0 .. Len(Encode(fs, m))
  PROVE  \E n \in 0 .. Len(fs) :
           SubSeq(Encode(fs, m), 1, k) = Encode(fs, Upto(fs, m, n))
<1>0. Len(fs) \in Nat /\ DOMAIN fs = 1 .. Len(fs)
  BY DEF Numbered
<1>1. PICK acc : IsPresentTable(acc, fs, m)
  BY PresentTable
<1>2. PICK p : p = Present(fs, m)
  OBVIOUS
<1>3. /\ p \in Seq(FieldName) /\ k \in 0 .. Len(p) /\ Len(p) \in Nat
      /\ Len(fs) \in 0 .. Len(fs)
  <2>1. p \in Seq(FieldName) /\ Len(Encode(fs, m)) = Len(p) /\ Len(p) \in Nat
    BY <1>2, Encoded
  <2> QED BY <1>0, <2>1
<1>4. PICK n \in 0 .. Len(fs) : SubSeq(p, 1, k) = acc[n]
  <2>1. p = acc[Len(fs)]
    BY <1>1, <1>2 DEF IsPresentTable
  <2>2. \A j \in 0 .. Len(acc[Len(fs)]) :
          \E i \in 0 .. Len(fs) : SubSeq(acc[Len(fs)], 1, j) = acc[i]
    <3>1. \A n \in 0 .. Len(fs) : \A j \in 0 .. Len(acc[n]) :
            \E i \in 0 .. n : SubSeq(acc[n], 1, j) = acc[i]
      BY <1>1, PrefixInTable
    <3> QED BY <1>3, <3>1
  <2> QED BY <1>3, <2>1, <2>2
<1>5. PICK r : r = Upto(fs, m, n)
  OBVIOUS
<1>6. PICK q : q = Present(fs, r) /\ q = SubSeq(p, 1, k)
  BY <1>1, <1>4, <1>5, PresentUpto
<1>7. Len(q) = k /\ \A j \in 1 .. k : q[j] = p[j] /\ j \in 1 .. Len(p)
  BY <1>3, <1>6
<1>8. ASSUME NEW j \in 1 .. k PROVE r[p[j]] = m[p[j]]
  <2>1. AreWritten(q, fs, r, Len(fs))
    BY <1>6, PresentIsWritten
  <2>2. q[j] = p[j] /\ q[j] \in FieldName
    BY <1>7, <2>1 DEF AreWritten, Numbered
  <2>3. PICK i \in 1 .. Len(fs) : fs[i] = p[j] /\ r[p[j]] # Default(p[j])
    BY <1>7, <2>1, <2>2 DEF AreWritten
  <2> QED BY <1>5, <2>3, UptoFacts
<1>9. PICK b, c : b = Encode(fs, m) /\ c = Encode(fs, r)
  OBVIOUS
<1>10. /\ b = [i \in 1 .. Len(p) |-> b[i]] /\ Len(b) = Len(p)
       /\ \A i \in 1 .. Len(p) : b[i] = EncodedField(p[i], m[p[i]])
  BY <1>2, <1>9, Encoded
<1>11. SubSeq(b, 1, k) = [i \in 1 .. k |-> b[i]]
  BY <1>3, <1>10
<1>12. /\ c = [i \in 1 .. k |-> c[i]]
       /\ \A i \in 1 .. k : c[i] = EncodedField(q[i], r[q[i]])
  <2>1. q = Present(fs, r)
    BY <1>6
  <2>2. /\ c = [i \in 1 .. Len(q) |-> c[i]]
        /\ \A i \in 1 .. Len(q) : c[i] = EncodedField(q[i], r[q[i]])
    BY <1>9, <2>1, Encoded
  <2> QED BY <1>7, <2>2
<1>13. \A i \in 1 .. k : c[i] = b[i]
  BY <1>7, <1>8, <1>10, <1>12
<1>14. c = SubSeq(b, 1, k)
  BY <1>11, <1>12, <1>13
<1> QED BY <1>5, <1>9, <1>14

(***************************************************************************)
(* Reading a message gives the message back.                               *)
(***************************************************************************)
LEMMA FieldIsRead ==
  ASSUME NEW fs, Numbered(fs), NEW m, NEW f \in ToSet(fs)
  PROVE  ParseField(f, Default(f), Encode(fs, m)) = m[f]
<1>1. PICK p : p = Present(fs, m)
  OBVIOUS
<1>2. PICK b : b = Encode(fs, m)
  OBVIOUS
<1>3. /\ Len(p) \in Nat /\ DOMAIN b = 1 .. Len(p)
      /\ \A i \in 1 .. Len(p) : b[i] = EncodedField(p[i], m[p[i]])
  BY <1>1, <1>2, Encoded
<1>4. AreWritten(p, fs, m, Len(fs))
  BY <1>1, PresentIsWritten
<1>5. PICK acc :
        /\ acc[0] = Default(f)
        /\ \A i \in 1 .. Len(p) :
             acc[i] = IF b[i].field # f THEN acc[i - 1]
                      ELSE IF IsAny(f) THEN MergeAny(acc[i - 1], b[i].value)
                      ELSE b[i].value
        /\ ParseField(f, Default(f), b) = acc[Len(p)]
  BY <1>3, Parsings DEF WithValue
<1>6. PICK T : T = {n \in 0 .. Len(p) :
                      acc[n] = IF \E j \in 1 .. n : p[j] = f THEN m[f] ELSE Default(f)}
  OBVIOUS
<1>7. 0 \in T
  <2>1. ~ \E j \in 1 .. 0 : p[j] = f
    OBVIOUS
  <2> QED BY <1>3, <1>5, <1>6, <2>1
<1>8. ASSUME NEW n \in 0 .. Len(p) - 1, n \in T PROVE n + 1 \in T
  <2>1. n + 1 \in 1 .. Len(p) /\ (n + 1) - 1 = n /\ n + 1 \in 0 .. Len(p)
    BY <1>3
  <2>2. b[n + 1].field = p[n + 1] /\ b[n + 1].value = m[p[n + 1]]
    BY <1>3, <2>1 DEF EncodedField
  <2>3. \A j \in 1 .. n : j \in 1 .. n + 1 /\ j \in 1 .. Len(p) /\ j # n + 1
    BY <1>3
  <2>4. \A j \in 1 .. n + 1 : j \in 1 .. n \/ j = n + 1
    OBVIOUS
  <2>5. acc[n + 1] = IF b[n + 1].field # f THEN acc[n]
                     ELSE IF IsAny(f) THEN MergeAny(acc[n], b[n + 1].value)
                     ELSE b[n + 1].value
    BY <1>5, <2>1
  <2>6. acc[n] = IF \E j \in 1 .. n : p[j] = f THEN m[f] ELSE Default(f)
    BY <1>6, <1>8
  <2>7. CASE p[n + 1] # f
    <3>1. (\E j \in 1 .. n + 1 : p[j] = f) <=> \E j \in 1 .. n : p[j] = f
      BY <2>3, <2>4, <2>7
    <3> QED BY <1>6, <2>1, <2>2, <2>5, <2>6, <2>7, <3>1
  <2>8. CASE p[n + 1] = f
    <3>1. ~ \E j \in 1 .. n : p[j] = f
      BY <1>4, <2>1, <2>3, <2>8 DEF AreWritten, Numbered
    <3>2. acc[n + 1] = m[f]
      <4>1. IsAny(f) => MergeAny(Default(f), m[f]) = m[f]
        BY DEF MergeAny, Default, IsAny, IsEnum
      <4> QED BY <2>2, <2>5, <2>6, <2>8, <3>1, <4>1
    <3>3. n + 1 \in 1 .. n + 1
      BY <2>1
    <3> QED BY <1>6, <2>1, <2>8, <3>2, <3>3
  <2> QED BY <2>7, <2>8
<1>9. Len(p) \in T
  <2>1. 0 .. Len(p) \subseteq T
    BY <1>3, <1>7, <1>8, BoundedInduction
  <2> QED BY <1>3, <2>1
<1>10. acc[Len(p)] = IF \E j \in 1 .. Len(p) : p[j] = f THEN m[f] ELSE Default(f)
  BY <1>6, <1>9
<1>11. (\E j \in 1 .. Len(p) : p[j] = f) <=> m[f] # Default(f)
  <2>1. PICK i \in 1 .. Len(fs) : fs[i] = f /\ f \in FieldName
    BY DEF ToSet, Numbered
  <2> QED BY <1>4, <2>1 DEF AreWritten
<1> QED BY <1>2, <1>5, <1>10, <1>11

LEMMA RoundTrip ==
  ASSUME NEW fs, Numbered(fs), NEW m, IsMessage(fs, m),
         NEW new, new = [f \in ToSet(fs) |-> Default(f)]
  PROVE  ParseInto(new, Encode(fs, m)) = m
<1>1. ParseInto(new, Encode(fs, m)) =
        [f \in ToSet(fs) |-> ParseField(f, Default(f), Encode(fs, m))]
  BY DEF ParseInto
<1>2. \A f \in ToSet(fs) : ParseField(f, Default(f), Encode(fs, m)) = m[f]
  BY FieldIsRead
<1> QED BY <1>1, <1>2 DEF IsMessage

(* It parses if its strings are UTF-8.                                     *)
LEMMA Utf8Parses ==
  ASSUME NEW fs, Numbered(fs), "torn" \notin ToSet(fs), NEW m
  PROVE  Parses(Encode(fs, m)) <=>
           \A f \in ToSet(fs) : IsString(f) => m[f].utf8
<1>1. PICK p : p = Present(fs, m)
  OBVIOUS
<1>2. PICK b : b = Encode(fs, m)
  OBVIOUS
<1>3. /\ DOMAIN b = 1 .. Len(p) /\ p \in Seq(FieldName)
      /\ \A i \in 1 .. Len(p) : b[i] = EncodedField(p[i], m[p[i]])
  BY <1>1, <1>2, Encoded
<1>4. \A f \in ToSet(fs) : f \in FieldName /\ \E i \in 1 .. Len(fs) : fs[i] = f
  BY DEF ToSet, Numbered
<1>5. \A f \in FieldName :
        (\E j \in 1 .. Len(p) : p[j] = f) <=> f \in ToSet(fs) /\ m[f] # Default(f)
  <2>1. \A f \in FieldName : (\E i \in 1 .. Len(fs) : fs[i] = f) <=> f \in ToSet(fs)
    BY DEF ToSet, Numbered
  <2> QED BY <1>1, <2>1, PresentIsWritten DEF AreWritten
<1>6. Parses(b) <=> \A j \in 1 .. Len(p) :
                      p[j] # "torn" /\ (IsString(p[j]) => m[p[j]].utf8)
  BY <1>3 DEF Parses, EncodedField
<1>7. \A f : IsString(f) => Default(f).utf8
  BY DEF IsString, Default, Empty
<1>8. \A j \in 1 .. Len(p) : p[j] \in FieldName
  BY <1>3
<1>9. ASSUME \A f \in ToSet(fs) : IsString(f) => m[f].utf8
      PROVE  Parses(b)
  BY <1>5, <1>6, <1>8, <1>9
<1>10. ASSUME Parses(b), NEW f \in ToSet(fs), IsString(f)
       PROVE  m[f].utf8
  <2>1. CASE m[f] = Default(f)
    BY <1>7, <1>10, <2>1
  <2>2. CASE m[f] # Default(f)
    <3>1. PICK j \in 1 .. Len(p) : p[j] = f
      BY <1>4, <1>5, <2>2
    <3> QED BY <1>6, <1>10, <3>1
  <2> QED BY <2>1, <2>2
<1> QED BY <1>2, <1>9, <1>10
-----------------------------------------------------------------------------
(***************************************************************************)
(* Sizes: that of the bytes is the one computed beforehand, and it is the  *)
(* sum of what each field costs.                                           *)
(***************************************************************************)
LEMMA SizeIsComputed ==
  ASSUME NEW fs, Numbered(fs), NEW m
  PROVE  Size(Encode(fs, m)) = SizeOf(fs, m)
<1>1. PICK p : p = Present(fs, m)
  OBVIOUS
<1>2. PICK b : b = Encode(fs, m)
  OBVIOUS
<1>3. /\ p \in Seq(FieldName) /\ DOMAIN b = 1 .. Len(p)
      /\ \A i \in 1 .. Len(p) : b[i] = EncodedField(p[i], m[p[i]])
  BY <1>1, <1>2, Encoded
<1>4. DOMAIN p = 1 .. Len(p)
  BY <1>3
<1>5. \A i \in 1 .. Len(p) : b[i].size = FieldSize(p[i], m[p[i]])
  BY <1>3 DEF EncodedField
<1>6. [i \in DOMAIN b |-> b[i].size] = [i \in DOMAIN p |-> FieldSize(p[i], m[p[i]])]
  BY <1>3, <1>4, <1>5
<1> QED BY <1>1, <1>2, <1>6 DEF Size, SizeOf, SizeOfFields

Cost(f, v) == IF v = Default(f) THEN 0 ELSE FieldSize(f, v)

LEMMA OneFieldMore ==
  ASSUME NEW S, NEW p \in Seq(S), NEW f \in S, NEW q, q = Append(p, f)
  PROVE  /\ Len(p) \in Nat /\ DOMAIN p = 1 .. Len(p) /\ DOMAIN q = 1 .. Len(p) + 1
         /\ q[Len(p) + 1] = f /\ \A i \in 1 .. Len(p) : q[i] = p[i]
<1>1. /\ q \in Seq(S) /\ Len(q) = Len(p) + 1
      /\ \A i \in 1 .. Len(p) : q[i] = p[i]
      /\ q[Len(p) + 1] = f
  BY AppendProperties
<1>2. Len(p) \in Nat /\ DOMAIN p = 1 .. Len(p) /\ DOMAIN q = 1 .. Len(q)
  BY <1>1, LenProperties
<1> QED BY <1>1, <1>2

LEMMA SizeInTable ==
  ASSUME NEW fs, Numbered(fs), NEW m,
         \A f \in ToSet(fs) : Cost(f, m[f]) \in Nat,
         NEW acc, IsPresentTable(acc, fs, m), NEW n \in 0 .. Len(fs)
  PROVE  SizeOfFields(acc[n], m) \in Nat
<1>0. Len(fs) \in Nat /\ DOMAIN fs = 1 .. Len(fs)
  BY DEF Numbered
<1>1. \A k \in 0 .. Len(fs) : AreWritten(acc[k], fs, m, k)
  BY TableIsWritten
<1>2. PICK p : p = acc[n]
  OBVIOUS
<1>3. AreWritten(p, fs, m, n)
  BY <1>1, <1>2
<1>4. p \in Seq(FieldName) /\ Len(p) \in Nat /\ DOMAIN p = 1 .. Len(p)
  BY <1>3 DEF AreWritten, Numbered
<1>5. PICK s : s = [j \in 1 .. Len(p) |-> FieldSize(p[j], m[p[j]])]
  OBVIOUS
<1>6. SizeOfFields(p, m) = Total(s) /\ DOMAIN s = 1 .. Len(p)
  BY <1>4, <1>5 DEF SizeOfFields
<1>7. ASSUME NEW j \in 1 .. Len(p) PROVE s[j] \in Nat
  <2>1. p[j] \in FieldName
    BY <1>4
  <2>2. m[p[j]] # Default(p[j]) /\ \E i \in 1 .. n : fs[i] = p[j]
    BY <1>3, <2>1 DEF AreWritten
  <2>3. p[j] \in ToSet(fs)
    <3>1. PICK i \in 1 .. n : fs[i] = p[j]
      BY <2>2
    <3>2. i \in DOMAIN fs
      BY <1>0
    <3> QED BY <3>1, <3>2 DEF ToSet
  <2> QED BY <1>5, <2>2, <2>3 DEF Cost
<1>8. Total(s) \in Nat
  BY <1>4, <1>6, <1>7, TotalIsNat
<1> QED BY <1>2, <1>6, <1>8

LEMMA Costs ==
  ASSUME NEW fs, Numbered(fs), NEW m,
         \A f \in ToSet(fs) : Cost(f, m[f]) \in Nat
  PROVE  \E tab : /\ tab[0] = 0
                  /\ \A i \in 1 .. Len(fs) : tab[i] = tab[i - 1] + Cost(fs[i], m[fs[i]])
                  /\ SizeOf(fs, m) = tab[Len(fs)]
<1>0. Len(fs) \in Nat
  BY DEF Numbered
<1>1. PICK acc : IsPresentTable(acc, fs, m)
  BY PresentTable
<1>2. PICK tab : tab = [n \in 0 .. Len(fs) |-> SizeOfFields(acc[n], m)]
  OBVIOUS
<1>3. tab[0] = 0
  <2>1. acc[0] = <<>> /\ DOMAIN <<>> = 1 .. 0 /\ 0 \in Nat
    BY <1>1 DEF IsPresentTable
  <2>2. PICK s : s = [i \in 1 .. 0 |-> FieldSize(acc[0][i], m[acc[0][i]])]
    OBVIOUS
  <2>3. SizeOfFields(acc[0], m) = Total(s)
    BY <2>1, <2>2 DEF SizeOfFields
  <2>4. DOMAIN s = 1 .. 0
    BY <2>2
  <2>5. PICK a : a[0] = 0 /\ Total(s) = a[0]
    BY <2>1, <2>4, Totals
  <2> QED BY <1>0, <1>2, <2>3, <2>5
<1>4. ASSUME NEW n \in 1 .. Len(fs)
      PROVE  tab[n] = tab[n - 1] + Cost(fs[n], m[fs[n]])
  <2>0. n - 1 \in 0 .. Len(fs) /\ n \in 0 .. Len(fs) /\ n - 1 \in 0 .. Len(fs) - 1
        /\ (n - 1) + 1 = n
    BY <1>0
  <2>1. PICK p, q, f : p = acc[n - 1] /\ q = acc[n] /\ f = fs[n]
    OBVIOUS
  <2>2. q = IF m[f] = Default(f) THEN p ELSE Append(p, f)
    BY <1>1, <2>1 DEF IsPresentTable
  <2>3. p \in Seq(FieldName) /\ f \in FieldName
    <3>1. \A k \in 0 .. Len(fs) : AreWritten(acc[k], fs, m, k)
      BY <1>1, TableIsWritten
    <3>2. AreWritten(p, fs, m, n - 1)
      BY <2>0, <2>1, <3>1
    <3> QED BY <2>1, <3>2 DEF AreWritten, Numbered
  <2>4. tab[n - 1] = SizeOfFields(p, m) /\ tab[n] = SizeOfFields(q, m)
    BY <1>2, <2>0, <2>1
  <2>5. SizeOfFields(p, m) \in Nat
    BY <1>1, <2>0, <2>1, SizeInTable
  <2>6. CASE m[f] = Default(f)
    BY <2>1, <2>2, <2>4, <2>5, <2>6 DEF Cost
  <2>7. CASE m[f] # Default(f)
    <3>1. PICK s, t : /\ s = [i \in 1 .. Len(p) |-> FieldSize(p[i], m[p[i]])]
                      /\ t = [i \in 1 .. Len(p) + 1 |-> FieldSize(q[i], m[q[i]])]
      OBVIOUS
    <3>0. q = Append(p, f)
      BY <2>2, <2>7
    <3>2. /\ Len(p) \in Nat /\ DOMAIN p = 1 .. Len(p) /\ DOMAIN q = 1 .. Len(p) + 1
          /\ q[Len(p) + 1] = f /\ \A i \in 1 .. Len(p) : q[i] = p[i]
      BY <2>3, <3>0, OneFieldMore
    <3>3. Total(s) = SizeOfFields(p, m) /\ Total(t) = SizeOfFields(q, m)
      BY <3>1, <3>2 DEF SizeOfFields
    <3>4. /\ DOMAIN s = 1 .. Len(p) /\ DOMAIN t = 1 .. Len(p) + 1
          /\ \A i \in 1 .. Len(p) : i \in 1 .. Len(p) + 1
          /\ Len(p) + 1 \in 1 .. Len(p) + 1
      BY <3>1, <3>2
    <3>5. t[Len(p) + 1] = FieldSize(f, m[f]) /\ \A i \in 1 .. Len(p) : t[i] = s[i]
      BY <3>1, <3>2, <3>4
    <3>6. Total(t) = Total(s) + t[Len(p) + 1]
      BY <3>2, <3>4, <3>5, TotalOfMore
    <3> QED BY <2>1, <2>4, <2>7, <3>3, <3>5, <3>6 DEF Cost
  <2> QED BY <2>6, <2>7
<1>5. SizeOf(fs, m) = tab[Len(fs)]
  BY <1>0, <1>1, <1>2 DEF SizeOf, IsPresentTable
<1> QED BY <1>3, <1>4, <1>5
-----------------------------------------------------------------------------
(***************************************************************************)
(* A size that is cut: what is left is the message up to some field, or it *)
(* ends with a field that does not parse.                                  *)
(***************************************************************************)
LEMMA NothingIsEmpty == Size(<<>>) = 0
<1>1. PICK s : s = [i \in DOMAIN <<>> |-> <<>>[i].size]
  OBVIOUS
<1>2. DOMAIN s = 1 .. 0 /\ 0 \in Nat
  BY <1>1
<1>3. PICK a : a[0] = 0 /\ Total(s) = a[0]
  BY <1>2, Totals
<1> QED BY <1>1, <1>3 DEF Size

Torn(n) == [field |-> "torn", value |-> 0, size |-> n]

LEMMA LastOfInterval == \A len \in Nat : \A k \in 0 .. len : len <= k => k = len
  OBVIOUS

LEMMA CutAt ==
  ASSUME NEW bytes, Len(bytes) \in Nat,
         SubSeq(bytes, 1, 0) = <<>>, SubSeq(bytes, 1, Len(bytes)) = bytes,
         \A k \in 0 .. Len(bytes) : Size(SubSeq(bytes, 1, k)) \in Nat,
         NEW n \in Nat
  PROVE  \E k, head :
           /\ k \in 0 .. Len(bytes)
           /\ head = SubSeq(bytes, 1, k) /\ Size(head) \in Nat /\ Size(head) <= n
           /\ Size(bytes) <= n => k = Len(bytes)
           /\ Cut(bytes, n) = IF Size(head) = n \/ head = bytes THEN head
                              ELSE Append(head, Torn(n - Size(head)))
<1>1. PICK size : size = [k \in 0 .. Len(bytes) |-> Size(SubSeq(bytes, 1, k))]
  OBVIOUS
<1>2. PICK K : K = {k \in 0 .. Len(bytes) : size[k] <= n}
  OBVIOUS
<1>3. 0 \in K
  <2>1. 0 \in 0 .. Len(bytes) /\ size[0] = Size(<<>>)
    BY <1>1
  <2>2. size[0] <= n
    BY <2>1, NothingIsEmpty
  <2> QED BY <1>2, <2>1, <2>2
<1>4. PICK k : k = Max(K)
  OBVIOUS
<1>5. k \in K /\ \A j \in K : j <= k
  <2>1. K \in SUBSET (0 .. Len(bytes)) /\ K # {}
    BY <1>2, <1>3
  <2> QED BY <1>4, <2>1, Greatest
<1>6. PICK head : head = SubSeq(bytes, 1, k)
  OBVIOUS
<1>7. k \in 0 .. Len(bytes) /\ Size(head) <= n /\ Size(head) \in Nat
  BY <1>1, <1>2, <1>5, <1>6
<1>8. Size(bytes) <= n => k = Len(bytes)
  <2>1. SUFFICES ASSUME Size(bytes) <= n PROVE k = Len(bytes)
    OBVIOUS
  <2>2. Len(bytes) \in 0 .. Len(bytes) /\ size[Len(bytes)] <= n
    BY <1>1, <2>1
  <2>3. Len(bytes) \in K
    BY <1>2, <2>2
  <2>4. Len(bytes) <= k
    BY <1>5, <2>3
  <2> QED BY <1>7, <2>4, LastOfInterval
<1>9. K = {j \in 0 .. Len(bytes) : Size(SubSeq(bytes, 1, j)) <= n}
  BY <1>1, <1>2
<1>10. Cut(bytes, n) = IF n - Size(head) = 0 \/ head = bytes THEN head
                       ELSE Append(head, Torn(n - Size(head)))
  BY <1>4, <1>6, <1>9 DEF Cut, Torn
<1>11. n - Size(head) = 0 <=> Size(head) = n
  BY <1>7
<1> QED BY <1>6, <1>7, <1>8, <1>10, <1>11

(* A message whose costs are numbers, and what is read of it when its      *)
(* bytes are cut after n: all of it, if that is not less than its size;    *)
(* the message up to some field, of n bytes; or what does not parse.       *)
LEMMA EncodingFacts ==
  ASSUME NEW fs, Numbered(fs), NEW m, NEW bytes, bytes = Encode(fs, m)
  PROVE  /\ Len(bytes) \in Nat /\ DOMAIN bytes = 1 .. Len(bytes)
         /\ SubSeq(bytes, 1, 0) = <<>>
         /\ SubSeq(bytes, 1, Len(bytes)) = bytes
<1>1. PICK p : p = Present(fs, m)
  OBVIOUS
<1>2. /\ Len(p) \in Nat /\ bytes = [i \in 1 .. Len(p) |-> bytes[i]]
      /\ Len(bytes) = Len(p) /\ DOMAIN bytes = 1 .. Len(p)
  BY <1>1, Encoded
<1>3. PICK len : /\ len = Len(bytes) /\ len \in Nat
                 /\ bytes = [i \in 1 .. len |-> bytes[i]]
  BY <1>2
<1>4. SubSeq(bytes, 1, len) = bytes
  <2>1. SubSeq(bytes, 1, len) = [i \in 1 .. len |-> bytes[i]]
    BY <1>3
  <2> QED BY <1>3, <2>1
<1> QED BY <1>2, <1>3, <1>4

LEMMA SizeIsNat ==
  ASSUME NEW fs, Numbered(fs), NEW m, \A f \in ToSet(fs) : Cost(f, m[f]) \in Nat
  PROVE  SizeOf(fs, m) \in Nat
<1>1. PICK acc : IsPresentTable(acc, fs, m)
  BY PresentTable
<1>2. Len(fs) \in 0 .. Len(fs)
  BY DEF Numbered
<1>3. SizeOfFields(acc[Len(fs)], m) \in Nat
  BY <1>1, <1>2, SizeInTable
<1> QED BY <1>1, <1>3 DEF SizeOf, IsPresentTable

LEMMA UptoCosts ==
  ASSUME NEW fs, Numbered(fs), NEW m, NEW n \in 0 .. Len(fs),
         \A f \in ToSet(fs) : Cost(f, m[f]) \in Nat
  PROVE  \A f \in ToSet(fs) : Cost(f, Upto(fs, m, n)[f]) \in Nat
<1>1. \A f \in ToSet(fs) : Upto(fs, m, n)[f] \in {m[f], Default(f)}
  BY DEF Upto
<1> QED BY <1>1 DEF Cost

Measured(fs, m) ==
  \A f \in ToSet(fs) : m[f] # Default(f) => FieldSize(f, m[f]) \in Nat \ {0}

LEMMA MeasuredCosts ==
  ASSUME NEW fs, NEW m, Measured(fs, m)
  PROVE  \A f \in ToSet(fs) : Cost(f, m[f]) \in Nat
  BY DEF Measured, Cost

LEMMA NoSizeNoFields ==
  ASSUME NEW fs, Numbered(fs), NEW m, Measured(fs, m), SizeOf(fs, m) = 0
  PROVE  Len(Encode(fs, m)) = 0
<1>1. PICK p : p = Present(fs, m)
  OBVIOUS
<1>2. p \in Seq(FieldName) /\ Len(p) \in Nat /\ Len(Encode(fs, m)) = Len(p)
  BY <1>1, Encoded
<1>3. PICK s : s = [j \in 1 .. Len(p) |-> FieldSize(p[j], m[p[j]])]
  OBVIOUS
<1>4. DOMAIN p = 1 .. Len(p) /\ DOMAIN s = 1 .. Len(p)
  BY <1>2, <1>3
<1>5. ASSUME NEW j \in 1 .. Len(p) PROVE s[j] \in Nat \ {0}
  <2>0. AreWritten(p, fs, m, Len(fs))
    BY <1>1, PresentIsWritten
  <2>1. p[j] \in FieldName
    BY <1>2
  <2>2. m[p[j]] # Default(p[j]) /\ \E i \in 1 .. Len(fs) : fs[i] = p[j]
    BY <2>0, <2>1 DEF AreWritten
  <2>3. p[j] \in ToSet(fs)
    BY <2>2 DEF ToSet, Numbered
  <2> QED BY <1>3, <2>2, <2>3 DEF Measured
<1>6. Total(s) >= Len(p)
  BY <1>2, <1>4, <1>5, TotalIsLarge
<1>7. SizeOf(fs, m) = Total(s)
  BY <1>1, <1>3, <1>4 DEF SizeOf, SizeOfFields
<1> QED BY <1>2, <1>6, <1>7

LEMMA CutMessage ==
  ASSUME NEW fs, Numbered(fs), "torn" \notin ToSet(fs), NEW m, IsMessage(fs, m),
         Measured(fs, m), NEW n \in Nat,
         NEW bytes, bytes = Cut(Encode(fs, m), n)
  PROVE  /\ SizeOf(fs, m) <= n => bytes = Encode(fs, m)
         /\ Parses(bytes) =>
              \E k \in 0 .. Len(fs) :
                /\ bytes = Encode(fs, Upto(fs, m, k))
                /\ SizeOf(fs, Upto(fs, m, k)) <= n
         /\ n = 0 => Parses(bytes)
<1>1. PICK all : all = Encode(fs, m)
  OBVIOUS
<1>2. /\ Len(all) \in Nat /\ DOMAIN all = 1 .. Len(all)
      /\ SubSeq(all, 1, 0) = <<>> /\ SubSeq(all, 1, Len(all)) = all
  BY <1>1, EncodingFacts
<1>3. ASSUME NEW k \in 0 .. Len(all)
      PROVE  \E j \in 0 .. Len(fs) :
               /\ SubSeq(all, 1, k) = Encode(fs, Upto(fs, m, j))
               /\ Size(SubSeq(all, 1, k)) = SizeOf(fs, Upto(fs, m, j))
               /\ SizeOf(fs, Upto(fs, m, j)) \in Nat
  <2>1. PICK j \in 0 .. Len(fs) : SubSeq(all, 1, k) = Encode(fs, Upto(fs, m, j))
    BY <1>1, <1>3, PrefixesAreMessages
  <2>2. Size(Encode(fs, Upto(fs, m, j))) = SizeOf(fs, Upto(fs, m, j))
    BY SizeIsComputed
  <2>3. SizeOf(fs, Upto(fs, m, j)) \in Nat
    BY MeasuredCosts, UptoCosts, SizeIsNat
  <2> QED BY <2>1, <2>2, <2>3
<1>4. \A k \in 0 .. Len(all) : Size(SubSeq(all, 1, k)) \in Nat
  BY <1>3
<1>5. PICK k, head :
        /\ k \in 0 .. Len(all)
        /\ head = SubSeq(all, 1, k) /\ Size(head) \in Nat /\ Size(head) <= n
        /\ Size(all) <= n => k = Len(all)
        /\ bytes = IF Size(head) = n \/ head = all THEN head
                   ELSE Append(head, Torn(n - Size(head)))
  <2>1. bytes = Cut(all, n)
    BY <1>1
  <2>2. \E k, head :
          /\ k \in 0 .. Len(all)
          /\ head = SubSeq(all, 1, k) /\ Size(head) \in Nat /\ Size(head) <= n
          /\ Size(all) <= n => k = Len(all)
          /\ Cut(all, n) = IF Size(head) = n \/ head = all THEN head
                           ELSE Append(head, Torn(n - Size(head)))
    BY <1>2, <1>4, CutAt
  <2> QED BY <2>1, <2>2
<1>6. SizeOf(fs, m) <= n => bytes = all
  <2>1. Size(all) = SizeOf(fs, m)
    BY <1>1, SizeIsComputed
  <2>2. Size(all) <= n => head = all
    BY <1>2, <1>5
  <2> QED BY <1>5, <2>1, <2>2
<1>7. PICK j \in 0 .. Len(fs) :
        /\ head = Encode(fs, Upto(fs, m, j))
        /\ Size(head) = SizeOf(fs, Upto(fs, m, j))
  BY <1>3, <1>5
<1>8. Parses(bytes) => bytes = head
  <2>1. SUFFICES ASSUME bytes = Append(head, Torn(n - Size(head))) PROVE ~Parses(bytes)
    BY <1>5
  <2>2. PICK last : last = Torn(n - Size(head))
    OBVIOUS
  <2>3. Len(head) \in Nat /\ DOMAIN head = 1 .. Len(head)
    BY <1>7, EncodingFacts
  <2>4. PICK S : head \in Seq(S) /\ last \in S
    <3>1. PICK S : S = {head[i] : i \in 1 .. Len(head)} \cup {last}
      OBVIOUS
    <3>2. PICK r : r = Upto(fs, m, j)
      OBVIOUS
    <3>3. PICK p : p = Present(fs, r)
      OBVIOUS
    <3>4. head = [i \in 1 .. Len(p) |-> head[i]] /\ Len(head) = Len(p)
      BY <1>7, <3>2, <3>3, Encoded
    <3>5. head = [i \in 1 .. Len(head) |-> head[i]]
      BY <3>4
    <3>6. head \in [1 .. Len(head) -> S]
      BY <3>1, <3>5
    <3>7. head \in Seq(S)
      BY <2>3, <3>6, SeqDef
    <3> QED BY <3>1, <3>7
  <2>5. bytes[Len(head) + 1] = last /\ Len(head) + 1 \in DOMAIN bytes
    <3>1. DOMAIN bytes = 1 .. Len(head) + 1 /\ bytes[Len(head) + 1] = last
      BY <2>1, <2>2, <2>4, OneFieldMore
    <3> QED BY <2>3, <3>1
  <2>6. last.field = "torn"
    BY <2>2 DEF Torn
  <2> QED BY <2>5, <2>6 DEF Parses
<1>9. n = 0 => Parses(bytes)
  <2>1. SUFFICES ASSUME n = 0 PROVE Parses(bytes)
    OBVIOUS
  <2>2. bytes = head /\ Size(head) = 0
    BY <1>5, <2>1
  <2>3. Measured(fs, Upto(fs, m, j))
    <3>1. \A f \in ToSet(fs) : Upto(fs, m, j)[f] \in {m[f], Default(f)}
      BY DEF Upto
    <3> QED BY <3>1 DEF Measured
  <2>4. Len(head) = 0 /\ DOMAIN head = 1 .. Len(head)
    <3>1. PICK q : q = Upto(fs, m, j)
      OBVIOUS
    <3>2. Measured(fs, q) /\ SizeOf(fs, q) = 0 /\ head = Encode(fs, q)
      BY <1>7, <2>2, <2>3, <3>1
    <3>3. Len(Encode(fs, q)) = 0
      BY <3>2, NoSizeNoFields
    <3>4. DOMAIN Encode(fs, q) = 1 .. Len(Encode(fs, q))
      BY EncodingFacts
    <3> QED BY <3>2, <3>3, <3>4
  <2> QED BY <2>2, <2>4 DEF Parses
<1> QED BY <1>1, <1>5, <1>6, <1>7, <1>8, <1>9
-----------------------------------------------------------------------------
(***************************************************************************)
(* The messages of RPCPacket.proto.                                        *)
(***************************************************************************)
LEMMA FieldsNumbered ==
  /\ Numbered(Fields) /\ Len(Fields) = 15 /\ "torn" \notin ToSet(Fields)
  /\ \A f \in ToSet(Fields) : \E i \in 1 .. 15 : Fields[i] = f
<1>1. Fields \in Seq(FieldName) /\ Len(Fields) = 15 /\ DOMAIN Fields = 1 .. 15
  <2>1. Len(Fields) = 15
    BY DEF Fields
  <2>2. Fields = [i \in 1 .. 15 |-> Fields[i]]
    BY DEF Fields
  <2>3. \A i \in 1 .. 15 : Fields[i] \in FieldName
    BY <2>2 DEF FieldName, ToSet
  <2>4. Fields \in [1 .. 15 -> FieldName]
    BY <2>2, <2>3
  <2> QED BY <2>1, <2>4, SeqDef
<1>2. /\ Fields[1] = "type" /\ Fields[2] = "error" /\ Fields[3] = "status"
      /\ Fields[4] = "from" /\ Fields[5] = "to" /\ Fields[6] = "inner_id"
      /\ Fields[7] = "created_time" /\ Fields[8] = "post_time"
      /\ Fields[9] = "commited_time" /\ Fields[10] = "completed_time"
      /\ Fields[11] = "failed_time" /\ Fields[12] = "request_id"
      /\ Fields[13] = "service" /\ Fields[14] = "parameters"
      /\ Fields[15] = "result"
  BY DEF Fields
<1>3. \A i \in 1 .. 15 :
        \/ i = 1 \/ i = 2 \/ i = 3 \/ i = 4 \/ i = 5 \/ i = 6 \/ i = 7 \/ i = 8
        \/ i = 9 \/ i = 10 \/ i = 11 \/ i = 12 \/ i = 13 \/ i = 14 \/ i = 15
  OBVIOUS
<1>4. ASSUME NEW i \in 1 .. 15, NEW j \in 1 .. 15, Fields[i] = Fields[j]
      PROVE  i = j
  BY <1>2, <1>3, <1>4
<1>5. \A i \in 1 .. 15 : Fields[i] # "torn"
  BY <1>2, <1>3
<1> QED BY <1>1, <1>4, <1>5 DEF Numbered, ToSet

LEMMA ParametersNumbered ==
  /\ Numbered(ParametersFields) /\ Len(ParametersFields) = 2
  /\ "torn" \notin ToSet(ParametersFields)
  /\ ToSet(ParametersFields) = {"name", "message"}
  /\ ParametersFields[1] = "name" /\ ParametersFields[2] = "message"
<1>1. /\ ParametersFields \in Seq(FieldName) /\ Len(ParametersFields) = 2
      /\ DOMAIN ParametersFields = 1 .. 2
      /\ ParametersFields[1] = "name" /\ ParametersFields[2] = "message"
  <2>1. ParametersFields \in Seq(FieldName)
    <3>1. ParametersFields = <<"name", "message">>
      BY DEF ParametersFields
    <3>2. PICK a, b \in FieldName : a = "name" /\ b = "message"
      BY DEF FieldName
    <3> QED BY <3>1, <3>2
  <2>2. Len(ParametersFields) = 2
    BY DEF ParametersFields
  <2>3. ParametersFields[1] = "name" /\ ParametersFields[2] = "message"
    BY DEF ParametersFields
  <2> QED BY <2>1, <2>2, <2>3
<1>2. \A i \in 1 .. 2 : i = 1 \/ i = 2
  OBVIOUS
<1> QED BY <1>1, <1>2 DEF Numbered, ToSet

LEMMA ResultNumbered ==
  /\ Numbered(ResultFields) /\ Len(ResultFields) = 1
  /\ "torn" \notin ToSet(ResultFields)
  /\ ToSet(ResultFields) = {"message"} /\ ResultFields[1] = "message"
<1>1. /\ ResultFields \in Seq(FieldName) /\ Len(ResultFields) = 1
      /\ DOMAIN ResultFields = 1 .. 1 /\ ResultFields[1] = "message"
  <2>1. ResultFields \in Seq(FieldName)
    <3>1. ResultFields = <<"message">>
      BY DEF ResultFields
    <3>2. PICK a \in FieldName : a = "message"
      BY DEF FieldName
    <3> QED BY <3>1, <3>2
  <2>2. Len(ResultFields) = 1
    BY DEF ResultFields
  <2>3. ResultFields[1] = "message"
    BY DEF ResultFields
  <2> QED BY <2>1, <2>2, <2>3
<1>2. \A i \in 1 .. 1 : i = 1
  OBVIOUS
<1> QED BY <1>1, <1>2 DEF Numbered, ToSet

LEMMA Varints ==
  ASSUME NEW n \in Nat
  PROVE  /\ VarintSize(n) \in 1 .. 5
         /\ Delimited(n) = VarintSize(n) + n /\ Delimited(n) \in Nat \ {0}
  BY DEF VarintSize, Delimited

(* The fields of the messages that an Any holds are strings.               *)
LEMMA TextCost ==
  ASSUME NEW f, IsString(f), NEW v \in Texts
  PROVE  /\ v.size \in Nat
         /\ FieldSize(f, v) = 1 + VarintSize(v.size) + v.size
         /\ FieldSize(f, v) \in Nat \ {0}
         /\ Cost(f, v) \in Nat /\ Cost(f, v) <= 6 + v.size
         /\ v # Empty => Cost(f, v) >= 2 + v.size
         /\ v = Empty => Cost(f, v) = 0 /\ v.size = 0
<1>1. v.size \in Nat
  BY DEF Texts
<1>2. FieldSize(f, v) = 1 + Delimited(v.size)
  BY DEF FieldSize, IsString
<1>3. Default(f) = Empty
  BY DEF Default, IsString
<1>4. Empty.size = 0
  BY DEF Empty
<1> QED BY <1>1, <1>2, <1>3, <1>4, Varints DEF Cost

LEMMA NamesAreStrings ==
  IsString("name") /\ IsString("message")
  BY DEF IsString, IsEnum, IsAny

LEMMA ParametersMeasured ==
  ASSUME NEW m \in [ToSet(ParametersFields) -> Texts]
  PROVE  /\ IsMessage(ParametersFields, m) /\ Measured(ParametersFields, m)
         /\ Cost("name", m["name"]) \in Nat /\ Cost("message", m["message"]) \in Nat
         /\ SizeOf(ParametersFields, m) =
              Cost("name", m["name"]) + Cost("message", m["message"])
<1>1. m["name"] \in Texts /\ m["message"] \in Texts
  BY ParametersNumbered
<1>2. Measured(ParametersFields, m) /\ IsMessage(ParametersFields, m)
  BY <1>1, ParametersNumbered, NamesAreStrings, TextCost DEF Measured, IsMessage
<1>3. Cost("name", m["name"]) \in Nat /\ Cost("message", m["message"]) \in Nat
  BY <1>1, NamesAreStrings, TextCost
<1>4. PICK tab :
        /\ tab[0] = 0
        /\ \A i \in 1 .. Len(ParametersFields) :
             tab[i] = tab[i - 1] + Cost(ParametersFields[i], m[ParametersFields[i]])
        /\ SizeOf(ParametersFields, m) = tab[Len(ParametersFields)]
  BY <1>2, ParametersNumbered, MeasuredCosts, Costs
<1>5. tab[1] = tab[1 - 1] + Cost("name", m["name"])
  BY <1>4, ParametersNumbered
<1>6. tab[2] = tab[2 - 1] + Cost("message", m["message"])
  BY <1>4, ParametersNumbered
<1>7. 1 - 1 = 0 /\ 2 - 1 = 1
  OBVIOUS
<1> QED BY <1>2, <1>3, <1>4, <1>5, <1>6, <1>7, ParametersNumbered

LEMMA ResultMeasured ==
  ASSUME NEW m \in [ToSet(ResultFields) -> Texts]
  PROVE  /\ IsMessage(ResultFields, m) /\ Measured(ResultFields, m)
         /\ Cost("message", m["message"]) \in Nat
         /\ SizeOf(ResultFields, m) = Cost("message", m["message"])
<1>1. m["message"] \in Texts
  BY ResultNumbered
<1>2. Measured(ResultFields, m) /\ IsMessage(ResultFields, m)
  BY <1>1, ResultNumbered, NamesAreStrings, TextCost DEF Measured, IsMessage
<1>3. Cost("message", m["message"]) \in Nat
  BY <1>1, NamesAreStrings, TextCost
<1>4. PICK tab :
        /\ tab[0] = 0
        /\ \A i \in 1 .. Len(ResultFields) :
             tab[i] = tab[i - 1] + Cost(ResultFields[i], m[ResultFields[i]])
        /\ SizeOf(ResultFields, m) = tab[Len(ResultFields)]
  BY <1>2, ResultNumbered, MeasuredCosts, Costs
<1>5. tab[1] = tab[1 - 1] + Cost("message", m["message"])
  BY <1>4, ResultNumbered
<1>6. 1 - 1 = 0
  OBVIOUS
<1> QED BY <1>2, <1>3, <1>4, <1>5, <1>6, ResultNumbered
-----------------------------------------------------------------------------
(***************************************************************************)
(* The packets of a program: what each field may be, and what it costs.    *)
(***************************************************************************)
LEMMA EmptyIsText == Empty \in Texts
<1>1. <<>> \in Seq(Pieces)
  OBVIOUS
<1> QED BY <1>1 DEF Texts, Empty

LEMMA TextIsText ==
  ASSUME NEW name \in Pieces, NEW size \in Nat \ {0}
  PROVE  /\ Text(name, size) \in Texts /\ Text(name, size).size = size
         /\ Text(name, size) # Empty
<1>1. <<name>> \in Seq(Pieces) /\ <<name>> # <<>>
  OBVIOUS
<1> QED BY <1>1 DEF Texts, Text, Empty

LEMMA TextIsUtf8 == ASSUME NEW name, NEW size PROVE Text(name, size).utf8
  BY DEF Text

LEMMA ConcatIsText ==
  ASSUME NEW a \in Texts, NEW b \in Texts
  PROVE  /\ Concat(a, b) \in Texts
         /\ Concat(a, b).size = a.size + b.size
<1>1. /\ a.text \in Seq(Pieces) /\ a.size \in Nat /\ a.utf8 \in BOOLEAN
      /\ b.text \in Seq(Pieces) /\ b.size \in Nat /\ b.utf8 \in BOOLEAN
  BY DEF Texts
<1>2. a.text \o b.text \in Seq(Pieces)
  BY <1>1
<1>3. a.size + b.size = 0 => Concat(a, b) = Empty
  <2>1. SUFFICES ASSUME a.size + b.size = 0 PROVE Concat(a, b) = Empty
    OBVIOUS
  <2>2. a = Empty /\ b = Empty
    BY <1>1, <2>1 DEF Texts
  <2>3. a.text \o b.text = <<>> /\ a.size + b.size = 0
    BY <2>2 DEF Empty
  <2>4. (a.utf8 /\ b.utf8) = TRUE
    BY <2>2 DEF Empty
  <2> QED BY <2>3, <2>4 DEF Concat, Empty
<1> QED BY <1>1, <1>2, <1>3 DEF Texts, Concat

LEMMA ConcatIsUtf8 ==
  ASSUME NEW a, a.utf8, NEW b, b.utf8
  PROVE  Concat(a, b).utf8
  BY DEF Concat

Pair(m) == m \in [ToSet(ParametersFields) -> Texts]
One(m)  == m \in [ToSet(ResultFields) -> Texts]

LEMMA ParametersRead ==
  ASSUME NEW m, Pair(m)
  PROVE  /\ ParseParameters(SerializeParameters(m)) = m
         /\ Parses(SerializeParameters(m)) <=> m["name"].utf8 /\ m["message"].utf8
         /\ Size(SerializeParameters(m)) = SizeOf(ParametersFields, m)
<1>1. IsMessage(ParametersFields, m)
  BY ParametersMeasured DEF Pair
<1>2. ParseInto(NewParameters, Encode(ParametersFields, m)) = m
  BY <1>1, ParametersNumbered, RoundTrip DEF NewParameters
<1>3. Parses(Encode(ParametersFields, m)) <=>
        \A f \in ToSet(ParametersFields) : IsString(f) => m[f].utf8
  BY ParametersNumbered, Utf8Parses
<1>4. Size(Encode(ParametersFields, m)) = SizeOf(ParametersFields, m)
  BY ParametersNumbered, SizeIsComputed
<1> QED BY <1>2, <1>3, <1>4, ParametersNumbered, NamesAreStrings
        DEF ParseParameters, SerializeParameters

LEMMA ResultRead ==
  ASSUME NEW m, One(m)
  PROVE  /\ ParseResult(SerializeResult(m)) = m
         /\ Parses(SerializeResult(m)) <=> m["message"].utf8
         /\ Size(SerializeResult(m)) = SizeOf(ResultFields, m)
<1>1. IsMessage(ResultFields, m)
  BY ResultMeasured DEF One
<1>2. ParseInto(NewResult, Encode(ResultFields, m)) = m
  BY <1>1, ResultNumbered, RoundTrip DEF NewResult
<1>3. Parses(Encode(ResultFields, m)) <=>
        \A f \in ToSet(ResultFields) : IsString(f) => m[f].utf8
  BY ResultNumbered, Utf8Parses
<1>4. Size(Encode(ResultFields, m)) = SizeOf(ResultFields, m)
  BY ResultNumbered, SizeIsComputed
<1> QED BY <1>2, <1>3, <1>4, ResultNumbered, NamesAreStrings
        DEF ParseResult, SerializeResult

(* What an Any has besides the string or strings in it.                    *)
Inner(n) == IF n = 0 THEN 0 ELSE 1 + Delimited(n)

LEMMA PackedSize ==
  /\ \A m : Pair(m) => AnySize(PackParameters(m)) =
                         74 + Inner(SizeOf(ParametersFields, m))
  /\ \A m : One(m)  => AnySize(PackResult(m)) = 70 + Inner(SizeOf(ResultFields, m))
<1>1. ParametersUrl.size = 72 /\ ResultUrl.size = 68
  BY DEF ParametersUrl, ResultUrl, Text
<1>2. Delimited(72) = 73 /\ Delimited(68) = 69
  BY DEF Delimited, VarintSize
<1>3. ASSUME NEW m, Pair(m)
      PROVE  AnySize(PackParameters(m)) = 74 + Inner(SizeOf(ParametersFields, m))
  BY <1>1, <1>2, <1>3, ParametersRead DEF AnySize, PackParameters, Inner
<1>4. ASSUME NEW m, One(m)
      PROVE  AnySize(PackResult(m)) = 70 + Inner(SizeOf(ResultFields, m))
  BY <1>1, <1>2, <1>4, ResultRead DEF AnySize, PackResult, Inner
<1> QED BY <1>3, <1>4

LEMMA InnerSize ==
  ASSUME NEW n \in Nat
  PROVE  Inner(n) \in Nat /\ n <= Inner(n) /\ Inner(n) <= n + 6
  BY Varints DEF Inner

LEMMA PackedSizeIsNat ==
  ASSUME NEW any, IsPacked(any)
  PROVE  AnySize(any) \in Nat
<1>1. ASSUME NEW m, Pair(m) PROVE AnySize(PackParameters(m)) \in Nat
  <2>1. SizeOf(ParametersFields, m) \in Nat
    BY <1>1, ParametersMeasured DEF Pair
  <2> QED BY <1>1, <2>1, PackedSize, InnerSize
<1>2. ASSUME NEW m, One(m) PROVE AnySize(PackResult(m)) \in Nat
  <2>1. SizeOf(ResultFields, m) \in Nat
    BY <1>2, ResultMeasured DEF One
  <2> QED BY <1>2, <2>1, PackedSize, InnerSize
<1>3. \E m : \/ Pair(m) /\ any = PackParameters(m)
             \/ One(m) /\ any = PackResult(m)
  BY DEF IsPacked, Pair, One
<1> QED BY <1>1, <1>2, <1>3

LEMMA FieldMeasured ==
  ASSUME NEW f, NEW v, IsFieldValue(f, v)
  PROVE  /\ v # Default(f) => FieldSize(f, v) \in Nat \ {0}
         /\ Cost(f, v) \in Nat
         /\ IsEnum(f) => Cost(f, v) <= 2
<1>1. CASE IsEnum(f)
  BY <1>1 DEF FieldSize, Cost
<1>2. CASE IsAny(f) /\ ~IsEnum(f)
  <2>1. SUFFICES ASSUME v # <<>> PROVE FieldSize(f, v) \in Nat \ {0}
    BY <1>2 DEF Default, Cost
  <2>2. AnySize(v[1]) \in Nat
    BY <1>2, <2>1, PackedSizeIsNat DEF IsFieldValue
  <2>3. FieldSize(f, v) = 1 + Delimited(AnySize(v[1]))
    BY <1>2 DEF FieldSize
  <2> QED BY <2>2, <2>3, Varints
<1>3. CASE IsString(f)
  <2>1. v \in Texts /\ ~IsEnum(f)
    BY <1>3 DEF IsFieldValue, IsString
  <2> QED BY <1>3, <2>1, TextCost
<1> QED BY <1>1, <1>2, <1>3 DEF IsString

LEMMA PacketMeasured ==
  ASSUME NEW p, IsPacket(p)
  PROVE  /\ IsMessage(Fields, p) /\ Measured(Fields, p)
         /\ \A f \in ToSet(Fields) : Cost(f, p[f]) \in Nat
  BY FieldMeasured DEF IsPacket, IsMessage, Measured

LEMMA DefaultIsValue == \A f : IsFieldValue(f, Default(f))
<1>1. <<>> \in Seq(Anys)
  OBVIOUS
<1> QED BY <1>1, EmptyIsText DEF IsFieldValue, Default, Codes

LEMMA UptoIsPacket ==
  ASSUME NEW p, IsPacket(p), NEW k \in 0 .. Len(Fields)
  PROVE  IsPacket(Upto(Fields, p, k))
<1>1. \A f \in ToSet(Fields) : Upto(Fields, p, k)[f] \in {p[f], Default(f)}
  BY DEF Upto
<1>2. Upto(Fields, p, k) = [f \in ToSet(Fields) |-> Upto(Fields, p, k)[f]]
  BY DEF Upto
<1> QED BY <1>1, <1>2, DefaultIsValue DEF IsPacket
-----------------------------------------------------------------------------
(***************************************************************************)
(* A packet on its way.                                                    *)
(***************************************************************************)
(***************************************************************************)
(* Every packet a program can make is read back as it was written, if its  *)
(* strings are UTF-8, and is not read at all if one of them is not         *)
(* (ResponseDispatcher.cpp:72-87, RPCClient.cpp:77-92,                     *)
(* RPCServerStub.cpp:33, RPCClientStub.cpp:69).                            *)
(***************************************************************************)
THEOREM PacketRead ==
  ASSUME NEW p, IsPacket(p)
  PROVE  /\ Parse(Serialize(p)) = p
         /\ Parses(Serialize(p)) <=> IsUtf8(p)
         /\ ByteSizeLong(p) \in Nat
<1>1. IsMessage(Fields, p)
  BY PacketMeasured
<1>2. ParseInto(NewPacket, Encode(Fields, p)) = p
  BY <1>1, FieldsNumbered, RoundTrip DEF NewPacket
<1>3. Parses(Encode(Fields, p)) <=>
        \A f \in ToSet(Fields) : IsString(f) => p[f].utf8
  BY FieldsNumbered, Utf8Parses
<1>4. DOMAIN p = ToSet(Fields)
  BY <1>1 DEF IsMessage
<1>5. SizeOf(Fields, p) \in Nat
  BY PacketMeasured, FieldsNumbered, SizeIsNat
<1> QED BY <1>2, <1>3, <1>4, <1>5 DEF Parse, Serialize, IsUtf8, ByteSizeLong

LEMMA SmallFrame ==
  ASSUME NEW p, IsPacket(p), ByteSizeLong(p) < UInt16
  PROVE  Frame(p) = [size |-> ByteSizeLong(p), body |-> Serialize(p)]
<1>1. ByteSizeLong(p) \in Nat /\ ByteSizeLong(p) % UInt16 = ByteSizeLong(p)
  BY PacketRead DEF UInt16
<1>2. PICK b : b = Cut(Encode(Fields, p), ByteSizeLong(p))
  OBVIOUS
<1>3. SizeOf(Fields, p) <= ByteSizeLong(p)
  BY <1>1 DEF ByteSizeLong
<1>4. b = Encode(Fields, p)
  BY <1>1, <1>2, <1>3, PacketMeasured, FieldsNumbered, CutMessage
<1> QED BY <1>1, <1>2, <1>4 DEF Frame, DSCSendPacket, Serialize

(***************************************************************************)
(* What the other end makes of the frame of any packet, of whatever size:  *)
(* the packet; its first fields, if it has 2^16 bytes or more and what is  *)
(* left of it modulo 2^16 ends between two fields; or nothing              *)
(* (DSCPacket.cpp:64-86).                                                  *)
(***************************************************************************)
THEOREM AnyFrame ==
  ASSUME NEW p, IsPacket(p)
  PROVE  /\ Frame(p).size \in Nat /\ Frame(p).size <= ByteSizeLong(p)
         /\ Parses(Frame(p).body) =>
              \E k \in 0 .. Len(Fields) :
                /\ Parse(Frame(p).body) = Upto(Fields, p, k)
                /\ ByteSizeLong(Upto(Fields, p, k)) <= Frame(p).size
                /\ IsUtf8(Upto(Fields, p, k))
                /\ ByteSizeLong(p) < UInt16 => Upto(Fields, p, k) = p
         /\ Parses(Frame(p).body) \/ ByteSizeLong(p) > UInt16 \/ ~IsUtf8(p)
<1>1. ByteSizeLong(p) \in Nat
  BY PacketRead
<1>2. PICK n : n = ByteSizeLong(p) % UInt16
  OBVIOUS
<1>3. n \in Nat /\ n <= ByteSizeLong(p)
  BY <1>1, <1>2 DEF UInt16
<1>4. PICK b : b = Cut(Encode(Fields, p), n)
  OBVIOUS
<1>5. Frame(p).size = n /\ Frame(p).body = b
  BY <1>2, <1>4 DEF Frame, DSCSendPacket, Serialize
<1>6. /\ Parses(b) =>
           \E k \in 0 .. Len(Fields) :
             /\ b = Encode(Fields, Upto(Fields, p, k))
             /\ SizeOf(Fields, Upto(Fields, p, k)) <= n
      /\ n = 0 => Parses(b)
  BY <1>3, <1>4, PacketMeasured, FieldsNumbered, CutMessage
<1>7. ASSUME Parses(b)
      PROVE  \E k \in 0 .. Len(Fields) :
                /\ Parse(b) = Upto(Fields, p, k)
                /\ ByteSizeLong(Upto(Fields, p, k)) <= n
                /\ IsUtf8(Upto(Fields, p, k))
                /\ ByteSizeLong(p) < UInt16 => Upto(Fields, p, k) = p
  <2>1. PICK k \in 0 .. Len(Fields) :
          /\ b = Encode(Fields, Upto(Fields, p, k))
          /\ SizeOf(Fields, Upto(Fields, p, k)) <= n
    BY <1>6, <1>7
  <2>2. PICK q : q = Upto(Fields, p, k)
    OBVIOUS
  <2>3. IsPacket(q)
    BY <2>2, UptoIsPacket
  <2>4. b = Serialize(q) /\ ByteSizeLong(q) <= n
    BY <2>1, <2>2 DEF Serialize, ByteSizeLong
  <2>5. Parse(b) = q /\ IsUtf8(q)
    BY <1>7, <2>3, <2>4, PacketRead
  <2>6. ByteSizeLong(p) < UInt16 => q = p
    <3>1. SUFFICES ASSUME ByteSizeLong(p) < UInt16 PROVE q = p
      OBVIOUS
    <3>2. b = Serialize(p)
      BY <1>5, <3>1, SmallFrame
    <3> QED BY <2>5, <3>2, PacketRead
  <2> QED BY <2>2, <2>4, <2>5, <2>6
<1>8. Parses(b) \/ ByteSizeLong(p) > UInt16 \/ ~IsUtf8(p)
  <2>1. CASE ByteSizeLong(p) < UInt16
    <3>1. b = Serialize(p)
      BY <1>5, <2>1, SmallFrame
    <3> QED BY <3>1, PacketRead
  <2>2. CASE ByteSizeLong(p) = UInt16
    <3>1. n = 0
      BY <1>2, <2>2 DEF UInt16
    <3> QED BY <1>6, <3>1
  <2> QED BY <1>1, <2>1, <2>2 DEF UInt16
<1> QED BY <1>3, <1>5, <1>7, <1>8

LEMMA UptoBegins ==
  ASSUME NEW p, IsPacket(p), NEW k \in 0 .. Len(Fields),
         ByteSizeLong(p) < UInt16 => Upto(Fields, p, k) = p
  PROVE  Understood(Upto(Fields, p, k), p)
<1>1. DOMAIN Fields = 1 .. Len(Fields)
  BY FieldsNumbered DEF Numbered
<1>2. \A i \in 1 .. Len(Fields) :
        Upto(Fields, p, k)[Fields[i]] = IF i <= k THEN p[Fields[i]]
                                                  ELSE Default(Fields[i])
  <2>1. Numbered(Fields)
    BY FieldsNumbered
  <2> QED BY <2>1, UptoFacts
<1>3. Begins(Upto(Fields, p, k), p)
  BY <1>1, <1>2 DEF Begins
<1> QED BY <1>3 DEF Understood
-----------------------------------------------------------------------------
(***************************************************************************)
(* What the service makes of a packet's parameters, once it has checked    *)
(* them: the greeting.                                                     *)
(***************************************************************************)
Greeted(m) == SetMessage(NewResult, Greeting(m["name"], m["message"]))

Reward(p) == <<PackResult(Greeted(ParseParameters(p["parameters"][1].value)))>>

LEMMA ResultIsAny ==
  ASSUME NEW m, One(m)
  PROVE  PackResult(m) \in Anys /\ IsPacked(PackResult(m))
<1>1. m["message"] \in Texts /\ ToSet(ResultFields) = {"message"}
  BY ResultNumbered DEF One
<1>2. PICK p : p = Present(ResultFields, m)
  OBVIOUS
<1>3. PICK b : b = Encode(ResultFields, m)
  OBVIOUS
<1>4. /\ Len(p) \in Nat /\ DOMAIN b = 1 .. Len(p)
      /\ b = [i \in 1 .. Len(p) |-> b[i]]
      /\ \A i \in 1 .. Len(p) : b[i] = EncodedField(p[i], m[p[i]])
  BY <1>2, <1>3, ResultNumbered, Encoded
<1>5. AreWritten(p, ResultFields, m, 1)
  BY <1>2, ResultNumbered, PresentIsWritten
<1>6. ASSUME NEW i \in 1 .. Len(p) PROVE p[i] = "message"
  <2>1. p[i] \in FieldName
    BY <1>5 DEF AreWritten, Numbered
  <2>2. PICK j \in 1 .. 1 : ResultFields[j] = p[i]
    BY <1>5, <2>1 DEF AreWritten
  <2>3. j = 1
    OBVIOUS
  <2> QED BY <2>2, <2>3, ResultNumbered
<1>7. PICK S : S = [field : ToSet(ParametersFields) \cup ToSet(ResultFields),
                    value : Texts, size : Nat]
  OBVIOUS
<1>8. ASSUME NEW i \in 1 .. Len(p) PROVE b[i] \in S
  <2>1. /\ b[i] = [field |-> p[i], value |-> m[p[i]], size |-> FieldSize(p[i], m[p[i]])]
        /\ p[i] = "message"
    BY <1>4, <1>6 DEF EncodedField
  <2>2. FieldSize("message", m["message"]) \in Nat
    BY <1>1, NamesAreStrings, TextCost
  <2> QED BY <1>1, <1>7, <2>1, <2>2
<1>9. b \in Bytes
  <2>1. b \in [1 .. Len(p) -> S]
    BY <1>4, <1>8
  <2> QED BY <1>4, <1>7, <2>1, SeqDef DEF Bytes
<1>10. ResultUrl \in Texts
  <2>1. "HelloWorldServiceResult" \in Pieces
    BY PiecesAssumption, Zenon DEF PiecesAssumption
  <2> QED BY <2>1, TextIsText DEF ResultUrl
<1>11. PackResult(m) = [type_url |-> ResultUrl, value |-> b]
  BY <1>3 DEF PackResult, SerializeResult
<1>12. ParseResult(PackResult(m).value) = m
  BY ResultRead DEF PackResult
<1> QED BY <1>9, <1>10, <1>11, <1>12 DEF Anys, IsPacked, One

LEMMA GreetedIs ==
  ASSUME NEW m, Pair(m)
  PROVE  /\ One(Greeted(m))
         /\ Greeted(m)["message"] = Greeting(m["name"], m["message"])
         /\ Greeted(m)["message"].size = 7 + m["name"].size + m["message"].size
         /\ m["name"].utf8 /\ m["message"].utf8 => Greeted(m)["message"].utf8
<1>1. m["name"] \in Texts /\ m["message"] \in Texts
  BY ParametersNumbered DEF Pair
<1>2. PICK hello : /\ hello = Text("Hello ", 6) /\ hello \in Texts
                   /\ hello.size = 6
  <2>1. "Hello " \in Pieces
    BY PiecesAssumption, Zenon DEF PiecesAssumption
  <2>2. 6 \in Nat \ {0}
    OBVIOUS
  <2> QED BY <2>1, <2>2, TextIsText
<1>3. PICK space : /\ space = Text(" ", 1) /\ space \in Texts
                   /\ space.size = 1
  <2>1. " " \in Pieces
    BY PiecesAssumption, Zenon DEF PiecesAssumption
  <2>2. 1 \in Nat \ {0}
    OBVIOUS
  <2> QED BY <2>1, <2>2, TextIsText
<1>4. PICK b : b = Concat(hello, m["name"])
  OBVIOUS
<1>5. b \in Texts /\ b.size = 6 + m["name"].size
  BY <1>1, <1>2, <1>4, ConcatIsText
<1>6. PICK c : c = Concat(b, space)
  OBVIOUS
<1>7. c \in Texts /\ c.size = b.size + 1
  BY <1>3, <1>5, <1>6, ConcatIsText
<1>8. PICK g : g = Concat(c, m["message"])
  OBVIOUS
<1>9. g \in Texts /\ g.size = c.size + m["message"].size
  BY <1>1, <1>7, <1>8, ConcatIsText
<1>13. ASSUME m["name"].utf8, m["message"].utf8 PROVE g.utf8
  <2>1. b.utf8
    BY <1>2, <1>4, <1>13, TextIsUtf8, ConcatIsUtf8
  <2>2. c.utf8
    BY <1>3, <1>6, <2>1, TextIsUtf8, ConcatIsUtf8
  <2> QED BY <1>8, <1>13, <2>2, ConcatIsUtf8
<1>10. g = Greeting(m["name"], m["message"])
  BY <1>2, <1>3, <1>4, <1>6, <1>8 DEF Greeting
<1>11. g.size = 7 + m["name"].size + m["message"].size
  <2>1. m["name"].size \in Nat /\ m["message"].size \in Nat
    BY <1>1 DEF Texts
  <2> QED BY <1>5, <1>7, <1>9, <2>1
<1>12. One(Greeted(m)) /\ Greeted(m)["message"] = g
  <2>1. Greeted(m) = [NewResult EXCEPT !["message"] = g]
    BY <1>10 DEF Greeted, SetMessage
  <2>2. ToSet(ResultFields) = {"message"}
    BY ResultNumbered
  <2>3. NewResult \in [ToSet(ResultFields) -> Texts]
    <3>1. Default("message") \in Texts
      BY NamesAreStrings, EmptyIsText DEF Default, IsString
    <3> QED BY <2>2, <3>1 DEF NewResult
  <2> QED BY <1>9, <2>1, <2>2, <2>3 DEF One
<1> QED BY <1>10, <1>11, <1>12, <1>13

LEMMA Rewarding ==
  ASSUME NEW q, IsPacket(q), ParametersCheck(q)
  PROVE  \E m : /\ Pair(m) /\ q["parameters"] = <<PackParameters(m)>>
                /\ m["name"].utf8 /\ m["message"].utf8
                /\ m = ParseParameters(q["parameters"][1].value)
                /\ Reward(q) = <<PackResult(Greeted(m))>>
                /\ One(Greeted(m)) /\ Greeted(m)["message"].utf8
<1>1. PICK v : v = q["parameters"]
  OBVIOUS
<1>2. v # <<>> /\ v[1].type_url = ParametersUrl /\ Parses(v[1].value)
  BY <1>1 DEF ParametersCheck, Unpacks
<1>3. "parameters" \in ToSet(Fields)
  BY FieldFacts DEF AnyFields, Field
<1>4. v = <<v[1]>> /\ IsPacked(v[1])
  BY <1>1, <1>2, <1>3 DEF IsPacket, IsFieldValue, IsEnum, IsAny
<1>5. ParametersUrl # ResultUrl
  <2>1. ParametersUrl.size # ResultUrl.size
    BY DEF ParametersUrl, ResultUrl, Text
  <2> QED BY <2>1
<1>6. PICK m : m = ParseParameters(v[1].value)
  OBVIOUS
<1>7. Pair(m) /\ v[1] = PackParameters(m)
  BY <1>2, <1>4, <1>5, <1>6 DEF IsPacked, Pair, PackParameters, PackResult
<1>8. m["name"].utf8 /\ m["message"].utf8
  BY <1>2, <1>7, ParametersRead DEF PackParameters
<1>9. Reward(q) = <<PackResult(Greeted(m))>>
  BY <1>1, <1>6 DEF Reward
<1> QED BY <1>1, <1>4, <1>6, <1>7, <1>8, <1>9, GreetedIs

(* The greeting is a little longer than what it greets with.               *)
LEMMA RewardSize ==
  ASSUME NEW q, IsPacket(q), ParametersCheck(q)
  PROVE  /\ IsFieldValue("result", Reward(q))
         /\ Cost("result", Reward(q)) <= Cost("parameters", q["parameters"]) + 19
<1>1. PICK m : /\ Pair(m) /\ q["parameters"] = <<PackParameters(m)>>
               /\ Reward(q) = <<PackResult(Greeted(m))>>
               /\ One(Greeted(m))
  BY Rewarding
<1>2. PICK name, msg : name = m["name"] /\ msg = m["message"]
  OBVIOUS
<1>3. name \in Texts /\ msg \in Texts /\ name.size \in Nat /\ msg.size \in Nat
  BY <1>1, <1>2, ParametersNumbered DEF Pair, Texts
<1>4. PICK S : S = SizeOf(ParametersFields, m)
  OBVIOUS
<1>5. S \in Nat /\ name.size + msg.size <= S
  <2>1. S = Cost("name", name) + Cost("message", msg)
    BY <1>1, <1>2, <1>4, ParametersMeasured DEF Pair
  <2>2. Cost("name", name) \in Nat /\ name.size <= Cost("name", name)
    BY <1>3, NamesAreStrings, TextCost
  <2>3. Cost("message", msg) \in Nat /\ msg.size <= Cost("message", msg)
    BY <1>3, NamesAreStrings, TextCost
  <2> QED BY <1>3, <2>1, <2>2, <2>3
<1>6. 76 + name.size + msg.size <= Cost("parameters", q["parameters"])
  <2>1. PICK A : A = AnySize(PackParameters(m))
    OBVIOUS
  <2>2. A \in Nat /\ 74 + S <= A
    BY <1>1, <1>4, <1>5, <2>1, PackedSize, InnerSize
  <2>3. <<PackParameters(m)>> # <<>> /\ <<PackParameters(m)>>[1] = PackParameters(m)
    OBVIOUS
  <2>4. Cost("parameters", <<PackParameters(m)>>) = 1 + Delimited(A)
    BY <2>1, <2>3 DEF Cost, Default, FieldSize, IsEnum, IsAny
  <2>5. Delimited(A) \in Nat /\ 1 + A <= Delimited(A)
    BY <2>2, Varints
  <2> QED BY <1>1, <1>3, <1>5, <2>2, <2>4, <2>5
<1>7. PICK r : r = Greeted(m)
  OBVIOUS
<1>8. PICK R : R = SizeOf(ResultFields, r)
  OBVIOUS
<1>9. R \in Nat /\ R <= 13 + name.size + msg.size
  <2>1. R = Cost("message", r["message"])
    BY <1>1, <1>7, <1>8, ResultMeasured DEF One
  <2>2. r["message"] \in Texts /\ r["message"].size = 7 + name.size + msg.size
    BY <1>1, <1>2, <1>7, GreetedIs, ResultNumbered DEF One
  <2>3. /\ Cost("message", r["message"]) \in Nat
        /\ Cost("message", r["message"]) <= 6 + r["message"].size
    BY <2>2, NamesAreStrings, TextCost
  <2> QED BY <1>3, <2>1, <2>2, <2>3
<1>10. Cost("result", Reward(q)) <= 95 + name.size + msg.size
  <2>1. PICK A : A = AnySize(PackResult(r))
    OBVIOUS
  <2>2. A \in Nat /\ A <= 76 + R
    BY <1>1, <1>7, <1>8, <1>9, <2>1, PackedSize, InnerSize
  <2>3. <<PackResult(r)>> # <<>> /\ <<PackResult(r)>>[1] = PackResult(r)
    OBVIOUS
  <2>4. Cost("result", <<PackResult(r)>>) = 1 + Delimited(A)
    BY <2>1, <2>3 DEF Cost, Default, FieldSize, IsEnum, IsAny
  <2>5. Delimited(A) \in Nat /\ Delimited(A) <= 5 + A
    BY <2>2, Varints
  <2> QED BY <1>1, <1>3, <1>7, <1>9, <2>2, <2>4, <2>5
<1>11. IsFieldValue("result", Reward(q))
  <2>1. PackResult(r) \in Anys /\ IsPacked(PackResult(r))
    BY <1>1, <1>7, ResultIsAny
  <2>2. PICK x : x = PackResult(r)
    OBVIOUS
  <2>3. <<x>> \in Seq(Anys) /\ <<x>>[1] = x
    BY <2>1, <2>2
  <2> QED BY <1>1, <1>7, <2>1, <2>2, <2>3 DEF IsFieldValue, IsEnum, IsAny
<1>12. Cost("parameters", q["parameters"]) \in Nat /\ Cost("result", Reward(q)) \in Nat
  <2>1. IsFieldValue("parameters", q["parameters"])
    BY FieldFacts DEF AnyFields, Field, IsPacket
  <2> QED BY <1>11, <2>1, FieldMeasured
<1> QED BY <1>3, <1>6, <1>10, <1>11, <1>12
-----------------------------------------------------------------------------
(***************************************************************************)
(* How much larger than its request an answer can be.                      *)
(***************************************************************************)
LEMMA PacketSize ==
  ASSUME NEW p, IsPacket(p),
         NEW c, c = [f \in Field |-> Cost(f, p[f])]
  PROVE  /\ c \in [Field -> Nat]
         /\ ByteSizeLong(p) =
              c["type"] + c["error"] + c["status"] + c["from"] + c["to"]
              + c["inner_id"] + c["created_time"] + c["post_time"]
              + c["commited_time"] + c["completed_time"] + c["failed_time"]
              + c["request_id"] + c["service"] + c["parameters"] + c["result"]
<1>1. \A f \in Field : Cost(f, p[f]) \in Nat
  BY PacketMeasured DEF Field
<1>2. c \in [Field -> Nat]
  BY <1>1
<1>3. Numbered(Fields) /\ Len(Fields) = 15
  BY FieldsNumbered
<1>4. PICK tab : /\ tab[0] = 0
                 /\ \A i \in 1 .. 15 : tab[i] = tab[i - 1] + Cost(Fields[i], p[Fields[i]])
                 /\ SizeOf(Fields, p) = tab[15]
  <2>1. \A f \in ToSet(Fields) : Cost(f, p[f]) \in Nat
    BY <1>1 DEF Field
  <2>2. \E tab : /\ tab[0] = 0
                 /\ \A i \in 1 .. Len(Fields) :
                      tab[i] = tab[i - 1] + Cost(Fields[i], p[Fields[i]])
                 /\ SizeOf(Fields, p) = tab[Len(Fields)]
    BY <1>3, <2>1, Costs
  <2> QED BY <1>3, <2>2
<1>5. \A i \in 1 .. 15 : Fields[i] \in Field
  BY <1>3 DEF Numbered, Field, ToSet
<1>6. \A i \in 1 .. 15 : tab[i] = tab[i - 1] + c[Fields[i]]
  BY <1>4, <1>5
<1>7. /\ Fields[1] = "type" /\ Fields[2] = "error" /\ Fields[3] = "status"
      /\ Fields[4] = "from" /\ Fields[5] = "to" /\ Fields[6] = "inner_id"
      /\ Fields[7] = "created_time" /\ Fields[8] = "post_time"
      /\ Fields[9] = "commited_time" /\ Fields[10] = "completed_time"
      /\ Fields[11] = "failed_time" /\ Fields[12] = "request_id"
      /\ Fields[13] = "service" /\ Fields[14] = "parameters"
      /\ Fields[15] = "result"
  BY DEF Fields
<1>8. /\ tab[1] = tab[0] + c["type"] /\ tab[2] = tab[1] + c["error"]
      /\ tab[3] = tab[2] + c["status"] /\ tab[4] = tab[3] + c["from"]
      /\ tab[5] = tab[4] + c["to"]
  BY <1>6, <1>7
<1>9. /\ tab[6] = tab[5] + c["inner_id"] /\ tab[7] = tab[6] + c["created_time"]
      /\ tab[8] = tab[7] + c["post_time"] /\ tab[9] = tab[8] + c["commited_time"]
      /\ tab[10] = tab[9] + c["completed_time"]
  BY <1>6, <1>7
<1>10. /\ tab[11] = tab[10] + c["failed_time"] /\ tab[12] = tab[11] + c["request_id"]
       /\ tab[13] = tab[12] + c["service"] /\ tab[14] = tab[13] + c["parameters"]
       /\ tab[15] = tab[14] + c["result"]
  BY <1>6, <1>7
<1>11. /\ c["type"] \in Nat /\ c["error"] \in Nat /\ c["status"] \in Nat
       /\ c["from"] \in Nat /\ c["to"] \in Nat /\ c["inner_id"] \in Nat
       /\ c["created_time"] \in Nat /\ c["post_time"] \in Nat
       /\ c["commited_time"] \in Nat /\ c["completed_time"] \in Nat
       /\ c["failed_time"] \in Nat /\ c["request_id"] \in Nat
       /\ c["service"] \in Nat /\ c["parameters"] \in Nat /\ c["result"] \in Nat
  BY <1>2, FieldFacts DEF Addressing, CodeFields, Times, Names, AnyFields
<1>12. tab[5] = c["type"] + c["error"] + c["status"] + c["from"] + c["to"]
  BY <1>4, <1>8, <1>11
<1>13. tab[10] = tab[5] + c["inner_id"] + c["created_time"] + c["post_time"]
                 + c["commited_time"] + c["completed_time"]
  BY <1>9, <1>11, <1>12
<1>14. tab[15] = tab[10] + c["failed_time"] + c["request_id"] + c["service"]
                 + c["parameters"] + c["result"]
  BY <1>10, <1>11, <1>12, <1>13
<1> QED BY <1>2, <1>4, <1>11, <1>12, <1>13, <1>14 DEF ByteSizeLong

LEMMA OwnTexts ==
  /\ Time \in Texts /\ Time.size = 27 /\ Time.utf8
  /\ RequestId \in Texts /\ RequestId.size = 36 /\ RequestId.utf8
  /\ Empty \in Texts /\ Empty.size = 0 /\ Empty.utf8
<1>1. "time" \in Pieces /\ "request_id" \in Pieces
  BY PiecesAssumption, Zenon DEF PiecesAssumption
<1>2. 27 \in Nat \ {0} /\ 36 \in Nat \ {0}
  OBVIOUS
<1>3. Time \in Texts /\ Time.size = 27 /\ Time.utf8
  BY <1>1, <1>2, TextIsText, TextIsUtf8 DEF Time
<1>4. RequestId \in Texts /\ RequestId.size = 36 /\ RequestId.utf8
  BY <1>1, <1>2, TextIsText, TextIsUtf8 DEF RequestId
<1>5. Empty.size = 0 /\ Empty.utf8
  BY DEF Empty
<1> QED BY <1>3, <1>4, <1>5, EmptyIsText

LEMMA StringsAre ==
  \A f \in Addressing \cup Times \cup Names : f \in Field /\ IsString(f)
<1>1. Addressing \cup Times \cup Names \subseteq Field
  BY FieldFacts
<1>2. \A f \in Addressing \cup Times \cup Names : IsString(f)
  BY DEF Addressing, Times, Names, IsString, IsEnum, IsAny
<1> QED BY <1>1, <1>2

LEMMA StringsCost ==
  ASSUME NEW f, IsString(f), NEW g, IsString(g), NEW v
  PROVE  Cost(f, v) = Cost(g, v)
  BY DEF Cost, FieldSize, Default, IsString

LEMMA SizedCost ==
  ASSUME NEW f, IsString(f), NEW v \in Texts, v.size < 128
  PROVE  Cost(f, v) <= v.size + 2
<1>1. v.size \in Nat /\ FieldSize(f, v) = 1 + VarintSize(v.size) + v.size
  BY TextCost
<1>2. VarintSize(v.size) = 1
  BY <1>1 DEF VarintSize
<1>3. FieldSize(f, v) = v.size + 2
  BY <1>1, <1>2
<1> QED BY <1>1, <1>3 DEF Cost

(* What an answer has of the packet it answers, whatever its stage.        *)
Derives(a, q) ==
  /\ IsPacket(a)
  /\ a["from"] = q["to"] /\ a["to"] = q["from"]
  /\ a["service"] = q["service"] /\ a["parameters"] = q["parameters"]
  /\ a["request_id"] = RequestId /\ a["inner_id"] = SessionId
  /\ \A t \in Times : a[t] \in {q[t], Time, Empty}
  /\ \/ a["result"] = q["result"]
     \/ a["result"] = Reward(q) /\ ParametersCheck(q)

LEMMA TimeGrows ==
  ASSUME NEW q, IsPacket(q), NEW a, Derives(a, q), NEW t \in Times
  PROVE  /\ Cost(t, q[t]) \in Nat /\ Cost(t, a[t]) \in Nat
         /\ Cost(t, a[t]) <= Cost(t, q[t]) + 29
<1>1. t \in Field /\ IsString(t)
  BY StringsAre
<1>2. Cost(t, q[t]) \in Nat /\ Cost(t, a[t]) \in Nat
  BY <1>1, PacketMeasured DEF Field, Derives
<1>3. Cost(t, Time) <= 29
  BY <1>1, OwnTexts, SizedCost
<1>4. Cost(t, Empty) = 0
  BY <1>1, OwnTexts, TextCost
<1>5. a[t] = q[t] \/ a[t] = Time \/ a[t] = Empty
  BY DEF Derives
<1> QED BY <1>2, <1>3, <1>4, <1>5

(***************************************************************************)
(* Whatever an answer is made from, it has at most twice the bytes of the  *)
(* request and Growth more: the parameters come back, the greeting repeats *)
(* what they hold, five times, two ids and three codes are written         *)
(* (RPCPacketFactory.h:17-66, RPCPacketManager.cpp:23-78,                  *)
(* HelloWorldTestService.h:77-89).                                         *)
(***************************************************************************)
THEOREM Grows ==
  ASSUME NEW q, IsPacket(q), NEW a, Derives(a, q)
  PROVE  ByteSizeLong(a) <= 2 * ByteSizeLong(q) + Growth
<1>1. PICK c : c = [f \in Field |-> Cost(f, q[f])]
  OBVIOUS
<1>2. PICK d : d = [f \in Field |-> Cost(f, a[f])]
  OBVIOUS
<1> USE FieldFacts DEF Addressing, CodeFields, Times, Names, AnyFields
<1>3. /\ c \in [Field -> Nat]
      /\ ByteSizeLong(q) =
              c["type"] + c["error"] + c["status"] + c["from"] + c["to"]
              + c["inner_id"] + c["created_time"] + c["post_time"]
              + c["commited_time"] + c["completed_time"] + c["failed_time"]
              + c["request_id"] + c["service"] + c["parameters"] + c["result"]
  BY <1>1, PacketSize
<1>4. /\ d \in [Field -> Nat]
      /\ ByteSizeLong(a) =
              d["type"] + d["error"] + d["status"] + d["from"] + d["to"]
              + d["inner_id"] + d["created_time"] + d["post_time"]
              + d["commited_time"] + d["completed_time"] + d["failed_time"]
              + d["request_id"] + d["service"] + d["parameters"] + d["result"]
  BY <1>2, PacketSize DEF Derives
<1>5. d["type"] <= 2 /\ d["error"] <= 2 /\ d["status"] <= 2
  <2>1. \A f \in CodeFields : f \in Field /\ IsEnum(f)
    BY DEF IsEnum
  <2>2. \A f \in CodeFields : Cost(f, a[f]) <= 2
    BY <2>1, FieldMeasured DEF Derives, IsPacket, Field
  <2> QED BY <1>2, <2>1, <2>2
<1>6. d["from"] = c["to"] /\ d["to"] = c["from"]
  <2>1. IsString("from") /\ IsString("to")
    BY StringsAre
  <2>2. /\ Cost("from", q["to"]) = Cost("to", q["to"])
        /\ Cost("to", q["from"]) = Cost("from", q["from"])
    BY <2>1, StringsCost
  <2> QED BY <1>1, <1>2, <2>2 DEF Derives
<1>7. d["inner_id"] <= 38 /\ d["request_id"] <= 38
  <2>1. IsString("inner_id") /\ IsString("request_id")
    BY StringsAre
  <2>2. SessionId \in Texts /\ SessionId.size = 36
    BY IdsAssumption DEF IdsAssumption
  <2>3. Cost("inner_id", SessionId) <= 38 /\ Cost("request_id", RequestId) <= 38
    BY <2>1, <2>2, OwnTexts, SizedCost
  <2> QED BY <1>2, <2>3 DEF Derives
<1>8. \A t \in Times : d[t] <= c[t] + 29
  BY <1>1, <1>2, TimeGrows
<1>9. d["service"] = c["service"] /\ d["parameters"] = c["parameters"]
  BY <1>1, <1>2 DEF Derives
<1>10. d["result"] <= c["result"] + c["parameters"] + 19
  <2>1. CASE a["result"] = q["result"]
    <3>1. d["result"] = c["result"]
      BY <1>1, <1>2, <2>1
    <3>2. d["result"] \in Nat /\ c["result"] \in Nat /\ c["parameters"] \in Nat
      BY <1>3, <1>4
    <3> QED BY <3>1, <3>2
  <2>2. CASE a["result"] = Reward(q) /\ ParametersCheck(q)
    <3>1. Cost("result", Reward(q)) <= Cost("parameters", q["parameters"]) + 19
      BY <2>2, RewardSize
    <3>2. /\ d["result"] = Cost("result", Reward(q))
          /\ c["parameters"] = Cost("parameters", q["parameters"])
      BY <1>1, <1>2, <2>2
    <3>3. d["result"] \in Nat /\ c["result"] \in Nat /\ c["parameters"] \in Nat
      BY <1>3, <1>4
    <3> QED BY <3>1, <3>2, <3>3
  <2> QED BY <2>1, <2>2 DEF Derives
<1>11. /\ c["type"] \in Nat /\ c["error"] \in Nat /\ c["status"] \in Nat
       /\ c["from"] \in Nat /\ c["to"] \in Nat /\ c["inner_id"] \in Nat
       /\ c["created_time"] \in Nat /\ c["post_time"] \in Nat
       /\ c["commited_time"] \in Nat /\ c["completed_time"] \in Nat
       /\ c["failed_time"] \in Nat /\ c["request_id"] \in Nat
       /\ c["service"] \in Nat /\ c["parameters"] \in Nat /\ c["result"] \in Nat
  BY <1>3
<1>12. /\ d["type"] \in Nat /\ d["error"] \in Nat /\ d["status"] \in Nat
       /\ d["from"] \in Nat /\ d["to"] \in Nat /\ d["inner_id"] \in Nat
       /\ d["created_time"] \in Nat /\ d["post_time"] \in Nat
       /\ d["commited_time"] \in Nat /\ d["completed_time"] \in Nat
       /\ d["failed_time"] \in Nat /\ d["request_id"] \in Nat
       /\ d["service"] \in Nat /\ d["parameters"] \in Nat /\ d["result"] \in Nat
  BY <1>4
<1>13. /\ d["created_time"] <= c["created_time"] + 29
       /\ d["post_time"] <= c["post_time"] + 29
       /\ d["commited_time"] <= c["commited_time"] + 29
       /\ d["completed_time"] <= c["completed_time"] + 29
       /\ d["failed_time"] <= c["failed_time"] + 29
  BY <1>8
<1> HIDE FieldFacts DEF Addressing, CodeFields, Times, Names, AnyFields
<1>14. PICK codes \in Nat : codes = c["type"] + c["error"] + c["status"]
  BY <1>11
<1>15. PICK ids \in Nat : ids = c["inner_id"] + c["request_id"]
  BY <1>11
<1>16. PICK time \in Nat : time = c["created_time"] + c["post_time"]
                           + c["commited_time"] + c["completed_time"] + c["failed_time"]
  BY <1>11
<1>17. PICK names \in Nat : names = c["from"] + c["to"] + c["service"]
  BY <1>11
<1>18. PICK parameters \in Nat, result \in Nat :
          parameters = c["parameters"] /\ result = c["result"]
  BY <1>11
<1>19. PICK n \in Nat : /\ n = ByteSizeLong(q)
                        /\ n = codes + ids + time + names + parameters + result
  <2>1. PICK n \in Nat : n = ByteSizeLong(q)
    BY PacketRead
  <2>2. n = c["type"] + c["error"] + c["status"] + c["from"] + c["to"]
              + c["inner_id"] + c["created_time"] + c["post_time"]
              + c["commited_time"] + c["completed_time"] + c["failed_time"]
              + c["request_id"] + c["service"] + c["parameters"] + c["result"]
    BY <1>3, <2>1
  <2>3. n = codes + ids + time + names + parameters + result
    BY <1>11, <1>14, <1>15, <1>16, <1>17, <1>18, <2>2
  <2> QED BY <2>1, <2>3
<1>20. PICK codes2 \in Nat : /\ codes2 = d["type"] + d["error"] + d["status"]
                             /\ codes2 <= 6
  BY <1>5, <1>12
<1>21. PICK ids2 \in Nat : /\ ids2 = d["inner_id"] + d["request_id"]
                           /\ ids2 <= 76
  BY <1>7, <1>12
<1>22. PICK time2 \in Nat : /\ time2 = d["created_time"] + d["post_time"]
                                 + d["commited_time"] + d["completed_time"] + d["failed_time"]
                            /\ time2 <= time + 145
  BY <1>11, <1>12, <1>13, <1>16
<1>23. d["from"] + d["to"] + d["service"] = names
  BY <1>6, <1>9, <1>11, <1>12, <1>17
<1>24. PICK result2 \in Nat :
         result2 = d["result"] /\ result2 <= result + parameters + 19
  BY <1>10, <1>11, <1>12, <1>18
<1>25. d["parameters"] = parameters
  BY <1>9, <1>18
<1>26. PICK m \in Nat : /\ m = ByteSizeLong(a)
                        /\ m = codes2 + ids2 + time2 + names + parameters + result2
  <2>1. PICK m \in Nat : m = ByteSizeLong(a)
    BY PacketRead DEF Derives
  <2>2. m = d["type"] + d["error"] + d["status"] + d["from"] + d["to"]
              + d["inner_id"] + d["created_time"] + d["post_time"]
              + d["commited_time"] + d["completed_time"] + d["failed_time"]
              + d["request_id"] + d["service"] + d["parameters"] + d["result"]
    BY <1>4, <2>1
  <2>3. m = codes2 + ids2 + time2 + names + parameters + result2
    BY <1>12, <1>20, <1>21, <1>22, <1>23, <1>24, <1>25, <2>2
  <2> QED BY <2>1, <2>3
<1>27. m <= 246 + time + names + parameters + result + parameters
  BY <1>20, <1>21, <1>22, <1>24, <1>26
<1>28. m <= 2 * n + 256
  BY <1>19, <1>27
<1> QED BY <1>19, <1>26, <1>28 DEF Growth
-----------------------------------------------------------------------------
(***************************************************************************)
(* Packets as they are set: a packet has the fields of RPCPacket.proto and *)
(* no others, a setter changes the fields it names, and a copy is equal.   *)
(***************************************************************************)
LEMMA Parsing == ASSUME NEW bytes PROVE HasFields(Parse(bytes))
  BY DEF HasFields, Parse, ParseInto, NewPacket, Field

LEMMA Copying == ASSUME NEW p, HasFields(p) PROVE CreateCopy(p) = p
<1>1. \A f \in Field : Clear(NewPacket)[f] = Default(f)
  BY DEF Clear, NewPacket, Field
<1>2. DOMAIN Clear(NewPacket) = Field
  BY DEF Clear, NewPacket, Field
<1>3. CreateCopy(p) = [f \in Field |->
        IF p[f] = Default(f) THEN Clear(NewPacket)[f]
        ELSE IF IsAny(f) THEN MergeAny(Clear(NewPacket)[f], p[f])
        ELSE p[f]]
  BY <1>2 DEF CreateCopy, CopyFrom, MergeFrom
<1>4. \A f \in Field : IsAny(f) => MergeAny(Clear(NewPacket)[f], p[f]) = p[f]
  BY <1>1 DEF MergeAny, Default, IsAny, IsEnum
<1>5. \A f \in Field : CreateCopy(p)[f] = p[f]
  BY <1>1, <1>3, <1>4
<1> QED BY <1>3, <1>5 DEF HasFields

LEMMA CodesAreSet ==
  ASSUME NEW p, HasFields(p), NEW a, NEW b, NEW c
  PROVE  /\ HasFields(SetCodes(p, a, b, c))
         /\ SetCodes(p, a, b, c)["type"] = a
         /\ SetCodes(p, a, b, c)["status"] = c
         /\ \A f \in Field \ CodeFields : SetCodes(p, a, b, c)[f] = p[f]
  BY FieldFacts DEF HasFields, CodeFields, SetCodes

LEMMA AddressesAreSet ==
  ASSUME NEW p, HasFields(p), NEW a, NEW b, NEW c
  PROVE  /\ HasFields(SetAddresses(p, a, b, c))
         /\ SetAddresses(p, a, b, c)["from"] = a
         /\ SetAddresses(p, a, b, c)["to"] = b
         /\ SetAddresses(p, a, b, c)["inner_id"] = c
         /\ \A f \in Field \ Addressing : SetAddresses(p, a, b, c)[f] = p[f]
  BY FieldFacts DEF HasFields, Addressing, SetAddresses

LEMMA NamesAreSet ==
  ASSUME NEW p, HasFields(p), NEW a, NEW b
  PROVE  /\ HasFields(SetNames(p, a, b))
         /\ SetNames(p, a, b)["request_id"] = a
         /\ SetNames(p, a, b)["service"] = b
         /\ \A f \in Field \ Names : SetNames(p, a, b)[f] = p[f]
  BY FieldFacts DEF HasFields, Names, SetNames

LEMMA OneIsSet ==
  ASSUME NEW p, HasFields(p), NEW f \in Field, NEW a
  PROVE  /\ HasFields([p EXCEPT ![f] = a])
         /\ [p EXCEPT ![f] = a][f] = a
         /\ \A g \in Field \ {f} : [p EXCEPT ![f] = a][g] = p[g]
  BY DEF HasFields
-----------------------------------------------------------------------------
(***************************************************************************)
(* What the server's packet has from the client's, at every stage; it is   *)
(* what the answers have, with the addresses exchanged.                    *)
(***************************************************************************)
Stems(p, q) ==
  /\ HasFields(p)
  /\ p["from"] = q["from"] /\ p["to"] = q["to"]
  /\ p["service"] = q["service"] /\ p["parameters"] = q["parameters"]
  /\ p["request_id"] = RequestId /\ p["inner_id"] = SessionId
  /\ p["type"] = q["type"]

Replies(a, q) ==
  /\ a["from"] = q["to"] /\ a["to"] = q["from"]
  /\ a["service"] = q["service"] /\ a["parameters"] = q["parameters"]
  /\ a["request_id"] = RequestId /\ a["inner_id"] = SessionId
  /\ a["type"] = ChangeTypeToResponse(q)["type"]

LEMMA TypesTurn ==
  ASSUME NEW p, HasFields(p), NEW q, HasFields(q), p["type"] = q["type"]
  PROVE  /\ HasFields(ChangeTypeToResponse(p))
         /\ ChangeTypeToResponse(p)["type"] = ChangeTypeToResponse(q)["type"]
         /\ ChangeTypeToResponse(p)["type"] \in 0 .. 4
         /\ \A f \in Field \ {"type"} : ChangeTypeToResponse(p)[f] = p[f]
<1> DEFINE turned(type) ==
      CASE type % 2 = 1          -> TASK_RESPONSE
        [] (type \div 2) % 2 = 1 -> TASK_REQUEST
        [] OTHER                 -> DEFAULT_RESPONSE
<1>1. ASSUME NEW type PROVE turned(type) \in 0 .. 4
  BY DEF TASK_RESPONSE, TASK_REQUEST, DEFAULT_RESPONSE
<1>2. ASSUME NEW r
      PROVE  ChangeTypeToResponse(r) = [r EXCEPT !["type"] = turned(r["type"])]
  BY DEF ChangeTypeToResponse
<1> HIDE DEF turned
<1> QED BY <1>1, <1>2, FieldFacts DEF HasFields, CodeFields

LEMMA Responses ==
  ASSUME NEW p, NEW q, HasFields(q), Stems(p, q), NEW error
  PROVE  /\ Replies(CreatePacketResponse(p, error), q)
         /\ CreatePacketResponse(p, error)["status"] = p["status"]
<1>1. PICK r : r = ChangeTypeToResponse(CreateCopy(p))
  OBVIOUS
<1>2. /\ HasFields(r)
      /\ r["type"] = ChangeTypeToResponse(q)["type"]
      /\ \A f \in Field \ {"type"} : r[f] = p[f]
  BY <1>1, Copying, TypesTurn DEF Stems
<1>3. PICK e : e = SetErrorCode(r, error)
  OBVIOUS
<1>4. HasFields(e) /\ \A f \in Field \ {"error"} : e[f] = r[f]
  BY <1>2, <1>3, FieldFacts DEF HasFields, SetErrorCode, CodeFields
<1>5. CreatePacketResponse(p, error) =
        SetAddresses(e, e["to"], e["from"], e["inner_id"])
  BY <1>1, <1>3 DEF CreatePacketResponse, ChangeRecvSend
<1> QED BY <1>2, <1>4, <1>5, AddressesAreSet, FieldFacts
  DEF Stems, Replies, Addressing, CodeFields, Times, Names, AnyFields

LEMMA TimesAreSet ==
  ASSUME NEW p, NEW q, Stems(p, q), NEW f \in Times, NEW time
  PROVE  Stems(SetTime(p, f, time), q) /\ SetTime(p, f, time)["status"] = p["status"]
<1> USE FieldFacts DEF Addressing, CodeFields, Times, Names, AnyFields
<1>1. HasFields(p) /\ f \in Field
  BY DEF Stems
<1>2. /\ HasFields(SetTime(p, f, time))
      /\ \A g \in Field \ {f} : SetTime(p, f, time)[g] = p[g]
  BY <1>1, OneIsSet DEF SetTime
<1> QED BY <1>1, <1>2 DEF Stems

LEMMA Initialising ==
  ASSUME NEW q, HasFields(q)
  PROVE  Stems(InitRPCPacket(q), q) /\ InitRPCPacket(q)["status"] = SUBMITTED
<1> USE FieldFacts DEF Addressing, CodeFields, Times, Names, AnyFields
<1>1. PICK coded : coded = SetCodes(q, q["type"], PKT_NO_ERROR, SUBMITTED)
  OBVIOUS
<1>2. PICK named : named = SetNames(coded, RequestId, q["service"])
  OBVIOUS
<1>3. PICK placed : placed = SetAddresses(named, q["from"], q["to"], SessionId)
  OBVIOUS
<1>4. /\ HasFields(coded) /\ coded["type"] = q["type"]
      /\ coded["status"] = SUBMITTED /\ coded["parameters"] = q["parameters"]
  BY <1>1, CodesAreSet
<1>5. /\ HasFields(named) /\ named["request_id"] = RequestId
      /\ named["service"] = q["service"] /\ named["type"] = q["type"]
      /\ named["status"] = SUBMITTED /\ named["parameters"] = q["parameters"]
  BY <1>2, <1>4, NamesAreSet
<1>6. Stems(placed, q) /\ placed["status"] = SUBMITTED
  BY <1>3, <1>5, AddressesAreSet DEF Stems
<1>7. PICK created : created = SetTime(placed, "created_time", Time)
  OBVIOUS
<1>8. Stems(created, q) /\ created["status"] = SUBMITTED
  BY <1>6, <1>7, TimesAreSet
<1>9. PICK commited : commited = SetTime(created, "commited_time", Empty)
  OBVIOUS
<1>10. Stems(commited, q) /\ commited["status"] = SUBMITTED
  BY <1>8, <1>9, TimesAreSet
<1>11. InitRPCPacket(q) = SetTime(commited, "completed_time", Empty)
  BY <1>1, <1>2, <1>3, <1>7, <1>9 DEF InitRPCPacket
<1> QED BY <1>10, <1>11, TimesAreSet

LEMMA Updating ==
  ASSUME NEW p, NEW q, Stems(p, q),
         NEW status \in {WAITING, COMMITED, COMPLETED, FAILED}
  PROVE  /\ Stems(UpdateRequestStatus(p, status), q)
         /\ UpdateRequestStatus(p, status)["status"] = status
<1>1. TimeOf(status) \in Times
  BY DEF TimeOf, Times, SUBMITTED, WAITING, COMMITED, COMPLETED, FAILED
<1>2. PICK coded : coded = SetCodes(p, p["type"], p["error"], status)
  OBVIOUS
<1>3. Stems(coded, q) /\ coded["status"] = status
  BY <1>2, CodesAreSet, FieldFacts
  DEF Stems, Addressing, CodeFields, Times, Names, AnyFields
<1>4. UpdateRequestStatus(p, status) = SetTime(coded, TimeOf(status), Time)
  BY <1>2 DEF UpdateRequestStatus
<1> QED BY <1>1, <1>3, <1>4, TimesAreSet

LEMMA Executing ==
  ASSUME NEW p, NEW q, Stems(p, q)
  PROVE  Stems(Execute(p), q)
<1>1. PICK result : Execute(p) = [p EXCEPT !["result"] = result]
  BY DEF Execute, SetResult
<1>2. "result" \in Field /\ HasFields(p)
  BY FieldFacts DEF AnyFields, Stems
<1>3. PICK e : e = [p EXCEPT !["result"] = result]
  OBVIOUS
<1>4. HasFields(e) /\ \A g \in Field \ {"result"} : e[g] = p[g]
  BY <1>2, <1>3 DEF HasFields
<1>5. Stems(e, q)
  BY <1>4, FieldFacts DEF Stems, Addressing, CodeFields, Times, Names, AnyFields
<1> QED BY <1>1, <1>3, <1>5
-----------------------------------------------------------------------------
(***************************************************************************)
(* The answers so far: each replies to the request, and each has a later   *)
(* status than the one before it; the server's packet has the status of    *)
(* the last.                                                               *)
(***************************************************************************)
StatusBefore(s, i) == IF i = 1 THEN 0 ELSE s[i - 1]["status"]

AnswersTo(s, q) ==
  /\ \E S : s \in Seq(S)
  /\ \A i \in DOMAIN s :
       Replies(s[i], q) /\ s[i]["status"] > StatusBefore(s, i)

StageStatus ==
  /\ stage = "submitted" => served["status"] = SUBMITTED
  /\ stage = "waiting"   => served["status"] = WAITING
  /\ stage = "commited"  => served["status"] = COMMITED

Following ==
  /\ HasFields(received)
  /\ Stems(served, received)
  /\ StageStatus
  /\ AnswersTo(answers, received)
  /\ answers # <<>>
  /\ answers[Len(answers)]["status"] = served["status"]

Unparsed ==
  /\ stage \in {"none", "refused"} => received = None
  /\ stage = "none" => answers = <<>>

AnswersInv == Unparsed /\ (received # None => Following)

LEMMA Appending ==
  ASSUME NEW s, NEW q, AnswersTo(s, q), NEW a, Replies(a, q),
         a["status"] > StatusBefore(s, Len(s) + 1)
  PROVE  /\ AnswersTo(Append(s, a), q)
         /\ Append(s, a) # <<>>
         /\ Append(s, a)[Len(Append(s, a))] = a
<1>1. PICK S : s \in Seq(S)
  BY DEF AnswersTo
<1>2. s \in Seq(S \cup {a}) /\ a \in S \cup {a}
  BY <1>1
<1>3. PICK r : r = Append(s, a)
  OBVIOUS
<1>4. /\ r \in Seq(S \cup {a}) /\ r # <<>> /\ r[Len(r)] = a
      /\ Len(s) \in Nat /\ DOMAIN s = 1 .. Len(s)
      /\ DOMAIN r = 1 .. Len(s) + 1
      /\ r[Len(s) + 1] = a
      /\ \A i \in 1 .. Len(s) : r[i] = s[i]
      /\ \A i \in 1 .. Len(s) + 1 : i \in 1 .. Len(s) \/ i = Len(s) + 1
  BY <1>2, <1>3
<1>5. ASSUME NEW i \in 1 .. Len(s) + 1
      PROVE  StatusBefore(r, i) = StatusBefore(s, i)
  <2>1. i = 1 \/ i - 1 \in 1 .. Len(s)
    BY <1>4
  <2> QED BY <1>4, <2>1 DEF StatusBefore
<1>6. \A i \in DOMAIN r : Replies(r[i], q) /\ r[i]["status"] > StatusBefore(r, i)
  BY <1>4, <1>5 DEF AnswersTo
<1> QED BY <1>3, <1>4, <1>6 DEF AnswersTo

(* An event: the packet goes on to a later status and is answered from.    *)
LEMMA Continuing ==
  ASSUME Following, received' = received, NEW p, NEW error,
         Stems(p, received), served["status"] < p["status"], Answer(p, error),
         StageStatus'
  PROVE  Following'
<1>1. PICK a : a = CreatePacketResponse(p, error)
  OBVIOUS
<1>2. /\ answers' = Append(answers, a) /\ served' = p
      /\ Replies(a, received) /\ a["status"] = p["status"]
  BY <1>1, Responses DEF Answer, Send, Following
<1>3. AnswersTo(answers, received)
  BY DEF Following
<1>4. a["status"] > StatusBefore(answers, Len(answers) + 1)
  <2>1. Len(answers) \in Nat \ {0}
    BY DEF Following, AnswersTo
  <2>2. StatusBefore(answers, Len(answers) + 1) = served["status"]
    BY <2>1 DEF StatusBefore, Following
  <2> QED BY <1>2, <2>2
<1>5. /\ AnswersTo(answers', received) /\ answers' # <<>>
      /\ answers'[Len(answers')] = a
  BY <1>2, <1>3, <1>4, Appending
<1> QED BY <1>2, <1>5 DEF Following

(* The first answer.                                                       *)
LEMMA Receiving ==
  ASSUME AnswersInv, OnDeserialized
  PROVE  AnswersInv'
<1>1. PICK q : q = received' /\ HasFields(q)
  BY Parsing DEF OnDeserialized
<1>2. PICK p : p = InitRPCPacket(q)
  OBVIOUS
<1>3. Stems(p, q) /\ p["status"] = SUBMITTED
  BY <1>1, <1>2, Initialising
<1>4. PICK a : a = CreatePacketResponse(p, PKT_NO_ERROR)
  OBVIOUS
<1>5. /\ answers' = Append(answers, a) /\ served' = p
      /\ stage' = "submitted" /\ answers = <<>>
      /\ Replies(a, q) /\ a["status"] = p["status"]
  BY <1>1, <1>2, <1>3, <1>4, Responses
  DEF OnDeserialized, Answer, Send, Goes, AnswersInv, Unparsed
<1>6. AnswersTo(answers, q) /\ a["status"] > StatusBefore(answers, Len(answers) + 1)
  <2>1. answers \in Seq({}) /\ DOMAIN answers = {} /\ Len(answers) + 1 = 1
    BY <1>5
  <2> QED BY <1>3, <1>5, <2>1 DEF AnswersTo, StatusBefore, SUBMITTED
<1>7. /\ AnswersTo(answers', q) /\ answers' # <<>>
      /\ answers'[Len(answers')] = a
  <2>1. PICK s : s = answers
    OBVIOUS
  <2>2. AnswersTo(s, q) /\ a["status"] > StatusBefore(s, Len(s) + 1)
    BY <1>6, <2>1
  <2>3. /\ AnswersTo(Append(s, a), q) /\ Append(s, a) # <<>>
        /\ Append(s, a)[Len(Append(s, a))] = a
    BY <1>5, <2>2, Appending
  <2> QED BY <1>5, <2>1, <2>3
<1>8. Following'
  BY <1>1, <1>3, <1>5, <1>7 DEF Following, StageStatus
<1> QED BY <1>5, <1>8 DEF AnswersInv, Unparsed

LEMMA EventsFollow ==
  ASSUME AnswersInv,
         \/ OnDispatched \/ OnDispatchFailed \/ OnCommited
         \/ OnServiceEmptyRequest \/ OnServiceNotFound
         \/ OnServiceParameterInvalid \/ OnServiceError
  PROVE  AnswersInv'
<1>1. PICK from, to, status, error :
        /\ Event(from, to, status, error)
        /\ \/ from = "submitted" /\ to = "waiting" /\ status = WAITING
           \/ from = "submitted" /\ to = "failed" /\ status = FAILED
           \/ from = "waiting" /\ to = "commited" /\ status = COMMITED
           \/ from = "commited" /\ to = "failed" /\ status = FAILED
  BY DEF OnDispatched, OnDispatchFailed, OnCommited, OnServiceEmptyRequest,
         OnServiceNotFound, OnServiceParameterInvalid, OnServiceError
<1>2. /\ stage = from /\ stage' = to /\ received' = received
      /\ Answer(UpdateRequestStatus(served, status), error)
      /\ stage' \notin {"none", "refused"}
  BY <1>1 DEF Event, Goes
<1>3. ASSUME Following
      PROVE  Following'
  <2>1. PICK p : p = UpdateRequestStatus(served, status)
    OBVIOUS
  <2>2. Stems(p, received) /\ p["status"] = status
    BY <1>1, <1>3, <2>1, Updating DEF Following
  <2>3. Answer(p, error) /\ served' = p
    BY <1>2, <2>1 DEF Answer
  <2>4. served["status"] < p["status"]
    BY <1>1, <1>2, <1>3, <2>2
    DEF Following, StageStatus, SUBMITTED, WAITING, COMMITED, FAILED
  <2>5. StageStatus'
    BY <1>1, <1>2, <2>2, <2>3 DEF StageStatus
  <2> QED BY <1>2, <1>3, <2>2, <2>3, <2>4, <2>5, Continuing
<1> QED BY <1>2, <1>3 DEF AnswersInv, Unparsed

LEMMA CompletionFollows ==
  ASSUME AnswersInv, OnCompleted
  PROVE  AnswersInv'
<1>1. /\ stage = "commited" /\ stage' = "completed" /\ received' = received
      /\ Answer(UpdateRequestStatus(Execute(served), COMPLETED), PKT_NO_ERROR)
  BY DEF OnCompleted, Goes
<1>2. ASSUME Following
      PROVE  Following'
  <2>1. PICK p : p = UpdateRequestStatus(Execute(served), COMPLETED)
    OBVIOUS
  <2>2. Stems(p, received) /\ p["status"] = COMPLETED
    BY <1>2, <2>1, Executing, Updating DEF Following
  <2>3. served["status"] < p["status"]
    BY <1>1, <1>2, <2>2 DEF Following, StageStatus, COMMITED, COMPLETED
  <2>4. StageStatus'
    BY <1>1 DEF StageStatus
  <2> QED BY <1>1, <1>2, <2>1, <2>2, <2>3, <2>4, Continuing
<1> QED BY <1>1, <1>2 DEF AnswersInv, Unparsed

LEMMA NextAnswers ==
  ASSUME AnswersInv, [Next]_vars
  PROVE  AnswersInv'
<1>1. CASE OnDeserializedFailed
  BY <1>1 DEF OnDeserializedFailed, Goes, AnswersInv, Unparsed
<1>2. ASSUME UNCHANGED serverVars
      PROVE  AnswersInv'
  BY <1>2 DEF serverVars, AnswersInv, Unparsed, Following, StageStatus
<1>3. CASE (\E p \in Requests : RemoteCall(p)) \/ ServerClosesOnSize
  BY <1>2, <1>3 DEF RemoteCall, ServerClosesOnSize
<1>4. CASE ClientClosesOnSize \/ OnData \/ UNCHANGED vars
  BY <1>2, <1>4 DEF ClientClosesOnSize, OnData, vars
<1> QED BY <1>1, <1>3, <1>4, Receiving, EventsFollow, CompletionFollows DEF Next

LEMMA AnswersHold == Spec => []AnswersInv
<1>1. Init => AnswersInv
  BY DEF Init, AnswersInv, Unparsed
<1> QED BY <1>1, NextAnswers, PTL DEF Spec

(***************************************************************************)
(* The answers to a request belong together, whatever packet the client    *)
(* sends, of whatever size: one request id and session, the addresses      *)
(* exchanged, one type, and statuses that go up (RPCPacketFactory.h:17-66, *)
(* RPCPacketManager.cpp:23-78).                                            *)
(***************************************************************************)
THEOREM AnswersAreOneRequests == Spec => []AnswersBelongTogether
<1>1. ASSUME AnswersInv, received # None, NEW i \in DOMAIN answers
      PROVE  LET a == answers[i] IN
        /\ a["from"] = received["to"]
        /\ a["to"] = received["from"]
        /\ a["service"] = received["service"]
        /\ a["parameters"] = received["parameters"]
        /\ a["request_id"] = RequestId
        /\ a["inner_id"] = SessionId
        /\ a["type"] = answers[1]["type"]
        /\ a["type"] \in 0 .. 4
        /\ a["status"] > IF i = 1 THEN 0 ELSE answers[i - 1]["status"]
  <2>1. Following
    BY <1>1 DEF AnswersInv
  <2>2. 1 \in DOMAIN answers
    <3>1. PICK S : answers \in Seq(S)
      BY <2>1 DEF Following, AnswersTo
    <3> QED BY <2>1, <3>1 DEF Following
  <2>3. /\ Replies(answers[i], received) /\ Replies(answers[1], received)
        /\ answers[i]["status"] > StatusBefore(answers, i)
    BY <1>1, <2>1, <2>2 DEF Following, AnswersTo
  <2>4. ChangeTypeToResponse(received)["type"] \in 0 .. 4
    BY <2>1, TypesTurn DEF Following
  <2> QED BY <2>3, <2>4 DEF Replies, StatusBefore
<1>2. AnswersInv => AnswersBelongTogether
  BY <1>1 DEF AnswersBelongTogether
<1> QED BY <1>2, AnswersHold, PTL
-----------------------------------------------------------------------------
(***************************************************************************)
(* What the server's packet and the answers keep of the client's packet,   *)
(* besides what makes them its answers: its times, until they are written, *)
(* and its result, until the service has one.                              *)
(***************************************************************************)
Keeps(p, q) ==
  /\ \A t \in Times : p[t] \in {q[t], Time, Empty}
  /\ p["error"] \in Codes /\ p["status"] \in Codes
  /\ \/ p["result"] = q["result"]
     \/ p["result"] = Reward(q) /\ ParametersCheck(q)
  /\ p["status"] = COMPLETED => p["result"] = Reward(q) /\ ParametersCheck(q)

LEMMA ResponsesKeep ==
  ASSUME NEW p, NEW q, HasFields(q), Stems(p, q), Keeps(p, q), NEW error \in Codes
  PROVE  /\ HasFields(CreatePacketResponse(p, error))
         /\ Keeps(CreatePacketResponse(p, error), q)
<1>1. PICK r : r = ChangeTypeToResponse(CreateCopy(p))
  OBVIOUS
<1>2. HasFields(r) /\ \A f \in Field \ {"type"} : r[f] = p[f]
  BY <1>1, Copying, TypesTurn DEF Stems
<1>3. PICK e : e = SetErrorCode(r, error)
  OBVIOUS
<1>4. /\ HasFields(e) /\ e["error"] = error
      /\ \A f \in Field \ {"error"} : e[f] = r[f]
  BY <1>2, <1>3, FieldFacts DEF HasFields, SetErrorCode, CodeFields
<1>5. PICK a : a = SetAddresses(e, e["to"], e["from"], e["inner_id"])
  OBVIOUS
<1>6. a = CreatePacketResponse(p, error)
  BY <1>1, <1>3, <1>5 DEF CreatePacketResponse, ChangeRecvSend
<1>7. HasFields(a) /\ \A f \in Field \ Addressing : a[f] = e[f]
  BY <1>4, <1>5, AddressesAreSet
<1>8. \A f \in Times \cup {"status", "result"} : a[f] = p[f]
  BY <1>2, <1>4, <1>7, FieldFacts DEF Addressing, CodeFields, Times, AnyFields
<1>9. a["error"] = error
  BY <1>4, <1>7, FieldFacts DEF Addressing, CodeFields
<1>10. a["status"] = p["status"] /\ a["result"] = p["result"]
  BY <1>8
<1> QED BY <1>6, <1>7, <1>8, <1>9, <1>10 DEF Keeps

LEMMA TimesKept ==
  ASSUME NEW p, HasFields(p), NEW q, Keeps(p, q), NEW t \in Times,
         NEW time \in {Time, Empty}
  PROVE  HasFields(SetTime(p, t, time)) /\ Keeps(SetTime(p, t, time), q)
<1>1. PICK r : r = SetTime(p, t, time)
  OBVIOUS
<1>2. t \in Field
  BY FieldFacts
<1>3. HasFields(r) /\ r[t] = time /\ \A g \in Field \ {t} : r[g] = p[g]
  BY <1>1, <1>2 DEF SetTime, HasFields
<1>4. \A s \in Times : r[s] \in {q[s], Time, Empty}
  BY <1>3, FieldFacts DEF Keeps
<1>5. r["error"] = p["error"] /\ r["status"] = p["status"] /\ r["result"] = p["result"]
  BY <1>3, FieldFacts DEF Times, CodeFields, AnyFields
<1> QED BY <1>1, <1>3, <1>4, <1>5 DEF Keeps

LEMMA InitialisingKeeps ==
  ASSUME NEW q, HasFields(q)
  PROVE  Keeps(InitRPCPacket(q), q)
<1>1. PICK coded : coded = SetCodes(q, q["type"], PKT_NO_ERROR, SUBMITTED)
  OBVIOUS
<1>2. PICK named : named = SetNames(coded, RequestId, q["service"])
  OBVIOUS
<1>3. PICK placed : placed = SetAddresses(named, q["from"], q["to"], SessionId)
  OBVIOUS
<1>4. /\ HasFields(coded)
      /\ coded["status"] = SUBMITTED /\ coded["error"] = PKT_NO_ERROR
      /\ \A f \in Times \cup {"result"} : coded[f] = q[f]
  <2>1. coded["error"] = PKT_NO_ERROR
    BY <1>1, FieldFacts DEF CodeFields, HasFields, SetCodes
  <2> QED BY <1>1, <2>1, CodesAreSet, FieldFacts DEF CodeFields, Times, AnyFields
<1>5. /\ HasFields(named)
      /\ named["status"] = SUBMITTED /\ named["error"] = PKT_NO_ERROR
      /\ \A f \in Times \cup {"result"} : named[f] = q[f]
  BY <1>2, <1>4, NamesAreSet, FieldFacts DEF Names, CodeFields, Times, AnyFields
<1>6. /\ HasFields(placed)
      /\ placed["status"] = SUBMITTED /\ placed["error"] = PKT_NO_ERROR
      /\ \A f \in Times \cup {"result"} : placed[f] = q[f]
  BY <1>3, <1>5, AddressesAreSet, FieldFacts DEF Addressing, CodeFields, Times, AnyFields
<1>7. Keeps(placed, q)
  BY <1>6 DEF Keeps, PKT_NO_ERROR, SUBMITTED, COMPLETED, Codes
<1>8. /\ "created_time" \in Times /\ "commited_time" \in Times
      /\ "completed_time" \in Times
  BY DEF Times
<1>9. PICK created : created = SetTime(placed, "created_time", Time)
  OBVIOUS
<1>10. HasFields(created) /\ Keeps(created, q)
  BY <1>6, <1>7, <1>8, <1>9, TimesKept
<1>11. PICK commited : commited = SetTime(created, "commited_time", Empty)
  OBVIOUS
<1>12. HasFields(commited) /\ Keeps(commited, q)
  BY <1>8, <1>10, <1>11, TimesKept
<1>13. InitRPCPacket(q) = SetTime(commited, "completed_time", Empty)
  BY <1>1, <1>2, <1>3, <1>9, <1>11 DEF InitRPCPacket
<1> QED BY <1>8, <1>12, <1>13, TimesKept

LEMMA UpdatingKeeps ==
  ASSUME NEW p, HasFields(p), NEW q, Keeps(p, q),
         NEW status \in {WAITING, COMMITED, COMPLETED, FAILED},
         status = COMPLETED => p["result"] = Reward(q) /\ ParametersCheck(q)
  PROVE  Keeps(UpdateRequestStatus(p, status), q)
<1>1. TimeOf(status) \in Times
  BY DEF TimeOf, Times, SUBMITTED, WAITING, COMMITED, COMPLETED, FAILED
<1>2. PICK coded : coded = SetCodes(p, p["type"], p["error"], status)
  OBVIOUS
<1>3. /\ HasFields(coded) /\ coded["status"] = status /\ coded["error"] = p["error"]
      /\ \A f \in Times \cup {"result"} : coded[f] = p[f]
  <2>1. coded["error"] = p["error"]
    BY <1>2, FieldFacts DEF CodeFields, HasFields, SetCodes
  <2> QED BY <1>2, <2>1, CodesAreSet, FieldFacts DEF CodeFields, Times, AnyFields
<1>4. status \in Codes
  BY DEF WAITING, COMMITED, COMPLETED, FAILED, Codes
<1>5. Keeps(coded, q)
  BY <1>3, <1>4 DEF Keeps
<1>6. UpdateRequestStatus(p, status) = SetTime(coded, TimeOf(status), Time)
  BY <1>2 DEF UpdateRequestStatus
<1> QED BY <1>1, <1>3, <1>5, <1>6, TimesKept

LEMMA ExecutingKeeps ==
  ASSUME NEW p, NEW q, Stems(p, q), Keeps(p, q), ParametersCheck(p),
         p["status"] # COMPLETED
  PROVE  /\ Stems(Execute(p), q) /\ Keeps(Execute(p), q)
         /\ Execute(p)["result"] = Reward(q) /\ ParametersCheck(q)
<1>1. p["parameters"] = q["parameters"] /\ HasFields(p)
  BY DEF Stems
<1>2. ParametersCheck(q) /\ Reward(p) = Reward(q)
  BY <1>1 DEF ParametersCheck, Reward
<1>3. PICK e : e = [p EXCEPT !["result"] = Reward(p)]
  OBVIOUS
<1>4. Execute(p) = e
  BY <1>3 DEF Execute, SetResult, Reward, Greeted
<1>5. /\ HasFields(e) /\ e["result"] = Reward(p)
      /\ \A g \in Field \ {"result"} : e[g] = p[g]
  BY <1>1, <1>3, FieldFacts DEF HasFields, AnyFields
<1>6. /\ \A t \in Times : e[t] = p[t]
      /\ e["error"] = p["error"] /\ e["status"] = p["status"]
  BY <1>5, FieldFacts DEF Times, CodeFields
<1>7. Keeps(e, q)
  BY <1>2, <1>5, <1>6 DEF Keeps
<1> QED BY <1>2, <1>4, <1>5, <1>7, Executing

LEMMA RepliesDerive ==
  ASSUME NEW q, IsPacket(q), NEW a, HasFields(a), Replies(a, q), Keeps(a, q)
  PROVE  Derives(a, q)
<1>0. ChangeTypeToResponse(q)["type"] \in 0 .. 4
  <2>1. HasFields(q)
    BY DEF IsPacket, HasFields, Field
  <2> QED BY <2>1, TypesTurn
<1>1. \A f \in Field : IsFieldValue(f, q[f])
  BY DEF IsPacket, Field
<1>2. \A f \in CodeFields : IsFieldValue(f, a[f])
  <2>1. a["type"] \in Codes
    BY <1>0 DEF Replies, Codes
  <2> QED BY <2>1 DEF CodeFields, Keeps, IsFieldValue, IsEnum
<1>3. \A f \in Addressing \cup Names : IsFieldValue(f, a[f])
  <2>1. \A f \in Addressing \cup Names : IsFieldValue(f, a[f]) <=> a[f] \in Texts
    BY DEF Addressing, Names, IsFieldValue, IsEnum, IsAny
  <2>2. q["from"] \in Texts /\ q["to"] \in Texts /\ q["service"] \in Texts
    BY <1>1, FieldFacts DEF Addressing, Names, IsFieldValue, IsEnum, IsAny
  <2>3. SessionId \in Texts
    BY IdsAssumption DEF IdsAssumption
  <2> QED BY <2>1, <2>2, <2>3, OwnTexts DEF Replies, Addressing, Names
<1>4. \A f \in Times : IsFieldValue(f, a[f])
  <2>1. \A f \in Times : \A v : IsFieldValue(f, v) <=> v \in Texts
    BY DEF Times, IsFieldValue, IsEnum, IsAny
  <2>2. \A f \in Times : q[f] \in Texts
    BY <1>1, <2>1, FieldFacts
  <2> QED BY <2>1, <2>2, OwnTexts DEF Keeps
<1>5. IsFieldValue("parameters", a["parameters"])
  BY <1>1, FieldFacts DEF AnyFields, Replies
<1>6. IsFieldValue("result", a["result"])
  BY <1>1, FieldFacts, RewardSize DEF AnyFields, Keeps
<1>7. \A f \in Field : f \in Addressing \cup CodeFields \cup Times \cup Names \cup AnyFields
  <2>1. \A f \in Field : \E i \in 1 .. 15 : Fields[i] = f
    BY FieldsNumbered DEF Field
  <2>2. \A i \in 1 .. 15 :
          Fields[i] \in Addressing \cup CodeFields \cup Times \cup Names \cup AnyFields
    BY DEF Fields, Addressing, CodeFields, Times, Names, AnyFields
  <2> QED BY <2>1, <2>2
<1>8. IsPacket(a)
  <2>1. \A f \in Field : IsFieldValue(f, a[f])
    BY <1>2, <1>3, <1>4, <1>5, <1>6, <1>7 DEF AnyFields
  <2> QED BY <2>1 DEF IsPacket, HasFields, Field
<1> QED BY <1>8 DEF Derives, Replies, Keeps
-----------------------------------------------------------------------------
(***************************************************************************)
(* What any answer is: a packet, in UTF-8, of less than 2^16 bytes.        *)
(***************************************************************************)
Refusal == CreateDeserializedErrorPacket(ServerId, SessionId, SessionId)

(* The packet the server has, when the request was parsed.                 *)
IsReceived(q) ==
  /\ IsPacket(q) /\ IsUtf8(q) /\ ByteSizeLong(q) <= DSC_PACKET_BODY_MAX_SIZE

LEMMA DerivedIsUtf8 ==
  ASSUME NEW q, IsPacket(q), IsUtf8(q), NEW a, Derives(a, q)
  PROVE  IsUtf8(a)
<1>1. DOMAIN a = Field /\ DOMAIN q = Field
  BY DEF Derives, IsPacket, Field
<1>2. \A f \in Field : IsString(f) => f \in Addressing \cup Times \cup Names
  <2>1. \A f \in Field : \E i \in 1 .. 15 : Fields[i] = f
    BY FieldsNumbered DEF Field
  <2>2. \A i \in 1 .. 15 :
          IsString(Fields[i]) => Fields[i] \in Addressing \cup Times \cup Names
    BY DEF Fields, Addressing, Times, Names, IsString, IsEnum, IsAny
  <2> QED BY <2>1, <2>2
<1>3. q["from"].utf8 /\ q["to"].utf8 /\ q["service"].utf8
  BY <1>1, StringsAre DEF IsUtf8, Addressing, Names
<1>4. \A t \in Times : q[t].utf8
  BY <1>1, StringsAre DEF IsUtf8
<1>5. /\ a["from"].utf8 /\ a["to"].utf8 /\ a["inner_id"].utf8
      /\ a["request_id"].utf8 /\ a["service"].utf8
  BY <1>3, OwnTexts, IdsAssumption DEF Derives, IdsAssumption
<1>6. \A t \in Times : a[t].utf8
  <2>1. \A t \in Times : a[t] = q[t] \/ a[t] = Time \/ a[t] = Empty
    BY DEF Derives
  <2> QED BY <1>4, <2>1, OwnTexts, Zenon
<1> QED BY <1>1, <1>2, <1>5, <1>6 DEF IsUtf8, Addressing, Names

LEMMA RefusalIs ==
  /\ IsPacket(Refusal) /\ IsUtf8(Refusal)
  /\ ByteSizeLong(Refusal) <= DSC_PACKET_BODY_MAX_SIZE
  /\ Refusal["status"] = FAILED
<1> DEFINE r == Refusal
<1>1. /\ DOMAIN r = Field
      /\ r["type"] = 0 /\ r["error"] = 3 /\ r["status"] = 5
      /\ r["from"] = ServerId /\ r["to"] = SessionId /\ r["inner_id"] = SessionId
      /\ \A f \in Field \ (CodeFields \cup Addressing) : r[f] = Default(f)
  BY FieldFacts DEF Refusal, CreateDeserializedErrorPacket, SetAddresses, SetCodes,
     NewPacket, Field, CodeFields, Addressing, DEFAULT_RESPONSE,
     PKT_DESERIALIZATION_ERROR, FAILED
<1>2. r = [f \in Field |-> r[f]]
  BY DEF Refusal, CreateDeserializedErrorPacket, SetAddresses, SetCodes,
     NewPacket, Field
<1> HIDE DEF r
<1>3. /\ SessionId \in Texts /\ SessionId.size = 36 /\ ServerId \in Texts
      /\ ServerId.size \in Nat /\ ServerId.size <= 4000
  BY IdsAssumption DEF IdsAssumption, Texts
<1>4. SessionId.utf8 /\ ServerId.utf8
  BY IdsAssumption DEF IdsAssumption
<1>5. IsPacket(r)
  <2>1. \A f \in Field \ (CodeFields \cup Addressing) : IsFieldValue(f, r[f])
    BY <1>1, DefaultIsValue
  <2>2. \A f \in CodeFields : IsFieldValue(f, r[f])
    BY <1>1 DEF CodeFields, IsFieldValue, IsEnum, Codes
  <2>3. \A f \in Addressing : IsFieldValue(f, r[f])
    BY <1>1, <1>3 DEF Addressing, IsFieldValue, IsEnum, IsAny
  <2> QED BY <1>2, <2>1, <2>2, <2>3 DEF IsPacket, Field
<1>6. IsUtf8(r)
  <2>1. \A f \in Field \ (CodeFields \cup Addressing) : IsString(f) => r[f].utf8
    BY <1>1, OwnTexts DEF Default, IsString
  <2>2. \A f \in CodeFields : ~IsString(f)
    BY DEF CodeFields, IsString, IsEnum
  <2>3. \A f \in Addressing : r[f].utf8
    BY <1>1, <1>4 DEF Addressing
  <2> QED BY <1>1, <2>1, <2>2, <2>3 DEF IsUtf8
<1>7. ByteSizeLong(r) <= 4096
  <2>1. PICK c : c = [f \in Field |-> Cost(f, r[f])]
    OBVIOUS
  <2>2. \A f \in Field \ (CodeFields \cup Addressing) : c[f] = 0
    BY <1>1, <2>1 DEF Cost
  <2>3. /\ c["created_time"] = 0 /\ c["post_time"] = 0 /\ c["commited_time"] = 0
        /\ c["completed_time"] = 0 /\ c["failed_time"] = 0
        /\ c["request_id"] = 0 /\ c["service"] = 0 /\ c["parameters"] = 0
        /\ c["result"] = 0
    BY <2>2, FieldFacts DEF Addressing, CodeFields, Times, Names, AnyFields
  <2>4. \A f \in CodeFields : c[f] <= 2
    BY <1>5, <2>1, FieldFacts, FieldMeasured DEF IsPacket, Field, CodeFields, IsEnum
  <2>5. c["from"] <= 4006 /\ c["to"] <= 38 /\ c["inner_id"] <= 38
    <3>1. IsString("from") /\ IsString("to") /\ IsString("inner_id")
      BY StringsAre DEF Addressing
    <3>2. Cost("from", ServerId) \in Nat /\ Cost("from", ServerId) <= 6 + ServerId.size
      BY <1>3, <3>1, TextCost
    <3>3. Cost("to", SessionId) <= 38 /\ Cost("inner_id", SessionId) <= 38
      BY <1>3, <3>1, SizedCost
    <3>4. c["from"] = Cost("from", ServerId) /\ c["to"] = Cost("to", SessionId)
          /\ c["inner_id"] = Cost("inner_id", SessionId)
      BY <1>1, <2>1, FieldFacts DEF Addressing
    <3> QED BY <1>3, <3>2, <3>3, <3>4
  <2>6. /\ c \in [Field -> Nat]
        /\ ByteSizeLong(r) =
              c["type"] + c["error"] + c["status"] + c["from"] + c["to"]
              + c["inner_id"] + c["created_time"] + c["post_time"]
              + c["commited_time"] + c["completed_time"] + c["failed_time"]
              + c["request_id"] + c["service"] + c["parameters"] + c["result"]
    BY <1>5, <2>1, PacketSize
  <2>7. /\ c["type"] \in Nat /\ c["error"] \in Nat /\ c["status"] \in Nat
        /\ c["from"] \in Nat /\ c["to"] \in Nat /\ c["inner_id"] \in Nat
    BY <2>6, FieldFacts DEF Addressing, CodeFields
  <2>8. c["type"] <= 2 /\ c["error"] <= 2 /\ c["status"] <= 2
    BY <2>4 DEF CodeFields
  <2>9. PICK n \in Nat : n = ByteSizeLong(r)
    BY <1>5, PacketRead
  <2>10. n = c["type"] + c["error"] + c["status"] + c["from"] + c["to"] + c["inner_id"]
    BY <2>3, <2>6, <2>7, <2>9
  <2>11. n <= 4096
    BY <2>5, <2>7, <2>8, <2>10
  <2> QED BY <2>9, <2>11
<1> QED BY <1>1, <1>5, <1>6, <1>7 DEF r, DSC_PACKET_BODY_MAX_SIZE, FAILED

(* An answer to a request that was parsed, or that was not.                *)
Answers(a, q) ==
  /\ Derives(a, q)
  /\ a["status"] = COMPLETED => a["result"] = Reward(q) /\ ParametersCheck(q)

LEMMA AnswersFit ==
  ASSUME NEW q, IsReceived(q), NEW a, Answers(a, q)
  PROVE  /\ IsPacket(a) /\ IsUtf8(a) /\ ByteSizeLong(a) < UInt16
         /\ ByteSizeLong(a) <= 2 * ByteSizeLong(q) + Growth
<1>1. IsPacket(a) /\ IsUtf8(a)
  BY DerivedIsUtf8 DEF IsReceived, Answers, Derives
<1>2. PICK n \in Nat : n = ByteSizeLong(q) /\ n <= 4096
  BY PacketRead DEF IsReceived, DSC_PACKET_BODY_MAX_SIZE
<1>3. PICK m \in Nat : m = ByteSizeLong(a)
  BY <1>1, PacketRead
<1>4. m <= 2 * n + 256
  <2>1. ByteSizeLong(a) <= 2 * ByteSizeLong(q) + Growth
    BY Grows DEF IsReceived, Answers
  <2> QED BY <1>2, <1>3, <2>1 DEF Growth
<1>5. m < 65536
  BY <1>2, <1>4
<1> QED BY <1>1, <1>2, <1>3, <1>4, <1>5 DEF UInt16, Growth
-----------------------------------------------------------------------------
(***************************************************************************)
(* The invariant.  The history of the answers is what the client heard and *)
(* then what is on its way to it; each answer fits into a frame, because   *)
(* the packet the server parsed does.                                      *)
(***************************************************************************)
IsSequence(s) == \E S : s \in Seq(S)

Asked ==
  /\ \/ request \in Requests
     \/ request = None /\ toServer = <<>> /\ stage = "none" /\ closed = {}
  /\ toServer = <<>> \/ toServer = <<Frame(request)>>

Parsed ==
  received # None =>
    /\ IsReceived(received)
    /\ \E k \in 0 .. Len(Fields) : received = Upto(Fields, request, k)
    /\ ByteSizeLong(request) < UInt16 => received = request
    /\ Keeps(served, received)
    /\ \A i \in DOMAIN answers : Answers(answers[i], received)

Refused ==
  stage = "refused" =>
    /\ answers = <<Refusal>>
    /\ ByteSizeLong(request) > UInt16 \/ ~IsUtf8(request)

Closings ==
  /\ closed \subseteq {"server", "client"}
  /\ "server" \in closed => ByteSizeLong(request) > DSC_PACKET_BODY_MAX_SIZE
  /\ "client" \in closed =>
       \E i \in DOMAIN answers : ByteSizeLong(answers[i]) > DSC_PACKET_BODY_MAX_SIZE

IsHistory(said, sent, got) ==
  /\ IsSequence(said) /\ IsSequence(sent) /\ IsSequence(got)
  /\ Len(got) + Len(sent) = Len(said)
  /\ \A i \in 1 .. Len(got) : got[i] = said[i]
  /\ \A i \in 1 .. Len(sent) : sent[i] = Frame(said[Len(got) + i])

History == IsHistory(answers, toClient, heard)

WireInv ==
  /\ Asked
  /\ stage \in {"none", "refused"} \/ received # None
  /\ Parsed
  /\ Refused
  /\ Closings
  /\ History

LEMMA NoneIsNoPacket == \A p : IsPacket(p) => p # None
<1>1. ASSUME NEW p, IsPacket(p) PROVE p \in [ToSet(Fields) -> Values]
  <2>1. \A f \in ToSet(Fields) : p[f] \in Values
    BY <1>1 DEF IsPacket, IsFieldValue, Values
  <2> QED BY <1>1, <2>1 DEF IsPacket
<1> QED BY <1>1, NoneAssumption DEF NoneAssumption

IsOneMore(r, s, a) ==
  /\ IsSequence(r) /\ Len(s) \in Nat /\ Len(r) = Len(s) + 1
  /\ DOMAIN s = 1 .. Len(s) /\ DOMAIN r = 1 .. Len(s) + 1
  /\ r[Len(s) + 1] = a
  /\ \A i \in 1 .. Len(s) : r[i] = s[i]
  /\ \A i \in 1 .. Len(s) + 1 : i \in 1 .. Len(s) \/ i = Len(s) + 1

LEMMA Appended ==
  ASSUME NEW s, IsSequence(s), NEW a
  PROVE  IsOneMore(Append(s, a), s, a)
<1>1. PICK S : s \in Seq(S)
  BY DEF IsSequence
<1>2. s \in Seq(S \cup {a}) /\ a \in S \cup {a}
  BY <1>1
<1>3. PICK r : r = Append(s, a)
  OBVIOUS
<1>4. r \in Seq(S \cup {a})
  BY <1>2, <1>3
<1>5. /\ Len(s) \in Nat /\ Len(r) = Len(s) + 1
      /\ DOMAIN s = 1 .. Len(s) /\ DOMAIN r = 1 .. Len(s) + 1
      /\ r[Len(s) + 1] = a
      /\ \A i \in 1 .. Len(s) : r[i] = s[i]
      /\ \A i \in 1 .. Len(s) + 1 : i \in 1 .. Len(s) \/ i = Len(s) + 1
  BY <1>2, <1>3
<1>6. IsSequence(r)
  BY <1>4 DEF IsSequence
<1>7. IsOneMore(r, s, a)
  BY <1>5, <1>6 DEF IsOneMore
<1> QED BY <1>3, <1>7

LEMMA Tailed ==
  ASSUME NEW s, IsSequence(s), s # <<>>, NEW r, r = Tail(s)
  PROVE  /\ IsSequence(r) /\ Len(s) \in Nat \ {0} /\ Len(r) = Len(s) - 1
         /\ Head(s) = s[1]
         /\ \A i \in 1 .. Len(s) - 1 : r[i] = s[i + 1]
<1>1. PICK S : s \in Seq(S)
  BY DEF IsSequence
<1> QED BY <1>1 DEF IsSequence

(* Every answer was made to fit.                                           *)
LEMMA AnswersAreFit ==
  ASSUME WireInv, AnswersInv, NEW i \in DOMAIN answers
  PROVE  /\ IsPacket(answers[i]) /\ IsUtf8(answers[i])
         /\ ByteSizeLong(answers[i]) < UInt16
         /\ received # None =>
              ByteSizeLong(answers[i]) <= 2 * ByteSizeLong(received) + Growth
         /\ received = None => answers[i] = Refusal
<1>1. CASE received # None
  BY <1>1, AnswersFit DEF WireInv, Parsed
<1>2. CASE received = None
  <2>1. stage = "none" \/ stage = "refused"
    BY <1>2 DEF WireInv
  <2>2. answers = <<>> \/ answers = <<Refusal>>
    BY <2>1 DEF WireInv, Refused, AnswersInv, Unparsed
  <2>3. answers[i] = Refusal
    BY <2>2
  <2>4. ByteSizeLong(Refusal) < UInt16
    <3>1. ByteSizeLong(Refusal) \in Nat
      BY RefusalIs, PacketRead
    <3> QED BY <3>1, RefusalIs DEF UInt16, DSC_PACKET_BODY_MAX_SIZE
  <2> QED BY <1>2, <2>3, <2>4, RefusalIs
<1> QED BY <1>1, <1>2

LEMMA Lengths == \A s : IsSequence(s) => Len(s) \in Nat /\ DOMAIN s = 1 .. Len(s)
  BY DEF IsSequence

LEMMA HistoryGrows ==
  ASSUME NEW said, NEW sent, NEW got, IsHistory(said, sent, got),
         NEW a, NEW b, b = Frame(a)
  PROVE  IsHistory(Append(said, a), Append(sent, b), got)
<1>1. PICK r : r = Append(said, a)
  OBVIOUS
<1>2. PICK t : t = Append(sent, b)
  OBVIOUS
<1>3. IsSequence(said) /\ IsSequence(sent) /\ IsSequence(got)
  BY DEF IsHistory
<1>4. /\ IsSequence(r) /\ Len(said) \in Nat /\ Len(r) = Len(said) + 1
      /\ r[Len(said) + 1] = a
      /\ \A i \in 1 .. Len(said) : r[i] = said[i]
  <2>1. IsOneMore(r, said, a)
    BY <1>1, <1>3, Appended
  <2> QED BY <2>1 DEF IsOneMore
<1>5. /\ IsSequence(t) /\ Len(sent) \in Nat /\ Len(t) = Len(sent) + 1
      /\ t[Len(sent) + 1] = b
      /\ \A i \in 1 .. Len(sent) : t[i] = sent[i]
      /\ \A i \in 1 .. Len(sent) + 1 : i \in 1 .. Len(sent) \/ i = Len(sent) + 1
  <2>1. IsOneMore(t, sent, b)
    BY <1>2, <1>3, Appended
  <2> QED BY <2>1 DEF IsOneMore
<1>6. PICK n \in Nat : n = Len(got)
  BY <1>3, Lengths
<1>7. /\ n + Len(sent) = Len(said)
      /\ \A i \in 1 .. n : got[i] = said[i]
      /\ \A i \in 1 .. Len(sent) : sent[i] = Frame(said[n + i])
  BY <1>6 DEF IsHistory
<1>8. \A i \in 1 .. n : got[i] = r[i]
  <2>1. \A i \in 1 .. n : i \in 1 .. Len(said)
    BY <1>4, <1>5, <1>7
  <2> QED BY <1>4, <1>7, <2>1
<1>9. ASSUME NEW i \in 1 .. Len(t)
      PROVE  t[i] = Frame(r[n + i])
  <2>1. CASE i \in 1 .. Len(sent)
    <3>1. n + i \in 1 .. Len(said)
      BY <1>4, <1>5, <1>7, <2>1
    <3> QED BY <1>4, <1>5, <1>7, <2>1, <3>1
  <2>2. CASE i = Len(sent) + 1
    <3>0. PICK x, y \in Nat : x = Len(sent) /\ y = Len(said) /\ n + x = y
      BY <1>4, <1>5, <1>7
    <3>1. n + i = Len(said) + 1
      BY <2>2, <3>0
    <3> QED BY <1>4, <1>5, <2>2, <3>1
  <2> QED BY <1>5, <2>1, <2>2
<1>10. n + Len(t) = Len(r)
  BY <1>4, <1>5, <1>7
<1> QED BY <1>1, <1>2, <1>3, <1>4, <1>5, <1>6, <1>8, <1>9, <1>10 DEF IsHistory

LEMMA HistoryMoves ==
  ASSUME NEW said, NEW sent, NEW got, IsHistory(said, sent, got), sent # <<>>
  PROVE  /\ Len(got) + 1 \in DOMAIN said
         /\ Head(sent) = Frame(said[Len(got) + 1])
         /\ \A a : a = said[Len(got) + 1] => IsHistory(said, Tail(sent), Append(got, a))
<1>1. IsSequence(said) /\ IsSequence(sent) /\ IsSequence(got)
  BY DEF IsHistory
<1>2. PICK t : t = Tail(sent)
  OBVIOUS
<1>3. PICK n \in Nat : n = Len(got)
  BY <1>1, Lengths
<1>4. /\ IsSequence(t) /\ Len(sent) \in Nat \ {0} /\ Len(t) = Len(sent) - 1
      /\ Head(sent) = sent[1]
      /\ \A i \in 1 .. Len(sent) - 1 : t[i] = sent[i + 1]
  BY <1>1, <1>2, Tailed
<1>5. /\ n + Len(sent) = Len(said)
      /\ \A i \in 1 .. n : got[i] = said[i]
      /\ \A i \in 1 .. Len(sent) : sent[i] = Frame(said[n + i])
  BY <1>3 DEF IsHistory
<1>6. n + 1 \in DOMAIN said /\ DOMAIN said = 1 .. Len(said) /\ 1 \in 1 .. Len(sent)
  BY <1>1, <1>4, <1>5, Lengths
<1>7. Head(sent) = Frame(said[n + 1])
  BY <1>4, <1>5, <1>6
<1>8. ASSUME NEW a, a = said[n + 1]
      PROVE  IsHistory(said, t, Append(got, a))
  <2>1. PICK g : g = Append(got, a)
    OBVIOUS
  <2>2. /\ IsSequence(g) /\ Len(g) = n + 1 /\ g[n + 1] = a
        /\ \A i \in 1 .. n : g[i] = got[i]
        /\ \A i \in 1 .. n + 1 : i \in 1 .. n \/ i = n + 1
    <3>1. IsOneMore(g, got, a)
      BY <1>1, <2>1, Appended
    <3> QED BY <1>3, <3>1 DEF IsOneMore
  <2>3. \A i \in 1 .. n + 1 : g[i] = said[i]
    BY <1>5, <1>8, <2>2
  <2>4. ASSUME NEW i \in 1 .. Len(t) PROVE t[i] = Frame(said[(n + 1) + i])
    <3>1. /\ i \in 1 .. Len(sent) - 1 /\ i + 1 \in 1 .. Len(sent)
          /\ n + (i + 1) = (n + 1) + i
      BY <1>4
    <3>2. t[i] = sent[i + 1]
      BY <1>4, <3>1
    <3>3. sent[i + 1] = Frame(said[n + (i + 1)])
      BY <1>5, <3>1
    <3> QED BY <3>1, <3>2, <3>3
  <2>5. (n + 1) + Len(t) = Len(said)
    <3>1. PICK len \in Nat \ {0} : len = Len(sent) /\ Len(t) = len - 1
      BY <1>4
    <3>2. (n + 1) + (len - 1) = n + len /\ n + len = Len(said)
      BY <1>3, <1>5, <3>1
    <3> QED BY <3>1, <3>2
  <2> QED BY <1>1, <1>4, <2>1, <2>2, <2>3, <2>4, <2>5 DEF IsHistory
<1> QED BY <1>2, <1>3, <1>6, <1>7, <1>8

LEMMA ClosingsStay ==
  ASSUME Closings, IsSequence(answers), closed' = closed, request' = request,
         NEW a, answers' = Append(answers, a)
  PROVE  Closings'
<1>1. /\ DOMAIN answers = 1 .. Len(answers) /\ DOMAIN answers' = 1 .. Len(answers) + 1
      /\ Len(answers) \in Nat /\ \A i \in 1 .. Len(answers) : answers'[i] = answers[i]
  <2>1. IsOneMore(answers', answers, a)
    BY Appended
  <2> QED BY <2>1 DEF IsOneMore
<1>2. \A i \in DOMAIN answers : i \in DOMAIN answers' /\ answers'[i] = answers[i]
  BY <1>1
<1> QED BY <1>2 DEF Closings
-----------------------------------------------------------------------------
(* The client's call.                                                      *)
LEMMA CallFits ==
  ASSUME WireInv, AnswersInv, NEW p \in Requests, RemoteCall(p)
  PROVE  WireInv'
<1>1. IsPacket(p) /\ request = None /\ None \notin Requests
  BY RequestsAssumption, NoneIsNoPacket DEF RequestsAssumption, RemoteCall
<1>2. toServer = <<>> /\ stage = "none" /\ closed = {}
  BY <1>1 DEF WireInv, Asked
<1>3. /\ request' = p /\ toServer' = <<Frame(p)>>
      /\ heard' = heard /\ toClient' = toClient /\ closed' = closed
      /\ stage' = stage /\ received' = received /\ served' = served
      /\ answers' = answers
  BY DEF RemoteCall, serverVars
<1>4. received = None
  BY <1>2 DEF AnswersInv, Unparsed
<1>5. Asked' /\ Parsed' /\ Refused' /\ Closings'
  BY <1>2, <1>3, <1>4 DEF Asked, Parsed, Refused, Closings
<1>6. History'
  BY <1>3 DEF WireInv, History
<1> QED BY <1>2, <1>3, <1>5, <1>6 DEF WireInv

(* The frame arrives.                                                      *)
LEMMA RequestIsFramed ==
  ASSUME WireInv, toServer # <<>>
  PROVE  /\ request \in Requests /\ IsPacket(request)
         /\ Head(toServer) = Frame(request)
<1>1. request \in Requests /\ toServer = <<Frame(request)>>
  BY DEF WireInv, Asked
<1> QED BY <1>1, RequestsAssumption DEF RequestsAssumption

LEMMA ServerCloses ==
  ASSUME WireInv, ServerClosesOnSize
  PROVE  WireInv'
<1>1. /\ toServer # <<>> /\ TooLarge(Head(toServer))
      /\ toServer' = <<>> /\ closed' = closed \cup {"server"}
      /\ request' = request /\ heard' = heard /\ toClient' = toClient
      /\ stage' = stage /\ received' = received /\ served' = served
      /\ answers' = answers
  BY DEF ServerClosesOnSize, clientVars, serverVars
<1>2. /\ IsPacket(request) /\ request \in Requests
      /\ Frame(request).size > DSC_PACKET_BODY_MAX_SIZE
  BY <1>1, RequestIsFramed DEF TooLarge
<1>3. ByteSizeLong(request) > DSC_PACKET_BODY_MAX_SIZE
  <2>1. PICK n, m \in Nat :
          n = ByteSizeLong(request) /\ m = Frame(request).size /\ m <= n
    BY <1>2, PacketRead, AnyFrame
  <2> QED BY <1>2, <2>1 DEF DSC_PACKET_BODY_MAX_SIZE
<1>4. Asked' /\ Parsed' /\ Refused'
  BY <1>1, <1>2 DEF WireInv, Asked, Parsed, Refused
<1>5. Closings'
  BY <1>1, <1>3 DEF WireInv, Closings
<1>6. History'
  BY <1>1 DEF WireInv, History
<1> QED BY <1>1, <1>4, <1>5, <1>6 DEF WireInv

LEMMA SentFits ==
  ASSUME WireInv, NEW a, Send(a), heard' = heard, closed' = closed, request' = request
  PROVE  History' /\ Closings'
<1>1. answers' = Append(answers, a) /\ toClient' = Append(toClient, Frame(a))
  BY DEF Send
<1>2. IsHistory(Append(answers, a), Append(toClient, Frame(a)), heard)
  BY HistoryGrows DEF WireInv, History
<1>3. History'
  BY <1>1, <1>2 DEF History
<1>4. Closings'
  BY <1>1, ClosingsStay DEF WireInv, History, IsHistory
<1> QED BY <1>3, <1>4

(* A packet that does not parse is refused.                                *)
LEMMA RefusalFits ==
  ASSUME WireInv, AnswersInv, OnDeserializedFailed
  PROVE  WireInv'
<1>1. /\ toServer # <<>> /\ ~Parses(Head(toServer).body)
      /\ stage = "none" /\ stage' = "refused" /\ toServer' = <<>>
      /\ Send(Refusal)
      /\ request' = request /\ heard' = heard /\ closed' = closed
      /\ received' = received /\ served' = served
  BY DEF OnDeserializedFailed, Goes, Refusal, clientVars
<1>2. answers = <<>> /\ received = None
  BY <1>1 DEF AnswersInv, Unparsed
<1>3. IsPacket(request) /\ request \in Requests /\ ~Parses(Frame(request).body)
  BY <1>1, RequestIsFramed
<1>4. ByteSizeLong(request) > UInt16 \/ ~IsUtf8(request)
  BY <1>3, AnyFrame
<1>5. answers' = <<Refusal>>
  BY <1>1, <1>2 DEF Send
<1>6. Asked' /\ Parsed' /\ Refused'
  BY <1>1, <1>2, <1>3, <1>4, <1>5 DEF Asked, Parsed, Refused
<1>7. History' /\ Closings'
  BY <1>1, SentFits
<1> QED BY <1>1, <1>6, <1>7 DEF WireInv

(* The server's packet p is answered; q is what the client sent.           *)
LEMMA AnswerFits ==
  ASSUME NEW q, IsReceived(q), NEW p, Stems(p, q), Keeps(p, q), NEW error \in Codes
  PROVE  Answers(CreatePacketResponse(p, error), q)
<1>1. PICK a : a = CreatePacketResponse(p, error)
  OBVIOUS
<1>2. HasFields(q) /\ IsPacket(q)
  BY DEF IsReceived, IsPacket, HasFields, Field
<1>3. HasFields(a) /\ Keeps(a, q)
  BY <1>1, <1>2, ResponsesKeep
<1>4. Replies(a, q)
  BY <1>1, <1>2, Responses
<1>5. Derives(a, q)
  BY <1>2, <1>3, <1>4, RepliesDerive
<1> QED BY <1>1, <1>3, <1>5 DEF Answers, Keeps

LEMMA ReceivedFits ==
  ASSUME WireInv, AnswersInv, OnDeserialized
  PROVE  WireInv'
<1>1. /\ toServer # <<>> /\ ~TooLarge(Head(toServer)) /\ Parses(Head(toServer).body)
      /\ stage = "none" /\ stage' = "submitted" /\ toServer' = <<>>
      /\ received' = Parse(Head(toServer).body)
      /\ served' = InitRPCPacket(received')
      /\ Send(CreatePacketResponse(InitRPCPacket(received'), PKT_NO_ERROR))
      /\ request' = request /\ heard' = heard /\ closed' = closed
  BY DEF OnDeserialized, Answer, Goes, clientVars
<1>2. PICK q : q = received'
  OBVIOUS
<1>3. IsPacket(request) /\ request \in Requests /\ Head(toServer) = Frame(request)
  BY <1>1, RequestIsFramed
<1>4. PICK k \in 0 .. Len(Fields) :
        /\ q = Upto(Fields, request, k)
        /\ ByteSizeLong(Upto(Fields, request, k)) <= Frame(request).size
        /\ IsUtf8(Upto(Fields, request, k))
        /\ ByteSizeLong(request) < UInt16 => Upto(Fields, request, k) = request
  <2>1. Parses(Frame(request).body) /\ q = Parse(Frame(request).body)
    BY <1>1, <1>2, <1>3
  <2> QED BY <1>3, <2>1, AnyFrame
<1>5. IsReceived(q)
  <2>1. IsPacket(q)
    BY <1>3, <1>4, UptoIsPacket
  <2>2. PICK n, m \in Nat : n = ByteSizeLong(q) /\ m = Frame(request).size
    BY <1>3, <2>1, PacketRead, AnyFrame
  <2>3. ~(m > DSC_PACKET_BODY_MAX_SIZE)
    BY <1>1, <1>3, <2>2 DEF TooLarge
  <2>4. n <= DSC_PACKET_BODY_MAX_SIZE
    BY <1>4, <2>2, <2>3 DEF DSC_PACKET_BODY_MAX_SIZE
  <2> QED BY <1>4, <2>1, <2>2, <2>4 DEF IsReceived
<1>6. PICK p : p = InitRPCPacket(q)
  OBVIOUS
<1>7. HasFields(q)
  BY <1>5 DEF IsReceived, IsPacket, HasFields, Field
<1>8. Stems(p, q) /\ Keeps(p, q)
  BY <1>6, <1>7, Initialising, InitialisingKeeps
<1>9. PICK a : a = CreatePacketResponse(p, PKT_NO_ERROR)
  OBVIOUS
<1>10. Answers(a, q)
  BY <1>5, <1>8, <1>9, AnswerFits DEF PKT_NO_ERROR, Codes
<1>11. Send(a) /\ answers = <<>>
  BY <1>1, <1>2, <1>6, <1>9 DEF AnswersInv, Unparsed
<1>12. DOMAIN answers' = {1} /\ answers'[1] = a
  <2>1. answers' = <<a>>
    BY <1>11 DEF Send
  <2> QED BY <2>1
<1>13. Parsed'
  <2>1. received' = q /\ served' = p
    BY <1>1, <1>2, <1>6
  <2>2. \A i \in DOMAIN answers' : Answers(answers'[i], q)
    BY <1>10, <1>12
  <2>3. request' = request
    BY <1>1
  <2> QED BY <1>4, <1>5, <1>8, <2>1, <2>2, <2>3 DEF Parsed
<1>14. received' # None
  BY <1>2, <1>5, NoneIsNoPacket DEF IsReceived
<1>15. Asked' /\ Refused'
  BY <1>1, <1>3 DEF Asked, Refused
<1>16. History' /\ Closings'
  BY <1>1, <1>11, SentFits
<1> QED BY <1>13, <1>14, <1>15, <1>16 DEF WireInv

(* An event, or completion: one answer more to the same packet.            *)
LEMMA OneAnswerMore ==
  ASSUME WireInv, received # None, NEW p, Stems(p, received), Keeps(p, received),
         NEW error \in Codes, Answer(p, error),
         stage \notin {"none", "refused"}, stage' \notin {"none", "refused"},
         request' = request, heard' = heard, toServer' = toServer,
         closed' = closed, received' = received
  PROVE  WireInv'
<1>1. PICK a : a = CreatePacketResponse(p, error)
  OBVIOUS
<1>2. Send(a) /\ served' = p
  BY <1>1 DEF Answer
<1>3. Answers(a, received)
  BY <1>1, AnswerFits DEF WireInv, Parsed
<1>4. \A i \in DOMAIN answers' : Answers(answers'[i], received)
  <2>1. IsOneMore(answers', answers, a)
    BY <1>2, Appended DEF Send, WireInv, History, IsHistory
  <2>2. \A i \in DOMAIN answers : Answers(answers[i], received)
    BY DEF WireInv, Parsed
  <2> QED BY <1>3, <2>1, <2>2 DEF IsOneMore
<1>5. Parsed'
  BY <1>2, <1>4 DEF WireInv, Parsed
<1>6. Asked' /\ Refused'
  BY DEF WireInv, Asked, Refused
<1>7. History' /\ Closings'
  BY <1>2, SentFits
<1> QED BY <1>5, <1>6, <1>7 DEF WireInv

LEMMA EventsFit ==
  ASSUME WireInv, AnswersInv,
         \/ OnDispatched \/ OnDispatchFailed \/ OnCommited
         \/ OnServiceEmptyRequest \/ OnServiceNotFound
         \/ OnServiceParameterInvalid \/ OnServiceError
  PROVE  WireInv'
<1>1. PICK from, to, status, error :
        /\ Event(from, to, status, error)
        /\ from \notin {"none", "refused"} /\ to \notin {"none", "refused"}
        /\ status \in {WAITING, COMMITED, FAILED} /\ error \in Codes
  BY DEF OnDispatched, OnDispatchFailed, OnCommited, OnServiceEmptyRequest,
         OnServiceNotFound, OnServiceParameterInvalid, OnServiceError,
         PKT_NO_ERROR, PKT_EMPTY_REQUEST, SERVICE_BUSY, SERVICE_NOT_FOUND,
         SERVICE_IVAILD_PARAMETERS, SERVICE_ERROR, Codes
<1>2. /\ stage = from /\ stage' = to
      /\ Answer(UpdateRequestStatus(served, status), error)
      /\ request' = request /\ heard' = heard /\ toServer' = toServer
      /\ closed' = closed /\ received' = received
  BY <1>1 DEF Event, Goes, clientVars
<1>3. received # None /\ Following
  BY <1>1, <1>2 DEF WireInv, AnswersInv
<1>4. PICK p : p = UpdateRequestStatus(served, status)
  OBVIOUS
<1>5. Stems(served, received) /\ HasFields(served) /\ Keeps(served, received)
  BY <1>3 DEF Following, Stems, WireInv, Parsed
<1>6. status \in {WAITING, COMMITED, COMPLETED, FAILED} /\ status # COMPLETED
  BY <1>1 DEF WAITING, COMMITED, COMPLETED, FAILED
<1>7. Stems(p, received) /\ Keeps(p, received)
  BY <1>4, <1>5, <1>6, Updating, UpdatingKeeps
<1> QED BY <1>1, <1>2, <1>3, <1>4, <1>7, OneAnswerMore

LEMMA CompletionFits ==
  ASSUME WireInv, AnswersInv, OnCompleted
  PROVE  WireInv'
<1>1. /\ stage = "commited" /\ stage' = "completed" /\ ParametersCheck(served)
      /\ Answer(UpdateRequestStatus(Execute(served), COMPLETED), PKT_NO_ERROR)
      /\ request' = request /\ heard' = heard /\ toServer' = toServer
      /\ closed' = closed /\ received' = received
  BY DEF OnCompleted, Runs, Goes, clientVars
<1>2. received # None /\ Following
  BY <1>1 DEF WireInv, AnswersInv
<1>3. Stems(served, received) /\ Keeps(served, received) /\ served["status"] # COMPLETED
  BY <1>1, <1>2 DEF Following, StageStatus, WireInv, Parsed, COMMITED, COMPLETED
<1>4. PICK e : e = Execute(served)
  OBVIOUS
<1>5. /\ Stems(e, received) /\ Keeps(e, received)
      /\ e["result"] = Reward(received) /\ ParametersCheck(received)
  BY <1>1, <1>3, <1>4, ExecutingKeeps
<1>6. PICK p : p = UpdateRequestStatus(e, COMPLETED)
  OBVIOUS
<1>7. Stems(p, received)
  BY <1>5, <1>6, Updating
<1>8. Keeps(p, received)
  <2>1. HasFields(e)
    BY <1>5 DEF Stems
  <2> QED BY <1>5, <1>6, <2>1, UpdatingKeeps
<1> QED BY <1>1, <1>2, <1>4, <1>6, <1>7, <1>8, OneAnswerMore DEF PKT_NO_ERROR, Codes

(* An answer arrives.                                                      *)
LEMMA AnswerIsFramed ==
  ASSUME WireInv, AnswersInv, toClient # <<>>,
         NEW a, a = answers[Len(heard) + 1]
  PROVE  /\ Len(heard) + 1 \in DOMAIN answers
         /\ Head(toClient) = [size |-> ByteSizeLong(a), body |-> Serialize(a)]
         /\ Parses(Head(toClient).body) /\ Parse(Head(toClient).body) = a
<1>1. Len(heard) + 1 \in DOMAIN answers /\ Head(toClient) = Frame(a)
  BY HistoryMoves DEF WireInv, History
<1>2. IsPacket(a) /\ IsUtf8(a) /\ ByteSizeLong(a) < UInt16
  BY <1>1, AnswersAreFit
<1>3. Frame(a) = [size |-> ByteSizeLong(a), body |-> Serialize(a)]
  BY <1>2, SmallFrame
<1>4. Parses(Serialize(a)) /\ Parse(Serialize(a)) = a
  BY <1>2, PacketRead
<1> QED BY <1>1, <1>3, <1>4

LEMMA ClientCloses ==
  ASSUME WireInv, AnswersInv, ClientClosesOnSize
  PROVE  WireInv'
<1>1. /\ toClient # <<>> /\ TooLarge(Head(toClient))
      /\ toServer' = toServer /\ closed' = closed \cup {"client"}
      /\ request' = request /\ heard' = heard /\ toClient' = toClient
      /\ stage' = stage /\ received' = received /\ served' = served
      /\ answers' = answers
  BY DEF ClientClosesOnSize, clientVars, serverVars
<1>2. PICK a : a = answers[Len(heard) + 1]
  OBVIOUS
<1>3. /\ Len(heard) + 1 \in DOMAIN answers
      /\ ByteSizeLong(a) > DSC_PACKET_BODY_MAX_SIZE
  BY <1>1, <1>2, AnswerIsFramed DEF TooLarge
<1>4. answers # <<>>
  <2>1. answers = <<>> => DOMAIN answers = {}
    OBVIOUS
  <2> QED BY <1>3, <2>1
<1>5. request \in Requests
  BY <1>4 DEF WireInv, Asked, AnswersInv, Unparsed
<1>6. Asked' /\ Parsed' /\ Refused'
  BY <1>1, <1>5 DEF WireInv, Asked, Parsed, Refused
<1>7. Closings'
  BY <1>1, <1>2, <1>3 DEF WireInv, Closings
<1>8. History'
  BY <1>1 DEF WireInv, History
<1> QED BY <1>1, <1>6, <1>7, <1>8 DEF WireInv

LEMMA AnswerIsHeard ==
  ASSUME WireInv, AnswersInv, OnData
  PROVE  WireInv'
<1>1. /\ toClient # <<>> /\ toClient' = Tail(toClient)
      /\ heard' = Append(heard, IF Parses(Head(toClient).body)
                                THEN Parse(Head(toClient).body) ELSE None)
      /\ toServer' = toServer /\ closed' = closed /\ request' = request
      /\ stage' = stage /\ received' = received /\ served' = served
      /\ answers' = answers
  BY DEF OnData, serverVars
<1>2. PICK a : a = answers[Len(heard) + 1]
  OBVIOUS
<1>3. heard' = Append(heard, a)
  BY <1>1, <1>2, AnswerIsFramed
<1>4. IsHistory(answers, Tail(toClient), Append(heard, a))
  BY <1>1, <1>2, HistoryMoves DEF WireInv, History
<1>5. History'
  BY <1>1, <1>3, <1>4 DEF History
<1>6. Asked' /\ Parsed' /\ Refused' /\ Closings'
  BY <1>1 DEF WireInv, Asked, Parsed, Refused, Closings
<1> QED BY <1>1, <1>5, <1>6 DEF WireInv

LEMMA HeardIsAnswer ==
  ASSUME WireInv, NEW i \in DOMAIN heard
  PROVE  heard[i] = answers[i] /\ i \in DOMAIN answers
<1>1. IsSequence(heard) /\ IsSequence(answers) /\ IsSequence(toClient)
  BY DEF WireInv, History, IsHistory
<1>2. /\ DOMAIN heard = 1 .. Len(heard) /\ DOMAIN answers = 1 .. Len(answers)
      /\ Len(heard) \in Nat /\ Len(toClient) \in Nat /\ Len(answers) \in Nat
  BY <1>1, Lengths
<1>3. Len(heard) + Len(toClient) = Len(answers)
  BY DEF WireInv, History, IsHistory
<1>4. heard[i] = answers[i]
  BY <1>2 DEF WireInv, History, IsHistory
<1> QED BY <1>2, <1>3, <1>4

LEMMA InitFits == Init => WireInv
<1>1. IsSequence(<<>>) /\ Len(<<>>) = 0
  <2>1. <<>> \in Seq({})
    OBVIOUS
  <2> QED BY <2>1 DEF IsSequence
<1>2. IsHistory(<<>>, <<>>, <<>>)
  BY <1>1 DEF IsHistory
<1> QED BY <1>2 DEF Init, WireInv, Asked, Parsed, Refused, Closings, History

LEMMA NextFits ==
  ASSUME WireInv, AnswersInv, [Next]_vars
  PROVE  WireInv'
<1>1. CASE UNCHANGED vars
  BY <1>1 DEF vars, clientVars, wireVars, serverVars, WireInv, Asked, Parsed,
     Refused, Closings, History
<1> QED BY <1>1, CallFits, ServerCloses, ReceivedFits, RefusalFits, EventsFit,
        CompletionFits, ClientCloses, AnswerIsHeard DEF Next

LEMMA WireHolds == Spec => [](WireInv /\ AnswersInv)
<1>1. Init => WireInv /\ AnswersInv
  BY InitFits DEF Init, AnswersInv, Unparsed
<1>2. WireInv /\ AnswersInv /\ [Next]_vars => (WireInv /\ AnswersInv)'
  BY NextFits, NextAnswers
<1> QED BY <1>1, <1>2, PTL DEF Spec

(***************************************************************************)
(* Whatever packets clients send, of whatever size, what either end parses *)
(* is what the other end meant: the server the fields of the request, all  *)
(* of them if it has less than 2^16 bytes and otherwise the first of them, *)
(* and the client every answer it hears (DSCPacket.cpp:64-86,              *)
(* Session.cpp:63-84 and 146, RPCServerStub.cpp:15-35).                    *)
(***************************************************************************)
THEOREM NothingIsGarbled == Spec => []NothingGarbled
<1>1. ASSUME WireInv, AnswersInv PROVE NothingGarbled
  <2>1. ASSUME received # None PROVE Understood(received, request)
    <3>1. request \in Requests /\ IsPacket(request)
      <4>1. stage # "none"
        BY <2>1, <1>1 DEF AnswersInv, Unparsed
      <4> QED BY <1>1, <4>1, RequestsAssumption DEF RequestsAssumption, WireInv, Asked
    <3>2. PICK k \in 0 .. Len(Fields) : received = Upto(Fields, request, k)
      BY <1>1, <2>1 DEF WireInv, Parsed
    <3>3. ByteSizeLong(request) < UInt16 => Upto(Fields, request, k) = request
      BY <1>1, <2>1, <3>2 DEF WireInv, Parsed
    <3> QED BY <3>1, <3>2, <3>3, UptoBegins
  <2>2. stage = "refused" => ByteSizeLong(request) > UInt16 \/ ~IsUtf8(request)
    BY <1>1 DEF WireInv, Refused
  <2>3. ASSUME NEW i \in DOMAIN heard
        PROVE  heard[i] # None /\ Understood(heard[i], answers[i])
    <3>1. heard[i] = answers[i] /\ i \in DOMAIN answers
      BY <1>1, HeardIsAnswer
    <3>2. IsPacket(answers[i]) /\ ByteSizeLong(answers[i]) < UInt16
      BY <1>1, <3>1, AnswersAreFit
    <3> QED BY <3>1, <3>2, NoneIsNoPacket DEF Understood
  <2> QED BY <2>1, <2>2, <2>3 DEF NothingGarbled
<1> QED BY <1>1, WireHolds, PTL

(***************************************************************************)
(* A request of at most (4096 - Growth) / 2 bytes does not make either end *)
(* close the connection on the size of a packet, whatever its fields and   *)
(* whatever becomes of it (Session.cpp:71-76, RPCPacketFactory.h:17-66).   *)
(***************************************************************************)
THEOREM SmallRequestsAreSafe == Spec => []SmallRequestsAreAnswered
<1>1. ASSUME WireInv, AnswersInv, closed # {}
      PROVE  2 * ByteSizeLong(request) + Growth > DSC_PACKET_BODY_MAX_SIZE
  <2>1. IsPacket(request)
    BY <1>1, RequestsAssumption DEF RequestsAssumption, WireInv, Asked
  <2>2. PICK n \in Nat : n = ByteSizeLong(request)
    BY <2>1, PacketRead
  <2>3. CASE "server" \in closed
    <3>1. n > 4096
      BY <1>1, <2>2, <2>3 DEF WireInv, Closings, DSC_PACKET_BODY_MAX_SIZE
    <3>2. 2 * n + 256 > 4096
      BY <3>1
    <3> QED BY <2>2, <3>2 DEF Growth, DSC_PACKET_BODY_MAX_SIZE
  <2>4. CASE "client" \in closed
    <3>1. PICK i \in DOMAIN answers :
            ByteSizeLong(answers[i]) > DSC_PACKET_BODY_MAX_SIZE
      BY <1>1, <2>4 DEF WireInv, Closings
    <3>2. PICK a : a = answers[i]
      OBVIOUS
    <3>3. PICK m \in Nat : m = ByteSizeLong(a) /\ m > 4096
      BY <1>1, <3>1, <3>2, AnswersAreFit, PacketRead DEF DSC_PACKET_BODY_MAX_SIZE
    <3>4. received # None
      <4>1. SUFFICES ASSUME received = None PROVE FALSE
        OBVIOUS
      <4>2. a = Refusal
        BY <1>1, <3>2, <4>1, AnswersAreFit
      <4>3. m <= 4096
        BY <3>3, <4>2, RefusalIs DEF DSC_PACKET_BODY_MAX_SIZE
      <4> QED BY <3>3, <4>3
    <3>5. ByteSizeLong(a) <= 2 * ByteSizeLong(received) + Growth
      BY <1>1, <3>2, <3>4, AnswersAreFit
    <3>6. CASE n < 65536
      <4>1. received = request
        BY <1>1, <2>2, <3>4, <3>6 DEF WireInv, Parsed, UInt16
      <4>2. m <= 2 * n + 256
        BY <2>2, <3>3, <3>5, <4>1 DEF Growth
      <4>3. 2 * n + 256 > 4096
        BY <3>3, <4>2
      <4> QED BY <2>2, <4>3 DEF Growth, DSC_PACKET_BODY_MAX_SIZE
    <3>7. CASE ~(n < 65536)
      <4>1. 2 * n + 256 > 4096
        BY <3>7
      <4> QED BY <2>2, <4>1 DEF Growth, DSC_PACKET_BODY_MAX_SIZE
    <3> QED BY <3>6, <3>7
  <2> QED BY <1>1, <2>3, <2>4 DEF WireInv, Closings
<1>2. WireInv /\ AnswersInv => SmallRequestsAreAnswered
  BY <1>1 DEF SmallRequestsAreAnswered
<1> QED BY <1>2, WireHolds, PTL

(***************************************************************************)
(* A client that hears of completion hears the greeting of the name and    *)
(* the message it packed, whatever other fields its packet had             *)
(* (HelloWorldTestService.h:55-110, RPCProcessor.cpp:41-116).              *)
(***************************************************************************)
THEOREM GreetingsAreHeard == Spec => []GreetsTheSender
<1>1. ASSUME WireInv, AnswersInv, NEW i \in DOMAIN heard,
             heard[i] # None, heard[i]["status"] = COMPLETED
      PROVE  LET sent == ParseParameters(request["parameters"][1].value)
                 any  == heard[i]["result"]
             IN  /\ Unpacks(any, ResultUrl)
                 /\ ParseResult(any[1].value)["message"] =
                      Greeting(sent["name"], sent["message"])
  <2>1. PICK a : a = heard[i] /\ a = answers[i] /\ i \in DOMAIN answers
    BY <1>1, HeardIsAnswer
  <2>2. received # None
    <3>1. a # Refusal
      BY <1>1, <2>1, RefusalIs DEF FAILED, COMPLETED
    <3> QED BY <1>1, <2>1, <3>1, AnswersAreFit
  <2>3. PICK q : q = received
    OBVIOUS
  <2>4. IsPacket(q) /\ a["result"] = Reward(q) /\ ParametersCheck(q)
    BY <1>1, <2>1, <2>2, <2>3 DEF WireInv, Parsed, IsReceived, Answers
  <2>5. q["parameters"] = request["parameters"]
    <3>1. PICK k \in 0 .. Len(Fields) : q = Upto(Fields, request, k)
      BY <1>1, <2>2, <2>3 DEF WireInv, Parsed
    <3>2. "parameters" \in ToSet(Fields)
      BY FieldFacts DEF AnyFields, Field
    <3>3. q["parameters"] \in {request["parameters"], <<>>}
      BY <3>1, <3>2 DEF Upto, Default, IsAny, IsEnum
    <3> QED BY <2>4, <3>3 DEF ParametersCheck
  <2>6. PICK m : /\ m = ParseParameters(q["parameters"][1].value)
                 /\ Reward(q) = <<PackResult(Greeted(m))>>
                 /\ Pair(m) /\ One(Greeted(m)) /\ Greeted(m)["message"].utf8
    BY <2>4, Rewarding
  <2>7. PICK any : any = heard[i]["result"]
    OBVIOUS
  <2>8. any = <<PackResult(Greeted(m))>>
    BY <2>1, <2>4, <2>6, <2>7
  <2>9. any # <<>> /\ any[1] = PackResult(Greeted(m))
    BY <2>8
  <2>10. any[1].type_url = ResultUrl /\ any[1].value = SerializeResult(Greeted(m))
    BY <2>9 DEF PackResult
  <2>11. Parses(any[1].value) /\ ParseResult(any[1].value) = Greeted(m)
    BY <2>6, <2>10, ResultRead
  <2>12. Greeted(m)["message"] = Greeting(m["name"], m["message"])
    BY <2>6, GreetedIs
  <2>13. m = ParseParameters(request["parameters"][1].value)
    BY <2>5, <2>6
  <2>14. /\ Unpacks(any, ResultUrl)
         /\ ParseResult(any[1].value)["message"] = Greeting(m["name"], m["message"])
    BY <2>9, <2>10, <2>11, <2>12 DEF Unpacks
  <2> QED BY <2>7, <2>13, <2>14
<1>2. WireInv /\ AnswersInv => GreetsTheSender
  BY <1>1 DEF GreetsTheSender
<1> QED BY <1>2, WireHolds, PTL
=============================================================================
