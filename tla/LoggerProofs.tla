---------------------------- MODULE LoggerProofs ----------------------------
(***************************************************************************)
(* What Logger promises for any number of threads and logs, and any size   *)
(* of the buffer: the bound of the buffer, the order of what is written,   *)
(* and what becomes of each log.                                           *)
(***************************************************************************)
EXTENDS Logger, SequenceTheorems, TLAPS

LEMMA Types == MaxLogCount \in Nat \ {0} /\ FileLogs \subseteq Logs
               /\ ConsoleLogs \subseteq Logs /\ QuitLog \in Logs
BY MaxLogCountAssumption DEF Logs

LEMMA InitTypes == Init => TypeOK
BY Types DEF Init, TypeOK

(***************************************************************************)
(* What Dump does, whether or not the file opens.                          *)
(***************************************************************************)
LEMMA DumpTypes ==
  ASSUME TypeOK, Dump
  PROVE  /\ file' \in Seq(FileLogs) /\ unwritten' \in Seq(FileLogs)
         /\ dumpLogs' = <<>>
         /\ Len(file') + Len(unwritten')
              = Len(file) + Len(unwritten) + Len(dumpLogs)
<1>1. CASE file' = file \o dumpLogs /\ UNCHANGED unwritten
  BY <1>1, ConcatProperties DEF TypeOK, Dump
<1>2. CASE unwritten' = unwritten \o dumpLogs /\ UNCHANGED file
  BY <1>2, ConcatProperties DEF TypeOK, Dump
<1>. QED
  BY <1>1, <1>2 DEF Dump

LEMMA NextTypes == TypeOK /\ [Next]_vars => TypeOK'
<1>. SUFFICES ASSUME TypeOK, [Next]_vars PROVE TypeOK'
  OBVIOUS
<1>. USE Types
<1>1. ASSUME NEW t \in Loggers, NEW x \in ConsoleLogs \cup FileLogs,
             LogMessage(t, x)
      PROVE  TypeOK'
  BY <1>1
  DEF LogMessage, Push, TypeOK, quitVars, dumpVars
<1>2. ASSUME NEW t \in Loggers, Notify(t) PROVE TypeOK'
  BY <1>2 DEF Notify, Notified, TypeOK, quitVars, dumpVars
<1>3. CASE CheckRunning \/ Wait \/ SpuriousWakeup \/ NotifyQuit \/ BeginQuit
  BY <1>3
  DEF CheckRunning, Wait, SpuriousWakeup, NotifyQuit, BeginQuit, Notified,
      TypeOK, queueVars, quitVars, dumpVars
<1>4. CASE TakeLog
  <2>1. Head(logs) \in Logs /\ logs' \in Seq(Logs)
    BY <1>4 DEF TakeLog, TypeOK
  <2>2. CASE ToConsole(Head(logs)) /\ console' = Append(console, Head(logs))
               /\ UNCHANGED <<dumpVars, dropped>>
    BY <1>4, <2>1, <2>2 DEF TakeLog, TypeOK, quitVars, dumpVars
  <2>3. CASE ~ToConsole(Head(logs)) /\ HasPlace /\ Keep(Head(logs))
               /\ UNCHANGED console
    BY <1>4, <2>1, <2>3
    DEF TakeLog, HasPlace, Keep, ToConsole, TypeOK, quitVars
  <2>4. CASE ~ToConsole(Head(logs)) /\ ReplaceTask(Head(logs))
               /\ UNCHANGED console
    <3>1. /\ file' \in Seq(FileLogs) /\ unwritten' \in Seq(FileLogs)
          /\ dumpLogs' = <<>>
      BY <2>4, DumpTypes DEF ReplaceTask
    <3>2. dropped' \in Seq(FileLogs)
      BY <2>1, <2>4 DEF ReplaceTask, ToConsole, TypeOK
    <3>. QED
      BY <1>4, <2>1, <2>4, <3>1, <3>2 DEF TakeLog, TypeOK, quitVars
  <2>. QED
    BY <1>4, <2>2, <2>3, <2>4 DEF TakeLog
<1>5. CASE PushQuitLog
  BY <1>5 DEF PushQuitLog, Push, TypeOK, dumpVars
<1>6. CASE LastDump
  <2>1. /\ file' \in Seq(FileLogs) /\ unwritten' \in Seq(FileLogs)
        /\ dumpLogs' = <<>>
    BY <1>6, DumpTypes DEF LastDump
  <2>. QED
    BY <1>6, <2>1 DEF LastDump, TypeOK, queueVars
<1>7. CASE UNCHANGED vars
  BY <1>7 DEF vars, TypeOK, queueVars, quitVars, dumpVars
<1>. QED
  BY <1>1, <1>2, <1>3, <1>4, <1>5, <1>6, <1>7
  DEF Next, ConsumerStep, QuitStep

(***************************************************************************)
(* The types, and with them the bound: the buffer never holds more than    *)
(* MaxLogCount logs (Logger.cpp:158).                                      *)
(***************************************************************************)
THEOREM TypeCorrect == Spec => []TypeOK
BY InitTypes, NextTypes, PTL DEF Spec
-----------------------------------------------------------------------------
(***************************************************************************)
(* The n logs given first have been taken, and a sequence of them is       *)
(* ordered: the strengthening of WrittenInOrder says so with n, so that    *)
(* the log that is taken next comes after all of them.                     *)
(***************************************************************************)
Ordered(s, g, n) ==
  /\ \A i \in 1 .. Len(s) : \E k \in 1 .. n : g[k] = s[i]
  /\ \A i, j \in 1 .. Len(s) :
       i < j => \E k, l \in 1 .. n : k < l /\ g[k] = s[i] /\ g[l] = s[j]

LEMMA OrderedAppend ==
  ASSUME NEW s \in Seq(Logs), NEW g \in Seq(Logs), NEW n \in Nat,
         n + 1 <= Len(g), Ordered(s, g, n)
  PROVE  Ordered(Append(s, g[n + 1]), g, n + 1)
<1>. DEFINE t == Append(s, g[n + 1])
<1>1. /\ Len(t) = Len(s) + 1
      /\ \A i \in 1 .. Len(s) : t[i] = s[i]
      /\ t[Len(s) + 1] = g[n + 1]
  OBVIOUS
<1>2. \A i \in 1 .. Len(t) : i \in 1 .. Len(s) \/ i = Len(s) + 1
  BY <1>1
<1>3. 1 .. n \subseteq 1 .. n + 1 /\ n + 1 \in 1 .. n + 1
        /\ \A k \in 1 .. n : k < n + 1
  OBVIOUS
<1>. HIDE DEF t
<1>4. \A i \in 1 .. Len(t) : \E k \in 1 .. n + 1 : g[k] = t[i]
  BY <1>1, <1>2, <1>3 DEF Ordered
<1>5. ASSUME NEW i \in 1 .. Len(t), NEW j \in 1 .. Len(t), i < j
      PROVE  \E k, l \in 1 .. n + 1 : k < l /\ g[k] = t[i] /\ g[l] = t[j]
  <2>1. i \in 1 .. Len(s)
    BY <1>1, <1>5
  <2>2. CASE j \in 1 .. Len(s)
    <3>1. PICK k \in 1 .. n, l \in 1 .. n : k < l /\ g[k] = s[i] /\ g[l] = s[j]
      BY <1>5, <2>1, <2>2 DEF Ordered
    <3>. QED
      BY <1>1, <1>3, <2>1, <2>2, <3>1
  <2>3. CASE j = Len(s) + 1
    <3>1. PICK k \in 1 .. n : g[k] = s[i]
      BY <2>1 DEF Ordered
    <3>. QED
      BY <1>1, <1>3, <2>1, <2>3, <3>1
  <2>. QED
    BY <1>2, <2>2, <2>3
<1>6. Ordered(t, g, n + 1)
  BY <1>4, <1>5 DEF Ordered
<1>. QED
  BY <1>6 DEF t

LEMMA OrderedGrows ==
  ASSUME NEW s, NEW g, NEW n \in Nat, Ordered(s, g, n)
  PROVE  Ordered(s, g, n + 1)
<1>1. \A k \in 1 .. n : k \in 1 .. n + 1
  OBVIOUS
<1>2. \A i \in 1 .. Len(s) : \E k \in 1 .. n + 1 : g[k] = s[i]
  BY <1>1, Zenon DEF Ordered
<1>3. ASSUME NEW i \in 1 .. Len(s), NEW j \in 1 .. Len(s), i < j
      PROVE  \E k, l \in 1 .. n + 1 : k < l /\ g[k] = s[i] /\ g[l] = s[j]
  <2>1. PICK k \in 1 .. n, l \in 1 .. n : k < l /\ g[k] = s[i] /\ g[l] = s[j]
    BY <1>3 DEF Ordered
  <2>. QED
    BY <1>1, <2>1
<1>. QED
  BY <1>2, <1>3 DEF Ordered

(* More logs may be given meanwhile.                                       *)
LEMMA OrderedPush ==
  ASSUME NEW s, NEW g \in Seq(Logs), NEW n \in Nat, n <= Len(g), NEW x \in Logs,
         Ordered(s, g, n)
  PROVE  Ordered(s, Append(g, x), n)
<1>. DEFINE h == Append(g, x)
<1>1. \A k \in 1 .. n : h[k] = g[k]
  OBVIOUS
<1>. HIDE DEF h
<1>2. ASSUME NEW i \in 1 .. Len(s) PROVE \E k \in 1 .. n : h[k] = s[i]
  <2>1. PICK k \in 1 .. n : g[k] = s[i]
    BY Zenon DEF Ordered
  <2>. QED
    BY <1>1, <2>1, Zenon
<1>3. ASSUME NEW i \in 1 .. Len(s), NEW j \in 1 .. Len(s), i < j
      PROVE  \E k, l \in 1 .. n : k < l /\ h[k] = s[i] /\ h[l] = s[j]
  <2>1. PICK k \in 1 .. n, l \in 1 .. n : k < l /\ g[k] = s[i] /\ g[l] = s[j]
    BY <1>3, Zenon DEF Ordered
  <2>. QED
    BY <1>1, <2>1, Zenon
<1>4. Ordered(s, h, n)
  BY <1>2, <1>3, Zenon DEF Ordered
<1>. QED
  BY <1>4 DEF h

LEMMA OrderedPrefix ==
  ASSUME NEW s \in Seq(Logs), NEW t \in Seq(Logs), NEW g, NEW n \in Nat,
         Ordered(s \o t, g, n)
  PROVE  Ordered(s, g, n)
<1>. DEFINE r == s \o t
<1>1. /\ \A i \in 1 .. Len(s) : i \in 1 .. Len(r)
      /\ \A i \in 1 .. Len(s) : r[i] = s[i]
  BY ConcatProperties
<1>. HIDE DEF r
<1>2. Ordered(r, g, n)
  BY DEF r
<1>3. ASSUME NEW i \in 1 .. Len(s) PROVE \E k \in 1 .. n : g[k] = s[i]
  <2>1. \E k \in 1 .. n : g[k] = r[i]
    BY <1>1, <1>2, Zenon DEF Ordered
  <2>. QED
    BY <1>1, <2>1, Zenon
<1>4. ASSUME NEW i \in 1 .. Len(s), NEW j \in 1 .. Len(s), i < j
      PROVE  \E k, l \in 1 .. n : k < l /\ g[k] = s[i] /\ g[l] = s[j]
  <2>1. \E k, l \in 1 .. n : k < l /\ g[k] = r[i] /\ g[l] = r[j]
    BY <1>1, <1>2, <1>4, Zenon DEF Ordered
  <2>. QED
    BY <1>1, <2>1, Zenon
<1>. QED
  BY <1>3, <1>4 DEF Ordered

LEMMA AppendToConcat ==
  ASSUME NEW S, NEW s \in Seq(S), NEW t \in Seq(S), NEW x \in S
  PROVE  s \o Append(t, x) = Append(s \o t, x)
<1>. DEFINE y == <<x>>
<1>1. y \in Seq(S)
  OBVIOUS
<1>2. s \o t \in Seq(S)
  BY ConcatProperties
<1>3. Append(t, x) = t \o y
  BY AppendIsConcat
<1>4. Append(s \o t, x) = (s \o t) \o y
  BY <1>2, AppendIsConcat
<1>. HIDE DEF y
<1>5. (s \o t) \o y = s \o (t \o y)
  BY <1>1, ConcatAssociative
<1>. QED
  BY <1>3, <1>4, <1>5, Zenon

LEMMA OrderedInOrder ==
  ASSUME NEW s \in Seq(Logs), given \in Seq(Logs), NEW n \in Nat,
         n <= Len(given), Ordered(s, given, n)
  PROVE  InOrder(s)
<1>1. 1 .. n \subseteq DOMAIN given /\ DOMAIN s = 1 .. Len(s)
  BY LenProperties
<1>. QED
  BY <1>1 DEF Ordered, InOrder, Before
-----------------------------------------------------------------------------
(* What waits in m_logs are the logs given last; what was taken is where   *)
(* it belongs, in order.                                                   *)
TakenOK ==
  /\ Len(logs) <= Len(given)
  /\ \A i \in 1 .. Len(logs) : logs[i] = given[TakenCount + i]
  /\ Ordered(file \o dumpLogs, given, TakenCount)
  /\ Ordered(console, given, TakenCount)

Places ==
  Elements(console) \cup Elements(file) \cup Elements(dumpLogs)
    \cup Elements(unwritten) \cup Elements(dropped)

Taken(g, n) == {g[k] : k \in 1 .. n}

AccountOK ==
  /\ Taken(given, TakenCount) = Places
  /\ Len(dropped) * MaxLogCount <= Len(file) + Len(unwritten)

LEMMA SeqTypes ==
  ASSUME TypeOK
  PROVE  /\ file \in Seq(Logs) /\ dumpLogs \in Seq(Logs)
         /\ unwritten \in Seq(Logs) /\ dropped \in Seq(Logs)
         /\ console \in Seq(Logs) /\ given \in Seq(Logs) /\ logs \in Seq(Logs)
BY Types, SeqMonotonic DEF TypeOK

LEMMA CountTypes ==
  ASSUME TypeOK, TakenOK
  PROVE  TakenCount \in Nat /\ TakenCount <= Len(given)
BY SeqTypes DEF TakenOK, TakenCount

LEMMA ElementsAre ==
  ASSUME NEW S, NEW s \in Seq(S)
  PROVE  Elements(s) = {s[i] : i \in 1 .. Len(s)}
BY DEF Elements

LEMMA ElementsAppend ==
  ASSUME NEW S, NEW s \in Seq(S), NEW x \in S
  PROVE  Elements(Append(s, x)) = Elements(s) \cup {x}
<1>. DEFINE r == Append(s, x)
<1>1. /\ r \in Seq(S) /\ r[Len(s) + 1] = x
      /\ \A i \in 1 .. Len(s) : r[i] = s[i]
  OBVIOUS
<1>2. 1 .. Len(r) = 1 .. Len(s) \cup {Len(s) + 1}
  OBVIOUS
<1>3. Elements(r) = {r[i] : i \in 1 .. Len(r)}
  BY <1>1, ElementsAre, Zenon
<1>4. Elements(s) = {s[i] : i \in 1 .. Len(s)}
  BY ElementsAre, Zenon
<1>. HIDE DEF r
<1>5. Elements(r) = Elements(s) \cup {x}
  BY <1>1, <1>2, <1>3, <1>4
<1>. QED
  BY <1>5 DEF r

LEMMA ElementsConcat ==
  ASSUME NEW S, NEW s \in Seq(S), NEW t \in Seq(S)
  PROVE  Elements(s \o t) = Elements(s) \cup Elements(t)
<1>. DEFINE r == s \o t
            m == Len(s)
            n == Len(t)
<1>1. /\ r \in Seq(S) /\ Len(r) = m + n /\ m \in Nat /\ n \in Nat
      /\ \A i \in 1 .. m + n : r[i] = IF i <= m THEN s[i] ELSE t[i - m]
  BY ConcatProperties
<1>2. /\ Elements(r) = {r[i] : i \in 1 .. m + n}
      /\ Elements(s) = {s[i] : i \in 1 .. m}
      /\ Elements(t) = {t[i] : i \in 1 .. n}
  BY <1>1, ElementsAre
<1>. HIDE DEF r, m, n
<1>3. ASSUME NEW i \in 1 .. m + n
      PROVE  r[i] \in Elements(s) \cup Elements(t)
  <2>1. CASE i <= m
    BY <1>1, <1>2, <2>1
  <2>2. CASE ~(i <= m)
    <3>1. i - m \in 1 .. n /\ r[i] = t[i - m]
      BY <1>1, <2>2
    <3>. QED
      BY <1>2, <3>1
  <2>. QED
    BY <2>1, <2>2
<1>4. ASSUME NEW i \in 1 .. m PROVE s[i] \in Elements(r)
  <2>1. i \in 1 .. m + n /\ r[i] = s[i]
    BY <1>1
  <2>. QED
    BY <1>2, <2>1
<1>5. ASSUME NEW i \in 1 .. n PROVE t[i] \in Elements(r)
  <2>1. i + m \in 1 .. m + n /\ ~(i + m <= m) /\ i + m - m = i
    BY <1>1
  <2>2. r[i + m] = t[i]
    BY <1>1, <2>1
  <2>. QED
    BY <1>2, <2>1, <2>2
<1>6. Elements(r) = Elements(s) \cup Elements(t)
  BY <1>2, <1>3, <1>4, <1>5, Zenon
<1>. QED
  BY <1>6 DEF r

LEMMA ElementsEmpty == Elements(<<>>) = {}
BY DEF Elements
-----------------------------------------------------------------------------
(* TakenOK, step by step.                                                  *)
LEMMA PushTaken ==
  ASSUME TypeOK, TakenOK, NEW x \in Logs, Push(x), UNCHANGED <<dumpVars, console>>
  PROVE  TakenOK' /\ TakenCount' = TakenCount
<1>. DEFINE n == TakenCount
<1>1. n \in Nat /\ n <= Len(given) /\ given \in Seq(Logs) /\ logs \in Seq(Logs)
  BY CountTypes, SeqTypes
<1>2. /\ Len(given') = Len(given) + 1 /\ Len(logs') = Len(logs) + 1
      /\ \A i \in 1 .. Len(given) : given'[i] = given[i]
      /\ \A i \in 1 .. Len(logs) : logs'[i] = logs[i]
      /\ given'[Len(given) + 1] = x /\ logs'[Len(logs) + 1] = x
  BY <1>1 DEF Push
<1>3. TakenCount' = n /\ Len(logs') <= Len(given')
  BY <1>1, <1>2 DEF TakenCount, TakenOK
<1>4. ASSUME NEW i \in 1 .. Len(logs') PROVE logs'[i] = given'[n + i]
  <2>1. n + Len(logs) = Len(given)
    BY <1>1 DEF TakenCount
  <2>2. CASE i \in 1 .. Len(logs)
    <3>1. n + i \in 1 .. Len(given)
      BY <1>1, <2>1, <2>2
    <3>2. logs[i] = given[n + i]
      BY <2>2 DEF TakenOK
    <3>. QED
      BY <1>2, <2>2, <3>1, <3>2
  <2>3. CASE i = Len(logs) + 1
    <3>1. n + i = Len(given) + 1
      BY <1>1, <2>1, <2>3
    <3>. QED
      BY <1>2, <2>3, <3>1
  <2>. QED
    BY <1>1, <1>2, <2>2, <2>3
<1>5. Ordered(file \o dumpLogs, given', n) /\ Ordered(console, given', n)
  BY <1>1, OrderedPush DEF TakenOK, Push
<1>6. file' = file /\ dumpLogs' = dumpLogs /\ console' = console
  BY DEF dumpVars
<1>. QED
  BY <1>3, <1>4, <1>5, <1>6 DEF TakenOK

(* A log is taken: it is the one that was given next.                      *)
LEMMA TakeCount ==
  ASSUME TypeOK, TakenOK, logs # <<>>, logs' = Tail(logs), UNCHANGED given
  PROVE  /\ TakenCount' = TakenCount + 1
         /\ TakenCount + 1 <= Len(given)
         /\ Head(logs) = given[TakenCount + 1]
         /\ Len(logs') <= Len(given')
         /\ \A i \in 1 .. Len(logs') : logs'[i] = given'[TakenCount' + i]
<1>1. /\ TakenCount \in Nat /\ Len(given) \in Nat /\ logs \in Seq(Logs)
      /\ TakenCount = Len(given) - Len(logs) /\ Len(logs) <= Len(given)
  BY CountTypes, SeqTypes DEF TakenCount, TakenOK
<1>2. /\ Len(logs) \in Nat \ {0} /\ Len(logs') = Len(logs) - 1
      /\ Head(logs) = logs[1]
      /\ \A i \in 1 .. Len(logs') : i + 1 \in 1 .. Len(logs) /\ logs'[i] = logs[i + 1]
  BY <1>1
<1>3. TakenCount' = TakenCount + 1 /\ TakenCount + 1 <= Len(given)
  BY <1>1, <1>2 DEF TakenCount
<1>4. Head(logs) = given[TakenCount + 1]
  BY <1>2 DEF TakenOK
<1>5. ASSUME NEW i \in 1 .. Len(logs') PROVE logs'[i] = given'[TakenCount' + i]
  <2>1. logs'[i] = logs[i + 1] /\ logs[i + 1] = given[TakenCount + (i + 1)]
    BY <1>2 DEF TakenOK
  <2>2. TakenCount + (i + 1) = TakenCount' + i
    BY <1>1, <1>3
  <2>. QED
    BY <2>1, <2>2
<1>. QED
  BY <1>1, <1>2, <1>3, <1>4, <1>5

(* The file and the buffer behind it read the same before and after Dump,  *)
(* or the buffer is gone.                                                  *)
LEMMA DumpOrdered ==
  ASSUME TypeOK, Dump, NEW g, NEW n \in Nat, Ordered(file \o dumpLogs, g, n)
  PROVE  Ordered(file' \o dumpLogs', g, n)
<1>1. file \in Seq(Logs) /\ dumpLogs \in Seq(Logs) /\ file \o dumpLogs \in Seq(Logs)
        /\ dumpLogs' = <<>>
  BY SeqTypes, ConcatProperties DEF Dump
<1>2. CASE file' = file \o dumpLogs
  BY <1>1, <1>2, ConcatEmptySeq
<1>3. CASE file' = file
  <2>1. file' \o dumpLogs' = file
    BY <1>1, <1>3, ConcatEmptySeq
  <2>. QED
    BY <1>1, <2>1, OrderedPrefix
<1>. QED
  BY <1>2, <1>3 DEF Dump

LEMMA TakeLogTaken == TypeOK /\ TakenOK /\ TakeLog => TakenOK'
<1>. SUFFICES ASSUME TypeOK, TakenOK, TakeLog PROVE TakenOK'
  OBVIOUS
<1>. DEFINE n == TakenCount
            x == Head(logs)
<1>1. /\ TakenCount' = n + 1 /\ n + 1 <= Len(given) /\ x = given[n + 1]
      /\ Len(logs') <= Len(given') /\ given' = given
      /\ \A i \in 1 .. Len(logs') : logs'[i] = given'[TakenCount' + i]
  BY TakeCount DEF TakeLog
<1>2. n \in Nat /\ given \in Seq(Logs) /\ console \in Seq(Logs)
        /\ file \in Seq(Logs) /\ dumpLogs \in Seq(Logs)
        /\ file \o dumpLogs \in Seq(Logs) /\ x \in Logs
  BY CountTypes, SeqTypes, ConcatProperties DEF TakeLog
<1>3. Ordered(file \o dumpLogs, given, n) /\ Ordered(console, given, n)
  BY DEF TakenOK
<1>. HIDE DEF n, x
<1>4. /\ Ordered(file \o dumpLogs, given, n + 1)
      /\ Ordered(console, given, n + 1)
      /\ Ordered(Append(console, x), given, n + 1)
      /\ Ordered(Append(file \o dumpLogs, x), given, n + 1)
  BY <1>1, <1>2, <1>3, OrderedAppend, OrderedGrows
<1>5. /\ Ordered(file' \o dumpLogs', given, n + 1)
      /\ Ordered(console', given, n + 1)
  <2>1. CASE console' = Append(console, x) /\ UNCHANGED <<dumpVars, dropped>>
    BY <1>4, <2>1 DEF dumpVars
  <2>2. CASE Keep(x) /\ UNCHANGED console
    <3>1. file \o Append(dumpLogs, x) = Append(file \o dumpLogs, x)
      <4>1. /\ file \in Seq(Logs) /\ dumpLogs \in Seq(Logs)
            /\ x \in Logs
        BY <1>2
      <4>. QED
        BY <4>1, AppendToConcat
    <3>. QED
      BY <1>4, <2>2, <3>1 DEF Keep
  <2>3. CASE ReplaceTask(x) /\ UNCHANGED console
    BY <1>2, <1>4, <2>3, DumpOrdered DEF ReplaceTask
  <2>. QED
    BY <2>1, <2>2, <2>3 DEF TakeLog, x
<1>. QED
  BY <1>1, <1>5 DEF TakenOK

LEMMA NextTaken == TypeOK /\ TakenOK /\ [Next]_vars => TakenOK'
<1>. SUFFICES ASSUME TypeOK, TakenOK, [Next]_vars PROVE TakenOK'
  OBVIOUS
<1>1. ASSUME NEW t \in Loggers, NEW x \in ConsoleLogs \cup FileLogs,
             LogMessage(t, x)
      PROVE  TakenOK'
  BY <1>1, Types, PushTaken DEF LogMessage, dumpVars
<1>2. ASSUME UNCHANGED <<logs, given, dumpVars, console>> PROVE TakenOK'
  BY <1>2 DEF TakenOK, TakenCount, dumpVars
<1>3. ASSUME NEW t \in Loggers, Notify(t) PROVE TakenOK'
  BY <1>2, <1>3 DEF Notify
<1>4. CASE CheckRunning \/ Wait \/ SpuriousWakeup \/ NotifyQuit \/ BeginQuit
  BY <1>2, <1>4
  DEF CheckRunning, Wait, SpuriousWakeup, NotifyQuit, BeginQuit, queueVars
<1>5. CASE TakeLog
  BY <1>5, TakeLogTaken
<1>6. CASE PushQuitLog
  BY <1>6, Types, PushTaken DEF PushQuitLog, dumpVars
<1>7. CASE LastDump
  <2>1. Ordered(file' \o dumpLogs', given, TakenCount)
    BY <1>7, CountTypes, DumpOrdered DEF LastDump, TakenOK
  <2>. QED
    BY <1>7, <2>1 DEF LastDump, TakenOK, TakenCount, queueVars
<1>8. CASE UNCHANGED vars
  BY <1>2, <1>8 DEF vars, queueVars
<1>. QED
  BY <1>1, <1>3, <1>4, <1>5, <1>6, <1>7, <1>8
  DEF Next, ConsumerStep, QuitStep

LEMMA InitTaken == Init => TakenOK
<1>. SUFFICES ASSUME Init PROVE TakenOK
  OBVIOUS
<1>1. \A s : Len(s) = 0 => Ordered(s, given, TakenCount)
  BY DEF Ordered
<1>2. Len(file \o dumpLogs) = 0 /\ Len(console) = 0 /\ Len(logs) = 0
        /\ Len(given) = 0
  BY DEF Init
<1>3. Ordered(file \o dumpLogs, given, TakenCount)
        /\ Ordered(console, given, TakenCount)
  BY <1>1, <1>2, Zenon
<1>4. Len(logs) <= Len(given) /\ 1 .. Len(logs) = {}
  BY <1>2
<1>. QED
  BY <1>3, <1>4 DEF TakenOK

LEMMA TakenIsOrdered == TypeOK /\ TakenOK => WrittenInOrder
<1>. SUFFICES ASSUME TypeOK, TakenOK PROVE WrittenInOrder
  OBVIOUS
<1>1. file \o dumpLogs \in Seq(Logs) /\ console \in Seq(Logs)
        /\ given \in Seq(Logs)
  BY SeqTypes, ConcatProperties
<1>. QED
  BY <1>1, CountTypes, OrderedInOrder DEF TakenOK, WrittenInOrder

(***************************************************************************)
(* Nothing is written or printed out of order, or twice, for any number of *)
(* threads and logs (Logger.cpp:150-166).                                  *)
(***************************************************************************)
THEOREM OrderIsKept == Spec => []WrittenInOrder
<1>1. Init => TypeOK /\ TakenOK
  BY InitTypes, InitTaken
<1>2. TypeOK /\ TakenOK /\ [Next]_vars => TypeOK' /\ TakenOK'
  BY NextTypes, NextTaken
<1>. QED
  BY <1>1, <1>2, TakenIsOrdered, PTL DEF Spec
-----------------------------------------------------------------------------
(* AccountOK, step by step.                                                *)
LEMMA TakenGrows ==
  ASSUME NEW g, NEW n \in Nat
  PROVE  Taken(g, n + 1) = Taken(g, n) \cup {g[n + 1]}
<1>1. 1 .. n + 1 = 1 .. n \cup {n + 1}
  OBVIOUS
<1>. QED
  BY <1>1 DEF Taken

LEMMA DumpPlaces ==
  ASSUME TypeOK, Dump
  PROVE  Elements(file') \cup Elements(unwritten') \cup Elements(dumpLogs')
           = Elements(file) \cup Elements(unwritten) \cup Elements(dumpLogs)
<1>1. file \in Seq(Logs) /\ dumpLogs \in Seq(Logs) /\ unwritten \in Seq(Logs)
  BY SeqTypes
<1>2. Elements(dumpLogs') = {}
  BY ElementsEmpty DEF Dump
<1>3. Elements(file \o dumpLogs) = Elements(file) \cup Elements(dumpLogs)
        /\ Elements(unwritten \o dumpLogs)
             = Elements(unwritten) \cup Elements(dumpLogs)
  BY <1>1, ElementsConcat
<1>. QED
  BY <1>2, <1>3 DEF Dump

LEMMA PushAccount ==
  ASSUME TypeOK, TakenOK, AccountOK, NEW x \in Logs, Push(x),
         UNCHANGED <<dumpVars, console, dropped>>
  PROVE  AccountOK'
<1>1. TakenCount' = TakenCount
  BY PushTaken
<1>2. /\ TakenCount \in Nat /\ TakenCount <= Len(given)
      /\ given \in Seq(Logs)
  BY CountTypes, SeqTypes
<1>3. \A k \in 1 .. TakenCount : given'[k] = given[k]
  BY <1>2 DEF Push
<1>4. Taken(given', TakenCount) = Taken(given, TakenCount)
  BY <1>3 DEF Taken
<1>. QED
  BY <1>1, <1>4 DEF AccountOK, Places, dumpVars

LEMMA TakeLogAccount == TypeOK /\ TakenOK /\ AccountOK /\ TakeLog => AccountOK'
<1>. SUFFICES ASSUME TypeOK, TakenOK, AccountOK, TakeLog PROVE AccountOK'
  OBVIOUS
<1>. DEFINE n == TakenCount
            x == Head(logs)
<1>1. /\ TakenCount' = n + 1 /\ x = given[n + 1] /\ given' = given
      /\ n \in Nat
  BY TakeCount, CountTypes DEF TakeLog
<1>2. Taken(given', TakenCount') = Places \cup {x}
  BY <1>1, TakenGrows DEF AccountOK
<1>3. /\ file \in Seq(Logs) /\ dumpLogs \in Seq(Logs) /\ unwritten \in Seq(Logs)
      /\ dropped \in Seq(Logs) /\ console \in Seq(Logs) /\ x \in Logs
      /\ Len(dumpLogs) \in Nat
  BY SeqTypes DEF TakeLog
<1>. HIDE DEF n, x
<1>4. Places' = Places \cup {x}
        /\ Len(dropped') * MaxLogCount <= Len(file') + Len(unwritten')
  <2>1. CASE console' = Append(console, x) /\ UNCHANGED <<dumpVars, dropped>>
    <3>1. Elements(console') = Elements(console) \cup {x}
      BY <1>3, <2>1, ElementsAppend
    <3>. QED
      BY <2>1, <3>1 DEF AccountOK, Places, dumpVars
  <2>2. CASE Keep(x) /\ UNCHANGED console
    <3>1. Elements(dumpLogs') = Elements(dumpLogs) \cup {x}
      BY <1>3, <2>2, ElementsAppend DEF Keep
    <3>. QED
      BY <2>2, <3>1 DEF AccountOK, Places, Keep
  <2>3. CASE ~HasPlace /\ ReplaceTask(x) /\ UNCHANGED console
    <3>1. Elements(dropped') = Elements(dropped) \cup {x}
      BY <1>3, <2>3, ElementsAppend DEF ReplaceTask
    <3>2. Places' = Places \cup {x}
      BY <2>3, <3>1, DumpPlaces DEF ReplaceTask, Places
    <3>3. Len(file') + Len(unwritten') >= Len(file) + Len(unwritten) + MaxLogCount
      <4>1. Len(file') + Len(unwritten')
              = Len(file) + Len(unwritten) + Len(dumpLogs)
        BY <2>3, DumpTypes DEF ReplaceTask
      <4>2. Len(dumpLogs) >= MaxLogCount
        BY <1>3, <2>3, Types DEF HasPlace
      <4>. QED
        BY <1>3, <4>1, <4>2, Types, LenProperties
    <3>4. Len(dropped') = Len(dropped) + 1
      BY <1>3, <2>3 DEF ReplaceTask
    <3>5. \A a, m \in Nat : (a + 1) * m = a * m + m
      OBVIOUS
    <3>6. Len(dropped') * MaxLogCount = Len(dropped) * MaxLogCount + MaxLogCount
      BY <1>3, <3>4, <3>5, Types, LenProperties
    <3>7. /\ Len(dropped) * MaxLogCount \in Nat /\ MaxLogCount \in Nat
          /\ Len(file) + Len(unwritten) \in Nat
          /\ Len(file') + Len(unwritten') \in Nat
          /\ Len(dropped) * MaxLogCount <= Len(file) + Len(unwritten)
      <4>1. file' \in Seq(FileLogs) /\ unwritten' \in Seq(FileLogs)
        BY <2>3, DumpTypes DEF ReplaceTask
      <4>2. \A a, b \in Nat : a * b \in Nat
        OBVIOUS
      <4>. QED
        BY <1>3, <4>1, <4>2, Types, LenProperties DEF AccountOK
    <3>. QED
      BY <3>2, <3>3, <3>6, <3>7
  <2>. QED
    BY <2>1, <2>2, <2>3 DEF TakeLog, x
<1>. QED
  BY <1>2, <1>4 DEF AccountOK

LEMMA NextAccount ==
  TypeOK /\ TakenOK /\ AccountOK /\ [Next]_vars => AccountOK'
<1>. SUFFICES ASSUME TypeOK, TakenOK, AccountOK, [Next]_vars PROVE AccountOK'
  OBVIOUS
<1>1. ASSUME NEW t \in Loggers, NEW x \in ConsoleLogs \cup FileLogs,
             LogMessage(t, x)
      PROVE  AccountOK'
  BY <1>1, Types, PushAccount DEF LogMessage
<1>2. ASSUME UNCHANGED <<logs, given, dumpVars, console, dropped>>
      PROVE  AccountOK'
  BY <1>2 DEF AccountOK, Places, TakenCount, dumpVars
<1>3. ASSUME NEW t \in Loggers, Notify(t) PROVE AccountOK'
  BY <1>2, <1>3 DEF Notify
<1>4. CASE CheckRunning \/ Wait \/ SpuriousWakeup \/ NotifyQuit \/ BeginQuit
  BY <1>2, <1>4
  DEF CheckRunning, Wait, SpuriousWakeup, NotifyQuit, BeginQuit, queueVars
<1>5. CASE TakeLog
  BY <1>5, TakeLogAccount
<1>6. CASE PushQuitLog
  BY <1>6, Types, PushAccount DEF PushQuitLog
<1>7. CASE LastDump
  <2>1. Places' = Places
    BY <1>7, DumpPlaces DEF LastDump, Places
  <2>2. Taken(given', TakenCount') = Taken(given, TakenCount)
    BY <1>7 DEF LastDump, TakenCount, queueVars
  <2>3. /\ Len(dropped) * MaxLogCount <= Len(file) + Len(unwritten)
        /\ Len(file') + Len(unwritten') >= Len(file) + Len(unwritten)
    <3>1. Len(file') + Len(unwritten')
            = Len(file) + Len(unwritten) + Len(dumpLogs)
      BY <1>7, DumpTypes DEF LastDump
    <3>. QED
      BY <3>1, SeqTypes, LenProperties DEF AccountOK
  <2>4. /\ Len(dropped) * MaxLogCount \in Int /\ dropped' = dropped
        /\ Len(file) + Len(unwritten) \in Int
        /\ Len(file') + Len(unwritten') \in Int
    <3>1. file' \in Seq(FileLogs) /\ unwritten' \in Seq(FileLogs)
      BY <1>7, DumpTypes DEF LastDump
    <3>2. \A a, b \in Nat : a * b \in Int
      OBVIOUS
    <3>. QED
      BY <1>7, <3>1, <3>2, SeqTypes, Types, LenProperties DEF LastDump
  <2>. QED
    BY <2>1, <2>2, <2>3, <2>4 DEF AccountOK
<1>8. CASE UNCHANGED vars
  BY <1>2, <1>8 DEF vars, queueVars
<1>. QED
  BY <1>1, <1>3, <1>4, <1>5, <1>6, <1>7, <1>8
  DEF Next, ConsumerStep, QuitStep

LEMMA InitAccount == Init => AccountOK
<1>. SUFFICES ASSUME Init PROVE AccountOK
  OBVIOUS
<1>1. Places = {}
  BY ElementsEmpty DEF Init, Places
<1>2. Taken(given, TakenCount) = {}
  BY DEF Init, Taken, TakenCount
<1>3. Len(dropped) = 0 /\ Len(file) = 0 /\ Len(unwritten) = 0
  BY DEF Init
<1>. QED
  BY <1>1, <1>2, <1>3, Types DEF AccountOK

LEMMA AccountIsKept == TypeOK /\ TakenOK /\ AccountOK => FewAreDropped
<1>. SUFFICES ASSUME TypeOK, TakenOK, AccountOK PROVE FewAreDropped
  OBVIOUS
<1>. DEFINE n == TakenCount
            r == SubSeq(given, 1, n)
<1>1. n \in Nat /\ n <= Len(given) /\ given \in Seq(Logs)
  BY CountTypes, SeqTypes
<1>2. /\ r \in Seq(Logs) /\ Len(r) = n
      /\ \A i \in 1 .. n : r[i] = given[i]
  BY <1>1
<1>3. Elements(r) = {r[i] : i \in 1 .. Len(r)}
  BY <1>2, ElementsAre, Zenon
<1>4. Elements(r) = Taken(given, n)
  BY <1>2, <1>3 DEF Taken
<1>5. Accounted
  BY <1>4 DEF Accounted, AccountOK, Places
<1>. QED
  BY <1>5 DEF FewAreDropped, AccountOK

(***************************************************************************)
(* No log that was taken is lost but those that found the buffer full, and *)
(* of these there is at most one for each MaxLogCount that went to the     *)
(* file, for any MaxLogCount (Logger.cpp:158-166).                         *)
(***************************************************************************)
THEOREM DropsAreFew == Spec => []FewAreDropped
<1>. DEFINE IInv == TypeOK /\ TakenOK /\ AccountOK
<1>1. Init => IInv
  BY InitTypes, InitTaken, InitAccount
<1>2. IInv /\ [Next]_vars => IInv'
  BY NextTypes, NextTaken, NextAccount
<1>3. IInv => FewAreDropped
  BY AccountIsKept
<1>. HIDE DEF IInv
<1>. QED
  BY <1>1, <1>2, <1>3, PTL DEF Spec
=============================================================================
