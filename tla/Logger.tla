------------------------------- MODULE Logger -------------------------------
(***************************************************************************)
(* The Logger.  Any thread calls LogMessage, which pushes to m_logs; one   *)
(* thread of the Logger's own takes the logs in turn and prints them or    *)
(* keeps them for the file.  ~Logger makes that thread leave its loop, and *)
(* writes what is still kept.                                              *)
(*                                                                         *)
(* m_isRunning is a plain bool, but WaitPop and Push lock a mutex between  *)
(* any two accesses of one thread, so it is read and written in order.     *)
(* The queue is a ConcurrentQueue with one consumer: its link and its      *)
(* notify_one are two steps, its count is not used.                        *)
(***************************************************************************)
EXTENDS Naturals, Sequences

CONSTANTS
  Loggers,      \* threads that log
  ConsoleLogs,  \* the logs they may give, each once (bounds the calls): those
  FileLogs,     \* for the console and those for the file
  QuitLog,      \* "Logger quit."
  MaxLogCount   \* m_maxLogCount

ASSUME LogsAssumption ==
  /\ ConsoleLogs \cap FileLogs = {}
  /\ QuitLog \notin ConsoleLogs \cup FileLogs

ASSUME MaxLogCountAssumption == MaxLogCount \in Nat \ {0}

Logs == ConsoleLogs \cup FileLogs \cup {QuitLog}

ToConsole(x) == x \notin FileLogs

VARIABLES
  logs,       \* m_logs
  notifying,  \* the loggers between linking a log and notify_one
  isRunning,  \* m_isRunning
  consumer,   \* next step of the Logger's thread
  dumpLogs,   \* m_dumpLogs of the current m_dumpTask
  quit,       \* next step of ~Logger
  given,      \* history: logs in the order in which they were pushed
  console,    \* history: what was printed
  file,       \* history: what was written
  unwritten,  \* history: what was to be written to a file that did not open
  dropped     \* history: file logs that were neither kept nor written

queueVars == <<logs, given, notifying>>
quitVars  == <<isRunning, quit>>
dumpVars  == <<dumpLogs, file, unwritten>>
vars == <<queueVars, quitVars, consumer, dumpVars, console, dropped>>

Init ==
  /\ logs = <<>>
  /\ notifying = {}
  /\ isRunning = TRUE
  /\ consumer = "check"
  /\ dumpLogs = <<>>
  /\ quit = "none"
  /\ given = <<>>
  /\ console = <<>>
  /\ file = <<>>
  /\ unwritten = <<>>
  /\ dropped = <<>>
-----------------------------------------------------------------------------
(* LogMessage.  Whoever logs while ~Logger runs may find the thread gone.  *)

Push(x) ==
  /\ logs' = Append(logs, x)
  /\ given' = Append(given, x)

LogMessage(t, x) ==
  /\ t \notin notifying
  /\ \A i \in DOMAIN given : given[i] # x
  /\ Push(x)
  /\ notifying' = notifying \cup {t}
  /\ UNCHANGED <<quitVars, consumer, dumpVars, console, dropped>>

(***************************************************************************)
(* "waiting" is the sleep of WaitPop and the gap between the predicate and *)
(* the sleep; notify_one does not end the wait of a thread in the gap.     *)
(***************************************************************************)
Notified ==
  IF consumer \in {"waiting", "stalled"} THEN {"test", "stalled"}
                                         ELSE {consumer}

Notify(t) ==
  /\ t \in notifying
  /\ notifying' = notifying \ {t}
  /\ consumer' \in Notified
  /\ UNCHANGED <<logs, given, quitVars, dumpVars, console, dropped>>
-----------------------------------------------------------------------------
(* The Logger's thread.                                                    *)

CheckRunning ==
  /\ consumer = "check"
  /\ consumer' = IF isRunning THEN "test" ELSE "ended"
  /\ UNCHANGED <<queueVars, quitVars, dumpVars, console, dropped>>

Wait ==
  /\ consumer = "test"
  /\ logs = <<>>
  /\ consumer' = "waiting"
  /\ UNCHANGED <<queueVars, quitVars, dumpVars, console, dropped>>

SpuriousWakeup ==
  /\ consumer \in {"waiting", "stalled"}
  /\ consumer' = "test"
  /\ UNCHANGED <<queueVars, quitVars, dumpVars, console, dropped>>

\* Mutant: the logs stay in the buffer.
DumpKeeps ==
  /\ file' = file \o dumpLogs
  /\ UNCHANGED <<unwritten, dumpLogs>>

(* LogDumpTask::Dump: the file may not open, the buffer is emptied anyway. *)
Dump ==
  /\ \/ file' = file \o dumpLogs /\ UNCHANGED unwritten
     \/ unwritten' = unwritten \o dumpLogs /\ UNCHANGED file
  /\ dumpLogs' = <<>>

\* Mutants: <= in place of <; a full task is replaced without its Dump.
HasPlaceInclusive == Len(dumpLogs) <= MaxLogCount
ReplaceTaskForgets(x) ==
  /\ dumpLogs' = <<>>
  /\ dropped' = Append(dropped, x)
  /\ UNCHANGED <<file, unwritten>>

HasPlace == Len(dumpLogs) < MaxLogCount

(* The log that finds the buffer full is dropped.                          *)
ReplaceTask(x) ==
  /\ Dump
  /\ dropped' = Append(dropped, x)

Keep(x) ==
  /\ dumpLogs' = Append(dumpLogs, x)
  /\ UNCHANGED <<file, unwritten, dropped>>

TakeLog ==
  /\ consumer = "test"
  /\ logs # <<>>
  /\ logs' = Tail(logs)
  /\ LET x == Head(logs) IN
       \/ /\ ToConsole(x)
          /\ console' = Append(console, x)
          /\ UNCHANGED <<dumpVars, dropped>>
       \/ /\ ~ToConsole(x)
          /\ IF HasPlace THEN Keep(x) ELSE ReplaceTask(x)
          /\ UNCHANGED console
  /\ consumer' = "check"
  /\ UNCHANGED <<given, notifying, quitVars>>
-----------------------------------------------------------------------------
(* ~Logger.                                                                *)

BeginQuit ==
  /\ quit = "none"
  /\ isRunning' = FALSE
  /\ quit' = "push"
  /\ UNCHANGED <<queueVars, consumer, dumpVars, console, dropped>>

\* Mutant: nothing is pushed that would end the wait.
PushQuitLogNot ==
  /\ quit = "push"
  /\ quit' = "join"
  /\ UNCHANGED <<queueVars, isRunning, consumer, dumpVars, console, dropped>>

PushQuitLog ==
  /\ quit = "push"
  /\ Push(QuitLog)
  /\ quit' = "notify"
  /\ UNCHANGED <<notifying, isRunning, consumer, dumpVars, console, dropped>>

NotifyQuit ==
  /\ quit = "notify"
  /\ consumer' \in Notified
  /\ quit' = "join"
  /\ UNCHANGED <<queueVars, isRunning, dumpVars, console, dropped>>

LastDump ==
  /\ quit = "join"
  /\ consumer = "ended"
  /\ Dump
  /\ quit' = "done"
  /\ UNCHANGED <<queueVars, isRunning, consumer, console, dropped>>
-----------------------------------------------------------------------------
ConsumerStep == CheckRunning \/ Wait \/ TakeLog

QuitStep == PushQuitLog \/ NotifyQuit \/ LastDump

Next ==
  \/ \E t \in Loggers :
       Notify(t) \/ \E x \in ConsoleLogs \cup FileLogs : LogMessage(t, x)
  \/ ConsumerStep \/ SpuriousWakeup
  \/ BeginQuit \/ QuitStep

Spec == Init /\ [][Next]_vars

(***************************************************************************)
(* Threads go on with what they have begun.  Nobody has to log, the        *)
(* program need not end, and no thread is owed a spurious wakeup.          *)
(***************************************************************************)
FairSpec ==
  /\ Spec
  /\ WF_vars(ConsumerStep)
  /\ WF_vars(QuitStep)
  /\ \A t \in Loggers : WF_vars(Notify(t))
-----------------------------------------------------------------------------
(* Properties.                                                             *)

(***************************************************************************)
(* Every variable stays in its range: the buffer never grows beyond the    *)
(* MaxLogCount logs that were reserved for it.                             *)
(***************************************************************************)
TypeOK ==
  /\ logs \in Seq(Logs)
  /\ given \in Seq(Logs)
  /\ notifying \subseteq Loggers
  /\ isRunning \in BOOLEAN
  /\ consumer \in {"check", "test", "waiting", "stalled", "ended"}
  /\ quit \in {"none", "push", "notify", "join", "done"}
  /\ dumpLogs \in Seq(FileLogs)
  /\ Len(dumpLogs) <= MaxLogCount
  /\ file \in Seq(FileLogs)
  /\ unwritten \in Seq(FileLogs)
  /\ dropped \in Seq(FileLogs)
  /\ console \in Seq(Logs)

(***************************************************************************)
(* Whoever reads the file or the console reads the logs in the order in    *)
(* which they were pushed, none of them twice: also across the tasks that  *)
(* replace one another (Logger.cpp:161-164).                               *)
(***************************************************************************)
Before(x, y) ==
  \E i, j \in DOMAIN given : i < j /\ given[i] = x /\ given[j] = y

InOrder(s) == \A i, j \in DOMAIN s : i < j => Before(s[i], s[j])

WrittenInOrder == InOrder(file \o dumpLogs) /\ InOrder(console)

(***************************************************************************)
(* A log that was taken is printed, written, kept, given to a file that    *)
(* did not open, or dropped, and a full buffer costs only the log that     *)
(* finds it full: for each log that is dropped, MaxLogCount go to the file *)
(* (Logger.cpp:150-166).                                                   *)
(***************************************************************************)
Elements(s) == {s[i] : i \in DOMAIN s}

TakenCount == Len(given) - Len(logs)

Accounted ==
  Elements(SubSeq(given, 1, TakenCount)) =
    Elements(console) \cup Elements(file) \cup Elements(dumpLogs)
      \cup Elements(unwritten) \cup Elements(dropped)

FewAreDropped ==
  /\ Accounted
  /\ Len(dropped) * MaxLogCount <= Len(file) + Len(unwritten)

(***************************************************************************)
(* ~Logger returns, whatever the thread was doing when the flag fell,      *)
(* unless the quit log's notification came in the gap before a sleep: then *)
(* join does not return (Logger.cpp:171-179).                              *)
(***************************************************************************)
EventuallyQuits ==
  quit = "push" ~> quit = "done" \/ consumer = "stalled"
=============================================================================
