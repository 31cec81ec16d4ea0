# A TLA+ model of DSFramework

DSFramework is a small RPC framework in C++ on Boost.Asio and protobuf:
`src/DSCommunication` is an asynchronous TCP library (sessions, send queues, an
acceptor, a thread pool, a concurrent queue, a logger), `src/DSRPC` the RPC
server and client on top of it. This directory holds TLA+ modules translated
from that code, the TLC configurations that check them on small instances, and
proofs checked by TLAPS for every instance. `PROJECT.json` says which definition
stands for which lines; this file says what it all means.

## 1. The system

### Threads

| thread | started by | runs |
|---|---|---|
| acceptor | `AsyncTcpServer::Start` | `ConAcceptor::HandleAccept`, `Session::Start` |
| IO threads | `IOServicePool` | `HandleHeadRead`, `HandleBodyRead`, `HandleWrite` of their sessions, and from there `RPCServerStub::OnData` |
| request dispatcher | `Dispatcher::Start` | pops requests, raises `OnCommited`, runs the checks of `RPCProcessor` |
| workers | `ThreadPool` | the services, `OnCompleted`, `OnServiceError` |
| response dispatcher | `Dispatcher::Start` | pops responses, serialises, `Session::Send` |
| logger | `Logger` | takes logs, prints them or keeps them for the file |
| client call (`m_rpcThread`) | `RPCClient::RemoteCall` | connects, sends, waits for the timer, disconnects |
| client IO (`m_clientThread`) | `AsyncTcpClient::Connect` | the handlers of the client's session |
| main | the program | `AsyncTcpServer::Start` until a signal, then the destructors |

A session belongs to one `io_context` and so to one IO thread; its handlers run
one at a time. Several sessions may share an IO thread.

### Components, their state and their operations

| component | state | operations | what makes it correct |
|---|---|---|---|
| `RPCServerStub` | - | `OnData`: parse, raise `OnDeserialized` or `OnDeserializedFailed` | every message leads to exactly one outcome |
| `RPCEventHandler` | six lists of handlers | `On<event>`: call them in order | the order of registration (table, responses, next stage) |
| `RPCPacketManager` | `m_requests` with a mutex; the status in the packet | add, update status, remove | holds exactly the requests in progress; status only advances |
| `RequestDispatcher` | queue, count, limit, thread | post (or refuse as busy), dispatch | bound; refuses only when full; no request lost |
| `ResponseDispatcher` | queue, count, limit, thread | post (or drop), send | bound; order per request; no outcome lost |
| `RPCProcessor` | map of services | check, commit to the pool, execute | one outcome per request |
| `ConcurrentQueue` | linked list, two mutexes, condition variable, count | `Push`, `WaitPop`, `size` | FIFO; its ends stay apart; a wakeup is lost in one way only; the count is near the length |
| `ThreadPool` | tasks, stop flag, workers | `Commit`, `Start`, `Stop` | each task once; `Stop` ends |
| `Session` | socket, send queue, read buffers, `m_closed` | `Start`, `Send`, `Close`, three completions | whole frames in order; buffers outlive writes; closed once and for good |
| `SessionManager` | `m_sessions`, limit | add, remove | bound; holds exactly the live sessions |
| `ConAcceptor` | the socket it accepts on | accept, start | always accepts again |
| `EventHandler` | three lists of handlers | `OnConnect`, `OnData`, `OnClose` | order |
| `IOServicePool`, `AsyncTcpServer` | contexts, threads | start, stop, next context | all threads joined once |
| `AsyncTcpClient`, `RPCClient`, `RPCClientStub` | session, timer, threads, running flag, the packet kept | connect, call, time out, disconnect | the call ends by its timer; what is kept is the last good answer; nothing runs when the client is gone |
| `DSCPacket`, `RPCPacketFactory` | - | length header, responses from requests | header equals length; request type maps to response type |
| generated `RPCPacket` | fields of the messages | set, clear, merge, copy, size, serialise, parse | what is parsed is what was meant |
| `Logger` | queue, dump buffer, thread, running flag | log, dump, quit | logs written in order, none twice; few are dropped; the destructor ends |

### How they interact

A message read by a session goes through `EventHandler::OnData` to
`RPCServerStub`, on the IO thread. From there the request moves on by events:
each `RPCEventHandler::On<event>` calls `RPCPacketManager` first, then
`ResponseDispatcher` (which posts a copy of the packet with the status it has
*now*), and for `Deserialized` the `RequestDispatcher`, for `Commited` the
`RPCProcessor`. An event is raised from within a handler of the one before
(`OnDispatched` inside `OnDeserialized`; `OnServiceNotFound` inside
`OnCommited`), always as the last handler of its chain, so that nothing of the outer
chain is left to run except the push that follows `OnDispatched`. Shared between
threads are: the two queues and their counts, the table, the thread pool's tasks, the
packet itself (handed on, never shared on purpose), the sessions' send queues,
the map of sessions, and the sessions' `m_closed` and socket.

### What is hard

The list under `hazards` in `PROJECT.json` has each at its line. In short: tests
and actions that are two steps (`size()` and `Push`; `m_sessions.size()` and
`insert`; `find` and the lock); a notification without the mutex of the sleeper;
an `int` that may be -1 compared with a `size_t`; handlers armed before the
object is ready for them (`Session::Start`); `Close` called several times from
two threads; a completion that must start the next write; exceptions that no
one catches; queues that drop what does not fit; sizes cut to 16 bits; a notification that
should end a thread and comes in the gap before its sleep; parts that are freed
in an order while threads go on using them; two threads that write one running flag
in either order; a timer that no answer cancels.

## 2. The modules

| module | what |
|---|---|
| `RPCPipeline` | requests inside the server, from `OnData` to `Session::Send` |
| `MCRPCPipeline` | its inputs and its symmetry for TLC |
| `RPCPipelineProofs` | its invariants: types, the bounds of the queues, justified waiting, and what becomes of a request |
| `FifoQueue` | abstract: items come out in the order they went in |
| `ConcurrentQueue` | the queue of the library with its two mutexes; implements `FifoQueue` |
| `ConcurrentQueueProofs` | its invariants and the refinement |
| `FifoChannel` | abstract: what callers of `Session::Send` may rely on |
| `SendQueue` | the write side of a session; implements `FifoChannel` |
| `SendQueueProofs` | its invariants and the refinement |
| `SessionLifecycle` | accept, start, close, the table of sessions, destruction |
| `SessionLifecycleProofs` | its three invariants |
| `RemoteCall` | abstract: what the caller of `RPCClient::RemoteCall` may rely on |
| `RPCClient` | one client with its three threads; implements `RemoteCall` |
| `RPCClientProofs` | its invariants and the refinement |
| `RPCPacket` | the generated messages: fields, copies, sizes, encoding, parsing |
| `Wire` | a request and its answers as bytes, between client and server; EXTENDS `RPCPacket` |
| `MCWire` | its requests for TLC |
| `WireProofs` | the encoding, and the four invariants of `Wire` |
| `ServerStop` | how a server ends: destructors, dispatchers, pools |
| `ServerStopProofs` | that stopping an idle server is clean |
| `Logger` | logging from any thread, the file buffer, `~Logger` |
| `LoggerProofs` | its three invariants |

### `RPCPipeline`

Each thread has a `pc`, and a thread that raises events (`Posters`) also the `event`
it is raising and the request it works on (`cur`). The handler chain of an event
is the same for all threads:

    add/find -> [erase] -> check -> link -> count -> return

`add`, `erase` are `AddRequest`/`RemoveRequest` under `m_requestsMutex` (lock and
unlock are two steps); `find` is the lookup of `UpdateRequestStatus`, made
*before* the mutex is taken, so it may miss its entry while another thread
changes the map (`MissRequest`); `check`, `link`, `count` are
`PostRequestToQueue` and `ConcurrentQueue::Push` of the responses. At `return`
the thread does what follows the chain: post the request, push it, check and
commit it to the pool, or finish.

Interleaving is as fine as the shared memory: an access to a queue, to a count,
to the table or to its mutex is a step. Steps are merged where no other
thread can tell:

- `fetch_add` and `notify_one` (`CountRequest`, `CountResponse`): the count is
  read by posters only, the notification concerns the consumer only;
- `fetch_sub` and what a dispatcher does next with the item it owns;
- a lookup that hits, and the lock and write that follow it: the entry is
  erased only by the thread that is looking it up;
- the ThreadPool's queue is under one mutex for each operation, and its wait has
  its predicate under that mutex: taking a task is one step.

The gap between the predicate and the sleep in `WaitPop` is the state
`waiting`: a `notify_one` that arrives there wakes the consumer (`idle`) or is
lost (`stalled`). `SpuriousWakeup` may end both.

A request is a member of `Requests`, with a `kind` that says which check it will
fail, if any. The packet is its `status`; a response is a copy of the status with the error
code of `RPCPacketFactory`. `m_count` starts at 0 (see section 6).

### `FifoQueue` and `ConcurrentQueue`

`ConcurrentQueue` is the header of that name with any number of threads on both
sides. A producer and a consumer walk through

    idle -> fill -> move -> count -> notify -> idle
    idle -> test -> pop -> popped -> idle
            test -> gap -> asleep -> idle

`Push` takes `m_tailMutex`; `FillTail` writes `data` and `next` of the dummy;
`MoveTail` moves `m_tail` and unlocks; `CountPush` and `Notify` run without a
mutex. `LockHead` takes `m_headMutex`; `Test` is the predicate of the wait with
`get_tail()`, which needs `m_tailMutex` for that one read; `PopHead` moves
`m_head` and unlocks; `CountPop` subtracts. In `gap` the predicate was false and
the thread does not sleep yet: `Notify` cannot reach it there, and the history
variable `missed` says so. Nodes are numbered in the order of their linking, so
`head` and `tail` are numbers and an unlinked node stays in `nodes`. The
refinement maps the nodes from `head` to before `tail` to the queue and the nodes
before `head` to what was taken.

`RPCPipeline` uses the same queue twice with coarser steps (see above): the
lock of the tail is not a step there, because a poster does nothing else under it.

### `FifoChannel` and `SendQueue`

`FifoChannel` accepts or refuses packets, delivers the accepted ones in order and
once, and may break. Refusing needs a reason: the channel is broken, or about
full (the place of a packet becomes free only after its completion, a little after the
peer could read it).

`SendQueue` has `m_sendQueue`, the asynchronous writes in flight (a set: nothing
in the model forbids two), and the stream on the wire in pieces, two for
each frame. `Send` and both halves of `HandleWrite` work under `m_sendQueueMutex` and
are one step each. Boost.Asio's part (`WritePiece`, `WriteFails`) is external: a write progresses
piece by piece while the socket is open, fails at any time, and then waits for its handler.
The refinement maps the whole frames on the wire to `delivered`, and a
closed socket or a failed write to `broken`.

### `SessionLifecycle`

The acceptor's thread walks through `HandleAccept` and `Start`:

    connect -> adding -> opened -> release            (a place is free)
    connect -> remove -> removing -> shut -> opened -> release    (rejected)

and the IO thread of each session through its handlers and `Close`:

    idle -> remove -> removing -> shut -> idle

`remove`..`removing` is the operation on `m_sessions`, which has no lock: when two
threads are inside operations at a time, each of them may or may not have had its
effect (`collided`). This is weaker than C++ (where anything may happen) and is
enough to show who is responsible for a dead entry. Every session has its own
IO thread in the model, which allows every order that sharing a thread would.
A read has arrived (`arrived`) some time before its handler runs; a read that
fails and its handler are one step, for nobody can see the difference.
`Destroy` runs when no table, thread or pending handler refers to the session.

### `RemoteCall` and `RPCClient`

`RemoteCall` has a phase (none, waiting, over) and what the caller knows: a
status that only advances, and only while the call lasts.

`RPCClient` has a `pc` for each of the three threads that take part:

    user    idle -> called -> joining -> [disconnect .. join] -> free -> freed or crashed
    rpc     none -> call -> send -> run -> disconnect -> shut -> stop -> join -> done
    io      none -> start -> run -> ended

`disconnect`..`join` is `AsyncTcpClient::Disconnect`, in its order: `m_running`
and `m_closed`, the socket, the `io_context`, the join. It runs when the timer
expires, and again in `~AsyncTcpClient` if `m_running` is set, as it is when
`m_clientThread` took its first step after the first `Disconnect`.
`CallProcedure` does not look at what `Connect` returned (`ConnectFails`, then
`Send`). Reads and writes of the session are one flag each with what was read
(`ready`), for the client's session has one of each at a time. The server is what
`RPCPipeline` shows of it: it may answer or not, progress is in order, and an outcome
is the last answer; the connection is what `SendQueue` shows of it.
The refinement maps the steps of `m_rpcThread` to the phase and the status in
`m_cachedRequestPacket` to what is known. A client without a good answer ends
in `crashed`: `~RPCClientStub` follows its null pointer.

### `RPCPacket` and `Wire`

These two count bytes. A message is a function of its fields; encoding it gives
a sequence of encoded fields with their sizes, as in the generated
`_InternalSerialize` and `ByteSizeLong`; strings keep their pieces, length and
whether they are UTF-8, which is all that parsing looks at. `Any` is external,
as far as `RPCPacket` uses it.

`Wire` follows one request on one connection: `RemoteCall` packs and frames it,
the receiver closes on a size that is too large, the server parses, initialises and updates its
packet event by event and answers each event with a changed copy, the
service unpacks its parameters and packs its result. The
length is cut to 16 bits (`Cut`, `DSCSendPacket`). A size of 65534 or 65535 modulo
2^16 makes the buffer two bytes shorter than what is copied to it, which is undefined:
`NoOverrun` leaves those sizes out.

A packet is what a program can make (`IsPacket`): codes of one byte, strings of any
pieces and length, and in an `Any` nothing, or what `PackFrom` puts there. `Pieces` is what
strings are put together from; TLC takes all strings of TLA+.

### `ServerStop`

The thread of `main` walks through `~RPCServer`:

    serving -> free -> stop -> join -> free -> stop -> join -> exit -> .. -> done

`Parts` are the lists of handlers in the reverse of their order, and the
two dispatchers, freed with the last list that holds them. `stop` and `join` are
`~Dispatcher`; `exit` destroys the two pools, which are singletons, in either order.
Meanwhile the client, the dispatchers' threads and the workers go on. Requests
are counted, not told apart. A thread about to use what was freed is `Dangling`, and stops
there: what follows is undefined.

### `Logger`

Loggers push and notify in two steps. The Logger's thread checks `m_isRunning`,
waits, and takes a log: prints it, keeps it for the file, or, if the buffer is
full, drops it and replaces the task, whose file is written (or does not open).
`~Logger` clears the flag, pushes "Logger quit.", notifies, joins, and writes
what is left. Histories say what was given, printed, written and dropped.

## 3. The properties and the runs

| run | properties | shows |
|---|---|---|
| `pipeline_safety` | `TypeOK`, `QueuesBounded`, `SingleOwner`, `TableIsLive`, `ProgressInOrder`, `Answered`, `OneOutcome`, `WaitIsJustified`, `FailureSaysFailed` | the limits of the queues are exceeded by no more than the number of other posters; a packet has one owner at any time, so its unlocked accesses do not race; the table holds what is in progress (an entry is left over only by a service that throws no `std::exception`); a client sees progress in order and one outcome; no request ends in silence except where the code gives it up; a waiting dispatcher will be notified; status and error code of a response agree |
| `pipeline_liveness` | `EventuallyResolved` | with fairness, two requests that may both want the table's mutex and the request queue are worked off and answered, also when one is refused as busy; what a lost notification leaves behind waits in the queue of the thread that sleeps |
| `queue` | `EndsApart`, `SleepIsJustified`, `SizeIsClose`, `ImplementsQueue`, `EventuallyPopped` | first in, first out; the two mutexes suffice: no node is worked on at both ends; how far `size()` may be off; the one way to lose a wakeup, without which every item is popped |
| `sendqueue` | `BufferAlive`, `FramesIntact`, `PendingMeansWriting`, `ImplementsChannelSafety`, `ImplementsChannel` | the buffers given to Asio stay alive; the stream has whole frames in order; the refinement, safety and liveness |
| `session` | `TypeOK`, `EntriesAreLive`, `OneLateMessage`, `EventuallyDestroyed` | the limit of sessions holds; dead entries come from two races only; one message at most after the close; closing a session frees it |
| `client` | `TypeOK`, `QuietWhenFreed`, `CachedIsLastGood`, `ImplementsCall`, `EventuallyFreed` | whatever overlaps, nothing of the client runs when its members go and its destructor ends; it holds the last good answer; it implements `RemoteCall` |
| `wire` | `NothingGarbled`, `AnswersBelongTogether`, `SmallRequestsAreAnswered`, `GreetsTheSender` | what is parsed is what was meant, except beyond 16 bits; the answers made from one packet agree; which requests never cost the connection; the service's answer is the one to this request |
| `stop` | `QuietStopIsClean`, `StopEnds`, `CommittedIsTaken` | stopping an idle server touches nothing freed; stopping ends unless a notification was lost or a client stays; no worker sleeps through a `Commit` |
| `logger` | `TypeOK`, `WrittenInOrder`, `FewAreDropped`, `EventuallyQuits` | logs are in order; a full buffer costs one log; the destructor ends unless its notification was lost |

Three runs end in a violation, each of something the repository says and the code does not keep:

- `pipeline_busy` (`BusyMeansFull`): a client is told "Service busy"
  (`RPCClientStub.cpp:39`) although no request waits. `WaitPop` may pop an item
  whose `fetch_add` has not run yet; `size()` is then -1, and
  `RequestDispatcher.cpp:20` compares it as a `size_t`.
- `sendqueue_stuck` (`QueuedIsBeingSent`): the comment at `Session.cpp:142` takes
  a queue that is not empty as the sign that sending is under way. After a failed
  write it is not: `HandleWrite` does not pop.
- `session_destroyed` (`DestroyedWhenClosed`): `Start` ends with
  `m_closed = false` and overwrites a `Close` that came before, by an IO thread
  or by a rejection; the destructor then calls `Close`, whose `shared_from_this()`
  throws.

### Bounds

- Pipeline: two requests, two IO threads, one worker, `MaxRequests` 1,
  `MaxResponses` 1 (2 in `pipeline_liveness`). Two requests are enough for each of them to
  find the request queue full, to pass the test for room together, so that the queue holds two,
  or to find the table locked by the other; every request posts up to four responses, so the
  response queue is full often, and it may be exceeded. This holds in both passing runs:
  `pipeline_safety` has one request that is executed beside one that is refused for its parameters
  or does not parse (the other checks differ in their code only), `pipeline_liveness` one of any of
  the five kinds beside one that is refused for its parameters. `pipeline_liveness` tells states
  apart by `ControlState`: it leaves out the four histories (`last`, `lost`, `abandoned`, `raced`)
  and the status and error code that packets and responses carry, which no action reads but
  to set another of them, and which `EventuallyResolved` does not read, so
  states that agree otherwise go on alike.
  The bound of the queues is reached, and proved for every number of threads.
- Queue: two producers, two consumers, three items: both mutexes are contended,
  the list is empty, has one and has several nodes, and one consumer may be
  in the gap while another sleeps. The theorems hold for any number of each.
- Send queue: five packets (two in the run that ends in a violation) and a capacity of 2:
  empty, filling, full and refusing, with a completion or a failure at every point.
- Sessions: two, with `MaxSessions` 1: one in the table and one rejected, or
  one after the other, or each in the other's operation on the map. A session is not
  reused; a new connection is a new session.

- Client: one kind of error (all are handled alike) and `MaxAnswers` 4: with
  any answers in the order of progress, so that a good answer may come after another,
  an error after a good one, and one may be heard while the client disconnects.
- Wire: requests of each type and each failing check, strings that are not
  UTF-8 at either place, and sizes below and around the receiver's limit of 4096, and
  around 2^16, where the frame is cut between two fields or within one. `Growth`
  (256) is how much larger than twice the request an answer may be.
- Stop: two workers (the least `ThreadPool` has) and two requests: one may
  be executed and one be dispatched while the server is freed.
- Logger: two threads, a log for the console and four for the file, with a
  buffer of 2: the buffer fills, is replaced, and fills again.

Symmetry is used in `pipeline_safety` only (IO threads and workers), which has no
temporal property. The runs of the send queue, sessions, client, wire, stop and logger
do not check deadlock: a queue with nothing to send stops, as does a server
nobody connects to any more, and a call, an exchange or a program ends. The pipeline
and the queue never stop, since a waiting thread may wake spuriously.

### Fairness

Weak fairness of each thread's steps (the operating system runs what can run).
For the pipeline less is assumed: as long as some thread can go on with a request or a response, some
thread does (`Progress`). The threads take finitely many such steps for each request, so with a bounded
number of requests nobody has to be fair to the threads that wait for the table's mutex.
No fairness for arrivals, spurious wakeups, client failures or `Close`. For a session: its thread runs its handlers, a read
on a closed socket fails, and what has no owner is destroyed. A write in
flight goes on or fails. In the client the timer expires and what arrived is read; the
server owes no answer. A server that stops is owed the steps of its threads, but
neither the signal nor the client's leaving; the end of the program (`BeginQuit`) is not owed
either.

`EventuallyResolved` and `EventuallyPopped` exclude what the code cannot promise: a
consumer that lost its wakeup (`stalled`, `missed`). The first excuses only the items in that
consumer's own queue, and only while it sleeps. `EventuallyDestroyed` excludes the two races of
`EntriesAreLive`. `StopEnds` and `EventuallyQuits` exclude a thread that slept
through the notification that should end it (`stalled`), and `StopEnds` a client that stays
and a thread that would use what was freed.

## 4. What is proved

All proofs are for arbitrary constants under the assumptions of the modules
(`ThreadsAssumption` of two modules, `LimitsAssumption`, `InputsAssumption`,
`CapacityAssumption`, `SessionsAssumption`, `NoneAssumption` of two modules, `MaxLogCountAssumption`): finite
sets of threads or sessions that are disjoint where the code's are, limits that
are natural numbers, a null pointer that is no packet. `Wire` assumes of its requests only that
they are packets a program can make (`RequestsAssumption`), that the words the code writes are
strings (`PiecesAssumption`), that a session's uuid has 36 characters, and that the
server's name has at most 4000 bytes (`IdsAssumption`): it is an argument of `RPCServer`,
which the sample gives eight, and a longer one would make the packet that tells
of an error too large for the client.

| theorem | property | argument |
|---|---|---|
| `RPCPipelineProofs!TypeCorrect` | `TypeOK` | with `WorkOK`: a thread between its steps has a request, and its event fits the step |
| `RPCPipelineProofs!QueuesStayBounded` | `QueuesBounded` | see below |
| `RPCPipelineProofs!WaitsAreJustified` | `WaitIsJustified` | the item linked last has a poster at its `count` step, until the notification |
| `RPCPipelineProofs!OwnersAreSingle` | `SingleOwner` | layers 1 and 2 below |
| `RPCPipelineProofs!TableIsKept` | `TableIsLive` | layer 3 |
| `RPCPipelineProofs!ProgressIsInOrder` | `ProgressInOrder` | layer 5 |
| `RPCPipelineProofs!OutcomeIsLast` | `OneOutcome` | layer 5 |
| `RPCPipelineProofs!ErrorAgreesWithStatus` | `FailureSaysFailed` | layers 4 and 5 |
| `RPCPipelineProofs!RequestsAreAnswered` | `Answered` | layer 5 |
| `ConcurrentQueueProofs!TypeCorrect` | `TypeOK` | with who holds which mutex, and that the list is longer than `m_tail` says only while a producer is at `move` |
| `ConcurrentQueueProofs!EndsStayApart` | `EndsApart` | a consumer at `pop` saw an item under `m_headMutex`, so nobody else can have taken it |
| `ConcurrentQueueProofs!SleepsAreJustified` | `SleepIsJustified` | inductive with the above: the last notification finds a sleeper or marks one in the gap |
| `ConcurrentQueueProofs!SizeStaysClose` | `SizeIsClose` | `m_count` is the length, less the producers at `count`, plus the consumers at `popped` |
| `ConcurrentQueueProofs!RefinesQueue` | `ImplementsQueue` | `MoveTail` puts, `PopHead` takes, all other steps stutter |
| `SendQueueProofs!BuffersStayAlive` | `BufferAlive` | the only write is on the head of the queue; a failed one leaves none |
| `SendQueueProofs!PendingIsWritten` | `PendingMeansWriting` | each completion leaves an empty queue or a write |
| `SendQueueProofs!FramesStayIntact` | `FramesIntact` | the packets accepted are those written, followed by the queue; the wire is as long as the write in flight says |
| `SendQueueProofs!RefinesChannel` | `ImplementsChannelSafety` | each step is a step of `FifoChannel` or stutters, under the same invariant |
| `SessionLifecycleProofs!TypeCorrect` | `TypeOK` | only the acceptor inserts, so the place it saw is still free |
| `SessionLifecycleProofs!LateMessagesEnd` | `OneLateMessage` | nothing arrives after the socket is closed |
| `SessionLifecycleProofs!OnlyRacesLeaveEntries` | `EntriesAreLive` | an entry has its read armed, is on its way out, or met a race; also for a session about to be inserted |
| `ServerStopProofs!QuietStopsAreClean` | `QuietStopIsClean` | a server that was idle when the signal came stays idle: no session can open any more, and only `OnData` creates work |
| `LoggerProofs!TypeCorrect` | `TypeOK` | a full buffer is replaced by an empty one before anything else is kept |
| `LoggerProofs!OrderIsKept` | `WrittenInOrder` | what waits in `m_logs` was given last; what was printed, or written and kept, lies among the logs given before, at rising positions |
| `LoggerProofs!DropsAreFew` | `FewAreDropped` | the logs taken are those in the five places; a drop comes with a `Dump` of `MaxLogCount` |
| `RPCClientProofs!TypeCorrect` | `TypeOK` | a read completes only when the last one was handled |
| `RPCClientProofs!FreedIsQuiet` | `QuietWhenFreed` | see below |
| `RPCClientProofs!LastGoodIsCached` | `CachedIsLastGood` | inductive with the types: an answer that is not a task's carries an error |
| `RPCClientProofs!RefinesCall` | safety of `ImplementsCall` | the answers heard, read and under way are a prefix of those sent, which only advance; a handler runs only while the call lasts |
| `WireProofs!AnswersAreOneRequests` | `AnswersBelongTogether` | the server's packet keeps what it has from the client's through every setter; a response is a copy of it with the addresses exchanged |
| `WireProofs!NothingIsGarbled` | `NothingGarbled` | see below |
| `WireProofs!SmallRequestsAreSafe` | `SmallRequestsAreAnswered` | see below |
| `WireProofs!GreetingsAreHeard` | `GreetsTheSender` | the packet keeps its parameters to the end, and has the result of executing them when its status is `COMPLETED` |
| `WireProofs!PacketRead` | - | a packet is read back as it was written |
| `WireProofs!AnyFrame` | - | a frame is read as the first fields of its packet, or not at all |
| `WireProofs!Grows` | - | an answer has at most twice the bytes of the packet it answers, and 256 |

`QuietWhenFreed` is not inductive either: `QuietOK` adds that the session is
closed before `Connect` and from the rpc thread's `Disconnect` on, that the
IO thread is over once the rpc thread is, and that the user's thread disconnects
only after it joined the rpc thread. With these the second `Disconnect`
finds nothing that runs.

The bound of a queue is not inductive. The invariants `ReqInv` and `RespInv` relate the
count to the length of the queue: the count is the length, less the posters that have
linked and not counted, plus the item popped and not subtracted. They bound the
count *plus the posters between their test and their counting*: the test lets a poster
in only while the count is below the limit, and there are no more such posters than
threads; counting an item moves one from the second term to the first. The length is
never more than that sum.

What becomes of a request in the pipeline is proved in five layers, each an
invariant on its own given the ones before:

1. Control (`Control`): which events a thread can be raising at each step of a chain, and that
   it has a request exactly while it works on one.
2. Ownership (`OnePlace`): no two threads have the same request, a queue has it at most
   once, the places exclude each other, and a request that was not sent has none.
   A step only ever moves a request from one place to the next. `SingleOwner` counts
   the places.
3. The table (`TableOK`): a request with a thread is in `m_requests` from its
   `AddRequest` to its `RemoveRequest`, one in a queue always, one that
   is nowhere only if its service was abandoned.
4. Statuses (`StatusInv`): the event a thread raises writes a status above the one it
   finds, and from then until the response is linked the packet has that
   status, unless the lookup raced (`raced`). Here ownership is needed: nobody
   else writes the status. The table is needed too: a lookup that does not find
   its request did not miss for any other reason than the race.
5. Responses (`PostedOK`, `StreamOK`): the responses of a request, from the last one sent
   through the one being sent to those queued (`Posted`), go up in status, and none but
   the last is final. They are not above the packet's status; a thread that has
   not yet linked the response of its event is strictly ahead of them (`Behind`);
   none is final while the request is in a queue, or with a thread that has not posted
   its outcome (`Open`); and when it is nowhere any more, one is final, or lost, or raced, or its
   service was abandoned (`Told`). What is sent is the head of such a stream, which
   gives the four properties.

The five layers were checked as invariants of the runs `pipeline_safety`,
`pipeline_liveness` and `pipeline_busy` before they were proved.

The three invariants of `Wire` about bytes rest on facts about every message, whose encoding, size
and parsing fold over sequences. The library's induction theorems cannot be used here, since
they take an operator; what they rest on can: a set of naturals that is not
empty has a least element. From it come induction as a statement
about *sets* of naturals, and then, in the order of `WireProofs`:

1. A fold of the three kinds the model uses (a sum, the fields that are written, the value
   of a field as its bytes are read) is the last entry of a table over the positions.
2. What is written of a message is its fields with a value, in order, each once; each prefix
   of its bytes is the encoding of the message up to some field; parsing gives back
   each field, so what is written is read back (`PacketRead`).
3. The size of a message is the sum of what its fields cost, and is the size of its bytes. Cut
   after n bytes, they are the message up to some field, or end in a torn field, which
   does not parse (`CutMessage`, `AnyFrame`).
4. The setters, the copy and the response leave what they do not name, so that an answer derives
   from the packet the server parsed (`Stems`, `Keeps`, `Derives`): addresses, service and
   parameters from there, five times and two ids of bounded size, and a result that is
   the packet's own, or the greeting, which is no longer than what the parameters
   hold and 19 bytes. Hence `Grows`.
5. The inductive invariant `WireInv`: on its way to the server there is nothing, or the frame of
   the request; what the server parsed is the first fields of the request, has at most 4096
   bytes and is UTF-8; every answer derives from it, or is the one refusal; what
   the client heard and then what is on its way to it are the answers so far;
   and whoever closed has seen a packet of more than 4096 bytes.

Each answer derives from a packet of at most 4096 bytes, so it has less than 2^16 itself, is
framed whole, and is read back as it was sent. A client that closes has met an answer of more than
4096 bytes, which is at most `2 * n + Growth` for a request of n. `WireInv` was
checked with TLC on the run `wire` before it was proved. The invariant is stronger than
`NothingGarbled`: the two cases in which the client would hear less than what was sent do not arise.

So every safety invariant of the runs that pass is a theorem, as is the safety of the
three refinements. Only model-checked is all liveness (`EventuallyResolved`,
`EventuallyPopped`, `ImplementsChannel` and `ImplementsCall` beyond their safety, `EventuallyDestroyed`,
`EventuallyFreed`, `StopEnds`, `CommittedIsTaken`, `EventuallyQuits`), which the
proof system does not support. The runs that end in a violation show what is not true.

## 5. The plan

1. `RPCPipeline` and its proofs (types, queues, owners, table, responses), `SendQueue` with `FifoChannel`,
   `SessionLifecycle`: done.
2. `ConcurrentQueue` with `FifoQueue`: done.
3. `ServerStop`: start, work, stop of dispatchers and pools, and its proof: done.
4. `RPCClient` with `RemoteCall`, and its proofs: done.
5. `RPCPacket` and `Wire`, and the proofs about the encoding and the answers: done.
6. `Logger` and its proofs: done.
7. Left: a composition of client, wire and server against an abstract call with
   one outcome; the start of `IOServicePool` and its round robin.

## 6. What is not modelled, and why

- What happens after a thread used a part that was freed, or a buffer that is too
  short: it is undefined. The models stop there (`Dangling`, `NoOverrun`).
- The order in which the singletons go at exit, relative to those that still log,
  and a `ThreadPool` of fewer than two threads (its constructor rules it out).
- How `IOServicePool` starts and chooses an `io_context`: the handlers of a session
  run one at a time on any of them.
- A second `RemoteCall` on one client: it assigns to a thread that is joinable, and ends
  the process.
- Arenas, reflection, `Swap`, unknown fields and the other parts of the generated
  code the program does not use.
- `DSCPacket::Clear` and the copy of a packet. `Session` clears its head packet before each read
  (`Session.cpp:37, 110`), which sets its size to 0; the read uses the fixed size of a head. It
  hands `OnData` a copy of the body (`Session.cpp:103`), with the same bytes. No model depends on
  either. The assignment operator has no caller.
- The sample programs: constants, and calls of what is modelled.
- The catch blocks of `Session`: they handle an `async_*` call that throws, which
  Asio's functions do for lack of memory only.
- A check function that throws on the dispatcher's thread, and a `Close` that
  throws in a destructor: the process ends.
- `ConcurrentQueue::m_count` has no initialiser. The standard library of the project's
  toolset initialises it to 0; the models start there.
- `ConcurrentQueue::empty`, `QueryRequest` and `RPCEventHandler::OnFailed` have no caller.
- A second `SessionManager` beside the first (the sample `main.cpp` registers one
  more than `AsyncTcpServer` does).
- The text of logs and times; the contents of strings beyond their pieces and length.
