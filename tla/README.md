# A TLA+ verification of DataCollectionCluster

DataCollectionCluster is a C++ system. A `DcServer` accepts HTTP requests and
forwards each one to a `DcNode`. The node puts the request's message on an
ActiveMQ queue. Nodes register with the server and send it heartbeats over Thrift.

This directory holds TLA+ models of the concurrent and distributed parts, TLC
configurations that check them on small instances, and proofs that hold for every
instance.

## 1. The system and its parts

| part | code under `src/` | modules | state of the model |
|---|---|---|---|
| thread pool | `utils/src/swartz_thrmgr.cpp`, `swartz_threadpool.cpp`, `swartz_sem.cpp`, `swartz_atomic.cpp` | `ThrMgr`, `TaskPool`, `SemTime` | modelled |
| node table, monitor | `DcServer/src/DcServer.cpp` | `DcServer`, `Membership`, `DcMembers`, `DcPicks`, `Vector`; start and stop in `HttpServer` | modelled |
| HTTP front end | `DcServer/src/HttpServer.cpp` | `HttpServer`; the request's work in `DcServer` | modelled |
| registration, heartbeat | `DcNode/src/NodeServer.cpp` | `NodeServer` | modelled |
| the cluster | both programs and their Thrift calls | `Cluster` | modelled |
| Thrift stubs | `*/src/Regist.cpp`, `*/src/Request.cpp`, `*/src/common_types.cpp` | `Thrift` | all but unused concurrent clients and event handlers |
| broker connection | `mq/src/MqConnection.cpp` | `MqConnection`, `MqMgr` | all but `onMessage` |
| broker registry | `mq/src/MqMgr.cpp`, `libactivemq.cpp` | `MqMgr`, `MqUri` | one broker, one calling thread |
| message producer | `DcNode/src/dp.cpp` | `Cluster`, `MqMgr`, `MqUri` | calls of the registry, and the uri |
| threads, mutexes | `utils/src/swartz_thread.cpp`, `swartz_mutex.cpp`, `swartz_mutexEx.h` | `ThrMgr`, `MqConnection`, `HttpServer` | as these use them |
| configuration, logging | `DcNode/src/localconfig.cpp`, `xlogger/` | none | not modelled |
| vendored libraries | `depend/` | none | external |

How they interact:

- libevent's thread calls `HttpCallback`, which dispatches a task to the pool.
- A pool thread parses the request and picks a node under `m_Manmutex`. It
  unlocks, makes the `ClusterWork` call, and replies. If the call failed it locks
  again and erases the node.
- Each node's heartbeat thread registers, and beats every 30 s.
- The server's monitor thread wakes every 45 s and drops nodes that have been
  silent for more than 60 s.
- `ClusterWork` in the node calls `dp::send_message`, which sends through a cached
  `MqProducer`. A reconnect thread replaces a broker connection that failed.

## 2. The modules

How the modules build on each other:

```
TaskPool <-- ThrMgr (implements)          Vector <-- DcServer --+
    ^                                     NodeServer -----------+--> Cluster
    +-- HttpServer (uses)                 Thrift ---------------+
SemTime (waits of all threads)            MqConnection, MqUri --> MqMgr
Membership <-- DcServer                   DcServer --> DcPicks (history of picks)
    (implements, in DcMembers)
```

`MCThrMgr`, `MCDcServer` and `MCCluster` add what TLC needs for an instance, such as
symmetry; the other runs use a specification as it is. The proofs are in `DataProofs`,
`DcServerProofs`, `ThrMgrProofs`, `ThrMgrRefines`, `ClusterNodeProofs`,
`ClusterProofs`, `MqMgrProofs` and `HttpServerProofs`.

Names follow the source: variables are the members, and actions are the functions
or the parts of them between two accesses to shared data. `PROJECT.json` maps each
definition to its lines.

**`ThrMgr`**. There is one action per locked section, atomic operation, unlocked
read and semaphore operation. `wpc`, `dpc` and `xpc` say where workers,
dispatchers and the caller of `thrmgr_destroy` are. `thrmgr_dispatch` holds the
mutex over two steps, because inside it reads `thr_idle`, which no mutex protects.
`added` and `popped` are history. Once the pool is freed, a dispatcher that still
had to post takes no further step.

**`TaskPool`**. What the pool promises its users: tasks start in the order they
entered, at most `Limit` run, none starts once the pool is gone, and each caller is
told once. What it does not promise is stated as well: a task that was refused may
have entered all the same (no first thread could be created), and a destroyed pool
drops what is still in line. `ImplementsTaskPool` maps `queue` to `waiting`,
`popped` to `started`, the workers in the handler to `running`, and the results of
dispatches to `answer`.

**`SemTime`**. The absolute deadline that `swartz_sem_wait` computes from
`gettimeofday` and a wait in milliseconds. All timed waits of the system use it.
`Micros` and `Waits` are the readings of the clock and the waits that are looked at:
in TLC's instances the ends of a second and waits around one and thirty seconds,
in the proofs any.

**`HttpServer`**. The main thread in `DcServer::StartServer`, the service thread in
`StartService` and `StopServer`, and the handlers on the pool, which is
an instance of `TaskPool`. Every call that can fail does, up to a bound on the kinds
of failure. Two facts of the code show: the service thread runs before the pool
exists and before `swartz_thread_create` has stored its fields, and `StopServer` runs
on the service thread, so it joins itself, and `StartService` goes on after it. A call
to a node may never return, as its sockets have no time limit.

**`DcServer`**. Each section under `m_Manmutex` is one step. The interleavings
lie between sections: the check time that is read before the lock, and the call
made after the unlock. A request's body is abstracted to what the code branches
on. `MaxLag` bounds the delay between the monitor reading its check time and
taking the lock. A request's body that parses is taken to be the documented object
with a string `indexCode` (`DcServer.cpp:180`), so lines 214-218, what happens to any
other body, are not modelled. `Vector` holds the operator for
erasing entries of a vector. `DcPicks` adds a history variable, the nodes picked
since the table last changed, and restricts nothing.

**`Membership`**. What the node table promises the nodes and the clients. A node is a
member from its registration until it has been silent for longer than `Patience` or a
call to it has failed. Nobody silent for longer than `Grace` is a member. Work goes to
members only, and a client is told that there is no node only when there is none. The
order of the table, the monitor's thread and the round robin are hidden. `DcMembers`
maps the entries of `m_node_vec` to `members`, and of a request the node it calls,
whether that failed and its answer to `request`. `Patience` is `HB_TIMEOUT`; `Grace` is
`HB_TIMEOUT + SWEEP_WAIT + 2 MaxLag`.

**`NodeServer`**. The start, with what follows when a step of it fails: a process
without threads, or one whose main thread waits in `StopServer` for a service thread
that never ends. The heartbeat loop, where an RPC is a call step and a return
step, and the service thread, which may start to listen after the first
registration.

**`Thrift`**. The generated stubs as operators on messages: writing and reading the
structs field by field (an unknown id, or a known one with another type, is skipped),
the calls, the processors' dispatch and answers, and `recv_*`. The last skips a
message that is not the reply it wants and then reads on, which is a value of its
own (`ReadsOn`). Bytes and frames are left out; sequence numbers are always 0.

**`Cluster`**. It instantiates the server and the nodes, lets them exchange the
messages of `Thrift`, and adds the network, crashes and restarts.
A call can fail before or after its handler ran. A request whose caller is gone
may be handled later (`stray`). The server restarts with an empty table. Only
differences of times matter, so `Tick` keeps `now` fixed and moves stored times
into the past; this makes the state space finite without bounding the run.

**`MqConnection`**. `Conn`, `ReConn`, `DestroyConn`, `DoReconnWork`, `ReBuildConn`
and `onException`, run by three kinds of actor: the caller, the client library's
callback thread, and reconnect threads. ActiveMQ-CPP is external. It is taken to
report a failed transport once, and to make no callback that has not begun once
the connection is deleted. A connection that a concurrent `Conn` overwrote in
`m_pConnection` is no longer followed. `DestroyConn` deletes an object in one step and
clears the member that points to it in the next, and `Conn` creates a session in one
step and stores it in the next, because the caller's first `Conn`, `AddProducer` and
`AddConsumer` use the members without the lock.

**`MqMgr`**. The two maps, and the calls that add, delete, send and shut down. An
endpoint stands for a uri of the documented form, `mq/<host:port>/queue|topic/<name>`.
`MqUri` is `ParseMqUri` on a uri cut at its slashes, and the uri that `dp::init`
writes; such a uri and its endpoint name each other. `Texts` and `MaxParts` are the
texts and the number of parts of a destination that TLC tries; the proof is for any.
One thread makes the calls. With `AllocFails`, the memory for an endpoint may be missing
after its connection was made: the call fails and the connection stays in the map.
(In DcNode, up to 15 Thrift handler threads share one producer that was added
before they start; they only read the maps and send.)

`Sessions` and `Threads` are bounds: a session or thread is made only while one of
the set is free, and TLC's instance has enough of them.

*Faults of the message queue.* The code has unlocked accesses to objects that another
thread deletes. When a step would use a deleted object or a null pointer, `fault` records where,
and the behaviour ends there: the program has no defined meaning afterwards. All
properties of the message queue are about behaviours up to that point. TLC
reaches these faults:

| `fault` | what happens |
|---|---|
| `conn` | the reconnect thread deletes the connection the first `Conn` is using |
| `add` | `Create` uses a session that was deleted meanwhile |
| `send` | `SendMsg` does the same with a session or a producer |
| `join` | `DisConn` and `ReConn` join one handle |
| `freed` | the object is deleted while a callback or a thread uses it |

Nothing in the repository claims these cannot happen, so they are listed as
hazards, not as findings. `reconn`, the use of a deleted session by the reconnect
thread itself, is not reached.

*Faults of the front end* are recorded the same way. `bind`, `gencb` and `dispatch` use
a libevent object that is null; `begin` and `reply` use a task or request that
`StopServer`'s `evhttp_free` has freed; `fields` stores into the thread handle that
`StopServer` has freed. All are reachable, and `FaultNeedsEventFailure` says
what it takes: a failing call inside `StartService`.

*Undefined behaviour and the build.* The makefiles use `-O0`, so an unlocked read
of a flag or counter is one plain load and is modelled as one atomic read.

## 3. What the runs check

| run | specification, instance | distinct states | shows |
|---|---|---|---|
| `pool_safety` | 3 worker identities, `thr_max` 2, 2 dispatchers, 4 jobs; expiry, failed creation, overlapping destroy | 33,155 with symmetry | `TypeOK`, `AliveCount`, `IdleCount`, `SignalBalance`, `PopFindsJob`, `FifoOnce`, `LastSignal`, `DestroyQuiet`, `DeadlineExact`, `ImplementsTaskPool` |
| `pool_live` | fair; no expiry, 2 dispatchers, 3 jobs, failed creation, overlapping destroy | 250,958 | `DestroyReturns`, `AcceptedRuns` |
| `front` | fair; 3 requests, a pool of 2, 2 kinds of failures, 1 call that hangs | 176,440 | `TypeOK`, `FaultNeedsEventFailure`, `TasksRunOnce`, `TornDown`, `PoolContractKept`, `RequestsAnswered`, `StopReturns` |
| `server_table` | 3 nodes, 2 requests | 288,505 with symmetry | `TypeOK`, `NoDuplicateNode`, `EvenDispatch` |
| `server_monitor` | 2 nodes, 1 request, times 4:3:1, clock to 14 | 313,934 | `SilentNodeGone`, `SweepSparesHeard`, `ImplementsMembership` |
| `cluster_safety` | 2 nodes, 1 request, 1 fault | 454,713 with symmetry and view | `AnswersFit`, `TypeOK`, `ReplyMatchesWork` |
| `cluster_heal` | fair; 1 node, 1 request, 2 faults, times 2:3:4 | 124,956 | `AddressSurvives`, `LeavesForCause`, `MembershipConverges` |
| `mq_reconnect` | fair; a producer and a consumer, 4 sessions, 3 threads, failed creation and allocation | 205,686 | `TypeOK`, `OneReconnThread`, `NoCircle`, `DanglesOnlyInDestroy`, `NobodyLeftBehind`, `CacheFresh`, `UriNamesEndpoint`, `DisConnReturns` |

Each property is stated in words above its definition. Each has a mutant: a
plausible bug, defined beside the code it changes, that makes TLC report the
property violated.

What the less obvious ones say:

- `ImplementsTaskPool`: no step of a pool thread is one that a user of the pool would
  not expect from `TaskPool`. `HttpServer` is checked against `TaskPool` alone, so its
  safety results hold for the pool as it is written.
- `TasksRunOnce`: a task that the pool refused after it had queued it is still in line,
  and is run and answered like any other; `HttpCallback` must therefore not delete it.
- `RequestsAnswered`: if the pool serves its line (`PoolServes`: no task stays in line
  for ever while fewer tasks run than the pool has threads), every request that entered
  the pool, refused or not, is answered, unless no buffer could be had, its own call
  hangs, or the event loop failed. `PoolServes` is a premise and not a fairness
  condition, because the code does not guarantee it: `AcceptedRuns` gives it for workers
  that do not expire, and `pool_available` and `pool_signal` show tasks left in line
  until another dispatch. Fewer calls hang than the pool has threads, and this bound is tight: with
  `MaxHangs` equal to `Limit` TLC finds a request that waits for good. The code's
  pool has 300 threads (the comments at `HttpServer.cpp:38` and `NodeServer.cpp:48`
  say 100).
- `StopReturns`: `StopServer` waits for the pool's handlers and joins the thread it runs
  on. It comes back, because `pthread_join` refuses to join the calling thread and
  `swartz_thread_wait` goes on, unless a handler's call hangs or a handler has used a
  request that `evhttp_free` freed.
- `PoolContractKept`: the front end never asks the pool for what `TaskPool` has no step
  for (a task twice, a request to a pool that is closing, a second destruction, a
  return without a start). `HttpServer` conjoins steps of `TaskPool` with its own, so
  without this a guard of `TaskPool` could hide a call that the code would make.
- `ImplementsMembership`: a vector that is searched by address, swept with a check time
  read before the lock, and indexed by a cursor that erasures do not move is still a
  set of members which only the silent and the blamed leave.
- `LeavesForCause`: in the whole cluster a node leaves the table only by a crash of the
  server, by a request that failed at it, or by a sweep. The sweep drops no node that
  beats and whose last attempt got through, and before the first fault it drops nobody.
  A request can fail without a fault: a node registers before its service thread
  listens, and its connection may be refused.
- `DanglesOnlyInDestroy`: `m_pSession` points to a deleted session only between the
  `delete` and the assignment of `NULL` inside `DestroyConn`. In particular a session
  that an unlocked `Conn` stores late is never one that was deleted before the store.
- `CacheFresh`: between calls the cache holds exactly the listed producers, and what is
  listed has its connection in the map. A connection without endpoints is possible, after
  an allocation that failed.
- `EvenDispatch`: a round begins anew whenever the table changes. Across an erasure, which
  moves the entries and not the position, a node may be passed over.
- `NoCircle`: `ReConn` joins a thread with `m_lockReConn` held, and that thread takes the
  same lock. No threads wait for each other in a circle, because the thread has passed
  its last use of the lock when it is joined.
- `AnswersFit`: no stub ever gets a message that is not the answer to its call. The
  generated code would otherwise wait for a second message, without a time limit.
- `MembershipConverges`: once faults are over, nodes that beat are in the table for
  good, and nodes that do not, among them those that started only in part, are out.

Four runs check what a comment in the code says, and TLC finds it violated:

- **`pool_available`**, `ThreadAvailable`. `swartz_thrmgr.cpp:369` says that apart
  from the first creation at least one thread is available. In the trace a worker has
  handled a job, waits again, and its wait expires. It still counts as idle, so the next
  dispatch creates no thread and posts its signal. The worker can only leave, and the
  accepted job waits for a later dispatch.
- **`pool_signal`**, `SignalPerTask`. Line 384 says every task gives one signal.
  When the first thread cannot be created the job stays queued without one,
  although the caller is told it was refused.
- **`pool_lastexit`**, `FreedAfterLastThread`. Line 206 says destruction waits for
  the last thread to exit. In the trace `thrmgr_destroy` has written `POOL_EXIT` and is
  before its lock. The only worker sees that at its `while` test, brings `thr_alive` to 0
  and unlocks with its post still to come. `thrmgr_destroy` then finds no live worker, does
  not wait and frees the pool.
- **`mq_failure`**, `FailureNoticed`. `MqConnection.cpp:101` says reconnecting is
  automatic. The new connection can fail after `ReBuildConn` and before
  `m_bReConn` is cleared. `ReConn` drops that exception, and nothing reconnects.

### Bounds and why they are enough

- *Pool.* Two workers at the limit, and one identity more for a thread that no
  longer counts but still has to post. Two dispatchers overlap inside and outside
  the lock. Four jobs fill the queue beyond the workers.
- *Front end.* Two threads and three requests: one handler runs, one call hangs, one
  task waits. Two kinds of failures cover a failure and one in the recovery from it,
  such as a refused task before a failing event loop.
- *Server.* Three nodes let an erasure happen before, at and after the round
  robin's position. Two requests let one erase what the other picked. The
  monitor's run keeps the order of 60 s and 45 s (4 and 3 ticks of 15 s) with a
  lock that is one tick late. The clock goes to 14, past the age of 9
  that `SilentNodeGone` allows an entry.
- *Cluster.* Safety needs two nodes and one fault anywhere. Its run tells states apart
  by the view `Matters`, which leaves out `missed` (no guard reads it) and the ends of
  waits that are over; without the view there are 1,025,750 states and the result is the
  same. Healing needs the real
  proportions 30:45:60 s and two faults, so that a second one hits the recovery
  from the first; nodes do not interact there, so one is enough.
- *Message queue.* Four sessions: the current one, one that an endpoint or an
  unfinished `Create` still points to, and two that concurrent `Conn` calls make.
  Three threads: one that works, one that is joined, one that is started. No state of
  the instance lacks a free session or thread where one is made.

Deadlock is checked in all runs except the pool's, where a destroyed pool rightly
stops. A halted message queue (`fault`) stutters explicitly.

### Fairness

- *Pool.* Weak fairness for each worker and for calls in progress: threads run and
  handlers return. Nobody is obliged to dispatch or to destroy. `AcceptedRuns` is
  checked for a pool without expiry: with expiry a job can be left without a thread,
  as `pool_available` shows. `DestroyReturns` does not depend on that: with
  `IdleExpires` set to `TRUE` it holds as well (351,404 states), which
  `ThrMgr_live.cfg` with that one change and without `AcceptedRuns` reproduces.
- *Front end.* The main thread, the service thread and each handler that has begun run.
  That the pool takes a task from its line is not assumed (see `RequestsAnswered`).
  Nothing has to fail, and no request has to arrive.
- *Cluster.* Threads of live processes run, delivered calls are handled, and time
  passes. No crashed process need ever restart. Calls between nodes and server
  take less than a tick, and every call ends. The last is an assumption: the code
  sets no time limits on its sockets.
- *Message queue.* Threads run. Strong fairness for the caller stands for getting
  a lock that is free again and again, as the reconnect thread sleeps 45 s between
  attempts. Strong fairness for a successful connect and session says that the
  broker comes back. Without that, `DisConn` hangs: it waits for the reconnect
  thread, and nothing posts the semaphore that would end it.

## 4. What is proved

TLAPS checks every proof. The theorems hold for all values of the constants that
satisfy the named assumptions. Every safety invariant and action property that a
passing run checks has a theorem. TLC checked each inductive invariant on the run's
instance before it was proved.

**`ThrMgrProofs`** (assumption `PoolAssumption`: finite sets, `thr_max` positive,
more worker identities than `thr_max`). The inductive invariant `IInv` is the
conjunction of the eight checked invariants with

- `MutexOwner`: only the owner is in the locked part of a dispatch;
- `CallsDistinct`: callers inside a dispatch have distinct jobs in state `calling`;
- `ExitMarked`: the pool is exiting exactly once `thrmgr_destroy` has begun;
- `NoLateSpawn`: after the last worker's decision nobody can create a worker;
- `AddedKnown`: a job that was queued is not new.

`AliveCount` and `IdleCount` rest on one counting lemma (`SetMoves`: the size of a
set when one thread moves). `SignalBalance` needs `CallsDistinct`, because a failed
dispatch moves one job into the set that is counted. `DestroyQuiet` needs
`NoLateSpawn` and `LastSignal`. Theorems: `TypeCorrect`, `AliveCounted`,
`IdleCounted`, `SignalsBalance`, `PopSucceeds`, `QueueIsFifo`, `OneLastSignal`,
`QuietWhenFreed`.

**`DcServerProofs`** (assumption `ServerAssumption`; the clock's bound is an
arbitrary natural number). `KeepProperties` says what erasing entries from a vector
preserves. The invariant adds two facts: `Timely` relates the age of each entry to
the monitor's next wake-up or current check time, and `GoodTasks` says what a request
remembers at each point: the node it calls or blames while it does so, a reply only
when it has ended. Theorems: `TypeCorrect`, `NoDuplicates`, `SilentGone` (gone after
`HB_TIMEOUT + SWEEP_WAIT + 2 MaxLag`), `SweepSpares`, and `OnlyBlamed` (a node leaves
only by a sweep or by a request whose call to it failed).

`ServerRefines` is `Spec => ImplementsMembership`: the server implements `Membership`.
Each action is shown to be one abstract step or to leave the mapped variables alone.
`Hear` and `Blame` need `NoDuplicates`, since the code refreshes or erases the first
entry with an address and the abstract step speaks of the node. `Forget` needs that the
check time is not after `now`. `Tick` needs `SilentGone` in the state after it: the
abstract clock may go on only while nobody has overstayed `Grace`.

`DispatchIsEven` is about `DcPicks`. Its invariant `PickInv` says that the history is
what the cursor passed over, read backwards from `pickNum` and around the end of the
table (`Before`). While the history is empty, `pickNum` may be beyond the table, as it
is after an erasure; the first pick brings it back. In one round the positions differ
(`BeforeOnce`), and different positions hold different nodes (`NoDuplicates`), so a
round serves each node once.

**`ThrMgrRefines`**. `PoolRefines` is `Spec => TP!Spec`: the pool implements
`TaskPool`. It uses `IInv` and `CallsAdded` (the job of a call in progress has been
queued). Each action is shown to be one abstract step or to leave the mapped
variables alone. `Refuse` of a queued task needs that nothing runs when a dispatch
fails to create the first thread; `Start` needs that the running workers are among
the counted ones, of which there are at most `thr_max`.

The same module shows how far two of the comments hold that the violation runs refute:

- `SignalsMissExactlyFailures`: while the pool is valid, `SignalPerTask` holds in exactly
  the states in which no dispatch has failed to create the first worker. Hence
  `EveryTaskSignals`: it always holds if `SpawnFails` is `FALSE`.
- `WorkersStayAvailable`: `ThreadAvailable` always holds if `IdleExpires` is `FALSE`,
  also with failed creations and an overlapping destruction. The invariant `WorkersStay`
  says that no worker of a valid pool is on its way out, and that a signal posted, or
  about to be, means that a worker is alive: a dispatch reaches its post only with an
  idle worker, a full pool, or the worker it created.

So expiry and failed creation are the only causes of those two findings. For the third,
`QuietWhenFreed` says what is left: a worker that outlives the pool has only its post
of `pool_sem` before it.

`DestroyNeverStuck` is the safety half of `DestroyReturns`, for any number of threads
and calls. While `thrmgr_destroy` waits, the post of the last worker is there, or a
caller that holds the mutex is about to release it, or a worker can go on. The
invariant `Roused` compares two numbers: the workers in the wait or about to enter it,
and the signals left for them. Once the pool is exiting no worker goes back to the wait,
so each takes at most one signal.

`ThrMgrProofs` also has `DeadlineIsExact` (about `SemTime`): for every reading of the
clock and every wait in natural numbers, the deadline is exact and its nanoseconds are
in range. `DeadlinesAreExact` states it for the waits of the pool (assumption
`TimeAssumption`: microseconds below a million, waits in natural numbers).

**`HttpServerProofs`** (assumption `FrontAssumption`; any number of requests, also an
infinite one, of pool threads, failures and calls that hang). The invariant is

- `MainInv`: the order in which the main thread makes its objects;
- `PoolInv`: the pool pointer is set exactly while there is a pool, open unless the
  service thread is inside its destruction; without a pool there are no tasks;
- `EventInv`: libevent keeps requests only for a running loop, and frees them first;
- `TaskInv`: a task is in line at most once and before its handler begins, what the
  pool has started is not new, and `running` counts the handlers;
- `FaultInv`: as long as no call of `StartService` has failed, `StopServer` does not run
  and every object that is used is there.

`FaultNeedsEventFailure` is the first line of `FaultInv`; the rest of it is what makes
it inductive, since each access must be shown to find its object. `TornDown` needs
`PoolInv` and `EventInv`, because `StartService` goes on after `StopServer` and may
come to `StopServer` again. `TasksAlwaysRunOnce` has an invariant of its own on top,
`OnceInv`: what started has a handler that began, nothing starts twice, and a task that
was handed over and has not begun is in line as long as there is a pool. Theorems:
`AlwaysTyped`, `FaultsNeedEventFailures`, `TasksAlwaysRunOnce`,
`EndsTornDown`, `ContractIsKept`. The last and `PoolRefines` belong together: the pool
does what `TaskPool` says, and its user asks for nothing else.

**`DataProofs`** holds the lemmas on vectors that the server's proofs use, and the
theorems on the Thrift stubs. `InfoSurvives`: what is written is what is read, with any foreign
field before or after it. `ArgumentsArrive` and `ResultsArrive`: for all three methods
the handler gets the caller's arguments and the caller gets the handler's result.

**`ClusterNodeProofs`, `ClusterProofs`** (assumption `ClusterAssumption`: a node beats
at least as often as `HB_TIMEOUT` asks, `HB_WAIT <= HB_TIMEOUT`, and the window of
relative time is wider than any age the monitor tests; any number of nodes, requests
and faults). The first module has the invariant and the steps of nodes and handlers,
the second the other steps and the theorems. The invariant is

- `ServerSafe`: the server's type invariant and `NoDuplicateNode`;
- `NodesSafe`: every message of a node belongs to the call the node is in;
- `WorkSafe`: the same for requests, and how often each has run by then (`RunsFit`);
- `Punctual`: a node that beats and whose last attempt got through has an entry young
  enough to last until its next beat, and a node that does not beat but is in the
  table, or can get there by a late request, is known to have failed.

`NoFalseDrop` follows from `Punctual`: an entry the monitor drops is older than
`HB_TIMEOUT`, which is at least `HB_WAIT`. It is an action property, proved from
the invariant for the monitor's step. Theorems: `ClusterTypeCorrect`,
`ClusterOneEntry`, `ClusterRepliesMatch`, `ClusterAnswersFit`,
`ClusterAddressSurvives`, `ClusterNoFalseDrop`.

`ClusterLeavesForCause` takes the action property further, to every step. Handlers only
add to the table, `EraseStep` says what an erasure keeps, and the sweep is `NoFalseDrop`
with one more invariant, `Unharmed`: before the first fault the server runs, no attempt
has failed and no connection is broken. With `Punctual`, a node in the table then beats,
so the monitor finds nobody to drop.

`WindowIsExact` justifies the moving window of times: for a tick count that goes on for
ever, and any stored time, the comparisons of the code come out the same on the real
times as on what `Cluster` keeps of them, and `Tick` keeps the two in step.

**`MqMgrProofs`** (assumption `MqAssumption`; any number of endpoints, sessions and
threads). The invariant is

- `ThreadsSafe`: who holds the lock, from where each thread is, and that `m_bReConn` is
  set exactly while one reconnect thread works;
- `ObjectsSafe`: the types of sessions and endpoints;
- `SessionsSafe`: `DanglesOnlyInDestroy`, and that a session which `Conn` has created and
  not yet stored is there, belongs to one thread, and is not in `m_pSession`;
- `RegistrySafe`: where the call in progress has left the two maps and the lists;
- `EndpointsSafe`: once no reconnect thread has its rebuilding before it, every listed
  endpoint has a session, but for the one whose `Create` is still to come.

`NobodyLeftBehind` needs the last, because an endpoint that is added during a
reconnection is created by the rebuilding, by its own `Create`, or by both.
`NoCircle` follows from `ThreadsSafe`, which gives each holder of the lock a step to take
and each joined thread a place in its code.
Theorems: `MqTypeCorrect`, `MqOneReconnThread`, `MqNoCircle`,
`MqDanglesOnlyInDestroy`, `MqNobodyLeftBehind`, `MqCacheFresh`, `UriIsParsed`
(`ParseMqUri` inverts `Uri` for all names), and `EndpointsAreNamed`, which states
it for what the registry lists.

Only model-checked are the six liveness properties, `DestroyReturns`, `AcceptedRuns`,
`RequestsAnswered`, `StopReturns`, `MembershipConverges` and `DisConnReturns`: the prover
does not reason about fairness. What of them is safety is proved: `DestroyNeverStuck`,
`SignalsBalance` and `WorkersStayAvailable` for the pool, `TasksAlwaysRunOnce` and
`ContractIsKept` for the requests, `SilentGone` and `ClusterLeavesForCause` for the table,
`MqNoCircle` for the joins.

## 5. Not modelled, and why

- Third-party code: `depend/` (Thrift, ActiveMQ-CPP, libevent, OpenSSL, Protocol
  Buffers, RapidJSON), the log4cxx headers in `xlogger/include` and `tinyxml2`. It is
  about 95% of the lines under `src/`, mostly headers without an
  implementation; what the program uses of it is modelled as external. Of all lines
  under `src/` the models therefore cover about one percent. Of the program's own
  hand-written `.cpp` files they cover nearly all but logging and configuration.
- Calls of the registry from several threads: `MqMgr` has no lock, and its maps would
  be raced on at the level of the container. Several brokers share nothing but the map.
- Uris outside the documented form. Text before `mq/` lets two uris name one
  destination; the two then share a producer that one of them may delete.
- What a reply says about the message: `ClusterWork` ignores the result of
  `send_message`, so a reply of success does not mean that the message is on the queue.
  `Cluster` counts executions of the handler.
- A body that parses and is not the documented object (`DcServer.cpp:214-218`): RapidJSON
  asserts that the member is there and is a string, and the branch for a null pointer,
  which replies and does not return, is not reached with one.
- Creations that fail inside `thrmgr_new` (`swartz_thrmgr.cpp:241-243`): `ThrMgr` begins
  with a pool that has its mutex and semaphores.
- A `ClusterWork` request that the node handles only after its connection broke. It
  belongs to a request that has had its answer, and `WorkLost` after the handler ran
  covers work that is done and reported as failed. A late `registClient` or `heartbeat`,
  which changes the table, is modelled (`stray`).
- Calls between nodes and server that never end: `CallLost` ends a broken call with an
  exception, and `HttpServer` has the calls that hang.
- Whether deleting a connection waits for a callback in progress: that is decided
  inside ActiveMQ-CPP.
- `MqConsumer::onMessage`: it hands a message to the user's callback and changes no
  state of the library.
- The concurrent Thrift clients (`*ConcurrentClient`) and processor event handlers, which
  nothing uses.
- JSON text, configuration (tinyxml2) and logging (log4cxx): input and output without
  shared state of interest.
- Windows variants of the utilities; the makefiles build for Linux.

`PROJECT.json` lists the hazards with the properties that cover each one, or the
reason why none does.
