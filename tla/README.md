# Verification of epoll_threads

TLA+ models of `liaosanity/epoll_threads`, a small TCP server in C++: one thread
accepts connections and hands each to one of a pool of worker threads, and every
worker serves its connections from an edge-triggered epoll set of its own. A test
client, built from the same classes, talks to it. The modules are translated from the source; TLC checks them on small instances, and TLAPS
proves what matters most for every size. Paths are relative to `src/`.

## 1. The system

### Components

| Component | State | Operations | Modelled in |
|---|---|---|---|
| `ListenThread` (`ListenThread.cpp`) | `m_sockfd`, `m_taskthread` (the pool), locals `target`, `activeConns` | `Run`, `AssignTask`, `Bind`, constructor, destructor, `GetWorkerCapacity` | `EpollServer`, `Placement`, `Lifecycle`, `Startup` |
| `TaskThread` (`TaskThread.cpp`) | `m_ActiveConns`, an `iEpoll` | `Run`, `iRead`, `iWrite`, `iError`, `iClose`, `iTimeout` | `EpollServer`, `Conversation` |
| `iEpoll` (`iEpoll.cpp`) | `m_epollfd`, `m_events`, the `nRet` of the loop | `i_epoll_create`, `_wait`, `_add`, `_del`, `_change_mode` | `EpollServer`, `Conversation`, `Startup` |
| `iSocket` (`iSocket.cpp`) | one descriptor | `Bind`, `Listen`, `Connect`, `recvn`, `sendn` | `EpollServer` (whole messages), `Conversation` (calls and bytes), `Startup` and `Lifecycle` (`Bind`) |
| `iThread` (`iThread.cpp`) | `m_pid`, the SIGUSR1 mask | `Create`, `Suspend`, `Resume` | `Lifecycle` |
| `iAtomic` (`iAtomic.h`) | counters | `atomic_inc`, `atomic_dec`, others without callers | `EpollServer` |
| `main` (`main.cpp`) | `g_Server`, `g_ListenThread`, the pid file | start, `sigtermHandler` | `Lifecycle` |
| the log (`main.cpp`) | `g_LogFileMutex` | `myepollLog`, `myepollLogRaw` | `Log` |
| the configuration (`main.cpp`) | `g_Server` | `initServerConfig`, `loadServerConfig` | `Config` |
| the test client (`Test.cpp`) | its `Test` objects, each with a thread, a socket and an `iEpoll` | `main`, `Run`, `iRead`, `iWrite`, `iError`, `iClose`, `sigtermHandler` | `Conversation` |
| `daemonize` (`main.cpp`) | | | not modelled |

### How they interact

* `ListenThread::Run` loops over `iSocket::Listen` (select, then accept) and
  `AssignTask`. `AssignTask` calls into the `TaskThread` objects from the *listener's*
  thread: it reads their `m_ActiveConns` one after the other, picks the least, adds
  the descriptor to that worker's epoll set, and counts it last.
* A worker's `i_epoll_wait` takes a batch of events and calls back `iRead`, `iWrite`,
  `iError` and `iClose`; a handler switches the descriptor between `EPOLLIN` and
  `EPOLLOUT` with `EPOLL_CTL_MOD`. `iClose` deletes, closes and counts down.
* So the listener and the workers share the counters, the epoll sets and the process's
  descriptor table, and no lock. The only lock is the log's.
* `main` builds the listener and its pool (whose threads run at once), binds, wakes the
  listener by SIGUSR1 and waits in `poll`. `sigtermHandler` runs on whichever thread the
  kernel picks; it logs, deletes the objects that the threads are using, removes the
  pid file, sleeps and ends the process.
* The test client's `main` connects each `Test` and then adds its socket, for reading, to the
  set of the `Test`'s thread, which has been waiting since the constructor. The server adds a connection for
  writing, so it speaks first; from then on each side reads one message, turns to writing,
  answers, and turns back.

### What is hard, and what makes each part correct

| Part | Hard because | Correct if |
|---|---|---|
| admission | the counters are summed while they change, and counted up after the worker can have closed the connection | never more than `maxclients` served; a client refused only when all places were taken at its accept; whoever waits is greeted or turned away; counters exact up to the one step under way; balanced shares |
| descriptors | a closed number is given out again at once, to another worker | an event's descriptor still means the event's connection while the worker may use it; none is lost |
| edge triggering | one read or write per event, the mode switches, `EPOLLRDHUP` disappears, batches are snapshots, a send may fail though room was announced | no edge lost; of the clients that are there only one whose reply failed is closed; every client that leaves is closed |
| `nRet` | outlives the iteration it was set in | a failure is never about another connection |
| conversation | two loops that switch modes after every message, with partial sends, resets and an `errno` that is looked at when no call has set it | the two sides talk in turns and never both wait; no reply begins in the middle of another; what arrives is read; a reset is noticed; the one exception is a `recvn` that an old `errno` keeps at end of file |
| pool and socket | the pool is sized by integer division of the descriptor limit, and nobody looks at a failed `epoll_create` | the workers have their sets and room for connections; the server listens where it was told |
| start | threads run before the socket exists; SIGUSR1 may come early | the listener waits for Bind; the wake-up is not lost |
| stop | handlers nest, run side by side and delete objects in use | no half-built object taken apart; no pid file left behind; the process ends |
| log | a filter that returns with the lock held; handlers that log | lines whole; calls return |
| configuration | limits are stored before they are tested; the loader logs at the level it sets | what is accepted is in range and decided by the last line of each option |

`PROJECT.json` lists every hazard at its line with the properties that watch it.

## 2. The modules

| Module | What it is |
|---|---|
| `EpollServer` | the running server: listener, workers, kernel and clients |
| `Placement` | `EpollServer` with history variables: when a client is refused, to whom it is given |
| `Admission` | abstract: what the server promises about admission |
| `Log` | `myepollLog` and its lock |
| `Lifecycle` | start, signals and stop; extends `Log` |
| `Config` | the configuration loader; extends `Log` |
| `Startup` | the pool and the listening socket made of the configuration; extends `Config` |
| `Conversation` | one connection, both ends, byte by byte |
| `Dialogue` | abstract: server and test client talk in turns |
| `EpollServerProofs` | theorems: types, counters, descriptors and the limit of `EpollServer` |
| `EdgeProofs` | theorems: its edge-triggered loop; extends `EpollServerProofs` |
| `AdmissionProofs` | theorems: `EpollServer` implements `Admission`; the properties of `Placement` |
| `LogProofs`, `LifecycleProofs`, `ConfigProofs`, `StartupProofs`, `ConversationProofs` | theorems about the module of that name |
| `MC*` | instances for TLC |

### EpollServer

One step is one system call or one access to a shared counter, with the thread-local
work around it; that is the grain at which the threads can see each other.

| State | In the code |
|---|---|
| `lpc`, `lfd`, `li`, `lval`, `target`, `activeConns` | the listener in `Run`/`AssignTask`, its `sockfd`, loop index, the counter read as left operand, and locals |
| `counter[w]` | `m_ActiveConns.counter` |
| `wpc[w]`, `batch[w]`, `cur[w]`, `nRet[w]`, `errno[w]` | the worker in `i_epoll_wait`: the part of `m_events` not handled, the event in hand, `nRet`, and the thread's `errno` as far as it is `EINTR` or not |
| `fdtab`, `sock`, `peer`, `rcv`, `out` | the kernel's descriptor table and TCP endpoints, and the clients (external) |
| `home`, `inset`, `mode`, `rdhup`, `ready` | the kernel's epoll sets (external) |

Actions carry the names of the functions. `AssignTask` is `SumConns`, `ReadLoad`,
`CompareLoad` (three reads of counters per worker), then `Refuse`, `i_epoll_add` or
`AddFails`, then `IncrementActiveConns`. A worker takes a batch (`i_epoll_wait`), then
for each event `iRead` or `iWrite` up to its mode change, `i_epoll_change_mode`, or
`iError` alone; `Finish` is the rest of the loop body, `iClose` its three calls. Events of a
batch are handled in any order. `Interrupted` is an `epoll_wait` that fails with `EINTR` because the
process was stopped and continued.

`sendn` succeeds, or fails after the kernel has taken nothing or a part of the reply, which occupies a unit, too:
without room, after a reset, and, since the kernel may lack the memory, even right after `EPOLLOUT` has announced
room (`iSocket.cpp:199-210`). `iWrite` answers a failure with `iClose`. `recvn` looks at `errno` also after a `recv`
that returned 0 (`iSocket.cpp:227-232`): with the `EINTR` of an earlier `epoll_wait` the worker stays in `"spin"`,
which has no step out. A client that resets after its FIN is `"finrst"`, since `recv` then goes on to return 0.

With a pool of one, `target = 1` lies outside the pool. The code then
compares with and calls through a wild pointer: `CompareWild` may crash or yield either
outcome, and the add may fail or crash.

The kernel is modelled from how the code uses it: level information is what `poll` would
say (`Pollable`); a set reports a descriptor when it is on the ready list, where an edge,
`EPOLL_CTL_ADD` or `EPOLL_CTL_MOD` puts it; `close` with `SO_LINGER {1, 0}` resets the
connection and takes it out of every set. `EPOLLHUP`, `EPOLLERR` and `EPOLLRDHUP` are one flag
because the code treats them alike. Bytes are counted in units, one request or reply each.

### Placement and Admission

`Placement` adds `taken`, the places taken at the last accept, and `left`, whether a
client has ever left, and changes nothing else. `Admission` has one variable, the
state of each connection: away, waiting or served. `EpollServer` is shown to implement it under the mapping
`connState`: a connection is served while it has a home. The point of the
refinement is that all the separate, unsynchronised reads amount to one atomic test of the
number served at the moment of `EPOLL_CTL_ADD`.

### Log

A caller is a thread or a handler on top of one. `Lock`, `Filtered` (which goes out with
the lock held), `OpenLog` (which may fail), `WriteLine`, `Unlock`. The mutex is a
default one: whoever finds it taken waits, its own thread included.

### Lifecycle

`main`'s statements (`mpc`), the threads' `Run` (`run`), the objects that exist (`live`),
`SIGUSR1`, `g_Server.shutdown`, `g_ListenThread` (`published`), the pid file, the signals sent and pending, the
handler on top of each thread (`top`) and each handler's place (`hpc`). `Deliver` puts a
handler on any thread at any point, also inside another signal's handler. A statement that uses a deleted
object (`Touch`) crashes or goes on. What the
threads do with connections is one step, `Use`, which touches the objects of `Used`: a worker its own, the listener
all of them. In a pool of one the listener also goes through `m_taskthread[1]` (`Strays`, `ListenThread.cpp:129-155`): `exit` tells
the end by that `"wild"` pointer from a `"crash"` on an object that is not there.

### Config

A file is made up as it is read: `ReadLine` takes any line of `Lines`, with one operator for each
branch of the chain. `server` is `g_Server` by the options' names; `verbosity` is that of
`Log`, so that a loader whose own notice is filtered blocks in its next call, as in the
code. `Value` and `LastSays` say what an option is set to and what its last line says. Cutting a line into words, `atoi` and the 1024-byte line limit are data: a line is its option, word
and number.

### Startup

Continues a configuration that `Config` has loaded, in `main`'s order: `InitTaskThread` constructs
the pool, `Bind` opens the socket, unless the address is no address (`RejectedAddress`) or a call fails (`BindFails`).

| State | In the code |
|---|---|
| `stage` | where `main` is, and why the server does not listen: `"rejected"` or `"failed"` |
| `limit` | `rlim_cur` of `RLIMIT_NOFILE` |
| `sets` | how many workers have an `m_epfd` other than -1 |
| `refused` | history: `epoll_create` calls the kernel had no memory for (at most `MaxRefused`) |
| `listening` | the address of the socket, or `NoWord` |

`GetWorkerCapacity` is the arithmetic of the code with C's division (`Quotient`), which truncates
towards zero, so that a negative number of free descriptors gives a negative capacity. Limits are 4
or more, since reading the configuration file takes a fourth descriptor. What is logged on the way is left out.

### Conversation and Dialogue

`EpollServer` has many connections and counts whole messages; `Conversation` has one and
counts bytes. A step is one system call; the functions have the same form at both ends because
`Test.cpp` repeats `TaskThread.cpp`, so most actions take the end `e` as a parameter.

| State | In the code |
|---|---|
| `pc[e]`, `n[e]`, `errno[e]` | the thread of the end: the call it makes next, `recvn`'s or `sendn`'s `n`, and `errno` |
| `ev[e]` | `m_events[i].events` |
| `inset`, `mode`, `rdhup`, `ready` | the kernel's epoll set (external) |
| `life`, `heard`, `wire` | the two sockets: what each knows of the other, and the bytes it has not read (external) |
| `who` | the client: the test client, or a `"stranger"` who sends, reads, shuts down and leaves as he likes |
| `split` | history: some `send` took a part of what it was given |

`recvn` is `RecvSome` and `RecvNone`, `sendn` is `SendSome` and `SendNone`; a call that is repeated for
`EINTR` is no step, so a thread that repeats it for ever is stuck in `"recv"`. `Interrupted` is
`epoll_wait` failing with `EINTR` when the process is stopped and continued; it leaves its value in `errno`.
Data reaches the other end with the `send`; a reset arrives later (`RstArrives`) and may
take unread data with it. An end that has been told of a FIN keeps to its end of file: Linux sets `SOCK_DONE`, and
`recv` returns 0 without looking for a reset, so that a reset after a FIN leaves the other end `"dead"` and `errno` alone. `Quit` stands for the client's `sigtermHandler`. Accept and
`EPOLL_CTL_ADD` are one step here, and a failing add is left to `EpollServer`.

`Dialogue` is the promise, with one variable, `turn`: the server holds the word, its message is on
the way, the client holds the word, its message is on the way, and again. It includes
liveness: whoever holds the word uses it. The mapping `turn` of `Conversation` calls the talk
`"over"` when an end closes, or when a message was split: each fragment is then answered
like a message, and both sides may talk at once.

## 3. What is checked

Every property has a mutant in `PROJECT.json`: a plausible bug in the code that makes
TLC find it violated.

| Run | Instance | Properties | What it shows |
|---|---|---|---|
| `safety` | 2 connections, 2 workers, 2 descriptors, batches of one, `RcvMax` 2, add may fail (5.4 million states) | `TypeOK` `CounterExact` `FdStable` `NoLostEdge` `WaitsOnlyForRoom` `ErrorNeverAlone` `Balanced` `NoSpuriousClose` | counters, descriptors, edges, shares in every interleaving; only a failed `sendn` closes a client that is there |
| `admit` | 3 clients, 1 place, 2 descriptors | `AdmissionLimit` `FdAccounted` `RefusedOnlyWhenFull` `MaxClientsHonoured` `AdmissionSpec` | the limit is kept and nobody is refused without need |
| `solo` | one worker | `AdmissionLimit` | a pool of one, whatever the wild reads yield |
| `live` | 2 clients, 1 descriptor, 1 place, the process may be stopped, fair | `GoneIsClosed` `Greeted` `KeepsReading` | whoever leaves is closed, who waits for a descriptor is greeted or turned away, and a client that talks is read, up to the exceptions the properties name |
| `talk` | messages of 3 bytes, `sBuf` of 5, 7 in flight, fair | `TypeOK` `NeverFills` `WholeReplies` `DialogueSpec` `RecvReturns` `ReadsOn` `Notices` | the conversation, with the test client and with a stranger |
| `signals` | 1 worker, SIGTERM and SIGINT, levels debug and notice, Bind and pthread_create may fail (4.0 million states) | `TypeOK` `PidFileRemoved` `NoHalfBuilt` `BoundFirst` `WriterAlone` `LockGivenBack` `CrashOnlyInShutdown` | handlers at every point of start and run, nested and side by side; before shutdown nothing is used that is not there |
| `start` | 1 worker, SIGTERM and SIGINT: the first at any moment, at both levels; the second once `main` is in `poll`, at debug; fair (330 thousand states) | `Starts` `StopsFromMain` | the wake-up is not lost; a handler on main's thread ends the process, whatever a handler on another one does, unless the log's lock is lost |
| `config` | files of up to 4 of 26 lines, 7 limits, 2 addresses (5.2 million states) | `TypeOK` `LoadedInRange` `LastLineWins` `BlocksOnlyWhenSilenced` `PoolSound` `LeavesRoom` | the loader, and the pool that follows from what it has loaded |

Four runs show a disagreement between the code and what its documentation says:

| Run | Property | What happens |
|---|---|---|
| `leak` | `MaxClientsHonoured` | `AssignTask` returns without `close` when `i_epoll_add` fails (`ListenThread.cpp:153-161`): the client stays connected and uncounted, against `myepoll.conf:40` |
| `one_thread` | `TargetInPool` | with `maxthreads 1`, which `main.cpp:309` accepts, `target = 1` is outside the pool (`ListenThread.cpp:129`) |
| `quiet_stuck` | `CallsReturn` | a message below the level leaves the mutex locked (`main.cpp:88-91`), at the level `myepoll.conf:28` recommends |
| `stop` | `Stops` | the handler deletes objects in use, or waits for a lock its own thread holds (`main.cpp:379-387`), against `main.cpp:485` |

What the properties leave out is said in them, so that a run that passes does not claim more than it shows:

* `NoSpuriousClose` does not speak of the step in which `sendn` fails on a client that is there: that is what the code does.
* `Stuck`, in `GoneIsClosed`, `KeepsReading` and `Greeted`, is a worker in the `recvn` that never returns; `Unread` is a client
  that leaves its replies unread for ever. `Greeted` says besides that others who keep every descriptor can deny a client an answer.
* `CrashOnlyInShutdown` leaves two ends: the crash of `Resume` when the listener thread could not be created, and the wild pointer of a pool of one.
* `LockGivenBack` speaks of callers that have returned from `myepollLog` and of one that waits for itself. An owner keeps the lock
  for as long as a handler is on top of it, at every level; a handler that then waits for the lock waits for
  ever. `LockLost` in `StopsFromMain` names that case, and run `stop` contains it.
* `LoadedInRange` is about ranges only: `maxthreads 1` is in range, and `one_thread` shows what becomes of it.
* `LastLineWins` covers every option, `loglevel` included, but `logfile`: `stdout` does not bring back standard output (section 5).

### Bounds and why they are enough

* **Two workers** are the fewest for which the sum of the counters is a
  read of several cells, and one worker's descriptor can become the other's. **Two connections over
  two descriptors** let a number be reused by another worker while the first is still closing;
  three over two (`admit`, `solo`) fill the limit, the table and the backlog at once. Connections can be reopened
  any number of times, so that runs are unbounded in length.
* **Batches of one** keep `nRet` from one batch to the next; batches of two
  (`admit`, `solo`) leave a second event in hand while the first closes.
* **`RcvMax` 2 with `BufSz` 1** leaves data behind after a read. With **`SndMax` 1** one reply left unread fills the
  buffer, and the connection waits for `EPOLLOUT`. `EAGAIN` does not depend on it: a `sendn` may fail at any time.
* **One descriptor for two clients** (`live`) makes `accept` fail while the other stays; the second one can still be refused,
  in the moment between the close of the first and its count-down. `Stops` is TRUE in `live`, where `EINTR` matters.
* `MaxLines` 4 holds a level line, an unknown option, a repeated option and one more.
* `Talk`'s **7 bytes in flight, reads of 5, messages of 3** are the least where a buffer holds
  two messages but not three, a read can leave a part of one behind, a message can fill what
  is left of a buffer or be cut, and one read can take parts of two.
* `Limits` lie on both sides of `4 + 3 * maxthreads`, where the capacity becomes zero, for 2 workers (9 and 10) and
  for the default 10 (33 and 34); 4 is the least, 24 is negative for 10 workers, 1024 is the usual one.
* Each signal is raised once. One worker is enough in `signals` and `start`: the workers differ from
  each other only in the order of their deletion, and handlers race on that one already. With a fair second signal at any
  moment and level `start` would outgrow TLC's liveness check, so `SecondLate` lets it come when `main` has reached `poll`, where it
  stays. It is raised after the first one's delivery; a signal does nothing while it is pending.
* Symmetry is used where only safety is checked: actions compare connections and
  descriptors for equality only.
* `CHECK_DEADLOCK FALSE` appears where the system may really stop: the process crashed
  or ended, the loader is done, or a file or log call is blocked.

### Fairness

* `WF` of each thread: the scheduler runs what can run; no thread is ever disabled by another one in
  `EpollServer`, which has no lock. A worker that spins in `recvn` runs without taking a step.
* `SF` of accepting each connection: the backlog is a queue, so a client is not overtaken
  for ever.
* Nothing is assumed of clients, neither of those that stay nor of those that have shut down their side: they may
  stop reading, or never send, or never reset. Where a property depends on one that reads, it says so.
* In `Conversation`, `WF` of the two threads, of the listener, of the test client's connecting and adding,
  and of a reset getting through. Nobody has to quit, to be stopped or to be interrupted, and a
  stranger does not have to do anything.
* In `Log`, `WF` of each call and `SF` of taking the mutex; in `Lifecycle`, `SF` of `LogStep`, the two in one: a free mutex
  goes to each waiting caller in the end, and a caller is only kept from its next line by the handler on top of
  it. Pending signals are delivered to some thread, not to a chosen one.

## 4. What is proved

| Theorem | Statement |
|---|---|
| `EpollServerProofs!TypeCorrect` | `Spec => []TypeOK` |
| `EpollServerProofs!Inductive` | `Spec => []IInv` |
| `EpollServerProofs!AdmissionLimited` | `Spec => []AdmissionLimit` |
| `EpollServerProofs!CountersExact` | `Spec => []CounterExact` |
| `EpollServerProofs!FdsStable` | `Spec => []FdStable` |
| `EpollServerProofs!FdsAccounted` | no descriptor is lost, if `MaxThreads > 1` and adds do not fail |
| `EpollServerProofs!MaxClientsKept` | `Spec => []MaxClientsHonoured`, if `MaxThreads > 1` and adds do not fail |
| `EdgeProofs!EdgeInductive` | `Spec => []EInv` |
| `EdgeProofs!NoEdgeLost` | `Spec => []NoLostEdge` |
| `EdgeProofs!OnlyRoomIsAwaited` | `Spec => []WaitsOnlyForRoom` |
| `EdgeProofs!ErrorsNeverAlone` | `Spec => []ErrorNeverAlone` |
| `EdgeProofs!ClosesNoneSpuriously` | `Spec => NoSpuriousClose` |
| `AdmissionProofs!Implements` | `EpollServer` implements `Admission` |
| `AdmissionProofs!RefusesOnlyWhenFull` | `HSpec => []RefusedOnlyWhenFull` |
| `AdmissionProofs!KeepsBalance` | `HSpec => []Balanced` |
| `LogProofs!LinesWhole` | `LogSpec => []WriterAlone` |
| `LogProofs!OnlyFilteredKeeps` | `LogSpec => []LockGivenBack` |
| `LifecycleProofs!LifeTypes` | `Spec => []TypeOK` |
| `LifecycleProofs!PidFileGone` | `Spec => []PidFileRemoved` |
| `LifecycleProofs!NeverHalfBuilt` | `Spec => []NoHalfBuilt` |
| `LifecycleProofs!BoundAlwaysFirst` | `Spec => []BoundFirst` |
| `LifecycleProofs!CrashesOnlyInShutdown` | `Spec => []CrashOnlyInShutdown` |
| `LifecycleProofs!LogImplemented` | `Lifecycle` implements `Log` |
| `LifecycleProofs!LinesWholeAlways` | `Spec => []WriterAlone` |
| `LifecycleProofs!OnlyFilteredKeepsAlways` | `Spec => []LockGivenBack` |
| `ConfigProofs!TypeCorrect` | `Spec => []TypeOK` |
| `ConfigProofs!LoadsInRange` | `Spec => []LoadedInRange` |
| `ConfigProofs!LastLineDecides` | `Spec => []LastLineWins` |
| `ConfigProofs!BlocksWhenSilenced` | `Spec => []BlocksOnlyWhenSilenced` |
| `StartupProofs!PoolIsSound` | `StartSpec => []PoolSound` |
| `StartupProofs!RoomLeft` | `StartSpec => []LeavesRoom` |
| `ConversationProofs!TypeCorrect` | `Spec => []TypeOK` |
| `ConversationProofs!TalkInductive` | `Spec => []TInv` |
| `ConversationProofs!RepliesWhole` | `Spec => WholeReplies` |
| `ConversationProofs!BuffersSpare` | `Spec => []NeverFills` |
| `ConversationProofs!TalksInTurns` | `Conversation` implements `Dialogue`, its fairness apart |

They hold for all constants that satisfy the named assumptions: any number of workers,
connections, descriptors and clients, any batch and buffer size, any file and descriptor limit, any set
of signals, any message length. `Conns` is assumed finite, for cardinalities.

**The argument for the server.** None of the safety properties is inductive. The invariant `IInv` is the conjunction of

* `TypeOK`;
* `FdsLinked`: no two descriptors denote the same connection, and each denotes an open one;
* `OpenServed`: only open connections have a home;
* `ListenerHolds`: while `AssignTask` is deciding, the listener's descriptor denotes a connection
  without a home, and once it has added it, `target` is a worker;
* `FdStable`, `EventsDistinct`: the events in a worker's hands are about its own
  connections, and no two are about the same descriptor;
* `CounterExact`: the counter is the number of the worker's connections, plus one
  between close and count-down, minus one between add and count-up;
* `ScanBound`: while the listener sums, `activeConns - 1` is at least the number of
  connections on the workers already counted. Only the listener adds connections and it is
  busy summing, so the share of a worker it has counted can only shrink;
* `AdmissionLimit`.

`ScanBound` is what makes the limit hold although the sum may never have been
true: at `decide`, `activeConns - 1` bounds the number served from above. `Implements` uses the same bound for the
one step that matters, `i_epoll_add` to `Serve`; every other step is a client's
arrival, a refusal, a close or a stutter.

Run `leak` shows `MaxClientsHonoured` violated; `MaxClientsKept` says when it is not, as in `admit`. Every
open connection has a descriptor (`OpenHasFd`), every descriptor is accounted for
(`FdAccounted`), so the open connections are the served ones, and those are limited. The two
hypotheses are the two ways of the code to return without `close`: a failing `epoll_ctl`, and the add through a
wild pointer.

**The argument for the edges.** `EInv`, on top of `IInv`, relates what a worker has been told to
what is so:

* `InsetServed`, `HandsEmpty`: a connection in a set has a worker, and a worker that waits
  has nothing in hand, so that a new batch overwrites no old one;
* `StillThere`: the data, the room or the end of the client that an event was reported for is still there
  when the handler comes to it. Only the handler of that event takes bytes and fills the buffer: an event in
  hand is the worker's own (`FdStable`) and the only one about its connection (`OnePerConn`);
* `ForTheGone`: errors in hand are about clients that have gone;
* `NoLostEdge`.

So a `recvn` finds nothing only where the client has gone, and an error means the same. A `sendn` may fail
although the room is still there, and then closes a client that is there: that is the one way to `iClose` which `NoSpuriousClose` sets
apart, and `ClosesNoneSpuriously` says that there is no other. `NoLostEdge` is kept because an event
leaves a worker's hands only by `EPOLL_CTL_MOD`, which polls anew, or by `iClose`; a `recvn` that spins keeps its event.

`WaitsOnlyForRoom` follows from `NoLostEdge` once a connection that has a worker but is in no set is known to be
the one being closed (`OutsideClosing`): in a set, what came in raises an event in read mode, and in
write mode there is one unless the buffer is full. It is the safety half of `GoneIsClosed` and `KeepsReading`.

`ErrorNeverAlone` needs one fact more. `EPOLLRDHUP` is waited for only until the first mode change, and until then
nothing has been written (`Unsent`), so that a half-close comes with `EPOLLOUT`; a reset makes the socket
readable and writable. The branch that calls `iError` alone (`iEpoll.cpp:77-81`) is therefore never taken, and
the `nRet` that an earlier event has left is never used.

**The argument for placement.** The history variables do not affect the server (`HistoryOnly`), so `IInv` is
available. `ScanCeiling` mirrors `ScanBound` from above: what `activeConns` has added up, with the places still
taken on the workers to come, is at most one more than `taken`. A close moves a place from
the connections to the workers that have still to count down, a count-down frees it, and nothing else
happens to a worker the listener has not reached. For `Balanced`, while nobody has left, no worker
counts down, so the counters are exact and stand still during the scan: the two reads of a counter agree
(`CompareLeast`), `target` is a least loaded worker (`TargetLeast`), and one more for the least loaded keeps the
shares within one (`AddEven`).

**Log.** `LInv`: a caller between lock and unlock is the owner. The forgotten unlock leaves
an owner that is `out`, which blocks others but lets nobody in. `LockGivenBack` is inductive with it: an
owner that is `out` has sent a message that was filtered, so at `debug` there is none. It says nothing of an
owner inside `myepollLog`, which may stay there under a handler. `Lifecycle`
implements `Log`, handlers and all, and inherits both.

**Lifecycle.** `Constructed`: until `main` has published the listener, no handler has found one to
delete, so nothing half-built is taken apart. `PidFirst`: while the pid file is not written
only `main`'s thread exists, so a handler sits on top of `main`, which does not go on to write the file
after it has been removed. `Told`: where the listener is awake without a socket, `shutdown` was set before,
so its loop ends before the first `Listen`. `Standing`: until `shutdown` is set,
the objects exist that `main` is past or a thread has begun with, and no thread has ended. The listener gets to
`Use` only with a socket (`BoundFirst`), so a pool of one can crash in `AssignTask` only once there is one; what
run `stop` shows to crash can crash only after `shutdown`.

**Config.** `CInv`: the four limits are present, and until a line fails they are integers that
passed their tests. A stored value outside its range can only stay when `phase` is `"failed"`. `Told`
(of `ConfigProofs`) ties each option but `logfile` to the last line read that names it, `loglevel` by way of `verbosity`. `BInv` says how the mutex can be left locked: a level
above notice needs a `loglevel warning` line, and the notice under way is about an unknown option.

**Startup.** `SInv` adds to `CInv` where `main` is in building the pool. The rest is arithmetic:
`DivMod` and `QuotientBounds` say what C's division yields on either side of zero, and `Capacity`
that `GetWorkerCapacity` is positive exactly from `4 + 3 * maxthreads` on.

**Conversation.** `TInv`: the two threads hold one word between them. `Ordered` and `Phases` tie each
program point to the states of the sockets, `Bytes` counts what is on the wire and
in a read, and `OneWord` and `SomeWord` say that, until the talk is over, either one side has the word
or one message is on its way, never both and never two. Every step passes the word on
(`Speaks`, `Hears`), shortens what is going on, or ends the talk; `TalksInTurns` maps it to a step of `Dialogue`, and
`NeverFills` follows because one message on the way cannot fill a buffer larger than it.

### Only model-checked

Liveness (`GoneIsClosed`, `Greeted`, `KeepsReading`, `Starts`, `StopsFromMain`, `RecvReturns`, `ReadsOn`,
`Notices`, the fairness of `DialogueSpec`) is beyond the proof system. Every safety property of a passing run
is proved. `FdAccounted` and `MaxClientsHonoured` are proved under assumptions, those with which `admit` checks them.

## 5. What is not modelled

* `daemonize`: fork, setsid and redirection before there is any state; it closes the descriptors it opens.
* A `Connect` that fails: the test client's `main` sends itself SIGTERM and goes on for its last
  second with a `Test` that the handler may have deleted. Its option parsing, where a thread number that
  is no number makes it divide by zero (`Test.cpp:254`), comes before there is any state.
* The operations of `iAtomic.h` without a caller, among them all of `snd_atomic_*`.
* Time: nothing in the modelled code depends on it, the busy wait of `Listen` apart (`select` uses up `tv`).
* In `EpollServer` and `Conversation` every worker has a thread and a set and the server is not shutting down;
  `Lifecycle` covers failed creation and shutdown without connections, `Startup` workers without a set.

Observed on the way, besides the findings of section 3, some of them disagreements with `myepoll.conf`:

* `recvn` looks at `errno` after a `recv` that returned 0 and did not set it (`iSocket.cpp:229`). If an earlier
  call of the thread left `EINTR`, the thread spins at end of file for ever, a later reset included, and serves
  nobody. `RecvReturns`, `Notices` and the properties of `live` hold with this exception only.
* A reply of which `send` takes nothing or a part, with the rest refused, ends the connection of a client that is there
  (`NoSpuriousClose`), and that is what keeps the stream whole (`WholeReplies`).
* A stranger who sends `MIN_BUFSZ` bytes at once fills `sBuf`, which then has no terminator when it is
  logged (`TaskThread.cpp:45`). `NeverFills` is about the test client.
* A descriptor limit below `4 + 3 * maxthreads` gives a pool without any epoll set, and the server
  runs on (`PoolSound` says exactly when).
* `timeout` is stored and never read (`main.cpp:230`), so idle clients are not closed as
  `myepoll.conf:21` says, and `iTimeout` has no caller. With port 0 the server listens, on a
  port of the kernel's choice, against `myepoll.conf:12`. The default port is 8090 in the code and 6379 in
  `myepoll.conf:11`.
* Without `bind` the address is the empty string, which `inet_aton` rejects (`iSocket.cpp:53`, `RejectedAddress` in
  `Startup`): the server does not listen at all, while `myepoll.conf:15-16` says that it listens on all interfaces.
* `logfile stdout` stores nothing (`main.cpp:269-292`), so that the file of an earlier `logfile` line stays the log, while
  `myepoll.conf:32-33` says that it can be used to force standard output.

## 6. Plan

Done: every module of section 2, with the theorems of section 4. What is left to prove:

1. The safety half of `StopsFromMain`: while a handler on `main`'s thread waits for the lock, its owner is
   a caller that can run.

## 7. Running

In this directory, with TLC and TLAPS installed:

    tlc -workers 2 -config Safety.cfg MCPlacement
    tlapm EpollServerProofs.tla

The module of each configuration is in `PROJECT.json` ("runs").
