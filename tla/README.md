# A formal model of the baby-dbcp connection pool

TLA+ modules, TLC runs and TLAPS proofs for the MySQL connection pool of this
repository: `src/src/CommonConnectionPool.cc`, `src/src/Connection.cc`, and the
HTTP server of `src/server/` that uses it. Everything is read off the C++ code;
the comments and the project's README only supply the claims it is compared
with.

## The system

| Part | State | Operations | Hard behaviour |
|---|---|---|---|
| Connection pool (`src/src/CommonConnectionPool.cc`, `src/include/CommonConnectionPool.h`) | queue `_availableConnections`, counters `_activeConnections`, `_totalRequests`, `_timeoutCount`, flag `_shutdown`, mutex `_mu`, condition variables `_notEmpty`, `_notFull`, two threads | constructor (`loadConfig`, `initialize`), `getConnection`, the deleter of the `shared_ptr` it returns, `producerThread`, `sweeperThread`, `getStats`, destructor (`shutdown`) | threads of request handlers against producer, sweeper and destructor; work done with the mutex released (producer) and work done under it (a reconnect); deadlines racing wakeups; leases that end during or after the shutdown |
| Database connection (`src/src/Connection.cc`, `src/include/Connection.h`) | `_conn`, `_driver`, `_aliveTime` | `connect`, `disconnect`, `isConnected`, `update`, `query`, `refreshAliveTime`, `getAliveTime` | the driver may throw at every call; the server may close the session at any time; ages are truncated and stamped when a lease starts |
| HTTP server (`src/server/DatabaseServer.cc`) | routes, token, reference to the pool | pre-routing authentication, `/health`, `/query`, `/execute`, `start`, `stop` | each request runs on a worker thread and holds a lease; exceptions at every step |
| Process (`src/server/main.cc`) | `server_ptr`, the static pool | `main`, `signalHandler` | `exit()` on any thread destroys the pool while workers run |
| Configuration (`loadConfig`) | `_config` | parse, default, validate | narrowing of the numbers, sizes that pass validation and make a useless pool |
| HTTP, JSON and logging libraries (`src/include/external/`) | vendored | | only their use by the code above matters |
| Benchmarks and example client (`src/tests/`, `src/client_examples/`) | none | | usage only |

The request handlers call `getConnection`, use the `Connection` alone, and drop
it; the deleter gives it back. The producer tops the queue up to `initSize`, the
sweeper removes old connections from its front. All of them meet at `_mu`. The
database closes connections on its own.

What makes each part correct:

* pool: a connection has one owner at a time and is neither leaked nor used
  after deletion; the counters agree with the leases; the size is bounded; a
  dead connection is not handed out; no waiter is forgotten; every request is
  answered; shutting down terminates and nothing happens after it; the pool
  grows while clients wait;
* idle connections: what exceeds the minimum is closed in bounded time, and an
  unused pool shrinks to it;
* connection: a session exists exactly while `_conn` holds it, failures are
  reported as such;
* server: a request's lease ends with it on every path, only authenticated
  requests get one, an answer says what was done, a session at the MySQL server
  belongs to exactly one `Connection` object and their number is bounded;
* process: no thread uses the pool after its destruction.

## Modules

| Module | What it is |
|---|---|
| `ConnectionPool` | the pool with its threads, mutex and condition variables, its properties and their fairness |
| `ConnectionLease` | what a pool promises its clients, without threads: a bounded stock, exclusive leases, refusals, closing |
| `PoolShutdown` | what shutting a pool down promises: nobody begins to wait, the threads come to an end, the destruction comes last |
| `IdleSweep` | alive times and the periodic sweep, with a clock |
| `LoadConfig` | `loadConfig`: the file line by line, the conversions with the widths of their types, the validation |
| `Startup` | `LoadConfig`, then the constructor and the size of the pool for every configuration that is accepted, negative sizes included |
| `Connection` | the `Connection` objects: connecting in two steps, statements, transactions, what the driver and MySQL do |
| `DatabaseServer` | the requests of the HTTP server and the sessions of the pool, over `Connection` and over `ConnectionLease` as the pool's interface |
| `ServerLifecycle` | `main`, the signal handler, `exit()`, the destruction of the static pool, and every thread that is running then |
| `MCConnectionPool`, `MCIdleSweep`, `MCStartup`, `MCDatabaseServer`, `MCServerLifecycle` | TLC's instances |
| `ConnectionPoolProofs` | types, life cycle, ownership of the connections, and the pool without a minimum, proved |
| `ConnectionPoolCapacityProofs` | lease counter and capacity, statistics against calls, wakeups against timeouts, and what is handed out, proved |
| `ConnectionPoolRefinementProofs` | `ConnectionPool` implements `ConnectionLease` and `PoolShutdown`, and what `getStats` reports, proved |
| `ConnectionLeaseProofs` | what every implementation of `ConnectionLease` has, proved once |
| `IdleSweepProofs`, `StartupProofs`, `DatabaseServerProofs`, `ServerLifecycleProofs` | the theorems of those modules |

How they are put together: `ConnectionPool` is shown to implement
`ConnectionLease`. `DatabaseServer` uses `ConnectionLease` in its place, which
is what keeps requests, statements and faults within reach; it is shown to use
it as it is meant (`UsesPoolAsPromised`), so that what `ConnectionLeaseProofs`
says of the abstract pool is true of the server's. `Startup` establishes
what `ConnectionPool` assumes of the sizes (and shows what happens to those it
leaves out). `ServerLifecycle` has the threads of all of them again, reduced to
the mutexes they hold and the places where they can be stopped. That the
reduction loses nothing of the shutdown is what `PoolShutdown` is for: both
`ConnectionPool` and `ServerLifecycle` implement it.

### ConnectionPool

One action per critical section of `_mu`, or per step between two of them:

| Code | Actions |
|---|---|
| `getConnection` before the lock | `GetConnection` |
| the lock and the first test of the wait loop | `EnterLock`, with `Proceed` for what follows |
| `wait_until` returning | `WakeInTime` (then `Proceed`), `WakeTooLate` |
| wait loop, shutdown test, `pop`, `isConnected` | `StartWaiting`, `ReturnNull`, `TakeConnected`, `TakeDead` |
| `createConnection()` in `getConnection` | `Reconnected`, `ReconnectFailed` |
| the deleter | `ReturnConnection` |
| `producerThread` | `ProducerTest`, `ProducerLock`, `ProducerCreate`, `ProducerPush` |
| `sweeperThread` | `SweeperTest`, `SweeperSleep`, `SweeperLock` |
| `initialize` | `InitialConnection`, `InitializeThrows`, `StartThreads` |
| `shutdown` and the destructor | `Shutdown`, `NotifyAll`, `JoinProducer`, `JoinSweeper`, `Clear` |
| `getStats` | `Stats` |
| database, clock, library | `LoseLink`, `DeadlinePasses`, `TimedWake`, `SpuriousWake`, `SpuriousProducerWake` |

`pc[c]` is a client's place, `handle[c]` the pointer it owns, `spare` the
producer's local `conn`. A `Connection` object is an identity with a `link`:
`none` (no such object), `open` or `lost` (what `isConnected` reports).
Identities are used again after deletion, as addresses are. A connection attempt
under the mutex is two steps, and `MutexFree` keeps every other critical
section out in between; that is how a slow reconnect delays everybody.

Choices worth knowing:

* A condition variable is a wait set. `notify_one` picks any waiter. A woken
  thread competes for the mutex with everyone else, and the library decides
  "timeout" by comparing the clock with the deadline once the wait ends,
  whatever ended it: `WakeInTime` and `WakeTooLate` differ in `expired` only.
  A notification after the deadline is therefore consumed by a thread that
  reports a timeout.
* `std::atomic<int>` counters wrap from `IntMax` to `IntMin`.
* `createConnection` may fail at any time. `isClosed()` is taken to tell a lost
  session from a live one.
* The pool is the static object of `getConnectionPool()`: after the destructor
  its storage is still there, and late deleters and requests see `_shutdown`.
  The destruction of the mutex itself is not modelled.
* `StartThreads` is one step: `initialize` holds the mutex until it returns, so
  the threads cannot do more than read `_shutdown` before. That
  `std::thread` fails to start is left out.
* Which connections are older than `maxIdleTime` is left open: the sweeper pops
  any number down to the minimum. `IdleSweep` has the ages.
* A negative `minSize` is left out here and is in `Startup`: the sweeper would
  read the front of an empty queue.

Operators marked "Slip" are plausible mistakes in the definition they precede.
They are not used by the specification; substituting one shows that a property
notices.

### ConnectionLease

`ImplementsLease` maps the pool to it: the queue is the free stock, a client
that holds a connection has a lease, a client anywhere else in `getConnection`
is asking; a connection being replaced is in neither set. The capacity is
`maxSize + 1`: with `maxSize` the pool does not implement it (`PoolExceedsMax`).

### PoolShutdown

A pool as its owner sees it: open or closed, who waits in it, how many steps
each of its threads has left if it is closed now, whether it has been destroyed.
`ImplementsShutdown` of `ConnectionPool` maps `_shutdown`, the clients at
`wait_until`, and the places of the producer and the sweeper to it: `StepsLeft`
is the longest way from each place to the end of the thread, at most three
(a producer that is connecting pushes, tests its loop, and ends). In
`ServerLifecycle` the same is said of the static pool, with the workers of the
HTTP server as clients, and the destruction is that of the condition variables.
A thread that is stopped for good by the signal handler keeps the steps it has
left, and the pool is not destroyed.

The refinement is a safety property: it does not say that the threads take
their steps, but that no step leads away from the end. With the fairness of the
threads, `ShutdownCompletes` and `SignalEndsProcess` say the rest.

### IdleSweep

The pool's queue, its leases and the producer (which tests, creates and pushes
in three steps, the push without a second test), and for each connection two ages:
since `refreshAliveTime()` (`age`, what the code looks at) and since it was
queued (`unused`, what "idle" means). `Tick` advances time; `timer` is the
sweeper's sleep, and negative while it is late for the mutex, by at most
`MaxDelay`. Ages are capped just above the largest value anything is compared
with, so time is unbounded and liveness can be checked. The producer's connection
ages from `createConnection`, not from the push. A reconnect takes no time here,
and the replacement takes the identity of the connection it replaces. `maxIdleTime` is at least one second and the clock only
advances; the code uses `high_resolution_clock`, which may be a clock that is
set.

### LoadConfig and Startup

| Code | Actions and operators |
|---|---|
| reading the file into `configMap` | `OpenFails`, `ReadLine`, `Assign` |
| `getConfig(key, default)` | `Text`, `Default` |
| `std::stoi`, `std::stoul`, the assignments to `uint16_t` and `int` | `StoiThrows`, `StoulThrows`, `Stoul`, `Narrow`, `Converted` |
| the two validations | `CredentialsGiven`, `ValidSizes` |
| the rest of `loadConfig` | `Load` |
| constructor and `initialize` | `ConstructorFails`, `Initialize` |
| producer, clients and sweeper, as far as they change the size | `ProducerTests`, `ProducerPushes`, `Lend`, `Lose`, `Return`, `Sweep` |

A text is the number it begins with, a word without one, or nothing; the
formatting of lines is left out, and so is `host`, a string that is used as it
is. The types are given by how many values they have, so the wrap of `stoul` at a
minus sign, the narrowing to `int` and the cut of the port are what the
conversions do for any width. `Startup` counts connections only; what the
threads do to each other is `ConnectionPool`. A read of the front of an empty
queue is the stage `undefined`: nothing is claimed from then on.

### Connection

`session[k]` is what an object has at the server: none, one without its schema
(`bare`: `_conn` is set and `setSchema` has not returned), a `ready` one, or one
that the server has `closed`. `Run` is the common part of `update` and `query`:
the test of `isConnected`, the statement, and the exception. An exception says
nothing about whether the statement ran (`replyLost`), and `update` of a SELECT
or `query` of an INSERT is an exception after it has. A statement is known by the
request it comes from and its kind; `database` is what is committed, `pending`
what an open transaction has. `ran` and `enclosed`, the writes that ran inside of a
transaction, are history variables.

### DatabaseServer

| Code | Actions |
|---|---|
| `httplib`'s queue and workers (external) | `Arrive`, `TakenUp`, `Reply` |
| `authenticate`, routing, parsing of the body | `Handle`, with `Authenticated`, `Rejection` |
| `getConnection` | `GetPooled`, `GetNothing`; for a dead connection `FindDead`, `OpenReplacement`, `ConnectReplacement`, `Replaced`, `ReplaceFails` |
| `/execute`, `/query` | `RunExecute`, `RunQuery` |
| `convertResultSet`, the end of the handler's scope, `handleError` | `Finish`, `EndLease` |
| `producerThread`, with `createConnection` | `ProducerTests`, `StartConnection`, `ConnectSpare`, `CreateFails`, `QueueSpare`, `DiscardSpare` |
| the sweep, and the clearing of the queue by `shutdown` | `RetireConnections` |
| `shutdown` by `exit()`: the flag | `ClosePool` |
| MySQL closes a session | `CloseLink` |

The queue and the leases are those of `ConnectionLease`, with the requests as its
clients. What is outside of them is in variables of its own: `spare` is the
producer's `conn`, from `connect` to the push or its end; `dead` is what
`getConnection` has popped and found not connected, `fresh` what it opens in its
place, and both exist until the assignment of line 165. `_mu` is taken for longer
than a step only by such a replacement, so `MutexFree` is `dead = NoConn`, a guard
of every other critical section; the producer connects without it. `creating`
also covers the time between its test and its `connect`. Between the flag and
the clearing the pool's threads are joined, and requests go on: they are
turned away, and connections they give back are deleted. When a connection is
missing is left open: the producer may fill the pool up to the capacity, which is
`maxSize + 1`. `answer` is what the client reads: `noRows` is the empty array that
a failed query becomes.

### ServerLifecycle

`at[t]` is where a thread is, as far as mutexes and waits tell places apart. A
thread has `_mu` in `locked`, `woken`, `returning`, `pushing`, and spdlog's
mutex in `logging`, `loggingStart`. The signal handler is a second control flow
on the thread `interrupted`: that thread takes no step of its own any more, and
keeps what it holds. `exit()` is a third one, on the handler's thread or on
`main`: `SetShutdown`, the two `Join`s, `Clear`, `DestroyConditions` (the
destructor of a condition variable waits for its waiters), `EndProcess`. A join
of the thread one is on throws out of a destructor and aborts the process. A
request that calls the destroyed pool may crash (`UseDestroyedPool`).

## Runs

`CHECK_DEADLOCK FALSE` is where the system may stop: in `ConnectionPool` when
the pool is destroyed, the requests are used up, or the producer sleeps and
nobody calls; in `Startup` when the constructor fails; in `DatabaseServer` when every request is
answered and the pool is closed and cleared; in `ServerLifecycle`
when the process has ended, or hangs, which the properties speak of. `Sweep` is
checked for deadlock: time never ends.

| Run | Bounds | Result |
|---|---|---|
| `PoolSafety` | 3 clients, 4 connections, sizes 2..2, 4 requests | `TypeOK`, `ExclusiveOwnership`, `NoLeakNoDangling`, `ActiveCountsLeases`, `CapacityBound`, `StatsCountConnections`, `RequestsCovered`, `WakeupsLostToDeadlines`, `NoSleeperAfterShutdown`, `DestroyedPoolIsEmpty`, `GrantsAreConnected`, `ImplementsLease`, `ImplementsShutdown` hold |
| `PoolLiveness` | 2 clients, 3 connections, sizes 1..1, requests without end | `RequestCompletes`, `ShutdownCompletes` hold under `FairSpec` |
| `PoolExceedsMax` | 2 clients, 3 connections, sizes 1..1 | `WithinMaxSize` is violated |
| `PoolStranded` | 2 clients, 3 connections, sizes 1..1 | `NoStrandedWaiter` is violated |
| `PoolNeverRefills` | 1 client, 3 connections, sizes 1..2, requests without end | `GrowsWithDemand` is violated under `RefillSpec` |
| `Sweep` | 2 clients, 3 connections, sizes 1..2, 1 s idle time, 2 ticks a second, delay 1 | `TypeOK`, `StaleStockBounded` hold, and `QuietPoolShrinks` under `FairSpec` |
| `SweepLate` | as `Sweep` | `IdleClosedInTime` is violated |
| `Startup` | files of 3 lines, 11 numbers at the edges of the types, an `int` of 14 bits, 3 leases at a time | `TypeOK`, `LastAssignmentWins`, `SizesFit`, `FrontExists`, `AcceptedAsWritten` hold |
| `Requests` | 2 requests out of 8 kinds, 3 `Connection` objects, capacity 2, 2 workers, all faults | `TypeOK`, `SessionsBelongToPool`, `SessionBound`, `LeasesAreInUse`, `AnswersAreReliable`, `AcknowledgedMeansCommitted` hold, and `EveryRequestAnswered` under `FairSpec` |
| `RequestsUnseen` | 3 requests of well-behaved clients, 3 `Connection` objects, capacity 2, 2 workers, no fault | `QuerySeesInserts` is violated |
| `Process` | 2 workers, 1 waiting job, a signal on any kind of thread | `TypeOK`, `DestroyedWhenUnused`, `ImplementsShutdown` hold, and `SignalEndsProcess`, `ReturnEndsProcess` under `FairSpec` |
| `ProcessHangs` | 1 worker, a signal on main | `SignalAlwaysEndsProcess` is violated under `FairSpec` |

Why the bounds are enough.

* Pool. Three clients are the fewest with a waiter, a client that was woken and
  one that overtakes it. With equal sizes both comparisons of the producer's
  predicate are at their edge together; 2..2 lets the queue hold several
  connections and the constructor fail half-way. One connection more than
  `maxSize + 1` exists, so the pool is not kept within its bound by a lack of
  identities, and a dead connection can be replaced even then. Requests are
  bounded by `MaxRequests`, except where that exceeds `IntMax`: in
  `PoolLiveness` and `PoolNeverRefills` the counters stand still and the clients
  come for ever. Elsewhere `IntMax` is never reached.
* Sweep. `StaleStockBounded` is tight: with `UnusedLimit - 1` in place of
  `UnusedLimit` TLC finds it violated.
* Startup. Three lines are a setting, another one and a repetition of either,
  which is what validation and repetition tell apart; the numbers are those next
  to a wrap, and those that wrap to small ones. The theorems cover the rest.
* Requests. Every path of a handler is taken by one request; two of them share a
  connection one after the other, or use both at once, or compete for one. Order
  in the queue of the HTTP library is of no consequence with as many workers as
  requests; `RequestsUnseen` has more requests than workers, and statements that
  commit. With all faults three requests are beyond a run. Three objects for a
  capacity of two let a dead connection, its replacement and the producer's
  connection exist together; the theorems cover every other number.
* Process. What threads do to each other here is hold a mutex, wait, or be
  joined. One worker takes the signal while another one works; the model
  delivers no signal to the second worker, which is like the first.

### Fairness

`FairSpec` of `ConnectionPool` assumes that a thread that is not asleep on a
condition variable gets to run and gets `_mu` if it keeps asking for it, that
connection attempts and sleeps end, and that deadlines pass. Fairness is strong
for what needs the mutex, since others hold it in between; a mutex that starves
a thread would break every claim of this kind. Nothing is assumed of the clients
(they need not call, and need not drop a lease), of the database or of spurious
wakeups. `RefillSpec` adds that leases end, to make the missing refill the
pool's own doing.

`IdleSweep` assumes that time passes and that the sweeper runs. `DatabaseServer`
assumes that a worker with a request goes on and gets `_mu`, which others hold
only to replace a dead connection; that `getConnection` always
returns is `RequestCompletes`. No connection has to be opened, no client has to
ask. `ServerLifecycle` assumes the same of every thread: a worker that waits
leaves by its deadline, `main` leaves its loop once its socket is closed (and
need not before), and `exit()` goes on when what it waits for has happened.
Signals need not come.

### What the violations show

* `PoolExceedsMax`: `<= _config.maxSize` before a push allows `maxSize + 1`
  connections.
* `PoolNeverRefills`: the pool does not grow with demand. The producer looks at
  the length of the queue, not at who waits, and `_notFull` is notified by
  `shutdown()` only. A producer that waits stays asleep while the connections
  are lost to failed reconnects: a client waits, there is room for `maxSize`
  connections, the database is back, and none is made. `initSize = 0` is an
  accepted configuration of this kind from the start: `NoMinimumNoService` and
  `NoServiceFromZero` prove that such a pool never has a connection.
* `PoolStranded`: a connection is queued (by the producer in the trace; the end
  of a lease notifies in the same way), `notify_one` picks a waiter, its
  deadline passes before it has the mutex, it returns null, and another waiter
  sleeps on beside the connection.
* `SweepLate`: `max_idle_time` is documented as the longest an unused connection
  remains. The sweeper sleeps that long between two sweeps and drops the part of
  a second, so a connection that just misses one sweep stays unused for nearly
  two idle times and a second. `IdleClosedInTime` grants the minimum, which the
  sweeper keeps for ever, and its delay.
* `RequestsUnseen`: a transaction begun by one request stays open in the
  connection it gives back. The next client's INSERT runs in it, is answered
  with success, and other connections do not see it.
* `ProcessHangs`: the handler logs. A signal that finds its thread inside
  spdlog waits for a mutex the thread itself has.

What holds instead is in the passing runs: at most one connection too many; as
many wakeups lost as timeouts; at most `minSize` connections unused for longer
than two idle times, a second and the delay; acknowledged writes committed if
they ran outside of a transaction, and inside of one only if a request began it; a
process that ends if the signal finds main or a worker outside of the mutexes and
of a wait. A signal that lands on the producer or the sweeper makes `exit()` join
its own thread, and the process aborts.

## Proofs

Each for every value of the constants that the named assumptions of its module
allow:

* `ConnectionPool`: any finite set of clients, any connections, any
  `0 <= minSize <= maxSize` (`SizeAssumption`, `CounterAssumption`,
  `ThreadAssumption`, `NoConnAssumption`);
* `ConnectionLease`: any clients and connections, finite or not; a capacity in
  `Nat` where a theorem says so;
* `IdleSweep`: any idle time of at least a second, ticks per second and delay
  (`TimeAssumption` and the assumptions beside it);
* `Startup`: any widths of the types that hold the defaults (`SizeAssumption`,
  `DefaultAssumption`, `TextAssumption`, `LeaseAssumption`);
* `DatabaseServer`: any number of requests and workers, any capacity and faults
  (`ServerAssumption`, `FaultAssumption`);
* `ServerLifecycle`: any set of workers and of threads that may take the signal
  (`ThreadAssumption`).

| Module | Theorem | Statement |
|---|---|---|
| `ConnectionPoolProofs` | `TypesHold` | `Spec => []TypeOK` |
| | `NobodyLeftAsleep` | `Spec => []NoSleeperAfterShutdown` |
| | `NothingAfterDestruction` | `Spec => []DestroyedPoolIsEmpty` |
| | `NoMinimumNoService` | `Spec => []NoServiceWithoutMinimum` |
| | `OneOwner` | `Spec => []ExclusiveOwnership` |
| | `OwnedExactlyWhileAlive` | `Spec => []NoLeakNoDangling` |
| `ConnectionPoolCapacityProofs` | `LeasesAreCounted` | `Spec => []ActiveCountsLeases` |
| | `AtMostOneTooMany` | `Spec => []CapacityBound` |
| | `EveryCallCounted` | `Spec => []RequestsCovered` |
| | `NoWakeupLostButToDeadlines` | `Spec => []WakeupsLostToDeadlines` |
| | `GrantedConnected` | `Spec => GrantsAreConnected` |
| | `WaitingProducerIsLeftAlone` | `Spec => [][Unattended]_vars` |
| `ConnectionPoolRefinementProofs` | `PoolImplementsLease` | `Spec => ImplementsLease` |
| | `PoolShutsDown` | `Spec => ImplementsShutdown` |
| | `StatsAreTrue` | `Spec => []StatsCountConnections` |
| | `LeasesAreNotLost` | `Spec => [][HandsAndQueue]_vars` |
| `ConnectionLeaseProofs` | `LeasesAreExclusive` | `Spec => []OneOwner` |
| | `StockIsBounded` | `Spec => []StockBound` |
| | `LeasedConnectionsAreKept` | `Spec => [][LeasedAreKept]_leaseVars` |
| | `ClosedPoolOnlyShrinks` | `Spec => [][ClosedOnlyShrinks]_leaseVars` |
| `IdleSweepProofs` | `SweepTypes` | `Spec => []TypeOK` |
| | `ConnectionsHaveOnePlace` | `Spec => []OwnInv` |
| | `StaleStockIsBounded` | `Spec => []StaleStockBounded` |
| `StartupProofs` | `StartupTypes` | `Spec => []TypeOK` |
| | `NoServiceFromZero` | `Spec => []NoServiceWithoutMinimum` |
| | `SweeperFindsAFront` | `Spec => []FrontExists` |
| | `SizesAsWritten` | `Spec => AcceptedAsWritten` |
| | `LastOneWins` | `Spec => []LastAssignmentWins` |
| | `SizesAsAssumed` | `Spec => []SizesFit` |
| | `CountsWithinBound` | `Spec => []SizeBound` |
| `DatabaseServerProofs` | `ServerTypes` | `Spec => []TypeOK` |
| | `LeasesEndWithTheirRequests` | `Spec => []LeasesAreInUse` |
| | `AnswersAreHonest` | `Spec => []AnswersAreReliable` |
| | `AcknowledgedWritesAreCommitted` | `Spec => []AcknowledgedMeansCommitted` |
| | `SessionsAreOwned` | `Spec => []SessionsBelongToPool` |
| | `ServerUsesPool` | `Spec => UsesPoolAsPromised` |
| | `SessionsAreBounded` | `Spec => []SessionBound` |
| `ServerLifecycleProofs` | `LifecycleTypes` | `Spec => []TypeOK` |
| | `PoolOutlivesItsUsers` | `Spec => []DestroyedWhenUnused` |
| | `StaticPoolShutsDown` | `Spec => ImplementsShutdown` |
| | `MutexesExclude` | `Spec => []MutexInv` |
| | `HandlerDeadlockIsForever` | `Spec => [][SignalInsideLogger => SelfDeadlock']_vars /\ [](SelfDeadlock => []SelfDeadlock)` |

### The pool

The argument is layered, each invariant inductive given the ones before it:

1. `TypeInv`: the types, and that a client owns a connection exactly while it
   leases or replaces one.
2. `LifeInv`: where the owner of the pool is determines `_shutdown`, whether the
   threads exist, wait or have ended, and that the queue is empty at the end.
   The two shutdown theorems are two of its conjuncts; they need the others,
   since a thread is known not to wait only because it has seen the flag.
3. `OwnInv`: queue, clients and producer own disjoint sets of connections whose
   union are the objects that exist. It is stated element by element, because a
   freshly made connection is known to be new only if everything that exists is
   owned. It needs `LifeInv` for the start of the threads.
4. `CapInv`: the counter of the leases and the bound. Neither is inductive
   alone: that a returned lease makes room for its connection needs the
   counter. The producer's lock is the one step that adds to the total, and it
   happens when nobody is replacing a connection; `NoneAdded` is the arithmetic
   of all the others, and `NoMore`, which each of their lemmas shows on the way,
   is what `WaitingProducerIsLeftAlone` needs: while the producer waits, no step
   adds a connection, and only a spurious wakeup or `NotifyAll` ends the wait.
   `PoolNeverRefills` shows one execution that comes to an empty pool; the
   theorem says that in no instance anything else refills the pool.
5. `CountInv` for the statistics, and the wakeups: a push wakes a waiter if there
   is one, and a step that takes a woken client away either takes a connection
   as well, or counts a timeout, or leaves with the shutdown, or puts the client
   back to wait at an empty queue.
6. `RefInv`, all of these and `ReplaceInv` (nobody replaces a connection once
   `_shutdown` is set, since both hold the mutex): every step is one of
   `ConnectionLease` or leaves its variables alone. `RoomForOne` is where
   `CapInv` bounds the stock. The statistics follow from `OwnInv` and `CapInv`:
   the objects that exist are the queue and the leases, and both are counted.
   By the refinement, `ConnectionLeaseProofs` can be instantiated for the pool:
   `LeasesAreNotLost` is its `LeasedConnectionsAreKept` and
   `ClosedPoolOnlyShrinks` in terms of queue and hands.
7. The shutdown refinement needs `LifeInv` only, and only for the steps of the
   owner: that the producer and the sweeper come nearer to their end can be
   read off their actions, but that `NotifyAll` wakes a producer of a closed
   pool, that the threads start where `StepsLeft` has them before they exist, and
   that `Clear` finds both ended and nobody waiting, are its conjuncts.

### The other modules

* `ConnectionLease`: `OneOwner` is inductive with one addition, that a client
  that asks has no lease; without it `Grant` could overwrite one, and a
  connection would be lost (`LeasedAreKept`). `StockIsBounded` adds that both
  halves of the stock are finite, since clients and connections need not be. That
  the end of a lease does not add to the stock needs `OneOwner`: a connection
  leased twice would be counted once before and twice after.
* `IdleSweep`: `StaleStockBounded` alone is not inductive, as it says nothing of
  the connections that are about to become stale. `StaleInv` says it for a limit
  that moves: `SinceSweep` starts at `AgeLimit - 1` after a sweep, grows with
  each tick as the ages do, and never exceeds `UnusedLimit`. So only the sweep
  has to be argued about. It stops at `minSize`, or at a connection that is
  not aged. `AgeInv` says that this one has not been unused for longer than its
  age, since the lease that set the age began before it ended; and `Fifo` that those
  behind it were queued later, so none of them is stale whatever its
  alive time is. The order in the queue is that of `unused`, not that of `age`,
  and the first is what the bound needs: this is why the comment "Queue is ordered"
  in `sweeperThread`, which a lease longer than another one refutes, does little
  harm. `OldIsAged` is the arithmetic of the
  truncation to seconds.
* `Startup`: `ModUnique` and `IntsSurvive` are the arithmetic of the conversions:
  an `int` comes back from `unsigned long` as it went in. `ServiceInv` adds to
  the two properties that the pool is empty until it runs.
  `LastInv` describes the map by the last line for each key, element by element.
  `SizeInv` adds to `ServiceInv` that what runs was accepted and that what was
  accepted has passed the test of `loadConfig`: so `SizesAsAssumed` discharges, for
  a pool that runs, the assumption on the sizes that `ConnectionPool` and
  `IdleSweep` start from.
* `DatabaseServer`: `TypeInv` has the tie between a request's stage and its lease,
  which is `LeasesAreInUse`. `AnswerInv` says what an answer may be at each stage, and
  that only a request that has been leased a connection can have run. `CommitInv`
  says that what ran and is reported as a success is in `database` or `enclosed`,
  and that a session is in a transaction only after a request that began one ran.
  `MakingInv` ties the local variables to the stages: at most one request
  replaces a connection, and it does so in an open pool. `SessionInv` is the
  property connection by connection: one that is in the queue or leased (`Kept`) is in no local
  variable (`Held`), the three local variables have different connections, the leases
  different ones, and what is `Kept` or `Held` is what has a session. `dead` has a
  closed one, which is why the replacement may be opened beside it.
  `ServerUsesPool` maps a request at the stages `asking` and `replacing` to a client
  that asks: entering and leaving them must coincide with the pool's answer, which is
  where the stages' types and the ties of `TypeInv` are used. With it,
  `ConnectionLeaseProofs` is instantiated for the server. Its bound on the stock
  is not enough for `SessionBound`, as the producer's push does not test it:
  `RoomInv` counts the connections being made as well. The stock drops by one
  when a dead connection is popped and rises by one at its replacement
  (`StockMoves`); the mutex is taken in between, so the producer cannot test,
  and the room it found before is still reserved by `creating`. `SessionInv` then
  puts every open session in the queue, in a lease, in `spare` or in `fresh`.
* `ServerLifecycle`: `EndInv` says what has happened before each step of `exit()`: the flag,
  the end of the producer, that of the sweeper, no waiter. It adds that
  `main` has returned only after all workers, and that they finish only with no
  job left. The refinement of `PoolShutdown` follows from it: `Clear` and
  `DestroyConditions` are steps of `exit()` that come after both joins.
  `MutexInv` is inductive by itself once the handler's own use of the logger is
  part of it. `SelfDeadlock` turns the counterexample of `ProcessHangs` into a
  statement about every instance: the stopped thread is `main` or a
  worker that `main` joins, so `main` does not return, and the handler, which
  would have called `exit()`, is what has stopped.

Checked by TLC only: everything that rests on fairness (`RequestCompletes`,
`ShutdownCompletes`, `QuietPoolShrinks`, `EveryRequestAnswered`,
`SignalEndsProcess`, `ReturnEndsProcess`), which is out of the prover's reach,
and the violations. Every invariant, refinement and action property of a passing
run is a theorem. The theorems on `ConnectionLease`, `UsesPoolAsPromised`,
`Unattended`, `HandsAndQueue`, `SizeBound`, `MutexInv`, `SelfDeadlock`, `OwnInv` of
`IdleSweepProofs` and the two that say that there is no service without a minimum
have no run of their own.

## Not modelled

* How long a request really waits: the deadline of `getConnection` is taken
  after `_mu` is held (`src/src/CommonConnectionPool.cc:144`), so the time
  another request spends reconnecting under the mutex is not part of it. To
  bound that needs a clock and an order in which waiting threads get a mutex,
  and the library promises none.
* Clocks that are set back or forward: nothing is left to say about ages then.
* The destruction of the mutex itself, and calls into the pool after its
  destructor beyond "may crash"; a second signal, signals while `exit()` runs,
  and what else in the handler is not async-signal-safe (`malloc`, iostreams):
  each of them is undefined, and a model would only say so again.
* That `std::thread` fails to start, or memory runs out.
* `host` and the text of settings; routes that do not exist; HTTP keep-alive;
  JSON and log output.
* The isolation level of MySQL beyond what is committed, and statements that
  commit implicitly.
* Reports of the wrapped `int` counters as huge numbers in `/health`, which the
  types make plain.
* The vendored libraries (their use is in external actions), the benchmarks of
  `src/tests/` and the Python example, which have no state of their own to get
  wrong.

## Plan

All modules of the plan are done but one: `TimedAcquire`, see the first point
above. What is left worth doing: the composition of `ServerLifecycle` with
`DatabaseServer`, to say which answers a client can still get while `exit()`
runs; and the safety halves of the liveness properties as theorems, such as that
one sweep of a queue nobody uses leaves at most `minSize` connections once all of
them have aged.
