--------------------------- MODULE ConnectionPool ---------------------------
(***************************************************************************)
(* The connection pool of src/src/CommonConnectionPool.cc: the threads that *)
(* share one ConnectionPool object, the mutex _mu, the condition variables *)
(* _notEmpty and _notFull, and the connection objects that move between    *)
(* them.                                                                   *)
(*                                                                         *)
(* A critical section of _mu in which nothing blocks is one action.  Only  *)
(* two sections last longer than a step, because they open a database      *)
(* connection while they hold the mutex: the constructor and getConnection *)
(* replacing a dead connection.  MutexFree says that neither is going on.  *)
(*                                                                         *)
(* An operator marked "Slip" is not part of the specification: it is a     *)
(* plausible mistake in the definition that follows, used to see that the  *)
(* properties would notice it.                                             *)
(*                                                                         *)
(* Time is abstract: a deadline passes and a sleep ends at any moment, and *)
(* any connection may have exceeded maxIdleTime.                           *)
(***************************************************************************)
EXTENDS Integers, Sequences, FiniteSets, Functions

CONSTANTS
  Clients,        \* threads that call getConnection and drop its result
  Conns,          \* identities for Connection objects, reused after delete
  NoConn,         \* a null pointer to a Connection
  MinSize,        \* _config.minSize
  MaxSize,        \* _config.maxSize
  IntMin, IntMax, \* the range of the statistics counters, of type int
  MaxRequests,    \* bound on totalRequests; no bound when above IntMax
  DeadlinesPass   \* FALSE: connectionTimeout outlasts every wait considered

\* loadConfig rejects minSize > maxSize and nothing else about the sizes.  A
\* value its conversion to int makes negative is left out: with a negative
\* minSize the sweeper reads the front of an empty queue, which is undefined.
ASSUME SizeAssumption == MinSize \in Nat /\ MaxSize \in Nat /\ MinSize <= MaxSize
\* With IntMin = IntMax = 0 the counters stand still.
ASSUME CounterAssumption == IntMin \in Int /\ IntMax \in Nat /\ IntMin <= 0 /\ MaxRequests \in Nat
ASSUME ThreadAssumption == IsFiniteSet(Clients) /\ DeadlinesPass \in BOOLEAN
ASSUME NoConnAssumption == NoConn \notin Conns

VARIABLES
  available,      \* _availableConnections
  active,         \* _activeConnections
  shutdown,       \* _shutdown
  totalRequests,  \* _totalRequests
  timeoutCount,   \* _timeoutCount
  link,           \* per Connection: no object, _conn open, or _conn closed
  pc,             \* where each client is in getConnection or its lease
  handle,         \* the Connection each client owns
  expired,        \* clients whose deadline has passed
  producer,       \* where producerThread is
  spare,          \* the producer's local conn
  sweeper,        \* where sweeperThread is
  main            \* where the thread that constructs and destroys the pool is

poolVars == <<available, active, shutdown>>
statVars == <<totalRequests, timeoutCount>>
clientVars == <<pc, handle, expired>>
threadVars == <<producer, spare, sweeper, main>>
vars == <<poolVars, statVars, link, clientVars, threadVars>>

TypeOK ==
  /\ available \in Seq(Conns)
  /\ active \in Int
  /\ shutdown \in BOOLEAN
  /\ totalRequests \in Int /\ timeoutCount \in Int
  /\ link \in [Conns -> {"none", "open", "lost"}]
  /\ pc \in [Clients -> {"idle", "lock", "waiting", "woken", "reconnecting", "holding"}]
  /\ handle \in [Clients -> Conns \cup {NoConn}]
  /\ expired \in SUBSET Clients
  /\ producer \in {"unborn", "head", "lock", "waiting", "creating", "relock", "done"}
  /\ spare \in Conns \cup {NoConn}
  /\ sweeper \in {"unborn", "head", "sleeping", "lock", "done"}
  /\ main \in {"initialize", "failed", "running", "notify", "joinProducer",
               "joinSweeper", "clear", "destroyed"}

-----------------------------------------------------------------------------
At(where) == {c \in Clients : pc[c] = where}
Waiting == At("waiting")    \* the wait set of _notEmpty
Holders == At("holding")
Fresh == {k \in Conns : link[k] = "none"}

\* _mu is held between two steps only while a connection is being opened.
MutexFree == main # "initialize" /\ At("reconnecting") = {}

\* The clients can reach the pool once its constructor has returned.
Constructed == main \notin {"initialize", "failed"}

\* std::atomic<int>::operator++ wraps.
Increment(n) == IF n = IntMax THEN IntMin ELSE n + 1

\* _notEmpty.notify_one() by a thread that has set the pcs to p: any waiter.
NotifyOne(p) ==
  IF \E c \in Clients : p[c] = "waiting"
  THEN {[p EXCEPT ![c] = "woken"] : c \in {d \in Clients : p[d] = "waiting"}}
  ELSE {p}

\* Slip: the pointers are dropped with release(), not with the objects.
LeakAll(S) == UNCHANGED link

\* The effect on the Connection objects of deleting those in S.
Delete(S) == link' = [k \in Conns |-> IF k \in S THEN "none" ELSE link[k]]

\* createConnection() has returned the object k, opened and refreshed, and
\* the objects in S are deleted.
CreateAndDelete(k, S) ==
  /\ k \in Fresh
  /\ link' = [j \in Conns |-> IF j = k THEN "open" ELSE IF j \in S THEN "none" ELSE link[j]]

Init ==
  /\ available = <<>> /\ active = 0 /\ shutdown = FALSE
  /\ totalRequests = 0 /\ timeoutCount = 0
  /\ link = [k \in Conns |-> "none"]
  /\ pc = [c \in Clients |-> "idle"]
  /\ handle = [c \in Clients |-> NoConn]
  /\ expired = {}
  /\ producer = "unborn" /\ spare = NoConn /\ sweeper = "unborn"
  /\ main = "initialize"

-----------------------------------------------------------------------------
(* getConnection and the deleter of the shared_ptr it returns *)

GetConnection(c) ==
  /\ Constructed /\ pc[c] = "idle"
  /\ totalRequests < MaxRequests
  /\ totalRequests' = Increment(totalRequests)
  /\ pc' = [pc EXCEPT ![c] = "lock"]
  /\ UNCHANGED <<poolVars, timeoutCount, link, handle, expired, threadVars>>

\* Slip: the wait loop tests only whether the queue is empty.
WaitDuringShutdown(c) ==
  /\ available = <<>>
  /\ pc' = [pc EXCEPT ![c] = "waiting"]
  /\ UNCHANGED <<poolVars, link, handle, expired>>

\* The wait loop finds nothing: the client joins the wait set.
StartWaiting(c) ==
  /\ available = <<>> /\ ~shutdown
  /\ pc' = [pc EXCEPT ![c] = "waiting"]
  /\ UNCHANGED <<poolVars, link, handle, expired>>

ReturnNull(c) ==
  /\ pc' = [pc EXCEPT ![c] = "idle"]
  /\ expired' = expired \ {c}
  /\ UNCHANGED <<poolVars, link, handle>>

\* Slip: front() is moved from and never popped.
LeaveFront == available

AfterPop == Tail(available)

\* Slip: the connection is handed out as it is.
TrustLink(k) == TRUE

\* isConnected()
IsConnected(k) == link[k] = "open"

\* Slip: only some of the paths to a lease count it.
LendUncounted(c) ==
  /\ active' = active
  /\ pc' = [pc EXCEPT ![c] = "holding"]

\* The lease starts.
Lend(c) ==
  /\ active' = active + 1
  /\ pc' = [pc EXCEPT ![c] = "holding"]

TakeConnected(c) ==
  /\ ~shutdown /\ available # <<>> /\ IsConnected(Head(available))
  /\ available' = AfterPop
  /\ handle' = [handle EXCEPT ![c] = Head(available)]
  /\ expired' = expired \ {c}
  /\ Lend(c)
  /\ UNCHANGED <<shutdown, link>>

\* createConnection() starts, under the mutex.
TakeDead(c) ==
  /\ ~shutdown /\ available # <<>> /\ ~IsConnected(Head(available))
  /\ available' = AfterPop
  /\ handle' = [handle EXCEPT ![c] = Head(available)]
  /\ pc' = [pc EXCEPT ![c] = "reconnecting"]
  /\ expired' = expired \ {c}
  /\ UNCHANGED <<active, shutdown, link>>

\* From the test of the wait loop on, with the mutex held.
Proceed(c) ==
  \/ StartWaiting(c)
  \/ shutdown /\ ReturnNull(c)
  \/ TakeConnected(c)
  \/ TakeDead(c)

EnterLock(c) ==
  /\ pc[c] = "lock" /\ MutexFree
  /\ Proceed(c)
  /\ UNCHANGED <<statVars, threadVars>>

\* wait_until holds the mutex again.  The library compares the clock with
\* the deadline; why the thread woke up plays no part.
WakeInTime(c) ==
  /\ pc[c] = "woken" /\ MutexFree /\ c \notin expired
  /\ Proceed(c)
  /\ UNCHANGED <<statVars, threadVars>>

\* Slip: the timeout branch counts and waits again.
CountAndWaitAgain(c) ==
  /\ pc[c] = "woken" /\ MutexFree /\ c \in expired
  /\ timeoutCount' = Increment(timeoutCount)
  /\ pc' = [pc EXCEPT ![c] = "waiting"]
  /\ UNCHANGED <<poolVars, link, handle, expired, totalRequests, threadVars>>

WakeTooLate(c) ==
  /\ pc[c] = "woken" /\ MutexFree /\ c \in expired
  /\ timeoutCount' = Increment(timeoutCount)
  /\ ReturnNull(c)
  /\ UNCHANGED <<totalRequests, threadVars>>

Reconnected(c) ==
  /\ pc[c] = "reconnecting"
  /\ \E k \in Conns : /\ CreateAndDelete(k, {handle[c]})
                      /\ handle' = [handle EXCEPT ![c] = k]
  /\ Lend(c)
  /\ UNCHANGED <<available, shutdown, statVars, expired, threadVars>>

\* Slip: createConnection() is tried until it works.
RetryForever(c) == pc[c] = "reconnecting" /\ UNCHANGED vars

ReconnectFailed(c) ==
  /\ pc[c] = "reconnecting"
  /\ Delete({handle[c]})
  /\ handle' = [handle EXCEPT ![c] = NoConn]
  /\ pc' = [pc EXCEPT ![c] = "idle"]
  /\ UNCHANGED <<poolVars, statVars, expired, threadVars>>

\* Slip: the deleter does not look at _shutdown.
AlwaysReusable == TRUE

Reusable == ~shutdown

\* Slip: the connection is pushed without notify_one().
ReturnQuietly(c) ==
  /\ pc[c] = "holding" /\ MutexFree
  /\ handle' = [handle EXCEPT ![c] = NoConn] /\ pc' = [pc EXCEPT ![c] = "idle"]
  /\ \/ /\ Reusable /\ active' = active - 1
        /\ available' = Append(available, handle[c]) /\ UNCHANGED link
     \/ ~Reusable /\ Delete({handle[c]}) /\ UNCHANGED <<available, active>>
  /\ UNCHANGED <<shutdown, statVars, expired, threadVars>>

\* The deleter: back to the queue, or deleted once the pool shuts down.
ReturnConnection(c) ==
  /\ pc[c] = "holding" /\ MutexFree
  /\ handle' = [handle EXCEPT ![c] = NoConn]
  /\ \/ /\ Reusable
        /\ available' = Append(available, handle[c])
        /\ active' = active - 1
        /\ pc' \in NotifyOne([pc EXCEPT ![c] = "idle"])
        /\ UNCHANGED link
     \/ /\ ~Reusable
        /\ Delete({handle[c]})
        /\ pc' = [pc EXCEPT ![c] = "idle"]
        /\ UNCHANGED <<available, active>>
  /\ UNCHANGED <<shutdown, statVars, expired, threadVars>>

-----------------------------------------------------------------------------
(* producerThread *)

ProducerTest ==
  /\ producer = "head"
  /\ producer' = IF shutdown THEN "done" ELSE "lock"
  /\ UNCHANGED <<poolVars, statVars, link, clientVars, spare, sweeper, main>>

\* Slip: off by one.
NeedMoreThanMax == Len(available) + active <= MaxSize + 1 /\ Len(available) < MinSize

\* The predicate _notFull waits for.
NeedMore ==
  /\ Len(available) + active <= MaxSize
  /\ Len(available) < MinSize

\* Slip: the wait ends when the predicate holds and not when the pool is closed.
LockUntilNeeded ==
  /\ producer = "lock" /\ MutexFree
  /\ producer' = IF NeedMore THEN "creating" ELSE "waiting"
  /\ UNCHANGED <<poolVars, statVars, link, clientVars, spare, sweeper, main>>

ProducerLock ==
  /\ producer = "lock" /\ MutexFree
  /\ producer' = IF shutdown THEN "done" ELSE IF NeedMore THEN "creating" ELSE "waiting"
  /\ UNCHANGED <<poolVars, statVars, link, clientVars, spare, sweeper, main>>

ProducerCreate ==
  /\ producer = "creating"
  /\ producer' = "relock"
  /\ \/ \E k \in Conns : CreateAndDelete(k, {}) /\ spare' = k
     \/ UNCHANGED <<link, spare>>
  /\ UNCHANGED <<poolVars, statVars, clientVars, sweeper, main>>

\* Slips: one of the two tests before the push is missing.
PushUnchecked == ~shutdown
PushDuringShutdown == spare # NoConn

PushesSpare == spare # NoConn /\ ~shutdown

ProducerPush ==
  /\ producer = "relock" /\ MutexFree
  /\ producer' = "head" /\ spare' = NoConn
  /\ \/ /\ PushesSpare
        /\ available' = Append(available, spare)
        /\ pc' \in NotifyOne(pc)
        /\ UNCHANGED link
     \/ /\ ~PushesSpare
        /\ Delete({spare})
        /\ UNCHANGED <<available, pc>>
  /\ UNCHANGED <<active, shutdown, statVars, handle, expired, sweeper, main>>

-----------------------------------------------------------------------------
(* sweeperThread *)

SweeperTest ==
  /\ sweeper = "head"
  /\ sweeper' = IF shutdown THEN "done" ELSE "sleeping"
  /\ UNCHANGED <<poolVars, statVars, link, clientVars, producer, spare, main>>

SweeperSleep ==
  /\ sweeper = "sleeping"
  /\ sweeper' = "lock"
  /\ UNCHANGED <<poolVars, statVars, link, clientVars, producer, spare, main>>

\* The loop pops n connections.  Which of them are older than maxIdleTime is
\* left open here (IdleSweep has the ages): it may stop at any of them, and it
\* stops at the minimum.
SweepCount(n) == n > 0 => Len(available) - n >= MinSize

SweeperLock ==
  /\ sweeper = "lock" /\ MutexFree
  /\ \/ /\ shutdown
        /\ sweeper' = "done"
        /\ UNCHANGED <<available, link>>
     \/ /\ ~shutdown
        /\ sweeper' = "head"
        /\ \E n \in 0..Len(available) :
             /\ SweepCount(n)
             /\ available' = SubSeq(available, n + 1, Len(available))
             /\ Delete({available[i] : i \in 1..n})
  /\ UNCHANGED <<active, shutdown, statVars, clientVars, producer, spare, main>>

-----------------------------------------------------------------------------
(* Construction and destruction *)

InitialConnection ==
  /\ main = "initialize" /\ Len(available) < MinSize
  /\ \E k \in Conns : CreateAndDelete(k, {}) /\ available' = Append(available, k)
  /\ UNCHANGED <<active, shutdown, statVars, clientVars, threadVars>>

\* initialize() throws: the constructor fails and its members are destroyed.
InitializeThrows ==
  /\ main = "initialize" /\ Len(available) < MinSize
  /\ main' = "failed"
  /\ available' = <<>> /\ Delete(Range(available))
  /\ UNCHANGED <<active, shutdown, statVars, clientVars, producer, spare, sweeper>>

StartThreads ==
  /\ main = "initialize" /\ Len(available) >= MinSize
  /\ main' = "running" /\ producer' = "head" /\ sweeper' = "head"
  /\ UNCHANGED <<poolVars, statVars, link, clientVars, spare>>

Shutdown ==
  /\ main = "running" /\ MutexFree
  /\ shutdown' = TRUE /\ main' = "notify"
  /\ UNCHANGED <<available, active, statVars, link, clientVars, producer, spare, sweeper>>

\* Slip: only one of the two condition variables is notified.
NotifyClientsOnly ==
  /\ main = "notify"
  /\ pc' = [c \in Clients |-> IF pc[c] = "waiting" THEN "woken" ELSE pc[c]]
  /\ main' = "joinProducer"
  /\ UNCHANGED <<poolVars, statVars, link, handle, expired, producer, spare, sweeper>>

NotifyAll ==
  /\ main = "notify"
  /\ pc' = [c \in Clients |-> IF pc[c] = "waiting" THEN "woken" ELSE pc[c]]
  /\ producer' = IF producer = "waiting" THEN "lock" ELSE producer
  /\ main' = "joinProducer"
  /\ UNCHANGED <<poolVars, statVars, link, handle, expired, spare, sweeper>>

JoinProducer ==
  /\ main = "joinProducer" /\ producer = "done"
  /\ main' = "joinSweeper"
  /\ UNCHANGED <<poolVars, statVars, link, clientVars, producer, spare, sweeper>>

JoinSweeper ==
  /\ main = "joinSweeper" /\ sweeper = "done"
  /\ main' = "clear"
  /\ UNCHANGED <<poolVars, statVars, link, clientVars, producer, spare, sweeper>>

\* The pool is a static object: its storage, and with it _shutdown and _mu,
\* is still there for the deleters and the calls that come later.
Clear ==
  /\ main = "clear" /\ MutexFree
  /\ main' = "destroyed"
  /\ available' = <<>> /\ Delete(Range(available))
  /\ UNCHANGED <<active, shutdown, statVars, clientVars, producer, spare, sweeper>>

-----------------------------------------------------------------------------
(* What happens around the pool *)

\* The server closes the connection, or it breaks in use.
LoseLink(k) ==
  /\ link[k] = "open"
  /\ link' = [link EXCEPT ![k] = "lost"]
  /\ UNCHANGED <<poolVars, statVars, clientVars, threadVars>>

DeadlinePasses(c) ==
  /\ DeadlinesPass
  /\ pc[c] \in {"waiting", "woken"} /\ c \notin expired
  /\ expired' = expired \cup {c}
  /\ UNCHANGED <<poolVars, statVars, link, pc, handle, threadVars>>

\* Slip: wait() in place of wait_until().
NoTimedWake(c) == FALSE

TimedWake(c) ==
  /\ pc[c] = "waiting" /\ c \in expired
  /\ pc' = [pc EXCEPT ![c] = "woken"]
  /\ UNCHANGED <<poolVars, statVars, link, handle, expired, threadVars>>

SpuriousWake(c) ==
  /\ pc[c] = "waiting"
  /\ pc' = [pc EXCEPT ![c] = "woken"]
  /\ UNCHANGED <<poolVars, statVars, link, handle, expired, threadVars>>

SpuriousProducerWake ==
  /\ producer = "waiting"
  /\ producer' = "lock"
  /\ UNCHANGED <<poolVars, statVars, link, clientVars, spare, sweeper, main>>

-----------------------------------------------------------------------------
Client(c) ==
  \/ GetConnection(c) \/ EnterLock(c) \/ WakeInTime(c) \/ WakeTooLate(c)
  \/ Reconnected(c) \/ ReconnectFailed(c) \/ ReturnConnection(c)

ProducerThread == ProducerTest \/ ProducerLock \/ ProducerCreate \/ ProducerPush

SweeperThread == SweeperTest \/ SweeperSleep \/ SweeperLock

Construct == InitialConnection \/ InitializeThrows \/ StartThreads
Destruct == NotifyAll \/ JoinProducer \/ JoinSweeper \/ Clear
MainThread == Construct \/ Shutdown \/ Destruct

Environment ==
  \/ \E k \in Conns : LoseLink(k)
  \/ \E c \in Clients : DeadlinePasses(c) \/ TimedWake(c) \/ SpuriousWake(c)
  \/ SpuriousProducerWake

Next ==
  \/ \E c \in Clients : Client(c)
  \/ ProducerThread \/ SweeperThread \/ MainThread \/ Environment

Spec == Init /\ [][Next]_vars

(***************************************************************************)
(* Fairness.  A thread that is not asleep runs: a connection attempt and a *)
(* sleep end, and a thread that keeps asking for _mu gets it.  Fairness is *)
(* strong because the mutex is taken by others in between; each thread has *)
(* one step to take at a time, so the thread is the unit.  Deadlines pass. *)
(* Nobody has to call the pool, drop a lease or shut the pool down, no     *)
(* link has to fail and no wakeup has to be spurious.                      *)
(***************************************************************************)
Answer(c) ==
  \/ EnterLock(c) \/ WakeInTime(c) \/ WakeTooLate(c)
  \/ Reconnected(c) \/ ReconnectFailed(c) \/ TimedWake(c)

FairSpec ==
  /\ Spec
  /\ SF_vars(ProducerThread) /\ SF_vars(SweeperThread)
  /\ SF_vars(Construct \/ Destruct)
  /\ \A c \in Clients : SF_vars(Answer(c)) /\ WF_vars(DeadlinePasses(c))

\* The clients also drop every lease they get.
LeasesEnd == \A c \in Clients : SF_vars(ReturnConnection(c))

-----------------------------------------------------------------------------
(* getStats *)

\* Slip: the total without the leases.
StatsWithoutActive == [ totalConnections |-> Len(available) ]

Stats == [ totalConnections     |-> Len(available) + active,
           availableConnections |-> Len(available),
           activeConnections    |-> active,
           totalRequests        |-> totalRequests,
           timeoutCount         |-> timeoutCount ]

-----------------------------------------------------------------------------
(* Safety *)

\* No Connection is in two places: twice in the queue, in the queue and in a
\* client's hands, with two clients, or with the producer and anyone else.
\* Each place is a unique_ptr, so two would delete it twice.
ExclusiveOwnership ==
  /\ IsInjective(available)
  /\ \A c \in Clients : handle[c] # NoConn =>
       /\ handle[c] \notin Range(available)
       /\ \A d \in Clients : handle[d] = handle[c] => d = c
  /\ spare # NoConn => spare \notin Range(available) \cup Range(handle)

\* Connection objects exist exactly while someone owns them: none is leaked
\* when a wait, a reconnect, a sweep or a shutdown takes an unusual path, and
\* nobody keeps a pointer to a deleted one.
NoLeakNoDangling ==
  \A k \in Conns : link[k] # "none" <=> k \in Range(available) \cup Range(handle) \cup {spare}

\* _activeConnections, kept by hand in getConnection and in the deleter, is
\* the number of leases until the shutdown, and never less after it: the
\* deleter's shutdown branch leaves it alone.
ActiveCountsLeases ==
  /\ Cardinality(Holders) <= active
  /\ ~shutdown => active = Cardinality(Holders)

\* The producer tests the size, unlocks, opens a connection and pushes it
\* without a second test.  The pool still never exceeds maxSize by more than
\* one connection, the one being opened or replaced included.
InProgress ==
  (IF producer = "creating" \/ spare # NoConn THEN 1 ELSE 0) + Cardinality(At("reconnecting"))
CapacityBound == Len(available) + active + InProgress <= MaxSize + 1

\* What /health reports as the total is the number of Connection objects,
\* but for one the producer has opened and not pushed yet.
StatsCountConnections ==
  MutexFree /\ ~shutdown =>
    Stats.totalConnections = Cardinality({k \in Conns : link[k] # "none" /\ k # spare})

\* Each call in progress, each lease and each counted timeout belongs to a
\* request of its own that was counted before it.
RequestsCovered ==
  MaxRequests <= IntMax =>
    timeoutCount + Cardinality({c \in Clients : pc[c] # "idle"}) <= totalRequests

\* While a client waits, every connection in the queue has a client that was
\* woken for it and has not got the mutex back yet: no wakeup is lost.
NoStrandedWaiter ==
  Waiting # {} /\ ~shutdown => Len(available) <= Cardinality(At("woken"))

\* One notify_one per queued connection is enough, although clients that never
\* waited take connections too, wakeups may be spurious and a woken client may
\* have to wait again: while a client waits, every connection in the queue has
\* a client that was woken for it, but for one each time a client was woken
\* and left because of its deadline.
WakeupsLostToDeadlines ==
  Waiting # {} /\ ~shutdown /\ MaxRequests <= IntMax =>
    Len(available) <= Cardinality(At("woken")) + timeoutCount

\* Once shutdown() has notified, no thread sleeps on a condition variable
\* that nobody will notify again, so the joins cannot hang on one.
NoSleeperAfterShutdown ==
  main \in {"joinProducer", "joinSweeper", "clear", "destroyed"} =>
    Waiting = {} /\ producer # "waiting"

\* A lease that ends during or after the destruction puts nothing into the
\* queue the destructor has emptied, and both threads are gone by then.
DestroyedPoolIsEmpty ==
  main = "destroyed" => available = <<>> /\ producer = "done" /\ sweeper = "done"

\* A client never gets a Connection whose link was lost in the queue.
GrantsAreConnected ==
  [][\A c \in Clients : pc[c] # "holding" /\ pc'[c] = "holding" => link'[handle'[c]] = "open"]_vars

\* README.md:40: max_size is "Maximum number of connections the pool can grow to".
WithinMaxSize == Len(available) + active <= MaxSize

-----------------------------------------------------------------------------
(* Liveness *)

\* Every getConnection returns, with a connection or null, however the mutex,
\* the wakeups and the other clients behave.
RequestCompletes ==
  \A c \in Clients : pc[c] = "lock" ~> pc[c] \in {"idle", "holding"}

\* The destructor returns: both joins end whatever the threads were doing.
ShutdownCompletes == shutdown ~> main = "destroyed"

\* README.md:30, "Automatically adjusts the connection pool size based on
\* demand", and :40, max_size is the "Maximum number of connections the pool can
\* grow to accommodate increased demand": while a client waits and there is
\* room, a connection is made or comes back.
GrowsWithDemand ==
  main = "running" /\ Waiting # {} /\ Len(available) + active < MaxSize
    ~> available # <<>> \/ producer = "creating" \/ shutdown

-----------------------------------------------------------------------------
(* What the pool promises *)

\* The pool as its clients see it: a connection that is being replaced is
\* neither free nor leased, and the request it is for is still open.
Lease == INSTANCE ConnectionLease WITH
  free <- Range(available),
  lease <- [c \in Clients |-> IF pc[c] = "holding" THEN handle[c] ELSE NoConn],
  asking <- {c \in Clients : pc[c] \notin {"idle", "holding"}},
  closed <- shutdown,
  Capacity <- MaxSize + 1

\* Every step of the threads is a step of ConnectionLease or invisible to the
\* clients: leases are exclusive, the stock is bounded, no connection is
\* granted or restocked once shutdown() has set the flag.
ImplementsLease == Lease!Spec

\* The steps to the end of each thread once _shutdown is set.
ProducerLeft ==
  CASE producer = "done" -> 0 [] producer \in {"unborn", "head", "lock"} -> 1
    [] producer \in {"waiting", "relock"} -> 2 [] OTHER -> 3
SweeperLeft ==
  CASE sweeper = "done" -> 0 [] sweeper \in {"unborn", "head", "lock"} -> 1 [] OTHER -> 2

PoolThreads == {"producer", "sweeper"}
StepsLeft == [t \in PoolThreads |-> IF t = "producer" THEN ProducerLeft ELSE SweeperLeft]

ShutdownOf == INSTANCE PoolShutdown WITH
  Threads <- PoolThreads, Steps <- 0..3,
  closed <- shutdown, left <- StepsLeft, waiting <- Waiting, destroyed <- main = "destroyed"

\* From _shutdown on, nobody goes to sleep in the pool again, the producer and
\* the sweeper end within three steps of their own from wherever they are, and
\* the queue is cleared after both have ended and the last waiter has left.
ImplementsShutdown == ShutdownOf!Spec
=============================================================================
