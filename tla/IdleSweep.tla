------------------------------ MODULE IdleSweep ------------------------------
(***************************************************************************)
(* How long connections stay in the pool: the alive times of               *)
(* src/include/Connection.h, the points at which                           *)
(* src/src/CommonConnectionPool.cc refreshes them, and the periodic sweep. *)
(*                                                                         *)
(* Time advances in ticks, TicksPerSecond to the second.  The ages of a    *)
(* connection are counted instead of the dates they are computed from, and *)
(* only as far as the code and the properties tell them apart, so time has *)
(* no end.  Between two ticks the pool's threads take any number of steps; *)
(* the sweeper gets the mutex at most MaxDelay ticks after its sleep ends. *)
(* The clock of the alive times is not set back.                           *)
(***************************************************************************)
EXTENDS Integers, Sequences, FiniteSets, Functions

CONSTANTS
  Clients, Conns, NoConn,
  MinSize, MaxSize,     \* _config.minSize and maxSize
  MaxIdle,              \* _config.maxIdleTime, in seconds
  TicksPerSecond, MaxDelay

ASSUME SizeAssumption == MinSize \in Nat /\ MaxSize \in Nat /\ MinSize <= MaxSize
\* With maxIdleTime = 0 the sweeper would not sleep at all.
ASSUME TimeAssumption == MaxIdle \in Nat \ {0} /\ TicksPerSecond \in Nat \ {0} /\ MaxDelay \in Nat
ASSUME NoConnAssumption == NoConn \notin Conns

VARIABLES
  queue,    \* _availableConnections
  lease,    \* the Connection each client has
  creating, \* whether the producer is between its test and its push
  spare,    \* the producer's local conn
  age,      \* ticks since refreshAliveTime(), per Connection
  unused,   \* ticks since the Connection was queued
  timer     \* ticks until the sweeper's sleep ends; less than 0 once late

producerVars == <<creating, spare>>
vars == <<queue, lease, producerVars, age, unused, timer>>

\* The age at which a connection may be swept.
AgeLimit == (MaxIdle + 1) * TicksPerSecond
\* The longest a connection beyond the minimum is unused: it is not yet aged
\* at one sweep, and the next is a sleep and a delay away.
UnusedLimit == AgeLimit - 1 + MaxIdle * TicksPerSecond + MaxDelay

TypeOK ==
  /\ queue \in Seq(Conns)
  /\ lease \in [Clients -> Conns \cup {NoConn}]
  /\ creating \in BOOLEAN /\ spare \in Conns \cup {NoConn}
  /\ age \in [Conns -> 0..AgeLimit]
  /\ unused \in [Conns -> 0..UnusedLimit + 1]
  /\ timer \in -MaxDelay..MaxIdle * TicksPerSecond

Leased == Range(lease) \ {NoConn}

\* The constructor has filled the queue and started the sweeper.
Init ==
  /\ queue \in {q \in [1..MinSize -> Conns] : IsInjective(q)}
  /\ lease = [c \in Clients |-> NoConn]
  /\ creating = FALSE /\ spare = NoConn
  /\ age = [k \in Conns |-> 0] /\ unused = [k \in Conns |-> 0]
  /\ timer = MaxIdle * TicksPerSecond

\* refreshAliveTime(); the connection is in use.
Refresh(k) == age' = [age EXCEPT ![k] = 0] /\ unused' = [unused EXCEPT ![k] = 0]

\* getConnection: the front of the queue, or its replacement in its place,
\* refreshed as the lease starts.
Take(c) ==
  /\ lease[c] = NoConn /\ queue # <<>>
  /\ queue' = Tail(queue)
  /\ lease' = [lease EXCEPT ![c] = Head(queue)]
  /\ Refresh(Head(queue))
  /\ UNCHANGED <<producerVars, timer>>

\* Slip: what createConnection() returned is stored in the queue unseen.
KeepNull ==
  /\ queue # <<>>
  /\ queue' = [queue EXCEPT ![1] = NoConn]
  /\ UNCHANGED <<lease, producerVars, age, unused, timer>>

\* getConnection: the front of the queue is dead and cannot be replaced.
LoseFront ==
  /\ queue # <<>>
  /\ queue' = Tail(queue)
  /\ UNCHANGED <<lease, producerVars, age, unused, timer>>

\* The deleter: the alive time stays that of the start of the lease.
Return(c) ==
  /\ lease[c] # NoConn
  /\ queue' = Append(queue, lease[c])
  /\ lease' = [lease EXCEPT ![c] = NoConn]
  /\ unused' = [unused EXCEPT ![lease[c]] = 0]
  /\ UNCHANGED <<producerVars, age, timer>>

\* producerThread finds that connections are missing and unlocks.
ProducerTests ==
  /\ ~creating
  /\ Len(queue) + Cardinality(Leased) <= MaxSize /\ Len(queue) < MinSize
  /\ creating' = TRUE
  /\ UNCHANGED <<queue, lease, spare, age, unused, timer>>

\* createConnection() without the mutex; the alive time starts here.
Create(k) ==
  /\ creating /\ spare = NoConn /\ k \notin Range(queue) \cup Leased
  /\ spare' = k
  /\ Refresh(k)
  /\ UNCHANGED <<queue, lease, creating, timer>>

CreateFails ==
  /\ creating /\ spare = NoConn
  /\ creating' = FALSE
  /\ UNCHANGED <<queue, lease, spare, age, unused, timer>>

\* The push, without a second test: the queue may have what it needs by now.
Push ==
  /\ spare # NoConn
  /\ queue' = Append(queue, spare)
  /\ unused' = [unused EXCEPT ![spare] = 0]
  /\ creating' = FALSE /\ spare' = NoConn
  /\ UNCHANGED <<lease, age, timer>>

-----------------------------------------------------------------------------
\* getAliveTime() > maxIdleTime: duration_cast drops the part of a second.
Aged(k) == age[k] \div TicksPerSecond > MaxIdle

\* Slip: one connection too many is kept.
MaySweepMore(n) == n > MinSize + 1

\* The queue has n connections: "Don't sweep below minimum size".
MaySweep(n) == n > MinSize

\* Slip: if in place of while.
SweepOne(n) == n = IF queue # <<>> /\ MaySweep(Len(queue)) /\ Aged(Head(queue)) THEN 1 ELSE 0

\* The loop pops n connections and stops.
SweepCount(n) ==
  /\ \A i \in 1..n : Aged(queue[i]) /\ MaySweep(Len(queue) - i + 1)
  /\ n < Len(queue) /\ MaySweep(Len(queue) - n) => ~Aged(queue[n + 1])

\* The sleep has ended and the sweeper has the mutex; then it sleeps again.
Sweep ==
  /\ timer <= 0
  /\ \E n \in 0..Len(queue) :
       SweepCount(n) /\ queue' = SubSeq(queue, n + 1, Len(queue))
  /\ timer' = MaxIdle * TicksPerSecond
  /\ UNCHANGED <<lease, producerVars, age, unused>>

Older(n, limit) == IF n < limit THEN n + 1 ELSE n

Tick ==
  /\ timer > -MaxDelay
  /\ timer' = timer - 1
  /\ age' = [k \in Conns |-> Older(age[k], AgeLimit)]
  /\ unused' = [k \in Conns |->
       IF k \in Range(queue) THEN Older(unused[k], UnusedLimit + 1) ELSE unused[k]]
  /\ UNCHANGED <<queue, lease, producerVars>>

Next ==
  \/ \E c \in Clients : Take(c) \/ Return(c)
  \/ LoseFront
  \/ ProducerTests \/ CreateFails \/ Push \/ \E k \in Conns : Create(k)
  \/ Sweep \/ Tick

Spec == Init /\ [][Next]_vars

\* Time passes and the sweeper runs.  Nobody has to use the pool.
FairSpec == Spec /\ WF_vars(Tick) /\ WF_vars(Sweep)

-----------------------------------------------------------------------------
UnusedLongerThan(limit) == {k \in Range(queue) : unused[k] > limit}

\* A sweep stops at the first connection that is not aged, though aged ones
\* may follow it: alive times do not say who has been unused longest.  Still
\* no more than minSize connections are ever unused longer than two idle
\* times, the second that is cut off and the sweeper's delay.
StaleStockBounded == Cardinality(UnusedLongerThan(UnusedLimit)) <= MinSize

\* README.md:31, "when demand decreases": once the clients stop using it, the
\* pool shrinks to its minimum and stays there.
QuietPoolShrinks ==
  <>[](Leased = {}) => <>[](Len(queue) <= MinSize)

\* README.md:41: max_idle_time is the "Maximum time (in seconds) an unused
\* connection remains in the pool before being closed".  The sweeper's delay
\* and the minimum, which it keeps, are granted here.
IdleClosedInTime ==
  Cardinality(UnusedLongerThan(MaxIdle * TicksPerSecond + MaxDelay)) <= MinSize
=============================================================================
