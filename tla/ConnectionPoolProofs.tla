------------------------ MODULE ConnectionPoolProofs ------------------------
(* Theorems about ConnectionPool for every set of clients and every size. *)
EXTENDS ConnectionPool, FiniteSetTheorems, SequenceTheorems, TLAPS

PCs == {"idle", "lock", "waiting", "woken", "reconnecting", "holding"}

\* A client has a Connection exactly while it leases or replaces one.
HandleInv == \A c \in Clients : handle[c] # NoConn <=> pc[c] \in {"holding", "reconnecting"}

TypeInv == TypeOK /\ HandleInv

\* What notify_one() may do to the program counters: at most one waiter is
\* woken, and nobody else moves.
LEMMA NotifyOneEffect ==
  ASSUME NEW p \in [Clients -> PCs], NEW q \in NotifyOne(p)
  PROVE  /\ q \in [Clients -> PCs]
         /\ \A c \in Clients : q[c] = p[c] \/ (p[c] = "waiting" /\ q[c] = "woken")
BY DEF NotifyOne, PCs

\* Init establishes the typing invariant.
LEMMA InitTypeInv == Init => TypeInv
<1> SUFFICES ASSUME Init PROVE TypeInv
  OBVIOUS
<1>1. available \in Seq(Conns)
  BY EmptySeq DEF Init
<1>2. /\ link \in [Conns -> {"none", "open", "lost"}]
      /\ expired \in SUBSET Clients
      /\ pc \in [Clients -> {"idle", "lock", "waiting", "woken", "reconnecting", "holding"}]
      /\ handle \in [Clients -> Conns \cup {NoConn}]
  BY DEF Init
<1>3. shutdown \in BOOLEAN
  BY DEF Init
<1>4. /\ active = 0 /\ totalRequests = 0 /\ timeoutCount = 0
      /\ spare = NoConn /\ producer = "unborn" /\ sweeper = "unborn" /\ main = "initialize"
  BY DEF Init
<1>5. TypeOK
  BY <1>1, <1>2, <1>3, <1>4 DEF TypeOK
<1>6. HandleInv
  BY DEF Init, HandleInv
<1> QED BY <1>5, <1>6 DEF TypeInv

\* Deleting objects keeps link well typed.
LEMMA DeleteType ==
  ASSUME NEW S, TypeOK, Delete(S)
  PROVE  link' \in [Conns -> {"none", "open", "lost"}]
BY DEF Delete, TypeOK

\* So does createConnection.
LEMMA CreateType ==
  ASSUME NEW k \in Conns, NEW S, TypeOK, CreateAndDelete(k, S)
  PROVE  link' \in [Conns -> {"none", "open", "lost"}]
BY DEF CreateAndDelete, TypeOK

\* So does what getConnection does under the mutex, up to the lease ...
LEMMA ProceedType ==
  ASSUME NEW c \in Clients, TypeInv, pc[c] \in {"lock", "woken"},
         Proceed(c), UNCHANGED <<statVars, threadVars>>
  PROVE  TypeInv'
<1> USE DEF TypeInv, TypeOK, HandleInv, poolVars, statVars, clientVars, threadVars
<1>1. CASE StartWaiting(c)
  BY <1>1 DEF StartWaiting
<1>2. CASE ReturnNull(c)
  BY <1>2 DEF ReturnNull
<1>3. CASE TakeConnected(c)
  BY <1>3, NoConnAssumption DEF TakeConnected, AfterPop, Lend
<1>4. CASE TakeDead(c)
  BY <1>4, NoConnAssumption DEF TakeDead, AfterPop
<1> QED BY <1>1, <1>2, <1>3, <1>4 DEF Proceed

\* ... and every other step of a client,
LEMMA ClientType ==
  ASSUME NEW c \in Clients, TypeInv, Client(c)
  PROVE  TypeInv'
<1> USE DEF poolVars, statVars, clientVars, threadVars
<1>1. CASE GetConnection(c)
  BY <1>1, CounterAssumption DEF GetConnection, Increment, TypeInv, TypeOK, HandleInv
<1>2. CASE EnterLock(c)
  BY <1>2, ProceedType DEF EnterLock
<1>3. CASE WakeInTime(c)
  BY <1>3, ProceedType DEF WakeInTime
<1>4. CASE WakeTooLate(c)
  BY <1>4, CounterAssumption DEF WakeTooLate, ReturnNull, Increment, TypeInv, TypeOK, HandleInv
<1>5. CASE Reconnected(c)
  <2>1. PICK k \in Conns : CreateAndDelete(k, {handle[c]}) /\ handle' = [handle EXCEPT ![c] = k]
    BY <1>5 DEF Reconnected
  <2>2. link' \in [Conns -> {"none", "open", "lost"}]
    BY <2>1, CreateType DEF TypeInv
  <2> QED BY <1>5, <2>1, <2>2, NoConnAssumption DEF Reconnected, Lend, TypeInv, TypeOK, HandleInv
<1>6. CASE ReconnectFailed(c)
  <2>1. link' \in [Conns -> {"none", "open", "lost"}]
    BY <1>6, DeleteType DEF ReconnectFailed, TypeInv
  <2> QED BY <1>6, <2>1 DEF ReconnectFailed, TypeInv, TypeOK, HandleInv
<1>7. CASE ReturnConnection(c)
  <2> DEFINE p == [pc EXCEPT ![c] = "idle"]
  <2>1. p \in [Clients -> PCs] /\ handle[c] \in Conns
    BY <1>7 DEF ReturnConnection, TypeInv, TypeOK, HandleInv, PCs
  <2>2. CASE /\ Reusable /\ available' = Append(available, handle[c]) /\ active' = active - 1
             /\ pc' \in NotifyOne(p) /\ UNCHANGED link
    <3>1. /\ pc' \in [Clients -> PCs]
          /\ \A d \in Clients : pc'[d] = p[d] \/ (p[d] = "waiting" /\ pc'[d] = "woken")
      BY <2>1, <2>2, NotifyOneEffect
    <3>2. available' \in Seq(Conns)
      BY <2>1, <2>2 DEF TypeInv, TypeOK
    <3>3. handle' = [handle EXCEPT ![c] = NoConn]
      BY <1>7 DEF ReturnConnection
    <3>4. HandleInv'
      BY <1>7, <3>1, <3>3 DEF ReturnConnection, TypeInv, TypeOK, HandleInv, PCs
    <3>5. /\ active' \in Int /\ handle' \in [Clients -> Conns \cup {NoConn}]
          /\ link' \in [Conns -> {"none", "open", "lost"}]
      BY <2>2, <3>3 DEF TypeInv, TypeOK
    <3>6. TypeOK'
      BY <1>7, <3>1, <3>2, <3>5 DEF ReturnConnection, TypeInv, TypeOK, PCs
    <3> QED BY <3>4, <3>6 DEF TypeInv
  <2>3. CASE ~Reusable /\ Delete({handle[c]}) /\ pc' = p /\ UNCHANGED <<available, active>>
    <3>1. link' \in [Conns -> {"none", "open", "lost"}]
      BY <2>3, DeleteType DEF TypeInv
    <3> QED BY <1>7, <2>3, <3>1 DEF ReturnConnection, TypeInv, TypeOK, HandleInv
  <2> QED BY <1>7, <2>2, <2>3 DEF ReturnConnection
<1> QED BY <1>1, <1>2, <1>3, <1>4, <1>5, <1>6, <1>7 DEF Client

\* of producerThread,
LEMMA ProducerType ==
  ASSUME TypeInv, ProducerThread
  PROVE  TypeInv'
<1> USE DEF poolVars, statVars, clientVars, threadVars
<1>1. CASE ProducerTest
  BY <1>1 DEF ProducerTest, TypeInv, TypeOK, HandleInv
<1>2. CASE ProducerLock
  BY <1>2 DEF ProducerLock, TypeInv, TypeOK, HandleInv
<1>3. CASE ProducerCreate
  <2>1. CASE \E k \in Conns : CreateAndDelete(k, {}) /\ spare' = k
    BY <1>3, <2>1, CreateType DEF ProducerCreate, TypeInv, TypeOK, HandleInv
  <2>2. CASE UNCHANGED <<link, spare>>
    BY <1>3, <2>2 DEF ProducerCreate, TypeInv, TypeOK, HandleInv
  <2> QED BY <1>3, <2>1, <2>2 DEF ProducerCreate
<1>4. CASE ProducerPush
  <2>1. CASE /\ PushesSpare /\ available' = Append(available, spare)
             /\ pc' \in NotifyOne(pc) /\ UNCHANGED link
    <3>1. /\ pc' \in [Clients -> PCs]
          /\ \A d \in Clients : pc'[d] = pc[d] \/ (pc[d] = "waiting" /\ pc'[d] = "woken")
      BY <2>1, NotifyOneEffect DEF TypeInv, TypeOK, PCs
    <3>2. available' \in Seq(Conns)
      BY <2>1 DEF TypeInv, TypeOK, PushesSpare
    <3> QED BY <1>4, <2>1, <3>1, <3>2 DEF ProducerPush, TypeInv, TypeOK, HandleInv, PCs
  <2>2. CASE ~PushesSpare /\ Delete({spare}) /\ UNCHANGED <<available, pc>>
    BY <1>4, <2>2, DeleteType DEF ProducerPush, TypeInv, TypeOK, HandleInv
  <2> QED BY <1>4, <2>1, <2>2 DEF ProducerPush
<1> QED BY <1>1, <1>2, <1>3, <1>4 DEF ProducerThread

\* of sweeperThread,
LEMMA SweeperType ==
  ASSUME TypeInv, SweeperThread
  PROVE  TypeInv'
<1> USE DEF poolVars, statVars, clientVars, threadVars
<1>1. CASE SweeperTest
  BY <1>1 DEF SweeperTest, TypeInv, TypeOK, HandleInv
<1>2. CASE SweeperSleep
  BY <1>2 DEF SweeperSleep, TypeInv, TypeOK, HandleInv
<1>3. CASE SweeperLock
  <2>1. CASE shutdown
    BY <1>3, <2>1 DEF SweeperLock, TypeInv, TypeOK, HandleInv
  <2>2. CASE ~shutdown
    <3>1. PICK n \in 0..Len(available) :
            /\ available' = SubSeq(available, n + 1, Len(available))
            /\ Delete({available[i] : i \in 1..n})
      BY <1>3, <2>2 DEF SweeperLock
    <3>2. available' \in Seq(Conns)
      <4>1. \A i \in n + 1..Len(available) : available[i] \in Conns
        BY DEF TypeInv, TypeOK
      <4>2. n + 1 \in Int /\ Len(available) \in Int
        BY DEF TypeInv, TypeOK
      <4> QED BY <3>1, <4>1, <4>2, SubSeqProperties
    <3> QED BY <1>3, <2>2, <3>1, <3>2, DeleteType DEF SweeperLock, TypeInv, TypeOK, HandleInv
  <2> QED BY <2>1, <2>2, <1>3 DEF TypeInv, TypeOK
<1> QED BY <1>1, <1>2, <1>3 DEF SweeperThread

\* of the constructor and the destructor,
LEMMA MainType ==
  ASSUME TypeInv, MainThread
  PROVE  TypeInv'
<1> USE DEF poolVars, statVars, clientVars, threadVars
<1>1. CASE InitialConnection
  <2>1. PICK k \in Conns : CreateAndDelete(k, {}) /\ available' = Append(available, k)
    BY <1>1 DEF InitialConnection
  <2>2. available' \in Seq(Conns)
    BY <2>1 DEF TypeInv, TypeOK
  <2>3. link' \in [Conns -> {"none", "open", "lost"}]
    BY <2>1, CreateType DEF TypeInv
  <2> QED BY <1>1, <2>2, <2>3 DEF InitialConnection, TypeInv, TypeOK, HandleInv
<1>2. CASE InitializeThrows
  BY <1>2, DeleteType, EmptySeq DEF InitializeThrows, TypeInv, TypeOK, HandleInv
<1>3. CASE StartThreads
  BY <1>3 DEF StartThreads, TypeInv, TypeOK, HandleInv
<1>4. CASE Shutdown
  BY <1>4 DEF Shutdown, TypeInv, TypeOK, HandleInv
<1>5. CASE NotifyAll
  BY <1>5 DEF NotifyAll, TypeInv, TypeOK, HandleInv
<1>6. CASE JoinProducer
  BY <1>6 DEF JoinProducer, TypeInv, TypeOK, HandleInv
<1>7. CASE JoinSweeper
  BY <1>7 DEF JoinSweeper, TypeInv, TypeOK, HandleInv
<1>8. CASE Clear
  BY <1>8, DeleteType, EmptySeq DEF Clear, TypeInv, TypeOK, HandleInv
<1> QED BY <1>1, <1>2, <1>3, <1>4, <1>5, <1>6, <1>7, <1>8 DEF MainThread, Construct, Destruct

\* and of the database, the clock and the library.
LEMMA EnvironmentType ==
  ASSUME TypeInv, Environment
  PROVE  TypeInv'
<1> USE DEF poolVars, statVars, clientVars, threadVars, TypeInv, TypeOK, HandleInv
<1>1. ASSUME NEW k \in Conns, LoseLink(k) PROVE TypeInv'
  BY <1>1 DEF LoseLink
<1>2. ASSUME NEW c \in Clients, DeadlinePasses(c) PROVE TypeInv'
  BY <1>2 DEF DeadlinePasses
<1>3. ASSUME NEW c \in Clients, TimedWake(c) \/ SpuriousWake(c) PROVE TypeInv'
  BY <1>3 DEF TimedWake, SpuriousWake
<1>4. CASE SpuriousProducerWake
  BY <1>4 DEF SpuriousProducerWake
<1> QED BY <1>1, <1>2, <1>3, <1>4 DEF Environment

\* The typing invariant is inductive.
LEMMA TypeInvStep == TypeInv /\ [Next]_vars => TypeInv'
<1> SUFFICES ASSUME TypeInv, [Next]_vars PROVE TypeInv'
  OBVIOUS
<1>1. CASE UNCHANGED vars
  BY <1>1 DEF vars, poolVars, statVars, clientVars, threadVars,
              TypeInv, TypeOK, HandleInv
<1>2. CASE Next
  BY <1>2, ClientType, ProducerType, SweeperType, MainType, EnvironmentType DEF Next
<1> QED BY <1>1, <1>2

\* Every variable keeps its type, and a client owns a Connection exactly
\* while it leases one or replaces it.
THEOREM TypeCorrect == Spec => []TypeInv
BY InitTypeInv, TypeInvStep, PTL DEF Spec

\* In particular every variable keeps its type.
THEOREM TypesHold == Spec => []TypeOK
<1>1. TypeInv => TypeOK
  BY DEF TypeInv
<1> QED BY <1>1, TypeCorrect, PTL

-----------------------------------------------------------------------------
(* Life cycle *)

Ended == {"joinProducer", "joinSweeper", "clear", "destroyed"}

\* How far the thread that owns the pool has come, against everybody else.
LifeInv ==
  /\ shutdown <=> main \in Ended \cup {"notify"}
  /\ main \in {"initialize", "failed"} =>
       producer = "unborn" /\ sweeper = "unborn" /\ \A c \in Clients : pc[c] = "idle"
  /\ main = "running" => producer # "done" /\ sweeper # "done"
  /\ main \in Ended => producer # "waiting" /\ \A c \in Clients : pc[c] # "waiting"
  /\ main \in Ended \ {"joinProducer"} => producer = "done"
  /\ main \in {"clear", "destroyed"} => sweeper = "done"
  /\ main = "destroyed" => available = <<>>

\* A client's step respects it: the wait loop is not entered and the queue is
\* not refilled once _shutdown is set.
LEMMA ClientLife ==
  ASSUME NEW c \in Clients, TypeInv, LifeInv, Client(c)
  PROVE  LifeInv'
<1> USE DEF poolVars, statVars, clientVars, threadVars, Ended
<1>1. CASE GetConnection(c)
  BY <1>1 DEF GetConnection, Constructed, LifeInv, TypeInv, TypeOK
<1>2. ASSUME pc[c] # "idle", Proceed(c), UNCHANGED <<statVars, threadVars>> PROVE LifeInv'
  <2>1. CASE StartWaiting(c)
    BY <1>2, <2>1 DEF StartWaiting, LifeInv, TypeInv, TypeOK
  <2>2. CASE shutdown /\ ReturnNull(c)
    BY <1>2, <2>2 DEF ReturnNull, LifeInv, TypeInv, TypeOK
  <2>3. CASE TakeConnected(c)
    BY <1>2, <2>3 DEF TakeConnected, Lend, LifeInv, TypeInv, TypeOK
  <2>4. CASE TakeDead(c)
    BY <1>2, <2>4 DEF TakeDead, LifeInv, TypeInv, TypeOK
  <2> QED BY <1>2, <2>1, <2>2, <2>3, <2>4 DEF Proceed
<1>3. CASE WakeTooLate(c)
  BY <1>3 DEF WakeTooLate, ReturnNull, LifeInv, TypeInv, TypeOK
<1>4. CASE Reconnected(c)
  BY <1>4 DEF Reconnected, Lend, LifeInv, TypeInv, TypeOK
<1>5. CASE ReconnectFailed(c)
  BY <1>5 DEF ReconnectFailed, LifeInv, TypeInv, TypeOK
<1>6. CASE ReturnConnection(c)
  <2> DEFINE p == [pc EXCEPT ![c] = "idle"]
  <2>1. p \in [Clients -> PCs]
    BY DEF TypeInv, TypeOK, PCs
  <2>2. CASE Reusable
    BY <1>6, <2>2, <2>1, NotifyOneEffect DEF ReturnConnection, Reusable, LifeInv, TypeInv, TypeOK
  <2>3. CASE ~Reusable
    BY <1>6, <2>3 DEF ReturnConnection, LifeInv, TypeInv, TypeOK
  <2> QED BY <2>2, <2>3
<1> QED BY <1>1, <1>2, <1>3, <1>4, <1>5, <1>6 DEF Client, EnterLock, WakeInTime

\* The producer pushes nothing and does not wait once _shutdown is set.
LEMMA ProducerLife ==
  ASSUME TypeInv, LifeInv, ProducerThread
  PROVE  LifeInv'
<1> USE DEF poolVars, statVars, clientVars, threadVars, Ended
<1>1. CASE ProducerTest
  BY <1>1 DEF ProducerTest, LifeInv, TypeInv, TypeOK
<1>2. CASE ProducerLock
  BY <1>2 DEF ProducerLock, LifeInv, TypeInv, TypeOK
<1>3. CASE ProducerCreate
  BY <1>3 DEF ProducerCreate, LifeInv, TypeInv, TypeOK
<1>4. CASE ProducerPush
  <2>1. CASE PushesSpare
    BY <1>4, <2>1 DEF ProducerPush, PushesSpare, LifeInv, TypeInv, TypeOK
  <2>2. CASE ~PushesSpare
    BY <1>4, <2>2 DEF ProducerPush, LifeInv, TypeInv, TypeOK
  <2> QED BY <2>1, <2>2
<1> QED BY <1>1, <1>2, <1>3, <1>4 DEF ProducerThread

\* The life cycle invariant is inductive, given the types.
LEMMA LifeInvStep == TypeInv /\ LifeInv /\ [Next]_vars => LifeInv'
<1> SUFFICES ASSUME TypeInv, LifeInv, [Next]_vars PROVE LifeInv'
  OBVIOUS
<1> USE DEF poolVars, statVars, clientVars, threadVars, Ended
<1>1. CASE UNCHANGED vars
  BY <1>1 DEF vars, LifeInv
<1>2. CASE SweeperThread
  BY <1>2 DEF SweeperThread, SweeperTest, SweeperSleep, SweeperLock, LifeInv, TypeInv, TypeOK
<1>3. CASE Construct
  BY <1>3 DEF Construct, InitialConnection, InitializeThrows, StartThreads, LifeInv, TypeInv, TypeOK
<1>4. CASE Shutdown
  BY <1>4 DEF Shutdown, LifeInv, TypeInv, TypeOK
<1>5. CASE NotifyAll
  BY <1>5 DEF NotifyAll, LifeInv, TypeInv, TypeOK
<1>6. CASE JoinProducer \/ JoinSweeper \/ Clear
  BY <1>6 DEF JoinProducer, JoinSweeper, Clear, LifeInv, TypeInv, TypeOK
<1>7. CASE Environment
  BY <1>7 DEF Environment, LoseLink, DeadlinePasses, TimedWake, SpuriousWake,
              SpuriousProducerWake, LifeInv, TypeInv, TypeOK
<1> QED BY <1>1, <1>2, <1>3, <1>4, <1>5, <1>6, <1>7, ClientLife, ProducerLife
        DEF Next, MainThread, Destruct

\* The shutdown flag, the threads and the thread that owns the pool keep step.
THEOREM LifeCycle == Spec => []LifeInv
<1>1. Init => LifeInv
  BY DEF Init, LifeInv, Ended
<1> QED BY <1>1, LifeInvStep, TypeCorrect, PTL DEF Spec

\* shutdown() and the destructor: after the notification nobody sleeps on a
\* condition variable for ever, so both joins can end ...
THEOREM NobodyLeftAsleep == Spec => []NoSleeperAfterShutdown
<1>1. LifeInv => NoSleeperAfterShutdown
  BY DEF LifeInv, Ended, NoSleeperAfterShutdown, Waiting, At
<1> QED BY <1>1, LifeCycle, PTL

\* ... and what the destructor has emptied stays empty, whatever leases end
\* after it.
THEOREM NothingAfterDestruction == Spec => []DestroyedPoolIsEmpty
<1>1. LifeInv => DestroyedPoolIsEmpty
  BY DEF LifeInv, Ended, DestroyedPoolIsEmpty
<1> QED BY <1>1, LifeCycle, PTL

-----------------------------------------------------------------------------
(* A pool without a minimum *)

\* With minSize = 0 there is never a connection anywhere.
StarvedInv ==
  MinSize = 0 => /\ available = <<>> /\ active = 0
                  /\ producer # "creating" /\ spare = NoConn
                  /\ \A c \in Clients : pc[c] \notin {"reconnecting", "holding"}

\* No step brings one in: only the producer and the constructor could, and
\* both compare the queue with minSize.
LEMMA StarvedInvStep == TypeInv /\ StarvedInv /\ [Next]_vars => StarvedInv'
<1> SUFFICES ASSUME TypeInv, StarvedInv, [Next]_vars, MinSize = 0 PROVE StarvedInv'
  BY DEF StarvedInv
<1> USE SizeAssumption DEF poolVars, statVars, clientVars, threadVars
<1>0. available = <<>> /\ Len(available) = 0
  BY EmptySeq DEF StarvedInv
<1>1. CASE UNCHANGED vars
  BY <1>1 DEF vars, StarvedInv
<1>2. ASSUME NEW c \in Clients, Client(c) PROVE StarvedInv'
  BY <1>0, <1>2 DEF Client, GetConnection, EnterLock, WakeInTime, WakeTooLate, Proceed, StartWaiting,
       ReturnNull, TakeConnected, TakeDead, Reconnected, ReconnectFailed, ReturnConnection,
       StarvedInv, TypeInv, TypeOK
<1>3. CASE ProducerThread
  BY <1>0, <1>3 DEF ProducerThread, ProducerTest, ProducerLock, NeedMore, ProducerCreate, ProducerPush,
       PushesSpare, StarvedInv, TypeInv, TypeOK
<1>4. CASE SweeperThread
  <2>1. CASE SweeperTest \/ SweeperSleep \/ (SweeperLock /\ shutdown)
    BY <2>1 DEF SweeperTest, SweeperSleep, SweeperLock, StarvedInv
  <2>2. CASE SweeperLock /\ ~shutdown
    <3>1. PICK n \in 0..0 : available' = SubSeq(available, n + 1, Len(available))
      BY <1>0, <2>2 DEF SweeperLock
    <3>2. available' = <<>>
      BY <1>0, <3>1, SubSeq(<<>>, 1, 0) = <<>>
    <3> QED BY <2>2, <3>2 DEF SweeperLock, StarvedInv
  <2> QED BY <1>4, <2>1, <2>2 DEF SweeperThread
<1>5. CASE MainThread
  BY <1>0, <1>5 DEF MainThread, Construct, Destruct, InitialConnection, InitializeThrows, StartThreads,
       Shutdown, NotifyAll, JoinProducer, JoinSweeper, Clear, StarvedInv, TypeInv, TypeOK
<1>6. CASE Environment
  BY <1>6 DEF Environment, LoseLink, DeadlinePasses, TimedWake, SpuriousWake,
       SpuriousProducerWake, StarvedInv, TypeInv, TypeOK
<1> QED BY <1>1, <1>2, <1>3, <1>4, <1>5, <1>6 DEF Next

NoServiceWithoutMinimum ==
  MinSize = 0 => Len(available) + active = 0 /\ Holders = {}

\* README.md:40 says that the pool grows to max_size with demand.  With
\* initSize = 0, which loadConfig accepts whatever max_size says, it never has
\* a connection and never serves anybody.
THEOREM NoMinimumNoService == Spec => []NoServiceWithoutMinimum
<1>1. Init => StarvedInv
  BY DEF Init, StarvedInv
<1>2. StarvedInv => NoServiceWithoutMinimum
  <2> SUFFICES ASSUME StarvedInv, MinSize = 0
               PROVE  Len(available) + active = 0 /\ Holders = {}
    BY DEF NoServiceWithoutMinimum
  <2>1. Len(available) = 0 /\ active = 0
    BY EmptySeq DEF StarvedInv
  <2> QED BY <2>1 DEF StarvedInv, Holders, At
<1> QED BY <1>1, <1>2, StarvedInvStep, TypeCorrect, PTL DEF Spec

-----------------------------------------------------------------------------
(* Every Connection has exactly one owner, for every set of clients and every *)
(* size of the pool.                                                          *)

\* Connection k is in the queue.
Queued(k) == \E i \in 1..Len(available) : available[i] = k

\* A client or the producer owns k.
Carried(k) == spare = k \/ \E c \in Clients : handle[c] = k

\* No connection is queued twice.
Distinct == \A i, j \in 1..Len(available) : available[i] = available[j] => i = j

\* ExclusiveOwnership and NoLeakNoDangling element by element, and the one
\* place where the producer has a connection.
OwnInv ==
  /\ Distinct
  /\ \A k \in Conns : ~(Queued(k) /\ Carried(k))
  /\ \A c, d \in Clients : handle[c] # NoConn /\ handle[c] = handle[d] => c = d
  /\ spare # NoConn => producer = "relock" /\ \A c \in Clients : handle[c] # spare
  /\ \A k \in Conns : link[k] # "none" <=> Queued(k) \/ Carried(k)

\* The elements of a queue a connection is pushed to.
LEMMA PushElements ==
  ASSUME NEW q \in Seq(Conns), NEW k \in Conns
  PROVE  /\ Append(q, k) \in Seq(Conns)
         /\ Len(Append(q, k)) = Len(q) + 1
         /\ \A i \in 1..Len(q) : Append(q, k)[i] = q[i]
         /\ Append(q, k)[Len(q) + 1] = k
OBVIOUS

\* The elements of a queue whose first n connections are popped.
LEMMA PopElements ==
  ASSUME NEW q \in Seq(Conns), NEW n \in 0..Len(q)
  PROVE  /\ SubSeq(q, n + 1, Len(q)) \in Seq(Conns)
         /\ Len(SubSeq(q, n + 1, Len(q))) = Len(q) - n
         /\ \A i \in 1..Len(q) - n : SubSeq(q, n + 1, Len(q))[i] = q[i + n]
OBVIOUS

\* pop() is popping one.
LEMMA TailIsPop ==
  ASSUME NEW q \in Seq(Conns), q # <<>>
  PROVE  /\ Tail(q) \in Seq(Conns)
         /\ Len(q) >= 1 /\ Head(q) = q[1]
         /\ Len(Tail(q)) = Len(q) - 1
         /\ \A i \in 1..Len(q) - 1 : Tail(q)[i] = q[i + 1]
OBVIOUS

\* push() of a connection that is not in the queue adds it and nothing else.
LEMMA PushQueued ==
  ASSUME available \in Seq(Conns), Distinct, NEW k \in Conns, ~Queued(k),
         available' = Append(available, k)
  PROVE  Distinct' /\ \A j \in Conns : Queued(j)' <=> Queued(j) \/ j = k
<1>1. /\ Len(available') = Len(available) + 1
      /\ \A i \in 1..Len(available) : available'[i] = available[i]
      /\ available'[Len(available) + 1] = k
      /\ Len(available) \in Nat
  BY PushElements
<1>2. Distinct'
  BY <1>1 DEF Distinct, Queued
<1>3. ASSUME NEW j \in Conns PROVE Queued(j)' <=> Queued(j) \/ j = k
  BY <1>1 DEF Queued
<1> QED BY <1>2, <1>3

\* Popping takes exactly the first n connections out of the queue.
LEMMA PopQueued ==
  ASSUME available \in Seq(Conns), Distinct, NEW n \in 0..Len(available),
         Len(available') = Len(available) - n,
         \A i \in 1..Len(available) - n : available'[i] = available[i + n]
  PROVE  /\ Distinct'
         /\ \A j \in Conns : Queued(j)' <=> Queued(j) /\ j \notin {available[i] : i \in 1..n}
<1>1. Len(available) \in Nat
  OBVIOUS
<1>2. ASSUME NEW i \in 1..Len(available'), NEW j \in 1..Len(available'),
             available'[i] = available'[j]
      PROVE  i = j
  <2>1. i + n \in 1..Len(available) /\ j + n \in 1..Len(available)
    BY <1>1
  <2>2. available[i + n] = available[j + n]
    BY <1>1, <1>2
  <2> QED BY <2>1, <2>2 DEF Distinct
<1>3. ASSUME NEW j \in Conns, Queued(j)' PROVE Queued(j) /\ j \notin {available[i] : i \in 1..n}
  <2>1. PICK i \in 1..Len(available) - n : available[i + n] = j
    BY <1>1, <1>3 DEF Queued
  <2>2. i + n \in 1..Len(available) /\ i + n \notin 1..n
    BY <1>1
  <2> QED BY <1>1, <2>1, <2>2 DEF Queued, Distinct
<1>4. ASSUME NEW j \in Conns, Queued(j), j \notin {available[i] : i \in 1..n} PROVE Queued(j)'
  <2>1. PICK i \in 1..Len(available) : available[i] = j
    BY <1>4 DEF Queued
  <2>2. i \notin 1..n
    BY <1>4, <2>1
  <2>3. i - n \in 1..Len(available) - n /\ (i - n) + n = i
    BY <1>1, <2>2
  <2>4. available'[i - n] = j
    BY <2>1, <2>3
  <2> QED BY <2>3, <2>4 DEF Queued
<1> QED BY <1>2, <1>3, <1>4 DEF Distinct

-----------------------------------------------------------------------------
\* A client takes the front of the queue.
LEMMA TakeOwn ==
  ASSUME NEW c \in Clients, TypeInv, OwnInv, pc[c] \in {"lock", "woken"},
         available # <<>>, available' = AfterPop,
         handle' = [handle EXCEPT ![c] = Head(available)],
         UNCHANGED <<link, spare, producer>>
  PROVE  OwnInv'
<1> DEFINE k == available[1]
<1>1. /\ available \in Seq(Conns) /\ Len(available) >= 1 /\ Head(available) = k
      /\ Len(available') = Len(available) - 1
      /\ \A i \in 1..Len(available) - 1 : available'[i] = available[i + 1]
  BY TailIsPop DEF TypeInv, TypeOK, AfterPop
<1>2. k \in Conns /\ 1 \in 0..Len(available) /\ {available[i] : i \in 1..1} = {k}
  BY <1>1
<1>3. Distinct' /\ \A j \in Conns : Queued(j)' <=> Queued(j) /\ j # k
  BY <1>1, <1>2, PopQueued DEF OwnInv
<1>4. Queued(k) /\ ~Carried(k)
  BY <1>1, <1>2 DEF Queued, OwnInv
<1>5. handle[c] = NoConn /\ handle' \in [Clients -> Conns \cup {NoConn}] /\ handle'[c] = k
      /\ \A d \in Clients \ {c} : handle'[d] = handle[d]
  BY <1>1, <1>2 DEF TypeInv, TypeOK, HandleInv
<1>6. \A j \in Conns : Carried(j)' <=> Carried(j) \/ j = k
  BY <1>5, NoConnAssumption DEF Carried
<1>7. \A d, e \in Clients : handle'[d] # NoConn /\ handle'[d] = handle'[e] => d = e
  BY <1>4, <1>5 DEF OwnInv, Carried
<1>8. spare' # NoConn => producer' = "relock" /\ \A d \in Clients : handle'[d] # spare'
  BY <1>4, <1>5 DEF OwnInv, Carried
<1>9. \A j \in Conns : ~(Queued(j)' /\ Carried(j)')
  BY <1>3, <1>6 DEF OwnInv
<1>10. \A j \in Conns : link'[j] # "none" <=> Queued(j)' \/ Carried(j)'
  BY <1>3, <1>4, <1>6 DEF OwnInv
<1> QED BY <1>3, <1>7, <1>8, <1>9, <1>10 DEF OwnInv

\* A client replaces its dead connection by a new one.
LEMMA ReplaceOwn ==
  ASSUME NEW c \in Clients, TypeInv, OwnInv, Reconnected(c)
  PROVE  OwnInv'
<1>1. PICK k \in Conns : CreateAndDelete(k, {handle[c]}) /\ handle' = [handle EXCEPT ![c] = k]
  BY DEF Reconnected
<1>2. /\ link[k] = "none" /\ handle[c] \in Conns
      /\ UNCHANGED <<available, spare, producer>>
  BY <1>1 DEF CreateAndDelete, Fresh, Reconnected, TypeInv, TypeOK, HandleInv, threadVars
<1>3. ~Queued(k) /\ ~Carried(k) /\ k # handle[c] /\ Carried(handle[c]) /\ ~Queued(handle[c])
  BY <1>2 DEF OwnInv, Carried
<1>4. handle'[c] = k /\ \A d \in Clients \ {c} : handle'[d] = handle[d]
  BY <1>1 DEF TypeInv, TypeOK
<1>5. Distinct' /\ \A j \in Conns : Queued(j)' <=> Queued(j)
  BY <1>2 DEF OwnInv, Distinct, Queued
<1>6. handle[c] # NoConn /\ handle[c] # spare /\ \A d \in Clients \ {c} : handle[d] # handle[c]
  BY <1>2, NoConnAssumption DEF OwnInv
<1>7. \A j \in Conns : Carried(j)' <=> (Carried(j) /\ j # handle[c]) \/ j = k
  BY <1>2, <1>3, <1>4, <1>6 DEF Carried
<1>8. \A j \in Conns : link'[j] # "none" <=> j = k \/ (link[j] # "none" /\ j # handle[c])
  BY <1>1, <1>2 DEF CreateAndDelete
<1>9. \A j \in Conns : link'[j] # "none" <=> Queued(j)' \/ Carried(j)'
  BY <1>3, <1>5, <1>7, <1>8 DEF OwnInv
<1>10. \A d, e \in Clients : handle'[d] # NoConn /\ handle'[d] = handle'[e] => d = e
  BY <1>3, <1>4 DEF OwnInv, Carried
<1>11. spare' # NoConn => producer' = "relock" /\ \A d \in Clients : handle'[d] # spare'
  BY <1>2, <1>3, <1>4 DEF OwnInv, Carried
<1>12. \A j \in Conns : ~(Queued(j)' /\ Carried(j)')
  BY <1>3, <1>5, <1>7 DEF OwnInv
<1> QED BY <1>5, <1>9, <1>10, <1>11, <1>12 DEF OwnInv

\* A client gives up its connection, which is deleted or goes to the queue.
LEMMA GiveUpOwn ==
  ASSUME NEW c \in Clients, TypeInv, OwnInv, handle[c] \in Conns,
         handle' = [handle EXCEPT ![c] = NoConn], UNCHANGED <<spare, producer>>,
         \/ available' = available /\ Delete({handle[c]})
         \/ available' = Append(available, handle[c]) /\ link' = link
  PROVE  OwnInv'
<1>1. handle'[c] = NoConn /\ \A d \in Clients \ {c} : handle'[d] = handle[d]
  BY DEF TypeInv, TypeOK
<1>2. handle[c] # NoConn /\ handle[c] # spare /\ \A d \in Clients \ {c} : handle[d] # handle[c]
  BY NoConnAssumption DEF OwnInv
<1>3. \A j \in Conns : Carried(j)' <=> Carried(j) /\ j # handle[c]
  BY <1>1, <1>2, NoConnAssumption DEF Carried
<1>4. Carried(handle[c]) /\ ~Queued(handle[c])
  BY DEF OwnInv, Carried
<1>5. \A d, e \in Clients : handle'[d] # NoConn /\ handle'[d] = handle'[e] => d = e
  BY <1>1 DEF OwnInv
<1>6. spare' # NoConn => producer' = "relock" /\ \A d \in Clients : handle'[d] # spare'
  BY <1>1 DEF OwnInv
<1>7. /\ Distinct'
      /\ \A j \in Conns : ~(Queued(j)' /\ Carried(j)')
      /\ \A j \in Conns : link'[j] # "none" <=> Queued(j)' \/ Carried(j)'
  <2>1. CASE available' = available /\ Delete({handle[c]})
    <3>1. Distinct' /\ \A j \in Conns : Queued(j)' <=> Queued(j)
      BY <2>1 DEF OwnInv, Distinct, Queued
    <3>2. \A j \in Conns : link'[j] # "none" <=> link[j] # "none" /\ j # handle[c]
      BY <2>1 DEF Delete
    <3> QED BY <1>3, <1>4, <3>1, <3>2 DEF OwnInv
  <2>2. CASE available' = Append(available, handle[c]) /\ link' = link
    <3>1. Distinct' /\ \A j \in Conns : Queued(j)' <=> Queued(j) \/ j = handle[c]
      BY <2>2, <1>4, PushQueued DEF OwnInv, TypeInv, TypeOK
    <3> QED BY <2>2, <1>3, <1>4, <3>1 DEF OwnInv
  <2> QED BY <2>1, <2>2
<1> QED BY <1>5, <1>6, <1>7 DEF OwnInv

\* Steps that touch neither the queue nor the pointers nor the objects.
LEMMA SameOwn ==
  ASSUME OwnInv, UNCHANGED <<available, handle, spare>>,
         \A k \in Conns : link'[k] = "none" <=> link[k] = "none",
         producer' = producer \/ spare = NoConn
  PROVE  OwnInv'
<1>1. Distinct' /\ \A k \in Conns : (Queued(k)' <=> Queued(k)) /\ (Carried(k)' <=> Carried(k))
  BY DEF OwnInv, Distinct, Queued, Carried
<1> QED BY <1>1 DEF OwnInv

\* Every step of a client keeps the ownership.
LEMMA ClientOwn ==
  ASSUME NEW c \in Clients, TypeInv, OwnInv, Client(c)
  PROVE  OwnInv'
<1> USE DEF poolVars, statVars, clientVars, threadVars
<1>1. CASE GetConnection(c)
  BY <1>1, SameOwn DEF GetConnection
<1>2. ASSUME pc[c] \in {"lock", "woken"}, Proceed(c), UNCHANGED <<statVars, threadVars>>
      PROVE  OwnInv'
  <2>1. CASE StartWaiting(c) \/ ReturnNull(c)
    BY <1>2, <2>1, SameOwn DEF StartWaiting, ReturnNull
  <2>2. CASE TakeConnected(c)
    BY <1>2, <2>2, TakeOwn DEF TakeConnected
  <2>3. CASE TakeDead(c)
    BY <1>2, <2>3, TakeOwn DEF TakeDead
  <2> QED BY <1>2, <2>1, <2>2, <2>3 DEF Proceed
<1>3. CASE EnterLock(c) \/ WakeInTime(c)
  BY <1>2, <1>3 DEF EnterLock, WakeInTime
<1>4. CASE WakeTooLate(c)
  BY <1>4, SameOwn DEF WakeTooLate, ReturnNull
<1>5. CASE Reconnected(c)
  BY <1>5, ReplaceOwn
<1>6. CASE ReconnectFailed(c)
  <2>1. handle[c] \in Conns
    BY <1>6 DEF ReconnectFailed, TypeInv, TypeOK, HandleInv
  <2> QED BY <1>6, <2>1, GiveUpOwn DEF ReconnectFailed
<1>7. CASE ReturnConnection(c)
  <2>1. handle[c] \in Conns
    BY <1>7 DEF ReturnConnection, TypeInv, TypeOK, HandleInv
  <2>2. CASE Reusable
    BY <1>7, <2>1, <2>2, GiveUpOwn DEF ReturnConnection
  <2>3. CASE ~Reusable
    BY <1>7, <2>1, <2>3, GiveUpOwn DEF ReturnConnection
  <2> QED BY <2>2, <2>3
<1> QED BY <1>1, <1>3, <1>4, <1>5, <1>6, <1>7 DEF Client

\* So does every step of the producer, which carries a new connection from
\* one critical section to the next.
LEMMA ProducerOwn ==
  ASSUME TypeInv, OwnInv, ProducerThread
  PROVE  OwnInv'
<1> USE DEF poolVars, statVars, clientVars, threadVars
<1>1. CASE ProducerTest \/ ProducerLock
  BY <1>1, SameOwn DEF ProducerTest, ProducerLock, OwnInv
<1>2. CASE ProducerCreate
  <2>1. spare = NoConn /\ UNCHANGED <<available, handle>> /\ producer' = "relock"
    BY <1>2 DEF ProducerCreate, OwnInv
  <2>2. CASE UNCHANGED <<link, spare>>
    BY <2>1, <2>2, SameOwn
  <2>3. ASSUME NEW k \in Conns, CreateAndDelete(k, {}), spare' = k PROVE OwnInv'
    <3>1. link[k] = "none" /\ \A j \in Conns : link'[j] # "none" <=> j = k \/ link[j] # "none"
      BY <2>3 DEF CreateAndDelete, Fresh
    <3>2. ~Queued(k) /\ ~Carried(k)
      BY <3>1 DEF OwnInv
    <3>3. Distinct' /\ \A j \in Conns : Queued(j)' <=> Queued(j)
      BY <2>1 DEF OwnInv, Distinct, Queued
    <3>4. \A j \in Conns : Carried(j)' <=> Carried(j) \/ j = k
      BY <2>1, <2>3, NoConnAssumption DEF Carried
    <3>5. \A c \in Clients : handle'[c] # spare'
      BY <2>1, <2>3, <3>2 DEF Carried
    <3> QED BY <2>1, <3>1, <3>2, <3>3, <3>4, <3>5 DEF OwnInv
  <2> QED BY <1>2, <2>2, <2>3 DEF ProducerCreate
<1>3. CASE ProducerPush
  <2>1. spare' = NoConn /\ UNCHANGED handle
    BY <1>3 DEF ProducerPush
  <2>2. \A j \in Conns : Carried(j)' <=> Carried(j) /\ j # spare
    BY <2>1, NoConnAssumption DEF Carried, OwnInv
  <2>3. /\ Distinct'
        /\ \A j \in Conns : ~(Queued(j)' /\ Carried(j)')
        /\ \A j \in Conns : link'[j] # "none" <=> Queued(j)' \/ Carried(j)'
    <3>1. CASE PushesSpare
      <4>1. spare \in Conns /\ ~Queued(spare) /\ Carried(spare)
        BY <3>1 DEF PushesSpare, TypeInv, TypeOK, OwnInv, Carried
      <4>2. available' = Append(available, spare) /\ link' = link
        BY <1>3, <3>1 DEF ProducerPush
      <4>3. Distinct' /\ \A j \in Conns : Queued(j)' <=> Queued(j) \/ j = spare
        BY <4>1, <4>2, PushQueued DEF OwnInv, TypeInv, TypeOK
      <4> QED BY <2>2, <4>1, <4>2, <4>3 DEF OwnInv
    <3>2. CASE ~PushesSpare
      <4>1. Distinct' /\ \A j \in Conns : Queued(j)' <=> Queued(j)
        BY <1>3, <3>2 DEF ProducerPush, OwnInv, Distinct, Queued
      <4>2. \A j \in Conns : link'[j] # "none" <=> link[j] # "none" /\ j # spare
        BY <1>3, <3>2 DEF ProducerPush, Delete
      <4> QED BY <2>2, <4>1, <4>2 DEF OwnInv, Carried
    <3> QED BY <3>1, <3>2
  <2> QED BY <2>1, <2>3 DEF OwnInv
<1> QED BY <1>1, <1>2, <1>3 DEF ProducerThread

\* The sweeper deletes what it pops and nothing else.
LEMMA SweeperOwn ==
  ASSUME TypeInv, OwnInv, SweeperThread
  PROVE  OwnInv'
<1> USE DEF poolVars, statVars, clientVars, threadVars
<1>1. CASE SweeperTest \/ SweeperSleep \/ (SweeperLock /\ shutdown)
  BY <1>1, SameOwn DEF SweeperTest, SweeperSleep, SweeperLock
<1>2. CASE SweeperLock /\ ~shutdown
  <2>1. PICK n \in 0..Len(available) :
          /\ available' = SubSeq(available, n + 1, Len(available))
          /\ Delete({available[i] : i \in 1..n})
    BY <1>2 DEF SweeperLock
  <2>2. /\ Distinct'
        /\ \A j \in Conns : Queued(j)' <=> Queued(j) /\ j \notin {available[i] : i \in 1..n}
    <3>1. available \in Seq(Conns)
      BY DEF TypeInv, TypeOK
    <3>2. /\ Len(available') = Len(available) - n
          /\ \A i \in 1..Len(available) - n : available'[i] = available[i + n]
      BY <2>1, <3>1, PopElements
    <3> QED BY <3>1, <3>2, PopQueued DEF OwnInv
  <2>3. \A j \in Conns : link'[j] # "none" <=> link[j] # "none" /\ j \notin {available[i] : i \in 1..n}
    BY <2>1 DEF Delete
  <2>4. \A i \in 1..n : available[i] \in Conns /\ Queued(available[i])
    BY <2>1 DEF TypeInv, TypeOK, Queued
  <2>5. UNCHANGED <<handle, spare, producer>> /\ \A j \in Conns : Carried(j)' <=> Carried(j)
    BY <1>2 DEF SweeperLock, Carried
  <2> QED BY <2>2, <2>3, <2>4, <2>5 DEF OwnInv
<1> QED BY <1>1, <1>2 DEF SweeperThread

\* The constructor queues what it opens; a failed constructor and the
\* destructor delete the queue.
LEMMA MainOwn ==
  ASSUME TypeInv, LifeInv, OwnInv, MainThread
  PROVE  OwnInv'
<1> USE DEF poolVars, statVars, clientVars, threadVars
<1>1. CASE InitialConnection
  <2>1. PICK k \in Conns : CreateAndDelete(k, {}) /\ available' = Append(available, k)
    BY <1>1 DEF InitialConnection
  <2>2. link[k] = "none" /\ \A j \in Conns : link'[j] # "none" <=> j = k \/ link[j] # "none"
    BY <2>1 DEF CreateAndDelete, Fresh
  <2>3. ~Queued(k) /\ ~Carried(k)
    BY <2>2 DEF OwnInv
  <2>4. Distinct' /\ \A j \in Conns : Queued(j)' <=> Queued(j) \/ j = k
    BY <2>1, <2>3, PushQueued DEF OwnInv, TypeInv, TypeOK
  <2>5. UNCHANGED <<handle, spare, producer>> /\ \A j \in Conns : Carried(j)' <=> Carried(j)
    BY <1>1 DEF InitialConnection, Carried
  <2> QED BY <2>2, <2>3, <2>4, <2>5 DEF OwnInv
<1>2. ASSUME available' = <<>>, Delete(Range(available)), UNCHANGED <<handle, spare, producer>>
      PROVE  OwnInv'
  <2>1. Distinct' /\ \A j \in Conns : ~Queued(j)'
    BY <1>2 DEF Distinct, Queued
  <2>2. \A j \in Conns : j \in Range(available) <=> Queued(j)
    BY DEF Range, Queued, TypeInv, TypeOK
  <2>3. \A j \in Conns : link'[j] # "none" <=> link[j] # "none" /\ ~Queued(j)
    BY <1>2, <2>2 DEF Delete
  <2>4. \A j \in Conns : Carried(j)' <=> Carried(j)
    BY <1>2 DEF Carried
  <2> QED BY <1>2, <2>1, <2>3, <2>4 DEF OwnInv
<1>3. CASE InitializeThrows \/ Clear
  BY <1>2, <1>3 DEF InitializeThrows, Clear
<1>4. CASE StartThreads
  <2>1. spare = NoConn
    BY <1>4 DEF StartThreads, OwnInv, LifeInv
  <2> QED BY <1>4, <2>1, SameOwn DEF StartThreads
<1>5. CASE Shutdown \/ JoinProducer \/ JoinSweeper
  BY <1>5, SameOwn DEF Shutdown, JoinProducer, JoinSweeper
<1>6. CASE NotifyAll
  BY <1>6, SameOwn DEF NotifyAll, OwnInv
<1> QED BY <1>1, <1>3, <1>4, <1>5, <1>6 DEF MainThread, Construct, Destruct

\* The environment owns nothing.
LEMMA EnvironmentOwn ==
  ASSUME TypeInv, OwnInv, Environment
  PROVE  OwnInv'
<1> USE DEF poolVars, statVars, clientVars, threadVars
<1>1. ASSUME NEW k \in Conns, LoseLink(k) PROVE OwnInv'
  BY <1>1, SameOwn DEF LoseLink, TypeInv, TypeOK
<1>2. ASSUME NEW c \in Clients, DeadlinePasses(c) \/ TimedWake(c) \/ SpuriousWake(c) PROVE OwnInv'
  BY <1>2, SameOwn DEF DeadlinePasses, TimedWake, SpuriousWake
<1>3. CASE SpuriousProducerWake
  BY <1>3, SameOwn DEF SpuriousProducerWake, OwnInv
<1> QED BY <1>1, <1>2, <1>3 DEF Environment

\* No thread has a connection at the start.
LEMMA InitOwn == Init => OwnInv
<1> SUFFICES ASSUME Init PROVE OwnInv
  OBVIOUS
<1>1. Len(available) = 0 /\ spare = NoConn /\ \A c \in Clients : handle[c] = NoConn
  BY DEF Init
<1>2. \A k \in Conns : link[k] = "none" /\ ~Queued(k) /\ ~Carried(k)
  BY <1>1, NoConnAssumption DEF Init, Queued, Carried
<1> QED BY <1>1, <1>2 DEF OwnInv, Distinct

\* The ownership invariant is inductive, given the types and the life cycle.
LEMMA OwnInvStep == TypeInv /\ LifeInv /\ OwnInv /\ [Next]_vars => OwnInv'
<1> SUFFICES ASSUME TypeInv, LifeInv, OwnInv, [Next]_vars PROVE OwnInv'
  OBVIOUS
<1>1. CASE UNCHANGED vars
  BY <1>1, SameOwn DEF vars, poolVars, clientVars, threadVars
<1>2. CASE Next
  BY <1>2, ClientOwn, ProducerOwn, SweeperOwn, MainOwn, EnvironmentOwn DEF Next
<1> QED BY <1>1, <1>2

\* What the queue, the clients and the producer own, in terms of the sets
\* the properties use.
LEMMA OwnersAsSets ==
  ASSUME TypeInv, NEW k \in Conns
  PROVE  /\ k \in Range(available) <=> Queued(k)
         /\ k \in Range(handle) <=> \E c \in Clients : handle[c] = k
BY DEF Range, Queued, TypeInv, TypeOK

\* A Connection is in the queue, with one client or with the producer, and
\* in one of these places only: no two threads ever share one.
THEOREM OneOwner == Spec => []ExclusiveOwnership
<1>1. ASSUME TypeInv, OwnInv PROVE ExclusiveOwnership
  <2>1. IsInjective(available)
    BY <1>1 DEF OwnInv, Distinct, IsInjective, TypeInv, TypeOK
  <2>2. ASSUME NEW c \in Clients, handle[c] # NoConn
        PROVE  /\ handle[c] \notin Range(available)
               /\ \A d \in Clients : handle[d] = handle[c] => d = c
    <3>1. handle[c] \in Conns /\ Carried(handle[c])
      BY <1>1, <2>2 DEF TypeInv, TypeOK, Carried
    <3> QED BY <1>1, <2>2, <3>1, OwnersAsSets DEF OwnInv
  <2>3. ASSUME spare # NoConn PROVE spare \notin Range(available) \cup Range(handle)
    <3>1. spare \in Conns /\ Carried(spare)
      BY <1>1, <2>3 DEF TypeInv, TypeOK, Carried
    <3> QED BY <1>1, <2>3, <3>1, OwnersAsSets DEF OwnInv
  <2> QED BY <2>1, <2>2, <2>3 DEF ExclusiveOwnership
<1> QED BY <1>1, InitOwn, OwnInvStep, TypeCorrect, LifeCycle, PTL DEF Spec

\* Connection objects exist exactly while somebody owns them: whatever path a
\* request, a sweep or the shutdown takes, none is leaked and none dangles.
THEOREM OwnedExactlyWhileAlive == Spec => []NoLeakNoDangling
<1>1. ASSUME TypeInv, OwnInv PROVE NoLeakNoDangling
  BY <1>1, OwnersAsSets DEF OwnInv, Carried, NoLeakNoDangling
<1> QED BY <1>1, InitOwn, OwnInvStep, TypeCorrect, LifeCycle, PTL DEF Spec
=============================================================================
