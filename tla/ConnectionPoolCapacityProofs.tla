---------------------- MODULE ConnectionPoolCapacityProofs ----------------------
(* What _activeConnections counts and how far the pool may exceed maxSize.     *)
EXTENDS ConnectionPoolProofs

Replacers == At("reconnecting")
Making == IF producer = "creating" \/ spare # NoConn THEN 1 ELSE 0

\* ActiveCountsLeases and CapacityBound together.  The bound needs to know
\* that the leases are counted: a lease that ends must make room.
CapInv ==
  /\ active \in Nat
  /\ ActiveCountsLeases
  /\ CapacityBound

\* The clients at a place are finitely many.
LEMMA AtFinite ==
  ASSUME NEW w
  PROVE  IsFiniteSet(At(w)) /\ Cardinality(At(w)) \in Nat
BY ThreadAssumption, FS_Subset, FS_CardinalityType DEF At

\* A client moves from one place to another, and nobody else does but for
\* waiters that are woken.
LEMMA MoveCounts ==
  ASSUME NEW c \in Clients, NEW u \in PCs, NEW w \in PCs \ {"waiting", "woken"},
         TypeInv, pc[c] = u, pc'[c] = w, u # w,
         \A d \in Clients \ {c} : pc'[d] = pc[d] \/ (pc[d] = "waiting" /\ pc'[d] = "woken")
  PROVE  /\ Cardinality(At(w)') = Cardinality(At(w)) + 1
         /\ u \notin {"waiting", "woken"} => Cardinality(At(u)') = Cardinality(At(u)) - 1
         /\ \A v \in PCs \ {"waiting", "woken", u, w} : At(v)' = At(v)
<1>1. At(w)' = At(w) \cup {c} /\ c \notin At(w)
  BY DEF At
<1>2. Cardinality(At(w)') = Cardinality(At(w)) + 1
  <2>1. IsFiniteSet(At(w))
    BY AtFinite
  <2> QED BY <1>1, <2>1, FS_AddElement
<1>3. ASSUME u \notin {"waiting", "woken"}
      PROVE  Cardinality(At(u)') = Cardinality(At(u)) - 1
  <2>1. At(u)' = At(u) \ {c} /\ c \in At(u)
    BY <1>3 DEF At
  <2> QED BY <2>1, AtFinite, FS_RemoveElement
<1>4. ASSUME NEW v \in PCs \ {"waiting", "woken", u, w} PROVE At(v)' = At(v)
  BY DEF At
<1> QED BY <1>2, <1>3, <1>4

\* Nobody starts or ends a lease or a replacement when the others at most
\* enter, wait, wake up or leave.
LEMMA StayCounts ==
  ASSUME \A d \in Clients : \/ pc'[d] = pc[d]
                            \/ {pc[d], pc'[d]} \cap {"holding", "reconnecting"} = {}
  PROVE  Holders' = Holders /\ Replacers' = Replacers
BY DEF Holders, Replacers, At

\* The numbers are numbers, before a step ...
LEMMA CountTypes ==
  ASSUME TypeInv
  PROVE  /\ Len(available) \in Nat
         /\ Cardinality(Holders) \in Nat /\ Cardinality(Replacers) \in Nat
         /\ Making \in {0, 1}
         /\ InProgress = Making + Cardinality(Replacers)
BY AtFinite DEF TypeInv, TypeOK, Holders, Replacers, Making, InProgress

\* ... and after it.
LEMMA CountTypesAfter ==
  ASSUME TypeInv'
  PROVE  /\ Len(available') \in Nat
         /\ Cardinality(Replacers') \in Nat
         /\ Making' \in {0, 1}
         /\ InProgress' = Making' + Cardinality(Replacers')
<1>1. Cardinality(Replacers') \in Nat
  <2>1. Replacers' \in SUBSET Clients
    BY DEF Replacers, At
  <2> QED BY <2>1, ThreadAssumption, FS_Subset, FS_CardinalityType
<1>2. Len(available') \in Nat
  BY DEF TypeInv, TypeOK
<1>3. Making' \in {0, 1}
  BY DEF Making
<1>4. InProgress' = Making' + Cardinality(Replacers')
  BY <1>1 DEF Making, InProgress, Replacers
<1> QED BY <1>1, <1>2, <1>3, <1>4

\* A step adds no connection to those that exist or are being made.
NoMore ==
  Len(available') + active' + Making' + Cardinality(Replacers')
    <= Len(available) + active + Making + Cardinality(Replacers)

\* The arithmetic of a step that moves connections around and adds none.
LEMMA NoneAdded ==
  /\ TypeInv /\ CapInv /\ TypeInv' /\ UNCHANGED shutdown
  /\ active' \in Nat /\ Cardinality(Holders') <= active'
  /\ ~shutdown => active' = Cardinality(Holders')
  /\ NoMore
  => CapInv'
<1> DEFINE old == Len(available) + active + InProgress
           new == Len(available') + active' + InProgress'
<1>1. SUFFICES ASSUME TypeInv, CapInv, TypeInv', UNCHANGED shutdown,
                      active' \in Nat, Cardinality(Holders') <= active',
                      ~shutdown => active' = Cardinality(Holders'),
                      NoMore
               PROVE  CapInv'
  OBVIOUS
<1>2. /\ Len(available) \in Nat /\ Making \in Nat /\ Cardinality(Replacers) \in Nat
      /\ InProgress = Making + Cardinality(Replacers)
      /\ active \in Nat
  BY <1>1, CountTypes DEF CapInv
<1>3. /\ Len(available') \in Nat /\ Making' \in Nat /\ Cardinality(Replacers') \in Nat
      /\ InProgress' = Making' + Cardinality(Replacers')
      /\ active' \in Nat
  BY <1>1, CountTypesAfter
<1>4. old \in Nat
  BY <1>2
<1>5. new \in Nat
  BY <1>3
<1>6. new <= old
  BY <1>1, <1>2, <1>3 DEF NoMore
<1>7. old <= MaxSize + 1
  BY <1>1 DEF CapInv, CapacityBound
<1>8. new <= MaxSize + 1
  <2> HIDE DEF old, new
  <2> QED BY <1>4, <1>5, <1>6, <1>7, SizeAssumption
<1>9. ActiveCountsLeases'
  BY <1>1 DEF ActiveCountsLeases
<1> QED BY <1>1, <1>8, <1>9 DEF CapInv, CapacityBound

\* A step that leaves the queue, the leases and the replacements alone.
LEMMA QuietCap ==
  ASSUME TypeInv, CapInv, TypeInv', UNCHANGED <<available, active, shutdown>>,
         Holders' = Holders, Replacers' = Replacers,
         Making' = Making \/ Making' = 0
  PROVE  CapInv' /\ NoMore
<1>1. /\ Len(available) \in Nat /\ Making \in Nat /\ Cardinality(Replacers) \in Nat /\ active \in Nat
  BY CountTypes DEF CapInv
<1>2. NoMore
  BY <1>1 DEF NoMore
<1>3. active' \in Nat /\ Cardinality(Holders') <= active'
      /\ (~shutdown => active' = Cardinality(Holders'))
  BY <1>1 DEF CapInv, ActiveCountsLeases
<1> QED BY <1>2, <1>3, NoneAdded

-----------------------------------------------------------------------------
\* A request that takes the front of the queue: a lease starts ...
LEMMA TakeConnectedCap ==
  ASSUME NEW c \in Clients, TypeInv, CapInv, TypeInv', pc[c] \in {"lock", "woken"},
         TakeConnected(c), UNCHANGED threadVars
  PROVE  CapInv' /\ NoMore
<1>1. /\ Cardinality(Holders') = Cardinality(Holders) + 1
      /\ Replacers' = Replacers
  <2>1. pc' = [pc EXCEPT ![c] = "holding"] /\ pc \in [Clients -> PCs]
    BY DEF TakeConnected, Lend, TypeInv, TypeOK, PCs
  <2> QED BY <2>1, MoveCounts DEF Holders, Replacers, PCs
<1>2. Len(available') = Len(available) - 1 /\ active' = active + 1 /\ Making' = Making
  BY TailIsPop DEF TakeConnected, AfterPop, Lend, TypeInv, TypeOK, Making, threadVars
<1>3. /\ Len(available) \in Nat /\ Making \in Nat /\ Cardinality(Replacers) \in Nat
      /\ active \in Nat /\ Cardinality(Holders) \in Nat
  BY CountTypes DEF CapInv
<1>4. NoMore
  BY <1>1, <1>2, <1>3 DEF NoMore
<1>5. active' \in Nat /\ Cardinality(Holders') <= active'
      /\ (~shutdown => active' = Cardinality(Holders'))
  BY <1>1, <1>2, <1>3 DEF CapInv, ActiveCountsLeases
<1>6. UNCHANGED shutdown
  BY DEF TakeConnected
<1> QED BY <1>4, <1>5, <1>6, NoneAdded

\* ... or a replacement.
LEMMA TakeDeadCap ==
  ASSUME NEW c \in Clients, TypeInv, CapInv, TypeInv', pc[c] \in {"lock", "woken"},
         TakeDead(c), UNCHANGED threadVars
  PROVE  CapInv' /\ NoMore
<1>1. /\ Cardinality(Replacers') = Cardinality(Replacers) + 1
      /\ Holders' = Holders
  <2>1. pc' = [pc EXCEPT ![c] = "reconnecting"] /\ pc \in [Clients -> PCs]
    BY DEF TakeDead, TypeInv, TypeOK, PCs
  <2> QED BY <2>1, MoveCounts DEF Holders, Replacers, PCs
<1>2. Len(available') = Len(available) - 1 /\ active' = active /\ Making' = Making
  BY TailIsPop DEF TakeDead, AfterPop, TypeInv, TypeOK, Making, threadVars
<1>3. /\ Len(available) \in Nat /\ Making \in Nat /\ Cardinality(Replacers) \in Nat
      /\ active \in Nat
  BY CountTypes DEF CapInv
<1>4. NoMore
  BY <1>1, <1>2, <1>3 DEF NoMore
<1>5. active' \in Nat /\ Cardinality(Holders') <= active'
      /\ (~shutdown => active' = Cardinality(Holders'))
  BY <1>1, <1>2, <1>3 DEF CapInv, ActiveCountsLeases
<1>6. UNCHANGED shutdown
  BY DEF TakeDead
<1> QED BY <1>4, <1>5, <1>6, NoneAdded

\* A replacement ends in a lease or in nothing.
LEMMA ReconnectCap ==
  ASSUME NEW c \in Clients, TypeInv, CapInv, TypeInv', Reconnected(c) \/ ReconnectFailed(c)
  PROVE  CapInv' /\ NoMore
<1> USE DEF poolVars, threadVars
<1>1. /\ Len(available) \in Nat /\ Making \in Nat /\ Cardinality(Replacers) \in Nat
      /\ active \in Nat /\ Cardinality(Holders) \in Nat
  BY CountTypes DEF CapInv
<1>2. UNCHANGED <<available, shutdown>> /\ Making' = Making
  BY DEF Reconnected, ReconnectFailed, Making
<1>3. pc \in [Clients -> PCs] /\ pc[c] = "reconnecting"
  BY DEF TypeInv, TypeOK, PCs, Reconnected, ReconnectFailed
<1>4. CASE Reconnected(c)
  <2>1. pc' = [pc EXCEPT ![c] = "holding"] /\ active' = active + 1
    BY <1>4 DEF Reconnected, Lend
  <2>2. /\ Cardinality(Holders') = Cardinality(Holders) + 1
        /\ Cardinality(Replacers') = Cardinality(Replacers) - 1
    BY <1>3, <2>1, MoveCounts DEF Holders, Replacers, PCs
  <2>3. NoMore
    BY <1>1, <1>2, <2>1, <2>2 DEF NoMore
  <2>4. active' \in Nat /\ Cardinality(Holders') <= active'
        /\ (~shutdown => active' = Cardinality(Holders'))
    BY <1>1, <2>1, <2>2 DEF CapInv, ActiveCountsLeases
  <2> QED BY <1>2, <2>3, <2>4, NoneAdded
<1>5. CASE ReconnectFailed(c)
  <2>1. pc' = [pc EXCEPT ![c] = "idle"] /\ active' = active
    BY <1>5 DEF ReconnectFailed
  <2>2. Holders' = Holders /\ Cardinality(Replacers') = Cardinality(Replacers) - 1
    BY <1>3, <2>1, MoveCounts DEF Holders, Replacers, PCs
  <2>3. NoMore
    BY <1>1, <1>2, <2>1, <2>2 DEF NoMore
  <2>4. active' \in Nat /\ Cardinality(Holders') <= active'
        /\ (~shutdown => active' = Cardinality(Holders'))
    BY <1>1, <2>1, <2>2 DEF CapInv, ActiveCountsLeases
  <2> QED BY <1>2, <2>3, <2>4, NoneAdded
<1> QED BY <1>4, <1>5

\* The deleter: the lease ends, and the counter follows unless the pool is
\* being shut down.
LEMMA ReturnCap ==
  ASSUME NEW c \in Clients, TypeInv, CapInv, TypeInv', ReturnConnection(c)
  PROVE  CapInv' /\ NoMore
<1> DEFINE p == [pc EXCEPT ![c] = "idle"]
<1> USE DEF threadVars
<1>1. /\ Len(available) \in Nat /\ Making \in Nat /\ Cardinality(Replacers) \in Nat
      /\ active \in Nat /\ Cardinality(Holders) \in Nat
  BY CountTypes DEF CapInv
<1>2. UNCHANGED shutdown /\ Making' = Making
  BY DEF ReturnConnection, Making
<1>3. pc[c] = "holding" /\ p \in [Clients -> PCs] /\ handle[c] \in Conns
  BY DEF ReturnConnection, TypeInv, TypeOK, HandleInv, PCs
<1>4. ASSUME /\ pc' \in [Clients -> PCs]
             /\ \A d \in Clients : pc'[d] = p[d] \/ (p[d] = "waiting" /\ pc'[d] = "woken")
      PROVE  Cardinality(Holders') = Cardinality(Holders) - 1 /\ Replacers' = Replacers
  <2>1. pc'[c] = "idle" /\ \A d \in Clients \ {c} : pc'[d] = pc[d] \/ (pc[d] = "waiting" /\ pc'[d] = "woken")
    BY <1>3, <1>4 DEF TypeInv, TypeOK
  <2> QED BY <1>3, <2>1, MoveCounts DEF Holders, Replacers, PCs
<1>5. CASE Reusable
  <2>1. pc' \in NotifyOne(p) /\ active' = active - 1 /\ available' = Append(available, handle[c])
    BY <1>5 DEF ReturnConnection
  <2>2. Cardinality(Holders') = Cardinality(Holders) - 1 /\ Replacers' = Replacers
    BY <1>3, <1>4, <2>1, NotifyOneEffect
  <2>3. Len(available') = Len(available) + 1
    BY <1>3, <2>1, PushElements DEF TypeInv, TypeOK
  <2>4. NoMore
    BY <1>1, <1>2, <2>1, <2>2, <2>3 DEF NoMore
  <2>5. Cardinality(Holders') \in Nat
    <3>1. Holders' \in SUBSET Clients
      BY DEF Holders, At
    <3> QED BY <3>1, ThreadAssumption, FS_Subset, FS_CardinalityType
  <2>6. active' \in Nat /\ Cardinality(Holders') <= active'
        /\ (~shutdown => active' = Cardinality(Holders'))
    BY <1>1, <2>1, <2>2, <2>5 DEF CapInv, ActiveCountsLeases
  <2> QED BY <1>2, <2>4, <2>6, NoneAdded
<1>6. CASE ~Reusable
  <2>1. pc' = p /\ UNCHANGED <<available, active>> /\ shutdown
    BY <1>6 DEF ReturnConnection, Reusable
  <2>2. Cardinality(Holders') = Cardinality(Holders) - 1 /\ Replacers' = Replacers
    BY <1>3, <1>4, <2>1
  <2>3. NoMore
    BY <1>1, <1>2, <2>1, <2>2 DEF NoMore
  <2>4. active' \in Nat /\ Cardinality(Holders') <= active'
    BY <1>1, <2>1, <2>2 DEF CapInv, ActiveCountsLeases
  <2> QED BY <1>2, <2>1, <2>3, <2>4, NoneAdded
<1> QED BY <1>5, <1>6

\* Every step of a client keeps the counts and the bound.
LEMMA ClientCap ==
  ASSUME NEW c \in Clients, TypeInv, CapInv, TypeInv', Client(c)
  PROVE  CapInv' /\ NoMore
<1> USE DEF poolVars, threadVars
<1>1. ASSUME pc[c] \in {"idle", "lock", "woken"}, UNCHANGED <<poolVars, threadVars>>,
             \E w \in {"idle", "lock", "waiting"} : pc' = [pc EXCEPT ![c] = w]
      PROVE  CapInv' /\ NoMore
  <2>1. Holders' = Holders /\ Replacers' = Replacers
    BY <1>1, StayCounts DEF TypeInv, TypeOK
  <2>2. Making' = Making
    BY <1>1 DEF Making
  <2> QED BY <1>1, <2>1, <2>2, QuietCap
<1>2. CASE GetConnection(c) \/ WakeTooLate(c)
  BY <1>1, <1>2 DEF GetConnection, WakeTooLate, ReturnNull
<1>3. CASE EnterLock(c) \/ WakeInTime(c)
  <2>1. pc[c] \in {"lock", "woken"} /\ Proceed(c) /\ UNCHANGED threadVars
    BY <1>3 DEF EnterLock, WakeInTime
  <2>2. CASE StartWaiting(c) \/ ReturnNull(c)
    BY <1>1, <2>1, <2>2 DEF StartWaiting, ReturnNull
  <2> QED BY <2>1, <2>2, TakeConnectedCap, TakeDeadCap DEF Proceed
<1> QED BY <1>2, <1>3, ReconnectCap, ReturnCap DEF Client

\* The producer: the one step that makes room for a connection on its word
\* that there is some.
LEMMA ProducerLockCap ==
  ASSUME TypeInv, CapInv, TypeInv', ProducerLock
  PROVE  CapInv'
<1> USE DEF poolVars, clientVars
<1>1. Holders' = Holders /\ Replacers' = Replacers /\ UNCHANGED <<available, active, shutdown>>
  BY DEF ProducerLock, Holders, Replacers, At
<1>2. CASE producer' = "creating"
  <2>1. Replacers = {} /\ Len(available) + active <= MaxSize /\ NeedMore
    BY <1>2 DEF ProducerLock, MutexFree, NeedMore, Replacers
  <2>2. Cardinality(Replacers') = 0
    BY <1>1, <2>1, FS_EmptySet
  <2>3. Making' = 1 /\ InProgress' = 1
    BY <1>2, <2>2 DEF Making, InProgress, Replacers, At
  <2>4. Len(available) \in Nat /\ active \in Nat
    BY CountTypes DEF CapInv
  <2>5. CapacityBound'
    BY <1>1, <2>1, <2>3, <2>4, SizeAssumption DEF CapacityBound
  <2>6. active' \in Nat /\ ActiveCountsLeases'
    BY <1>1 DEF CapInv, ActiveCountsLeases
  <2> QED BY <2>5, <2>6 DEF CapInv
<1>3. CASE producer' # "creating"
  <2>1. Making' = Making
    BY <1>3 DEF ProducerLock, Making
  <2> QED BY <1>1, <2>1, QuietCap
<1> QED BY <1>2, <1>3

\* Every step of the producer keeps the counts and the bound.
LEMMA ProducerCap ==
  ASSUME TypeInv, OwnInv, CapInv, TypeInv', ProducerThread
  PROVE  CapInv'
<1> USE DEF poolVars, clientVars
<1>1. CASE ProducerTest
  <2>1. Holders' = Holders /\ Replacers' = Replacers
    BY <1>1 DEF ProducerTest, Holders, Replacers, At
  <2>2. Making' = Making \/ Making' = 0
    BY <1>1 DEF ProducerTest, Making
  <2> QED BY <1>1, <2>1, <2>2, QuietCap DEF ProducerTest
<1>2. CASE ProducerCreate
  <2>1. Holders' = Holders /\ Replacers' = Replacers
    BY <1>2 DEF ProducerCreate, Holders, Replacers, At
  <2>2. Making' = Making \/ Making' = 0
    BY <1>2 DEF ProducerCreate, Making
  <2> QED BY <1>2, <2>1, <2>2, QuietCap DEF ProducerCreate
<1>3. CASE ProducerPush
  <2>1. Making' = 0
    BY <1>3 DEF ProducerPush, Making
  <2>2. UNCHANGED <<active, shutdown>>
    BY <1>3 DEF ProducerPush
  <2>3. CASE PushesSpare
    <3>1. /\ pc' \in [Clients -> PCs]
          /\ \A d \in Clients : pc'[d] = pc[d] \/ (pc[d] = "waiting" /\ pc'[d] = "woken")
      BY <1>3, <2>3, NotifyOneEffect DEF ProducerPush, TypeInv, TypeOK, PCs
    <3>2. Holders' = Holders /\ Replacers' = Replacers
      BY <3>1, StayCounts
    <3>3. spare \in Conns /\ Making = 1
      BY <2>3 DEF PushesSpare, TypeInv, TypeOK, Making
    <3>4. Len(available') = Len(available) + 1
      BY <1>3, <2>3, <3>3, PushElements DEF ProducerPush, TypeInv, TypeOK
    <3>5. /\ Len(available) \in Nat /\ Cardinality(Replacers) \in Nat
          /\ active \in Nat
      BY CountTypes DEF CapInv
    <3>6. NoMore
      BY <2>1, <2>2, <3>2, <3>3, <3>4, <3>5 DEF NoMore
    <3>7. active' \in Nat /\ Cardinality(Holders') <= active'
          /\ (~shutdown => active' = Cardinality(Holders'))
      BY <2>2, <3>2 DEF CapInv, ActiveCountsLeases
    <3> QED BY <2>2, <3>6, <3>7, NoneAdded
  <2>4. CASE ~PushesSpare
    <3>1. UNCHANGED <<available, pc>>
      BY <1>3, <2>4 DEF ProducerPush
    <3>2. Holders' = Holders /\ Replacers' = Replacers
      BY <3>1 DEF Holders, Replacers, At
    <3> QED BY <2>1, <2>2, <3>1, <3>2, QuietCap
  <2> QED BY <2>3, <2>4
<1> QED BY <1>1, <1>2, <1>3, ProducerLockCap DEF ProducerThread

\* Fewer connections in the queue, and nothing else of interest.
LEMMA ShrinkCap ==
  ASSUME TypeInv, CapInv, TypeInv', UNCHANGED <<active, shutdown, pc>>,
         Making' = Making, Len(available') <= Len(available)
  PROVE  CapInv' /\ NoMore
<1>1. Holders' = Holders /\ Replacers' = Replacers
  BY DEF Holders, Replacers, At
<1>2. /\ Len(available) \in Nat /\ Making \in Nat /\ Cardinality(Replacers) \in Nat
      /\ active \in Nat
  BY CountTypes DEF CapInv
<1>3. Len(available') \in Nat
  BY CountTypesAfter
<1>4. NoMore
  BY <1>1, <1>2, <1>3 DEF NoMore
<1>5. active' \in Nat /\ Cardinality(Holders') <= active'
      /\ (~shutdown => active' = Cardinality(Holders'))
  BY <1>1 DEF CapInv, ActiveCountsLeases
<1> QED BY <1>4, <1>5, NoneAdded

\* The sweeper only shrinks the queue.
LEMMA SweeperCap ==
  ASSUME TypeInv, CapInv, TypeInv', SweeperThread
  PROVE  CapInv' /\ NoMore
<1> USE DEF poolVars, clientVars
<1>1. UNCHANGED <<active, shutdown, pc>> /\ Making' = Making
  BY DEF SweeperThread, SweeperTest, SweeperSleep, SweeperLock, Making
<1>2. available \in Seq(Conns) /\ Len(available) \in Nat
  BY DEF TypeInv, TypeOK
<1>3. Len(available') <= Len(available)
  <2>1. CASE available' = available
    BY <1>2, <2>1
  <2>2. ASSUME NEW n \in 0..Len(available), available' = SubSeq(available, n + 1, Len(available))
        PROVE  Len(available') <= Len(available)
    BY <1>2, <2>2, PopElements
  <2> QED BY <2>1, <2>2 DEF SweeperThread, SweeperTest, SweeperSleep, SweeperLock
<1> QED BY <1>1, <1>3, ShrinkCap

\* The constructor fills the queue to minSize, with nobody else there yet.
LEMMA InitialConnectionCap ==
  ASSUME TypeInv, LifeInv, OwnInv, CapInv, TypeInv', InitialConnection
  PROVE  CapInv'
<1> USE DEF clientVars, threadVars
<1>1. /\ main = "initialize" /\ Len(available) < MinSize
      /\ UNCHANGED <<active, shutdown, pc, producer, spare>>
  BY DEF InitialConnection
<1>2. ~shutdown /\ producer = "unborn" /\ spare = NoConn /\ \A c \in Clients : pc[c] = "idle"
  BY <1>1 DEF LifeInv, OwnInv, Ended
<1>3. Holders = {} /\ Holders' = {} /\ Replacers' = {}
  BY <1>1, <1>2 DEF Holders, Replacers, At
<1>4. active = 0
  BY <1>2, <1>3, FS_EmptySet DEF CapInv, ActiveCountsLeases
<1>5. InProgress' = 0
  <2>1. Cardinality(Replacers') = 0 /\ Making' = 0
    BY <1>1, <1>2, <1>3, FS_EmptySet DEF Making
  <2> QED BY <2>1 DEF InProgress, Making, Replacers, At
<1>6. Len(available) \in Nat /\ Len(available') = Len(available) + 1
  BY PushElements DEF InitialConnection, TypeInv, TypeOK
<1>7. CapacityBound'
  BY <1>1, <1>4, <1>5, <1>6, SizeAssumption DEF CapacityBound
<1>8. active' \in Nat /\ ActiveCountsLeases'
  BY <1>1, <1>3, <1>4, FS_EmptySet DEF ActiveCountsLeases
<1> QED BY <1>7, <1>8 DEF CapInv

\* Construction and destruction keep the counts and the bound.
LEMMA MainCap ==
  ASSUME TypeInv, LifeInv, OwnInv, CapInv, TypeInv', MainThread
  PROVE  CapInv' /\ (main # "initialize" => NoMore)
<1> USE DEF poolVars, clientVars
<1>1. CASE InitializeThrows \/ Clear
  <2>1. UNCHANGED <<active, shutdown, pc>> /\ Making' = Making /\ Len(available') = 0
    BY <1>1, EmptySeq DEF InitializeThrows, Clear, Making
  <2>2. Len(available') <= Len(available)
    BY <2>1 DEF TypeInv, TypeOK
  <2> QED BY <2>1, <2>2, ShrinkCap
<1>2. CASE StartThreads \/ JoinProducer \/ JoinSweeper
  <2>1. UNCHANGED <<available, active, shutdown, pc>> /\ (Making' = Making \/ Making' = 0)
    BY <1>2 DEF StartThreads, JoinProducer, JoinSweeper, Making
  <2>2. Holders' = Holders /\ Replacers' = Replacers
    BY <2>1 DEF Holders, Replacers, At
  <2> QED BY <2>1, <2>2, QuietCap
<1>3. CASE NotifyAll
  <2>1. UNCHANGED <<available, active, shutdown>> /\ Making' = Making
    BY <1>3 DEF NotifyAll, Making
  <2>2. Holders' = Holders /\ Replacers' = Replacers
    BY <1>3, StayCounts DEF NotifyAll
  <2> QED BY <2>1, <2>2, QuietCap
<1>4. CASE Shutdown
  <2>1. UNCHANGED <<available, active, pc, producer, spare>> /\ shutdown'
    BY <1>4 DEF Shutdown
  <2>2. CapInv'
    BY <2>1 DEF CapInv, ActiveCountsLeases, CapacityBound, InProgress, Holders, At
  <2>3. Len(available) \in Nat /\ Making \in Nat /\ Cardinality(Replacers) \in Nat /\ active \in Nat
    BY CountTypes DEF CapInv
  <2>4. Making' = Making /\ Replacers' = Replacers
    BY <2>1 DEF Making, Replacers, At
  <2> QED BY <2>1, <2>2, <2>3, <2>4 DEF NoMore
<1>5. InitialConnection => main = "initialize"
  BY DEF InitialConnection
<1> QED BY <1>1, <1>2, <1>3, <1>4, <1>5, InitialConnectionCap DEF MainThread, Construct, Destruct

\* What happens around the pool changes no count.
LEMMA EnvironmentCap ==
  ASSUME TypeInv, CapInv, TypeInv', Environment
  PROVE  CapInv' /\ NoMore
<1> USE DEF poolVars, clientVars, threadVars
<1>1. UNCHANGED <<available, active, shutdown>> /\ Making' = Making
  BY DEF Environment, LoseLink, DeadlinePasses, TimedWake, SpuriousWake,
         SpuriousProducerWake, Making
<1>2. \A d \in Clients : pc'[d] = pc[d] \/ (pc[d] = "waiting" /\ pc'[d] = "woken")
  BY DEF Environment, LoseLink, DeadlinePasses, TimedWake, SpuriousWake,
         SpuriousProducerWake, TypeInv, TypeOK
<1>3. Holders' = Holders /\ Replacers' = Replacers
  BY <1>2, StayCounts
<1> QED BY <1>1, <1>3, QuietCap

-----------------------------------------------------------------------------
\* An empty pool is within every bound.
LEMMA InitCap == Init => CapInv
<1> SUFFICES ASSUME Init PROVE CapInv
  OBVIOUS
<1>1. Len(available) = 0 /\ active = 0 /\ Holders = {} /\ Replacers = {}
  BY EmptySeq DEF Init, Holders, Replacers, At
<1>2. InProgress = 0
  BY <1>1, FS_EmptySet DEF Init, InProgress, Replacers
<1> QED BY <1>1, <1>2, FS_EmptySet, SizeAssumption DEF CapInv, ActiveCountsLeases, CapacityBound

\* The counts and the bound are inductive, given types, life cycle and owners.
LEMMA CapInvStep ==
  TypeInv /\ LifeInv /\ OwnInv /\ CapInv /\ [Next]_vars => CapInv'
<1> SUFFICES ASSUME TypeInv, LifeInv, OwnInv, CapInv, [Next]_vars PROVE CapInv'
  OBVIOUS
<1>1. TypeInv'
  BY TypeInvStep
<1>2. CASE UNCHANGED vars
  <2>1. UNCHANGED <<available, active, shutdown, pc, producer, spare>>
    BY <1>2 DEF vars, poolVars, clientVars, threadVars
  <2>2. Holders' = Holders /\ Replacers' = Replacers /\ Making' = Making
    BY <2>1 DEF Holders, Replacers, At, Making
  <2> QED BY <1>1, <2>1, <2>2, QuietCap
<1>3. CASE Next
  BY <1>1, <1>3, ClientCap, ProducerCap, SweeperCap, MainCap, EnvironmentCap DEF Next
<1> QED BY <1>2, <1>3

\* CapInv holds in every reachable state.
LEMMA CapCorrect == Spec => []CapInv
BY InitCap, CapInvStep, InitOwn, OwnInvStep, TypeCorrect, LifeCycle, PTL DEF Spec

\* _activeConnections is the number of leases while the pool is open, and not
\* less after shutdown(), for every number of clients.
THEOREM LeasesAreCounted == Spec => []ActiveCountsLeases
<1>1. CapInv => ActiveCountsLeases
  BY DEF CapInv
<1> QED BY <1>1, CapCorrect, PTL

\* The producer tests, unlocks, opens and pushes without a second test, and
\* requests replace dead connections meanwhile: the pool exceeds maxSize by
\* one connection at most, for every minSize, maxSize and number of clients.
THEOREM AtMostOneTooMany == Spec => []CapacityBound
<1>1. CapInv => CapacityBound
  BY DEF CapInv
<1> QED BY <1>1, CapCorrect, PTL

-----------------------------------------------------------------------------
(* Why the pool does not refill: nobody notifies _notFull.                     *)

\* The connections that exist or are being made, as CapacityBound counts them.
Stock == Len(available) + active + InProgress

\* A producer that waits goes on waiting, and meanwhile the stock does not grow.
Unattended ==
  producer = "waiting" =>
    /\ producer' = "waiting" \/ SpuriousProducerWake \/ NotifyAll
    /\ Stock' <= Stock

\* Nobody but the producer adds a connection: not a request, which replaces
\* one at most, and not the constructor, which has returned by then.
LEMMA UnattendedStep ==
  TypeInv /\ LifeInv /\ OwnInv /\ CapInv /\ [Next]_vars => [Unattended]_vars
<1> SUFFICES ASSUME TypeInv, LifeInv, OwnInv, CapInv, Next, producer = "waiting"
             PROVE  Unattended
  BY DEF Unattended
<1> USE DEF poolVars, clientVars, threadVars
<1>1. TypeInv'
  BY TypeInvStep
<1>2. main # "initialize" /\ ~ProducerThread
  BY DEF LifeInv, ProducerThread, ProducerTest, ProducerLock, ProducerCreate, ProducerPush
<1>3. NoMore
  BY <1>1, <1>2, ClientCap, SweeperCap, MainCap, EnvironmentCap DEF Next
<1>4. Stock' <= Stock
  <2>1. Stock = Len(available) + active + Making + Cardinality(Replacers)
    BY CountTypes DEF Stock, CapInv
  <2>2. active' \in Nat
    BY CapInvStep DEF CapInv
  <2>3. Stock' = Len(available') + active' + Making' + Cardinality(Replacers')
    BY <1>1, <2>2, CountTypesAfter DEF Stock
  <2> QED BY <1>3, <2>1, <2>3 DEF NoMore
<1>5. producer' = "waiting" \/ SpuriousProducerWake \/ NotifyAll
  <2>1. ASSUME NEW c \in Clients, Client(c) PROVE producer' = producer
    BY <2>1 DEF Client, GetConnection, EnterLock, WakeInTime, WakeTooLate, Reconnected,
         ReconnectFailed, ReturnConnection
  <2>2. CASE SweeperThread
    BY <2>2 DEF SweeperThread, SweeperTest, SweeperSleep, SweeperLock
  <2>3. CASE MainThread
    BY <1>2, <2>3 DEF MainThread, Construct, InitialConnection, InitializeThrows, StartThreads,
         Shutdown, Destruct, JoinProducer, JoinSweeper, Clear
  <2>4. CASE Environment
    BY <2>4 DEF Environment, LoseLink, DeadlinePasses, TimedWake, SpuriousWake
  <2> QED BY <1>2, <2>1, <2>2, <2>3, <2>4 DEF Next
<1> QED BY <1>4, <1>5 DEF Unattended

\* _notFull is notified by shutdown() only.  Once the producer waits, the pool
\* never has more connections than at that moment, whatever is lost to failed
\* replacements, until shutdown() or a spurious wakeup: for every minSize,
\* maxSize and number of clients.
THEOREM WaitingProducerIsLeftAlone == Spec => [][Unattended]_vars
BY UnattendedStep, InitOwn, OwnInvStep, TypeCorrect, LifeCycle, CapCorrect, PTL DEF Spec

-----------------------------------------------------------------------------
(* What the counters of the requests cover, and that no wakeup is lost but to *)
(* a deadline.                                                                *)

Calls == {c \in Clients : pc[c] # "idle"}
Woken == At("woken")

\* Requests and timeouts are counted as long as their counters do not wrap.
CountInv ==
  MaxRequests <= IntMax =>
    /\ totalRequests \in 0..MaxRequests /\ timeoutCount \in Nat
    /\ timeoutCount + Cardinality(Calls) <= totalRequests

LEMMA CallsFinite == IsFiniteSet(Calls) /\ Cardinality(Calls) \in Nat
BY ThreadAssumption, FS_Subset, FS_CardinalityType DEF Calls

\* A step that starts no call and counts nothing.
LEMMA QuietCount ==
  ASSUME CountInv, UNCHANGED statVars, \A c \in Clients : pc[c] = "idle" => pc'[c] = "idle"
  PROVE  CountInv'
<1>1. Calls' \subseteq Calls
  BY DEF Calls
<1>2. Cardinality(Calls') <= Cardinality(Calls) /\ Cardinality(Calls') \in Nat
  BY <1>1, CallsFinite, FS_Subset, FS_CardinalityType
<1> QED BY <1>2, CallsFinite DEF CountInv, statVars

LEMMA GetConnectionCount ==
  ASSUME NEW c \in Clients, TypeInv, CountInv, GetConnection(c)
  PROVE  CountInv'
<1>1. Calls' = Calls \cup {c} /\ c \notin Calls
  BY DEF GetConnection, Calls, TypeInv, TypeOK
<1>2. Cardinality(Calls') = Cardinality(Calls) + 1
  BY <1>1, CallsFinite, FS_AddElement
<1>3. /\ totalRequests < MaxRequests /\ totalRequests' = Increment(totalRequests)
      /\ timeoutCount' = timeoutCount
  BY DEF GetConnection
<1> QED BY <1>2, <1>3, CallsFinite, CounterAssumption DEF CountInv, Increment

\* A timeout is counted as the call of the same client ends.
LEMMA TimeoutCount ==
  ASSUME NEW c \in Clients, TypeInv, CountInv, WakeTooLate(c)
  PROVE  CountInv'
<1>1. Calls' = Calls \ {c} /\ c \in Calls
  BY DEF WakeTooLate, ReturnNull, Calls, TypeInv, TypeOK
<1>2. Cardinality(Calls') = Cardinality(Calls) - 1 /\ Cardinality(Calls') \in Nat
  BY <1>1, CallsFinite, FS_RemoveElement, FS_CardinalityType
<1>3. totalRequests' = totalRequests /\ timeoutCount' = Increment(timeoutCount)
  BY DEF WakeTooLate
<1> QED BY <1>2, <1>3, CallsFinite, CounterAssumption DEF CountInv, Increment

LEMMA CountStep == TypeInv /\ CountInv /\ [Next]_vars => CountInv'
<1> SUFFICES ASSUME TypeInv, CountInv, [Next]_vars PROVE CountInv'
  OBVIOUS
<1> USE DEF poolVars, clientVars, threadVars
<1>1. CASE UNCHANGED vars
  BY <1>1, QuietCount DEF vars
<1>2. ASSUME NEW c \in Clients, EnterLock(c) \/ WakeInTime(c) \/ Reconnected(c) \/ ReconnectFailed(c)
      PROVE  CountInv'
  BY <1>2, QuietCount DEF EnterLock, WakeInTime, Proceed, StartWaiting, ReturnNull, TakeConnected,
       TakeDead, Lend, Reconnected, ReconnectFailed, TypeInv, TypeOK
<1>3. ASSUME NEW c \in Clients, ReturnConnection(c) PROVE CountInv'
  <2> DEFINE p == [pc EXCEPT ![c] = "idle"]
  <2>1. p \in [Clients -> PCs] /\ \A d \in Clients : pc[d] = "idle" => p[d] = "idle"
    BY DEF TypeInv, TypeOK, PCs
  <2>2. pc' = p \/ pc' \in NotifyOne(p)
    BY <1>3 DEF ReturnConnection
  <2>3. \A d \in Clients : p[d] = "idle" => pc'[d] = "idle"
    <3> HIDE DEF p
    <3> QED BY <2>1, <2>2, NotifyOneEffect
  <2> QED BY <1>3, <2>1, <2>3, QuietCount DEF ReturnConnection
<1>4. CASE ProducerThread
  <2>1. \A d \in Clients : pc[d] = "idle" => pc'[d] = "idle"
    BY <1>4, NotifyOneEffect DEF ProducerThread, ProducerTest, ProducerLock, ProducerCreate,
         ProducerPush, TypeInv, TypeOK, PCs
  <2> QED BY <1>4, <2>1, QuietCount DEF ProducerThread, ProducerTest, ProducerLock, ProducerCreate, ProducerPush
<1>5. CASE SweeperThread
  BY <1>5, QuietCount DEF SweeperThread, SweeperTest, SweeperSleep, SweeperLock
<1>6. CASE MainThread
  BY <1>6, QuietCount DEF MainThread, Construct, Destruct, InitialConnection, InitializeThrows, StartThreads,
       Shutdown, NotifyAll, JoinProducer, JoinSweeper, Clear
<1>7. CASE Environment
  BY <1>7, QuietCount DEF Environment, LoseLink, DeadlinePasses, TimedWake, SpuriousWake,
       SpuriousProducerWake, TypeInv, TypeOK
<1> QED BY <1>1, <1>2, <1>3, <1>4, <1>5, <1>6, <1>7, GetConnectionCount, TimeoutCount DEF Next, Client

LEMMA CountCorrect == Spec => []CountInv
<1>1. Init => CountInv
  <2> SUFFICES ASSUME Init PROVE CountInv
    OBVIOUS
  <2>1. Calls = {}
    BY DEF Init, Calls
  <2> QED BY <2>1, FS_EmptySet, CounterAssumption DEF Init, CountInv
<1> QED BY <1>1, CountStep, TypeCorrect, PTL DEF Spec

\* Every call in progress, every lease and every timeout of /health has a
\* request of its own, for every number of clients, until a counter wraps.
THEOREM EveryCallCounted == Spec => []RequestsCovered
<1>1. CountInv => RequestsCovered
  BY DEF CountInv, RequestsCovered, Calls
<1> QED BY <1>1, CountCorrect, PTL

-----------------------------------------------------------------------------
\* WakeupsLostToDeadlines speaks of numbers.
LEMMA WakeTypes ==
  ASSUME TypeInv, CountInv
  PROVE  /\ Len(available) \in Nat /\ Cardinality(Woken) \in Nat /\ IsFiniteSet(Woken)
         /\ MaxRequests <= IntMax => timeoutCount \in Nat
BY AtFinite DEF TypeInv, TypeOK, Woken, CountInv

LEMMA WakeTypesAfter ==
  ASSUME TypeInv'
  PROVE  Len(available') \in Nat /\ Cardinality(Woken') \in Nat /\ IsFiniteSet(Woken')
<1>1. Woken' \in SUBSET Clients
  BY DEF Woken, At
<1> QED BY <1>1, ThreadAssumption, FS_Subset, FS_CardinalityType DEF TypeInv, TypeOK

\* A step that queues nothing and after which everybody still waits who did,
\* or has been woken.
LEMMA QuietWake ==
  ASSUME TypeInv, CountInv, TypeInv', WakeupsLostToDeadlines, UNCHANGED timeoutCount,
         Waiting' \subseteq Waiting, Woken \subseteq Woken', shutdown => shutdown',
         Len(available') <= Len(available)
  PROVE  WakeupsLostToDeadlines'
<1>1. Cardinality(Woken) <= Cardinality(Woken')
  BY WakeTypesAfter, FS_Subset
<1> QED BY <1>1, WakeTypes, WakeTypesAfter DEF WakeupsLostToDeadlines, Woken

\* A woken client that takes a connection needs one wakeup less.
LEMMA TakeWake ==
  ASSUME NEW c \in Clients, TypeInv, CountInv, TypeInv', WakeupsLostToDeadlines,
         UNCHANGED <<timeoutCount, shutdown>>, pc[c] \in {"lock", "woken"},
         \E w \in {"holding", "reconnecting"} : pc' = [pc EXCEPT ![c] = w],
         available # <<>>, available' = AfterPop
  PROVE  WakeupsLostToDeadlines'
<1>1. Waiting' = Waiting /\ Woken' = Woken \ {c}
  BY DEF Waiting, Woken, At, TypeInv, TypeOK
<1>2. Cardinality(Woken') >= Cardinality(Woken) - 1
  <2>1. CASE c \in Woken
    <3>1. Cardinality(Woken \ {c}) = Cardinality(Woken) - 1
      BY <2>1, WakeTypes, FS_RemoveElement
    <3> QED BY <1>1, <3>1, WakeTypes
  <2>2. CASE c \notin Woken
    <3>1. Woken' = Woken
      BY <1>1, <2>2
    <3> QED BY <3>1, WakeTypes
  <2> QED BY <2>1, <2>2
<1>3. Len(available') = Len(available) - 1
  BY TailIsPop DEF AfterPop, TypeInv, TypeOK
<1> QED BY <1>1, <1>2, <1>3, WakeTypes, WakeTypesAfter DEF WakeupsLostToDeadlines, Woken

\* A connection is queued, and notify_one() wakes a client for it if any waits.
LEMMA PushWake ==
  ASSUME NEW p \in [Clients -> PCs], TypeInv, CountInv, TypeInv', WakeupsLostToDeadlines,
         UNCHANGED <<timeoutCount, shutdown>>, pc' \in NotifyOne(p),
         Len(available') = Len(available) + 1,
         \A d \in Clients : \A w \in {"waiting", "woken"} : p[d] = w <=> pc[d] = w
  PROVE  WakeupsLostToDeadlines'
<1>1. CASE \E d \in Clients : p[d] = "waiting"
  <2>1. PICK d \in Clients : p[d] = "waiting" /\ pc' = [p EXCEPT ![d] = "woken"]
    BY <1>1 DEF NotifyOne
  <2>2. Woken' = Woken \cup {d} /\ d \notin Woken /\ d \in Waiting
    BY <2>1 DEF Woken, Waiting, At
  <2>3. Cardinality(Woken') = Cardinality(Woken) + 1
    BY <2>2, WakeTypes, FS_AddElement
  <2> QED BY <2>2, <2>3, WakeTypes DEF WakeupsLostToDeadlines, Woken
<1>2. CASE \A d \in Clients : p[d] # "waiting"
  <2>1. Waiting' = {}
    BY <1>2 DEF NotifyOne, Waiting, At
  <2> QED BY <2>1 DEF WakeupsLostToDeadlines
<1> QED BY <1>1, <1>2

LEMMA ClientWake ==
  ASSUME NEW c \in Clients, TypeInv, CountInv, TypeInv', CountInv', WakeupsLostToDeadlines, Client(c)
  PROVE  WakeupsLostToDeadlines'
<1> USE DEF poolVars, statVars, threadVars
<1>1. CASE GetConnection(c)
  <2>1. Waiting' \subseteq Waiting /\ Woken \subseteq Woken'
    BY <1>1 DEF GetConnection, Waiting, Woken, At, TypeInv, TypeOK
  <2> QED BY <1>1, <2>1, QuietWake, WakeTypes DEF GetConnection
<1>2. ASSUME pc[c] \in {"lock", "woken"}, Proceed(c), UNCHANGED statVars PROVE WakeupsLostToDeadlines'
  <2>1. CASE StartWaiting(c)
    <3>1. Len(available') = 0
      BY <2>1, EmptySeq DEF StartWaiting
    <3> QED BY <1>2, <3>1, WakeTypes, WakeTypesAfter DEF WakeupsLostToDeadlines, Woken
  <2>2. CASE shutdown /\ ReturnNull(c)
    BY <2>2 DEF ReturnNull, WakeupsLostToDeadlines
  <2>3. CASE TakeConnected(c) \/ TakeDead(c)
    BY <1>2, <2>3, TakeWake DEF TakeConnected, Lend, TakeDead
  <2> QED BY <1>2, <2>1, <2>2, <2>3 DEF Proceed
<1>3. CASE WakeTooLate(c)
  <2>1. Waiting' = Waiting /\ Woken' = Woken \ {c} /\ c \in Woken
    BY <1>3 DEF WakeTooLate, ReturnNull, Waiting, Woken, At, TypeInv, TypeOK
  <2>2. Cardinality(Woken') = Cardinality(Woken) - 1
    BY <2>1, WakeTypes, FS_RemoveElement
  <2>3. MaxRequests <= IntMax => timeoutCount' = timeoutCount + 1
    <3>1. timeoutCount' = Increment(timeoutCount)
      BY <1>3 DEF WakeTooLate
    <3>2. MaxRequests <= IntMax => timeoutCount < IntMax
      <4>1. c \in Calls
        BY <1>3 DEF WakeTooLate, Calls
      <4>2. Cardinality(Calls) >= 1
        BY <4>1, CallsFinite, FS_EmptySet
      <4> QED BY <4>2, CallsFinite, CounterAssumption DEF CountInv
    <3> QED BY <3>1, <3>2, WakeTypes, CounterAssumption DEF Increment
  <2> QED BY <1>3, <2>1, <2>2, <2>3, WakeTypes DEF WakeTooLate, ReturnNull, WakeupsLostToDeadlines, Woken
<1>4. CASE Reconnected(c) \/ ReconnectFailed(c)
  <2>1. Waiting' \subseteq Waiting /\ Woken \subseteq Woken'
    BY <1>4 DEF Reconnected, Lend, ReconnectFailed, Waiting, Woken, At, TypeInv, TypeOK
  <2>2. UNCHANGED <<available, shutdown, timeoutCount>>
    BY <1>4 DEF Reconnected, ReconnectFailed
  <2> QED BY <2>1, <2>2, QuietWake, WakeTypes
<1>5. CASE ReturnConnection(c)
  <2> DEFINE p == [pc EXCEPT ![c] = "idle"]
  <2>1. /\ p \in [Clients -> PCs] /\ handle[c] \in Conns
        /\ \A d \in Clients : \A w \in {"waiting", "woken"} : p[d] = w <=> pc[d] = w
    BY <1>5 DEF ReturnConnection, TypeInv, TypeOK, HandleInv, PCs
  <2>2. CASE Reusable
    <3>1. pc' \in NotifyOne(p) /\ available' = Append(available, handle[c])
      BY <1>5, <2>2 DEF ReturnConnection
    <3>2. Len(available') = Len(available) + 1
      BY <2>1, <3>1, PushElements DEF TypeInv, TypeOK
    <3>3. UNCHANGED <<timeoutCount, shutdown>>
      BY <1>5 DEF ReturnConnection
    <3> HIDE DEF p
    <3> QED BY <2>1, <3>1, <3>2, <3>3, PushWake
  <2>3. CASE ~Reusable
    BY <1>5, <2>3 DEF ReturnConnection, Reusable, WakeupsLostToDeadlines
  <2> QED BY <2>2, <2>3
<1> QED BY <1>1, <1>2, <1>3, <1>4, <1>5 DEF Client, EnterLock, WakeInTime

\* The threads of the pool, its owner and the environment.
LEMMA OthersWake ==
  ASSUME TypeInv, LifeInv, CountInv, TypeInv', WakeupsLostToDeadlines,
         ProducerThread \/ SweeperThread \/ MainThread \/ Environment
  PROVE  WakeupsLostToDeadlines'
<1> USE DEF poolVars, statVars, clientVars, threadVars
<1>1. ASSUME UNCHANGED <<pc, timeoutCount>>, shutdown => shutdown', Len(available') <= Len(available)
      PROVE  WakeupsLostToDeadlines'
  BY <1>1, QuietWake DEF Waiting, Woken, At
<1>2. CASE ProducerPush
  <2>1. CASE PushesSpare
    <3>1. pc' \in NotifyOne(pc) /\ available' = Append(available, spare) /\ spare \in Conns
      BY <1>2, <2>1 DEF ProducerPush, PushesSpare, TypeInv, TypeOK
    <3>2. Len(available') = Len(available) + 1
      BY <3>1, PushElements DEF TypeInv, TypeOK
    <3>3. pc \in [Clients -> PCs] /\ UNCHANGED <<timeoutCount, shutdown>>
      BY <1>2 DEF ProducerPush, TypeInv, TypeOK, PCs
    <3> QED BY <3>1, <3>2, <3>3, PushWake
  <2>2. CASE ~PushesSpare
    BY <1>1, <1>2, <2>2, WakeTypes DEF ProducerPush
  <2> QED BY <2>1, <2>2
<1>3. CASE ProducerTest \/ ProducerLock \/ ProducerCreate
  BY <1>1, <1>3, WakeTypes DEF ProducerTest, ProducerLock, ProducerCreate
<1>4. CASE SweeperThread
  <2>1. available \in Seq(Conns) /\ Len(available) \in Nat
    BY DEF TypeInv, TypeOK
  <2>2. Len(available') <= Len(available)
    <3>1. CASE available' = available
      BY <2>1, <3>1
    <3>2. ASSUME NEW n \in 0..Len(available), available' = SubSeq(available, n + 1, Len(available))
          PROVE  Len(available') <= Len(available)
      BY <2>1, <3>2, PopElements
    <3> QED BY <1>4, <3>1, <3>2 DEF SweeperThread, SweeperTest, SweeperSleep, SweeperLock
  <2> QED BY <1>1, <1>4, <2>2 DEF SweeperThread, SweeperTest, SweeperSleep, SweeperLock
<1>5. CASE InitialConnection
  <2>1. Waiting' = {}
    BY <1>5 DEF InitialConnection, LifeInv, Waiting, At
  <2> QED BY <2>1 DEF WakeupsLostToDeadlines
<1>6. CASE InitializeThrows \/ Clear
  <2>1. Len(available') <= Len(available)
    BY <1>6, WakeTypes, EmptySeq DEF InitializeThrows, Clear
  <2> QED BY <1>1, <1>6, <2>1 DEF InitializeThrows, Clear
<1>7. CASE StartThreads \/ JoinProducer \/ JoinSweeper
  BY <1>1, <1>7, WakeTypes DEF StartThreads, JoinProducer, JoinSweeper
<1>8. CASE Shutdown
  BY <1>8 DEF Shutdown, WakeupsLostToDeadlines
<1>9. CASE NotifyAll
  <2>1. Waiting' = {}
    BY <1>9 DEF NotifyAll, Waiting, At
  <2> QED BY <2>1 DEF WakeupsLostToDeadlines
<1>10. CASE Environment
  <2>1. UNCHANGED <<available, shutdown, timeoutCount>>
    BY <1>10 DEF Environment, LoseLink, DeadlinePasses, TimedWake, SpuriousWake, SpuriousProducerWake
  <2>2. \A d \in Clients : pc'[d] = pc[d] \/ (pc[d] = "waiting" /\ pc'[d] = "woken")
    BY <1>10 DEF Environment, LoseLink, DeadlinePasses, TimedWake, SpuriousWake,
           SpuriousProducerWake, TypeInv, TypeOK
  <2>3. Waiting' \subseteq Waiting /\ Woken \subseteq Woken'
    BY <2>2 DEF Waiting, Woken, At
  <2> QED BY <2>1, <2>3, QuietWake, WakeTypes
<1> QED BY <1>2, <1>3, <1>4, <1>5, <1>6, <1>7, <1>8, <1>9, <1>10
        DEF ProducerThread, MainThread, Construct, Destruct

LEMMA WakeStep ==
  TypeInv /\ LifeInv /\ CountInv /\ WakeupsLostToDeadlines /\ [Next]_vars => WakeupsLostToDeadlines'
<1>1. CASE UNCHANGED vars
  BY <1>1 DEF vars, poolVars, statVars, clientVars, WakeupsLostToDeadlines, Waiting, At
<1>2. TypeInv /\ [Next]_vars => TypeInv'
  BY TypeInvStep
<1>3. TypeInv /\ CountInv /\ [Next]_vars => CountInv'
  BY CountStep
<1> QED BY <1>1, <1>2, <1>3, ClientWake, OthersWake DEF Next

\* One notify_one() per queued connection is enough for any number of
\* clients: a connection lies in the queue while somebody waits for it only
\* if a woken client is on its way, or one has left at its deadline.
THEOREM NoWakeupLostButToDeadlines == Spec => []WakeupsLostToDeadlines
<1>1. Init => WakeupsLostToDeadlines
  BY DEF Init, WakeupsLostToDeadlines, Waiting, At
<1> QED BY <1>1, WakeStep, TypeCorrect, LifeCycle, CountCorrect, PTL DEF Spec

-----------------------------------------------------------------------------
\* However a request comes by its Connection, pooled or replaced, its link is
\* open at that moment.
THEOREM GrantedConnected == Spec => GrantsAreConnected
<1> DEFINE Granted == \A c \in Clients :
             pc[c] # "holding" /\ pc'[c] = "holding" => link'[handle'[c]] = "open"
<1>1. TypeInv /\ [Next]_vars => [Granted]_vars
  <2> SUFFICES ASSUME TypeInv, Next PROVE Granted
    OBVIOUS
  <2> USE DEF poolVars, statVars, clientVars, threadVars
  <2>1. ASSUME NEW c \in Clients, Client(c) PROVE Granted
    <3>1. CASE (EnterLock(c) \/ WakeInTime(c)) /\ TakeConnected(c)
      BY <3>1 DEF TakeConnected, Lend, IsConnected, TypeInv, TypeOK
    <3>2. CASE Reconnected(c)
      BY <3>2 DEF Reconnected, CreateAndDelete, Lend, TypeInv, TypeOK
    <3>3. CASE ReturnConnection(c)
      <4> DEFINE p == [pc EXCEPT ![c] = "idle"]
      <4>1. p \in [Clients -> PCs] /\ (pc' = p \/ pc' \in NotifyOne(p))
        BY <3>3 DEF ReturnConnection, TypeInv, TypeOK, PCs
      <4>2. \A d \in Clients : pc'[d] = p[d] \/ pc'[d] = "woken"
        <5> HIDE DEF p
        <5> QED BY <4>1, NotifyOneEffect
      <4>3. \A d \in Clients : p[d] = pc[d] \/ p[d] = "idle"
        BY DEF TypeInv, TypeOK
      <4> HIDE DEF p
      <4> QED BY <4>2, <4>3
    <3>4. CASE GetConnection(c) \/ WakeTooLate(c) \/ ReconnectFailed(c)
      BY <3>4 DEF GetConnection, WakeTooLate, ReturnNull, ReconnectFailed, TypeInv, TypeOK
    <3>5. CASE (EnterLock(c) \/ WakeInTime(c)) /\ (StartWaiting(c) \/ ReturnNull(c) \/ TakeDead(c))
      BY <3>5 DEF StartWaiting, ReturnNull, TakeDead, TypeInv, TypeOK
    <3> QED BY <2>1, <3>1, <3>2, <3>3, <3>4, <3>5 DEF Client, EnterLock, WakeInTime, Proceed
  <2>2. CASE ProducerThread
    BY <2>2, NotifyOneEffect DEF ProducerThread, ProducerTest, ProducerLock, ProducerCreate,
         ProducerPush, TypeInv, TypeOK, PCs
  <2>3. CASE SweeperThread \/ MainThread
    BY <2>3 DEF SweeperThread, SweeperTest, SweeperSleep, SweeperLock, MainThread, Construct, Destruct,
         InitialConnection, InitializeThrows, StartThreads, Shutdown, NotifyAll, JoinProducer,
         JoinSweeper, Clear, TypeInv, TypeOK
  <2>4. CASE Environment
    BY <2>4 DEF Environment, LoseLink, DeadlinePasses, TimedWake, SpuriousWake,
         SpuriousProducerWake, TypeInv, TypeOK
  <2> QED BY <2>1, <2>2, <2>3, <2>4 DEF Next
<1> QED BY <1>1, TypeCorrect, PTL DEF Spec, GrantsAreConnected
=============================================================================
