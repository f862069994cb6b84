---------------------- MODULE ConnectionPoolRefinementProofs ----------------------
(* ConnectionPool implements ConnectionLease: what the threads do is, for the   *)
(* clients, an exclusive lease of a connection out of a bounded stock.          *)
EXTENDS ConnectionPoolCapacityProofs

\* The variables of ConnectionLease, as Lease substitutes them.
FreeConns == Range(available)
LeaseOf == [c \in Clients |-> IF pc[c] = "holding" THEN handle[c] ELSE NoConn]
Askers == {c \in Clients : pc[c] \notin {"idle", "holding"}}

LEMMA LeaseVars ==
  FreeConns' = FreeConns /\ LeaseOf' = LeaseOf /\ Askers' = Askers /\ shutdown' = shutdown
    => UNCHANGED Lease!leaseVars
BY DEF FreeConns, LeaseOf, Askers, Lease!leaseVars

\* A connection is replaced under the mutex, so the shutdown waits for it.
ReplaceInv == \A c \in Clients : pc[c] = "reconnecting" => ~shutdown

LEMMA ReplaceStep == TypeInv /\ ReplaceInv /\ [Next]_vars => ReplaceInv'
<1> SUFFICES ASSUME TypeInv, ReplaceInv, [Next]_vars PROVE ReplaceInv'
  OBVIOUS
<1> USE DEF poolVars, statVars, clientVars, threadVars
<1>1. CASE UNCHANGED vars
  BY <1>1 DEF vars, ReplaceInv
<1>2. ASSUME NEW c \in Clients, Client(c) PROVE ReplaceInv'
  <2>1. CASE ReturnConnection(c)
    <3> DEFINE p == [pc EXCEPT ![c] = "idle"]
    <3>1. p \in [Clients -> PCs] /\ (pc' = p \/ pc' \in NotifyOne(p)) /\ shutdown' = shutdown
      BY <2>1 DEF ReturnConnection, TypeInv, TypeOK, PCs
    <3>2. \A d \in Clients : p[d] = pc[d] \/ p[d] = "idle"
      BY DEF TypeInv, TypeOK
    <3> HIDE DEF p
    <3>3. \A d \in Clients : pc'[d] = p[d] \/ pc'[d] = "woken"
      BY <3>1, NotifyOneEffect
    <3> QED BY <3>1, <3>2, <3>3 DEF ReplaceInv
  <2>2. CASE ~ReturnConnection(c)
    BY <1>2, <2>2 DEF Client, GetConnection, EnterLock, WakeInTime, WakeTooLate, Proceed, StartWaiting,
         ReturnNull, TakeConnected, TakeDead, Lend, Reconnected, ReconnectFailed, ReplaceInv, TypeInv, TypeOK
  <2> QED BY <2>1, <2>2
<1>3. CASE ProducerThread \/ SweeperThread
  BY <1>3, NotifyOneEffect DEF ProducerThread, ProducerTest, ProducerLock, ProducerCreate, ProducerPush,
       SweeperThread, SweeperTest, SweeperSleep, SweeperLock, ReplaceInv, TypeInv, TypeOK, PCs
<1>4. CASE MainThread
  BY <1>4 DEF MainThread, Construct, Destruct, InitialConnection, InitializeThrows, StartThreads,
       Shutdown, NotifyAll, JoinProducer, JoinSweeper, Clear, MutexFree, At, ReplaceInv, TypeInv, TypeOK
<1>5. CASE Environment
  BY <1>5 DEF Environment, LoseLink, DeadlinePasses, TimedWake, SpuriousWake,
       SpuriousProducerWake, ReplaceInv, TypeInv, TypeOK
<1> QED BY <1>1, <1>2, <1>3, <1>4, <1>5 DEF Next

-----------------------------------------------------------------------------
(* The stock *)

\* ConnectionLease counts as this module does.
LEMMA SameCardinality == \A S : Lease!Cardinality(S) = Cardinality(S)
BY DEF Lease!Cardinality, Cardinality

LEMMA SeqRange ==
  ASSUME NEW q \in Seq(Conns)
  PROVE  /\ Range(q) \subseteq Conns /\ q \in [1..Len(q) -> Range(q)]
         /\ \A k : k \in Range(q) <=> \E i \in 1..Len(q) : q[i] = k
BY DEF Range

LEMMA FreeIsQueued ==
  ASSUME available \in Seq(Conns)
  PROVE  FreeConns \subseteq Conns /\ \A k \in Conns : k \in FreeConns <=> Queued(k)
BY SeqRange DEF FreeConns, Queued

LEMMA PushFree ==
  ASSUME TypeInv, NEW k \in Conns, available' = Append(available, k)
  PROVE  FreeConns' = FreeConns \cup {k}
<1>1. /\ available \in Seq(Conns) /\ available' \in Seq(Conns) /\ Len(available) \in Nat
      /\ Len(available') = Len(available) + 1 /\ available'[Len(available) + 1] = k
      /\ \A i \in 1..Len(available) : available'[i] = available[i]
  BY PushElements DEF TypeInv, TypeOK
<1>2. \A j : j \in FreeConns <=> \E i \in 1..Len(available) : available[i] = j
  BY <1>1, SeqRange DEF FreeConns
<1>3. \A j : j \in FreeConns' <=> \E i \in 1..Len(available') : available'[i] = j
  BY <1>1, SeqRange DEF FreeConns
<1>4. \A j : (\E i \in 1..Len(available') : available'[i] = j)
               <=> j = k \/ \E i \in 1..Len(available) : available[i] = j
  BY <1>1
<1> QED BY <1>2, <1>3, <1>4

LEMMA PopFree ==
  ASSUME TypeInv, OwnInv, TypeInv', NEW n \in 0..Len(available),
         available' = SubSeq(available, n + 1, Len(available))
  PROVE  FreeConns' = FreeConns \ {available[i] : i \in 1..n}
<1>1. available \in Seq(Conns) /\ Distinct
  BY DEF TypeInv, TypeOK, OwnInv
<1>2. /\ Len(available') = Len(available) - n
      /\ \A i \in 1..Len(available) - n : available'[i] = available[i + n]
  BY <1>1, PopElements
<1>3. \A j \in Conns : Queued(j)' <=> Queued(j) /\ j \notin {available[i] : i \in 1..n}
  BY <1>1, <1>2, PopQueued
<1>4. FreeConns' \subseteq Conns /\ \A j \in Conns : j \in FreeConns' <=> Queued(j)'
  <2>1. available' \in Seq(Conns)
    BY DEF TypeInv, TypeOK
  <2>2. \A j : j \in Range(available') <=> \E i \in 1..Len(available') : available'[i] = j
    BY <2>1, SeqRange
  <2>3. Range(available') \subseteq Conns
    BY <2>1, SeqRange
  <2> QED BY <2>2, <2>3 DEF FreeConns, Queued
<1> QED BY <1>1, <1>3, <1>4, FreeIsQueued

LEMMA TakeFree ==
  ASSUME TypeInv, OwnInv, TypeInv', available # <<>>, available' = AfterPop
  PROVE  Head(available) \in FreeConns /\ FreeConns' = FreeConns \ {Head(available)}
<1>1. available \in Seq(Conns) /\ Len(available) >= 1 /\ Head(available) = available[1]
  BY TailIsPop DEF TypeInv, TypeOK
<1>2. available' = SubSeq(available, 1 + 1, Len(available)) /\ 1 \in 0..Len(available)
  BY <1>1 DEF AfterPop
<1>3. {available[i] : i \in 1..1} = {Head(available)}
  BY <1>1
<1>4. FreeConns' = FreeConns \ {available[i] : i \in 1..1}
  BY <1>2, PopFree
<1> QED BY <1>1, <1>3, <1>4 DEF FreeConns, Range

\* The connections that are leased, and how many they are.
LEMMA LeasedConns ==
  ASSUME TypeInv
  PROVE  Lease!Leased = {handle[c] : c \in Holders}
<1>1. \A c \in Holders : handle[c] \in Conns
  BY DEF Holders, At, TypeInv, TypeOK, HandleInv
<1> QED BY <1>1, NoConnAssumption DEF Lease!Leased, Range, Lease!Range, Holders, At, TypeInv, TypeOK

LEMMA StockSize ==
  ASSUME TypeInv, CapInv
  PROVE  Lease!Stock \in Nat /\ Lease!Stock <= Len(available) + active
<1>1. Cardinality(Lease!Leased) \in Nat /\ Cardinality(Lease!Leased) <= Cardinality(Holders)
  <2> DEFINE f == [c \in Holders |-> handle[c]]
             T == {handle[c] : c \in Holders}
  <2>1. f \in Surjection(Holders, T)
    BY DEF Surjection
  <2>2. IsFiniteSet(T) /\ Cardinality(T) <= Cardinality(Holders)
    <3> HIDE DEF f, T
    <3> QED BY <2>1, AtFinite, FS_Surjection DEF Holders
  <2> QED BY <2>2, LeasedConns, FS_CardinalityType
<1>2. Cardinality(FreeConns) \in Nat /\ Cardinality(FreeConns) <= Len(available)
  <2>1. available \in Surjection(1..Len(available), FreeConns)
    BY SeqRange DEF Surjection, FreeConns, TypeInv, TypeOK
  <2>2. IsFiniteSet(1..Len(available)) /\ Cardinality(1..Len(available)) = Len(available)
    <3>1. Len(available) \in Nat
      BY DEF TypeInv, TypeOK
    <3>2. IsFiniteSet(1..Len(available))
          /\ Cardinality(1..Len(available)) = IF 1 > Len(available) THEN 0 ELSE Len(available) - 1 + 1
      BY <3>1, FS_Interval
    <3> QED BY <3>1, <3>2
  <2> QED BY <2>1, <2>2, FS_Surjection, FS_CardinalityType
<1>3. Lease!Stock = Cardinality(FreeConns) + Cardinality(Lease!Leased)
  BY SameCardinality DEF Lease!Stock, FreeConns
<1>4. Cardinality(Holders) \in Nat /\ Cardinality(Holders) <= active /\ active \in Nat /\ Len(available) \in Nat
  BY CountTypes DEF CapInv, ActiveCountsLeases
<1> QED BY <1>1, <1>2, <1>3, <1>4

\* There is room while a connection is in the making.
LEMMA RoomForOne ==
  ASSUME TypeInv, CapInv, spare # NoConn \/ \E c \in Clients : pc[c] = "reconnecting"
  PROVE  Lease!Stock < MaxSize + 1
<1>1. InProgress >= 1
  <2>1. CASE spare # NoConn
    BY <2>1, CountTypes DEF Making
  <2>2. ASSUME NEW c \in Clients, pc[c] = "reconnecting" PROVE Cardinality(Replacers) >= 1
    <3>1. c \in Replacers
      BY <2>2 DEF Replacers, At
    <3> QED BY <3>1, AtFinite, FS_EmptySet DEF Replacers
  <2> QED BY <2>1, <2>2, CountTypes
<1>2. InProgress \in Int /\ Len(available) \in Nat /\ active \in Nat
  BY CountTypes DEF CapInv
<1> QED BY <1>1, <1>2, StockSize, SizeAssumption DEF CapInv, CapacityBound

\* A Connection that belongs to nobody is new to the clients.
LEMMA NewToClients ==
  ASSUME TypeInv, OwnInv, NEW k \in Conns, ~Queued(k), \A c \in Clients : handle[c] # k
  PROVE  k \notin FreeConns \cup Lease!Leased
BY FreeIsQueued, LeasedConns DEF Holders, At, TypeInv, TypeOK

-----------------------------------------------------------------------------
(* The clients *)

\* Everybody but c stays where they are for the other clients: at most a
\* waiter is woken.
OthersStay(c) ==
  \A d \in Clients \ {c} :
    handle'[d] = handle[d] /\ (pc'[d] = pc[d] \/ (pc[d] = "waiting" /\ pc'[d] = "woken"))

LEMMA MoveMaps ==
  ASSUME NEW c \in Clients, OthersStay(c)
  PROVE  /\ LeaseOf' = [LeaseOf EXCEPT ![c] = IF pc'[c] = "holding" THEN handle'[c] ELSE NoConn]
         /\ Askers' = IF pc'[c] \in {"idle", "holding"} THEN Askers \ {c} ELSE Askers \cup {c}
BY DEF OthersStay, LeaseOf, Askers

LEMMA StayMaps ==
  ASSUME UNCHANGED handle,
         \A d \in Clients : pc'[d] = pc[d] \/ (pc[d] = "waiting" /\ pc'[d] = "woken")
  PROVE  LeaseOf' = LeaseOf /\ Askers' = Askers
BY DEF LeaseOf, Askers

RefInv == TypeInv /\ LifeInv /\ OwnInv /\ CapInv /\ ReplaceInv

\* What a client does is a step of its own lease, or none.
LEMMA ProceedMaps ==
  ASSUME RefInv, TypeInv', NEW c \in Clients, pc[c] \in {"lock", "woken"}, Proceed(c)
  PROVE  Lease!Next \/ UNCHANGED Lease!leaseVars
<1>0. TypeInv /\ OwnInv
  BY DEF RefInv
<1>1. c \in Askers /\ LeaseOf[c] = NoConn
  BY DEF Askers, LeaseOf
<1>2. CASE StartWaiting(c)
  <2>1. LeaseOf' = LeaseOf /\ Askers' = Askers
    BY <1>0, <1>2 DEF StartWaiting, LeaseOf, Askers, TypeInv, TypeOK
  <2> QED BY <1>2, <2>1, LeaseVars DEF StartWaiting, FreeConns, poolVars
<1>3. CASE ReturnNull(c)
  <2>1. OthersStay(c) /\ pc'[c] = "idle"
    BY <1>0, <1>3 DEF ReturnNull, OthersStay, TypeInv, TypeOK
  <2>2. LeaseOf' = LeaseOf /\ Askers' = Askers \ {c}
    <3>1. LeaseOf' = [LeaseOf EXCEPT ![c] = NoConn]
      BY <2>1, MoveMaps
    <3> QED BY <1>1, <2>1, <3>1, MoveMaps DEF LeaseOf
  <2>3. FreeConns' = FreeConns /\ shutdown' = shutdown
    BY <1>3 DEF ReturnNull, poolVars, FreeConns
  <2>4. Lease!TurnAway(c)
    BY <1>1, <2>2, <2>3 DEF Lease!TurnAway, LeaseOf, Askers, FreeConns
  <2> QED BY <2>4 DEF Lease!Next
<1>4. CASE TakeConnected(c)
  <2>1. OthersStay(c) /\ pc'[c] = "holding" /\ handle'[c] = Head(available)
    BY <1>0, <1>4 DEF TakeConnected, Lend, OthersStay, TypeInv, TypeOK
  <2>2. LeaseOf' = [LeaseOf EXCEPT ![c] = Head(available)] /\ Askers' = Askers \ {c}
    BY <2>1, MoveMaps
  <2>3. Head(available) \in FreeConns /\ FreeConns' = FreeConns \ {Head(available)}
    BY <1>0, <1>4, TakeFree DEF TakeConnected
  <2>4. ~shutdown /\ shutdown' = shutdown
    BY <1>4 DEF TakeConnected
  <2>5. Lease!Grant(c)
    BY <1>1, <2>2, <2>3, <2>4 DEF Lease!Grant, LeaseOf, Askers, FreeConns
  <2> QED BY <2>5 DEF Lease!Next
<1>5. CASE TakeDead(c)
  <2>1. LeaseOf' = LeaseOf /\ Askers' = Askers
    BY <1>0, <1>5 DEF TakeDead, LeaseOf, Askers, TypeInv, TypeOK
  <2>2. Head(available) \in FreeConns /\ FreeConns' = FreeConns \ {Head(available)}
    BY <1>0, <1>5, TakeFree DEF TakeDead
  <2>3. shutdown' = shutdown /\ FreeConns \subseteq Conns
    BY <1>0, <1>5, FreeIsQueued DEF TakeDead, TypeInv, TypeOK
  <2>4. Lease!Retire({Head(available)})
    BY <2>1, <2>2, <2>3 DEF Lease!Retire, LeaseOf, Askers, FreeConns
  <2> QED BY <2>2, <2>3, <2>4 DEF Lease!Next
<1> QED BY <1>2, <1>3, <1>4, <1>5 DEF Proceed

LEMMA ReconnectMaps ==
  ASSUME RefInv, NEW c \in Clients, Reconnected(c) \/ ReconnectFailed(c)
  PROVE  Lease!Next
<1>0. TypeInv /\ OwnInv /\ CapInv /\ ReplaceInv
  BY DEF RefInv
<1>1. pc[c] = "reconnecting" /\ c \in Askers /\ LeaseOf[c] = NoConn /\ ~shutdown
      /\ FreeConns' = FreeConns /\ shutdown' = shutdown
  BY <1>0 DEF Reconnected, ReconnectFailed, ReplaceInv, Askers, LeaseOf, FreeConns, poolVars
<1>2. OthersStay(c)
  BY <1>0 DEF Reconnected, ReconnectFailed, Lend, OthersStay, TypeInv, TypeOK
<1>3. CASE Reconnected(c)
  <2>1. PICK k \in Conns : k \in Fresh /\ handle' = [handle EXCEPT ![c] = k]
    BY <1>3 DEF Reconnected, CreateAndDelete
  <2>2. pc'[c] = "holding" /\ handle'[c] = k
    BY <1>0, <1>3, <2>1 DEF Reconnected, Lend, TypeInv, TypeOK
  <2>3. LeaseOf' = [LeaseOf EXCEPT ![c] = k] /\ Askers' = Askers \ {c}
    BY <1>2, <2>2, MoveMaps
  <2>4. k \notin FreeConns \cup Lease!Leased
    BY <1>0, <2>1, NewToClients DEF Fresh, OwnInv, Carried
  <2>5. Lease!Stock < MaxSize + 1
    BY <1>0, <1>1, RoomForOne
  <2>6. Lease!GrantNew(c)
    BY <1>1, <2>1, <2>3, <2>4, <2>5 DEF Lease!GrantNew, LeaseOf, Askers, FreeConns
  <2> QED BY <2>6 DEF Lease!Next
<1>4. CASE ReconnectFailed(c)
  <2>1. pc'[c] = "idle"
    BY <1>0, <1>4 DEF ReconnectFailed, TypeInv, TypeOK
  <2>2. LeaseOf' = [LeaseOf EXCEPT ![c] = NoConn] /\ Askers' = Askers \ {c}
    BY <1>2, <2>1, MoveMaps
  <2>3. LeaseOf' = LeaseOf
    BY <1>1, <2>2 DEF LeaseOf
  <2>4. Lease!TurnAway(c)
    BY <1>1, <2>2, <2>3 DEF Lease!TurnAway, LeaseOf, Askers, FreeConns
  <2> QED BY <2>4 DEF Lease!Next
<1> QED BY <1>3, <1>4

LEMMA ReturnMaps ==
  ASSUME RefInv, NEW c \in Clients, ReturnConnection(c)
  PROVE  Lease!Next
<1> DEFINE p == [pc EXCEPT ![c] = "idle"]
<1>0. TypeInv
  BY DEF RefInv
<1>1. /\ pc[c] = "holding" /\ handle[c] \in Conns /\ LeaseOf[c] = handle[c] /\ c \notin Askers
      /\ shutdown' = shutdown /\ handle' = [handle EXCEPT ![c] = NoConn]
  BY <1>0 DEF ReturnConnection, LeaseOf, Askers, TypeInv, TypeOK, HandleInv
<1>2. p \in [Clients -> PCs] /\ p[c] = "idle" /\ \A d \in Clients \ {c} : p[d] = pc[d]
  BY <1>0 DEF TypeInv, TypeOK, PCs
<1>3. pc' = p \/ pc' \in NotifyOne(p)
  BY DEF ReturnConnection
<1>4. OthersStay(c) /\ pc'[c] = "idle"
  <2> HIDE DEF p
  <2>1. \A d \in Clients : pc'[d] = p[d] \/ (p[d] = "waiting" /\ pc'[d] = "woken")
    BY <1>2, <1>3, NotifyOneEffect
  <2> QED BY <1>0, <1>1, <1>2, <2>1 DEF OthersStay, TypeInv, TypeOK
<1>5. LeaseOf' = [LeaseOf EXCEPT ![c] = NoConn] /\ Askers' = Askers
  <2>1. LeaseOf' = [LeaseOf EXCEPT ![c] = NoConn] /\ Askers' = Askers \ {c}
    BY <1>4, MoveMaps
  <2> QED BY <1>1, <2>1
<1>6. FreeConns' = IF shutdown THEN FreeConns ELSE FreeConns \cup {LeaseOf[c]}
  BY <1>0, <1>1, PushFree DEF ReturnConnection, Reusable, FreeConns
<1>7. Lease!GiveBack(c)
  <2>1. LeaseOf[c] # NoConn
    BY <1>1, NoConnAssumption
  <2> QED BY <1>1, <1>5, <1>6, <2>1 DEF Lease!GiveBack, LeaseOf, Askers, FreeConns
<1> QED BY <1>7 DEF Lease!Next

LEMMA ClientMaps ==
  ASSUME RefInv, TypeInv', NEW c \in Clients, Client(c)
  PROVE  Lease!Next \/ UNCHANGED Lease!leaseVars
<1>0. TypeInv
  BY DEF RefInv
<1>1. CASE GetConnection(c)
  <2>1. LeaseOf[c] = NoConn /\ c \notin Askers /\ OthersStay(c) /\ pc'[c] = "lock"
    BY <1>0, <1>1 DEF GetConnection, LeaseOf, Askers, OthersStay, TypeInv, TypeOK
  <2>2. LeaseOf' = [LeaseOf EXCEPT ![c] = NoConn] /\ Askers' = Askers \cup {c}
    BY <2>1, MoveMaps
  <2>3. LeaseOf' = LeaseOf
    BY <2>1, <2>2 DEF LeaseOf
  <2>4. FreeConns' = FreeConns /\ shutdown' = shutdown
    BY <1>1 DEF GetConnection, poolVars, FreeConns
  <2>5. Lease!Ask(c)
    BY <2>1, <2>2, <2>3, <2>4 DEF Lease!Ask, LeaseOf, Askers, FreeConns
  <2> QED BY <2>5 DEF Lease!Next
<1>2. CASE WakeTooLate(c)
  <2>1. c \in Askers /\ LeaseOf[c] = NoConn
    BY <1>2 DEF WakeTooLate, Askers, LeaseOf
  <2>2. OthersStay(c) /\ pc'[c] = "idle" /\ FreeConns' = FreeConns /\ shutdown' = shutdown
    BY <1>0, <1>2 DEF WakeTooLate, ReturnNull, poolVars, FreeConns, OthersStay, TypeInv, TypeOK
  <2>3. LeaseOf' = [LeaseOf EXCEPT ![c] = NoConn] /\ Askers' = Askers \ {c}
    BY <2>2, MoveMaps
  <2>4. LeaseOf' = LeaseOf
    BY <2>1, <2>3 DEF LeaseOf
  <2>5. Lease!TurnAway(c)
    BY <2>1, <2>2, <2>3, <2>4 DEF Lease!TurnAway, LeaseOf, Askers, FreeConns
  <2> QED BY <2>5 DEF Lease!Next
<1>3. CASE EnterLock(c) \/ WakeInTime(c)
  BY <1>3, ProceedMaps DEF EnterLock, WakeInTime
<1> QED BY <1>1, <1>2, <1>3, ReconnectMaps, ReturnMaps DEF Client

-----------------------------------------------------------------------------
(* The threads of the pool, its owner and the environment *)

\* Steps that no client notices.
LEMMA HiddenMaps ==
  ASSUME UNCHANGED <<available, shutdown, handle>>,
         \A d \in Clients : pc'[d] = pc[d] \/ (pc[d] = "waiting" /\ pc'[d] = "woken")
  PROVE  UNCHANGED Lease!leaseVars
BY StayMaps, LeaseVars DEF FreeConns

\* A connection that was nobody's is queued while there is room.
LEMMA SupplyMaps ==
  ASSUME RefInv, ~shutdown, UNCHANGED <<shutdown, handle>>,
         \A d \in Clients : pc'[d] = pc[d] \/ (pc[d] = "waiting" /\ pc'[d] = "woken"),
         NEW k \in Conns, ~Queued(k), \A c \in Clients : handle[c] # k,
         available' = Append(available, k), Lease!Stock < MaxSize + 1
  PROVE  Lease!Next
<1>1. TypeInv /\ OwnInv
  BY DEF RefInv
<1>2. k \notin FreeConns \cup Lease!Leased /\ FreeConns' = FreeConns \cup {k}
  BY <1>1, NewToClients, PushFree
<1>3. LeaseOf' = LeaseOf /\ Askers' = Askers
  BY StayMaps
<1>4. Lease!Supply(k)
  BY <1>2, <1>3 DEF Lease!Supply, FreeConns, LeaseOf, Askers
<1> QED BY <1>4 DEF Lease!Next

\* Connections leave the queue and nobody gets them.
LEMMA RetireMaps ==
  ASSUME RefInv, UNCHANGED <<shutdown, handle, pc>>, NEW S \in SUBSET FreeConns, FreeConns' = FreeConns \ S
  PROVE  Lease!Next
<1>1. FreeConns \subseteq Conns
  BY FreeIsQueued DEF RefInv, TypeInv, TypeOK
<1>2. LeaseOf' = LeaseOf /\ Askers' = Askers
  BY StayMaps
<1>3. Lease!Retire(S)
  BY <1>2 DEF Lease!Retire, FreeConns, LeaseOf, Askers
<1> QED BY <1>1, <1>3 DEF Lease!Next

LEMMA ProducerMaps ==
  ASSUME RefInv, ProducerThread
  PROVE  Lease!Next \/ UNCHANGED Lease!leaseVars
<1> USE DEF poolVars, clientVars
<1>0. TypeInv /\ OwnInv /\ CapInv
  BY DEF RefInv
<1>1. CASE ProducerTest \/ ProducerLock \/ ProducerCreate
  BY <1>1, HiddenMaps DEF ProducerTest, ProducerLock, ProducerCreate
<1>2. CASE ProducerPush
  <2>1. CASE PushesSpare
    <3>1. /\ ~shutdown /\ UNCHANGED <<shutdown, handle>> /\ spare # NoConn /\ spare \in Conns
          /\ available' = Append(available, spare)
      BY <1>0, <1>2, <2>1 DEF ProducerPush, PushesSpare, TypeInv, TypeOK
    <3>2. \A d \in Clients : pc'[d] = pc[d] \/ (pc[d] = "waiting" /\ pc'[d] = "woken")
      BY <1>0, <1>2, <2>1, NotifyOneEffect DEF ProducerPush, TypeInv, TypeOK, PCs
    <3>3. ~Queued(spare) /\ \A c \in Clients : handle[c] # spare
      BY <1>0, <3>1 DEF OwnInv, Carried
    <3>4. Lease!Stock < MaxSize + 1
      BY <1>0, <3>1, RoomForOne
    <3> QED BY <3>1, <3>2, <3>3, <3>4, SupplyMaps
  <2>2. CASE ~PushesSpare
    BY <1>2, <2>2, HiddenMaps DEF ProducerPush
  <2> QED BY <2>1, <2>2
<1> QED BY <1>1, <1>2 DEF ProducerThread

LEMMA SweeperMaps ==
  ASSUME RefInv, TypeInv', SweeperThread
  PROVE  Lease!Next \/ UNCHANGED Lease!leaseVars
<1> USE DEF poolVars, clientVars
<1>0. TypeInv /\ OwnInv
  BY DEF RefInv
<1>1. CASE UNCHANGED available
  BY <1>1, HiddenMaps DEF SweeperThread, SweeperTest, SweeperSleep, SweeperLock
<1>2. ASSUME NEW n \in 0..Len(available), available' = SubSeq(available, n + 1, Len(available))
      PROVE  Lease!Next
  <2> DEFINE S == {available[i] : i \in 1..n}
  <2>1. FreeConns' = FreeConns \ S
    BY <1>0, <1>2, PopFree
  <2>2. S \in SUBSET FreeConns
    <3>1. available \in Seq(Conns) /\ Len(available) \in Nat
      BY <1>0 DEF TypeInv, TypeOK
    <3> QED BY <3>1, SeqRange DEF FreeConns
  <2>3. UNCHANGED <<shutdown, handle, pc>>
    BY DEF SweeperThread, SweeperTest, SweeperSleep, SweeperLock
  <2> QED BY <2>1, <2>2, <2>3, RetireMaps
<1> QED BY <1>1, <1>2 DEF SweeperThread, SweeperTest, SweeperSleep, SweeperLock

LEMMA MainMaps ==
  ASSUME RefInv, MainThread
  PROVE  Lease!Next \/ UNCHANGED Lease!leaseVars
<1> USE DEF poolVars, clientVars
<1>0. TypeInv /\ OwnInv /\ CapInv /\ LifeInv
  BY DEF RefInv
<1>1. CASE InitialConnection
  <2>1. PICK k \in Conns : k \in Fresh /\ available' = Append(available, k)
    BY <1>1 DEF InitialConnection, CreateAndDelete
  <2>2. ~Queued(k) /\ \A c \in Clients : handle[c] # k
    BY <1>0, <2>1 DEF Fresh, OwnInv, Carried
  <2>3. ~shutdown /\ \A c \in Clients : pc[c] = "idle"
    BY <1>0, <1>1 DEF InitialConnection, LifeInv, Ended
  <2>4. active = 0
    <3>1. Holders = {}
      BY <2>3 DEF Holders, At
    <3> QED BY <1>0, <2>3, <3>1, FS_EmptySet DEF CapInv, ActiveCountsLeases
  <2>5. Lease!Stock < MaxSize + 1
    <3>1. Len(available) \in Nat /\ Len(available) < MinSize
      BY <1>0, <1>1 DEF InitialConnection, TypeInv, TypeOK
    <3> QED BY <1>0, <2>4, <3>1, StockSize, SizeAssumption
  <2> QED BY <1>1, <2>1, <2>2, <2>3, <2>5, SupplyMaps DEF InitialConnection
<1>2. CASE InitializeThrows \/ Clear
  <2>1. FreeConns' = FreeConns \ FreeConns
    BY <1>2, EmptySeq DEF InitializeThrows, Clear, FreeConns, Range
  <2> QED BY <1>2, <2>1, RetireMaps DEF InitializeThrows, Clear
<1>3. CASE Shutdown
  <2>1. FreeConns' = FreeConns /\ LeaseOf' = LeaseOf /\ Askers' = Askers /\ shutdown' = TRUE
    BY <1>3, StayMaps DEF Shutdown, FreeConns
  <2>2. Lease!Close
    BY <2>1 DEF Lease!Close, FreeConns, LeaseOf, Askers
  <2> QED BY <2>2 DEF Lease!Next
<1>4. CASE StartThreads \/ JoinProducer \/ JoinSweeper
  BY <1>4, HiddenMaps DEF StartThreads, JoinProducer, JoinSweeper
<1>5. CASE NotifyAll
  BY <1>5, HiddenMaps DEF NotifyAll
<1> QED BY <1>1, <1>2, <1>3, <1>4, <1>5 DEF MainThread, Construct, Destruct

LEMMA EnvironmentMaps ==
  ASSUME RefInv, Environment
  PROVE  UNCHANGED Lease!leaseVars
<1>1. UNCHANGED <<available, shutdown, handle>>
  BY DEF Environment, LoseLink, DeadlinePasses, TimedWake, SpuriousWake, SpuriousProducerWake, poolVars, clientVars
<1>2. \A d \in Clients : pc'[d] = pc[d] \/ (pc[d] = "waiting" /\ pc'[d] = "woken")
  BY DEF Environment, LoseLink, DeadlinePasses, TimedWake, SpuriousWake, SpuriousProducerWake,
         clientVars, RefInv, TypeInv, TypeOK
<1> QED BY <1>1, <1>2, HiddenMaps

LEMMA StepMaps == RefInv /\ [Next]_vars => [Lease!Next]_(Lease!leaseVars)
<1> SUFFICES ASSUME RefInv, [Next]_vars PROVE Lease!Next \/ UNCHANGED Lease!leaseVars
  OBVIOUS
<1>1. TypeInv'
  BY TypeInvStep DEF RefInv
<1>2. CASE UNCHANGED vars
  BY <1>2, HiddenMaps DEF vars, poolVars, clientVars
<1>3. CASE Next
  BY <1>1, <1>3, ClientMaps, ProducerMaps, SweeperMaps, MainMaps, EnvironmentMaps DEF Next
<1> QED BY <1>2, <1>3

\* For the clients the pool is an exclusive lease out of a stock of at most
\* maxSize + 1 connections, for every set of clients and every size, however
\* the threads, the deadlines, the lost links and the shutdown interleave.
THEOREM PoolImplementsLease == Spec => ImplementsLease
<1>1. Init => Lease!Init
  BY EmptySeq DEF Init, Lease!Init, Range
<1>2. Init => ReplaceInv
  BY DEF Init, ReplaceInv
<1>3. Spec => []RefInv
  BY <1>2, ReplaceStep, TypeCorrect, LifeCycle, InitOwn, OwnInvStep, CapCorrect, PTL DEF Spec, RefInv
<1> QED BY <1>1, <1>3, StepMaps, PTL DEF Spec, ImplementsLease, Lease!Spec
-----------------------------------------------------------------------------
(* What the pool has for being a ConnectionLease *)
Promise == INSTANCE ConnectionLeaseProofs WITH
  free <- FreeConns, lease <- LeaseOf, asking <- Askers, closed <- shutdown, Capacity <- MaxSize + 1

\* The sets of the two instances of ConnectionLease are the same.
LEMMA SameLease ==
  /\ Lease!Init <=> Promise!Init
  /\ [Lease!Next]_(Lease!leaseVars) <=> [Promise!Next]_(Promise!leaseVars)
<1> USE DEF FreeConns, LeaseOf, Askers
<1>1. \A S : Lease!Cardinality(S) = Promise!Cardinality(S)
  BY Zenon DEF Lease!Cardinality, Promise!Cardinality
<1>2. Lease!Leased = Promise!Leased /\ Lease!Stock = Promise!Stock
  BY <1>1 DEF Lease!Stock, Promise!Stock, Lease!Leased, Promise!Leased, Lease!Range, Promise!Range
<1>3. \A k : Lease!Supply(k) <=> Promise!Supply(k)
  BY <1>2 DEF Lease!Supply, Promise!Supply
<1>4. \A S : Lease!Retire(S) <=> Promise!Retire(S)
  BY DEF Lease!Retire, Promise!Retire
<1>5. \A c : Lease!Ask(c) <=> Promise!Ask(c)
  BY DEF Lease!Ask, Promise!Ask
<1>6. \A c : Lease!Grant(c) <=> Promise!Grant(c)
  BY DEF Lease!Grant, Promise!Grant
<1>7. \A c : Lease!GrantNew(c) <=> Promise!GrantNew(c)
  BY <1>2 DEF Lease!GrantNew, Promise!GrantNew
<1>8. \A c : Lease!TurnAway(c) <=> Promise!TurnAway(c)
  BY DEF Lease!TurnAway, Promise!TurnAway
<1>9. \A c : Lease!GiveBack(c) <=> Promise!GiveBack(c)
  BY DEF Lease!GiveBack, Promise!GiveBack
<1>10. Lease!Close <=> Promise!Close
  BY DEF Lease!Close, Promise!Close
<1>11. Lease!Next <=> Promise!Next
  BY <1>3, <1>4, <1>5, <1>6, <1>7, <1>8, <1>9, <1>10 DEF Lease!Next, Promise!Next
<1> QED BY <1>11 DEF Lease!Init, Promise!Init, Lease!leaseVars, Promise!leaseVars

\* The connections that clients hold.
InHands == {handle[c] : c \in {d \in Clients : pc[d] = "holding"}}

LeasedIsHeld == Promise!Leased = InHands

LEMMA LeasedInHands == TypeInv => LeasedIsHeld
<1> SUFFICES ASSUME TypeInv PROVE Promise!Leased = InHands
  BY DEF LeasedIsHeld
<1>1. \A c \in Clients : pc[c] = "holding" => handle[c] \in Conns
  BY DEF TypeInv, HandleInv, TypeOK
<1>2. Promise!Leased = {LeaseOf[c] : c \in Clients} \ {NoConn}
  BY DEF Promise!Leased, Promise!Range, LeaseOf
<1>3. ASSUME NEW k PROVE k \in Promise!Leased <=> k \in InHands
  BY <1>1, <1>2, NoConnAssumption DEF InHands, LeaseOf
<1> QED BY <1>3

\* Nothing but the end of its lease takes a connection from a client while the
\* pool is open, and then it is in the queue.  From shutdown() on neither the
\* clients nor the queue get a connection.
HandsAndQueue ==
  /\ ~shutdown' => InHands \subseteq InHands' \cup Range(available')
  /\ shutdown => shutdown' /\ InHands' \subseteq InHands /\ Range(available') \subseteq Range(available)

\* The deleter, the producer, the sweeper and shutdown() meet at the queue in
\* any order: no lease is lost to them, and a closed pool only drains.
THEOREM LeasesAreNotLost == Spec => [][HandsAndQueue]_vars
<1>1. ASSUME LeasedIsHeld, LeasedIsHeld', [Promise!LeasedAreKept]_(Promise!leaseVars),
             [Promise!ClosedOnlyShrinks]_(Promise!leaseVars)
      PROVE  HandsAndQueue
  <2>1. Promise!Leased = InHands /\ Promise!Leased' = InHands'
    BY <1>1 DEF LeasedIsHeld
  <2>2. CASE UNCHANGED Promise!leaseVars
    <3>1. FreeConns' = FreeConns /\ shutdown' = shutdown /\ LeaseOf' = LeaseOf
      BY <2>2 DEF Promise!leaseVars
    <3>2. Promise!Leased' = Promise!Leased
      BY <3>1 DEF Promise!Leased, Promise!Range
    <3> QED BY <2>1, <3>1, <3>2 DEF HandsAndQueue, FreeConns
  <2>3. CASE Promise!LeasedAreKept /\ Promise!ClosedOnlyShrinks
    BY <2>1, <2>3 DEF Promise!LeasedAreKept, Promise!ClosedOnlyShrinks, HandsAndQueue, FreeConns
  <2> QED BY <1>1, <2>2, <2>3
<1>2. Spec => Promise!Spec
  BY PoolImplementsLease, SameLease, PTL DEF ImplementsLease, Lease!Spec, Promise!Spec
<1> QED BY <1>1, <1>2, TypeCorrect, LeasedInHands, Promise!LeasedConnectionsAreKept, Promise!ClosedPoolOnlyShrinks, PTL

-----------------------------------------------------------------------------
(* The statistics *)

\* While nobody replaces a connection, the objects that exist are queued,
\* leased, or the producer's.
LEMMA CountedConns ==
  ASSUME TypeInv, OwnInv, MutexFree
  PROVE  /\ {k \in Conns : link[k] # "none" /\ k # spare} = FreeConns \cup {handle[c] : c \in Holders}
         /\ FreeConns \cap {handle[c] : c \in Holders} = {}
<1>1. \A c \in Clients : handle[c] # NoConn <=> c \in Holders
  BY DEF MutexFree, Holders, At, TypeInv, HandleInv
<1>2. \A c \in Holders : c \in Clients /\ handle[c] \in Conns
  BY <1>1 DEF Holders, At, TypeInv, TypeOK
<1>3. \A k \in Conns : Carried(k) <=> k = spare \/ k \in {handle[c] : c \in Holders}
  BY <1>1, <1>2, NoConnAssumption DEF Carried
<1>4. \A k \in Conns : link[k] # "none" <=> k \in FreeConns \/ Carried(k)
  BY FreeIsQueued DEF OwnInv, TypeInv, TypeOK
<1>5. \A k \in Conns : ~(k \in FreeConns /\ Carried(k))
  BY FreeIsQueued DEF OwnInv, TypeInv, TypeOK
<1>6. FreeConns \subseteq Conns
  BY FreeIsQueued DEF TypeInv, TypeOK
<1>7. \A c \in Holders : handle[c] # spare
  BY <1>2, NoConnAssumption DEF OwnInv
<1>8. \A k \in FreeConns : k # spare
  BY <1>3, <1>5, <1>6
<1> QED BY <1>2, <1>3, <1>4, <1>5, <1>6, <1>7, <1>8

\* Outside of the shutdown and of a replacement, the total in the statistics
\* is the number of Connection objects, but for the one the producer has not
\* pushed yet.
THEOREM StatsAreTrue == Spec => []StatsCountConnections
<1>1. ASSUME TypeInv, OwnInv, CapInv PROVE StatsCountConnections
  <2> SUFFICES ASSUME MutexFree, ~shutdown
      PROVE Len(available) + active = Cardinality({k \in Conns : link[k] # "none" /\ k # spare})
    BY DEF StatsCountConnections, Stats
  <2> DEFINE f == [c \in Holders |-> handle[c]]
             T == {handle[c] : c \in Holders}
  <2>1. f \in Surjection(Holders, T) /\ f \in Injection(Holders, T)
    <3>1. \A c, d \in Holders : handle[c] = handle[d] => c = d
      BY <1>1 DEF OwnInv, Holders, At, TypeInv, HandleInv
    <3> QED BY <3>1 DEF Surjection, Injection, IsInjective
  <2>2. IsFiniteSet(T) /\ Cardinality(T) = Cardinality(Holders)
    <3> HIDE DEF f, T
    <3> QED BY <2>1, AtFinite, FS_Surjection DEF Holders
  <2>3. available \in Surjection(1..Len(available), FreeConns) /\ available \in Injection(1..Len(available), FreeConns)
    BY <1>1, SeqRange DEF Surjection, Injection, IsInjective, FreeConns, TypeInv, TypeOK, OwnInv, Distinct
  <2>4. IsFiniteSet(FreeConns) /\ Cardinality(FreeConns) = Len(available)
    <3>1. Len(available) \in Nat
      BY <1>1 DEF TypeInv, TypeOK
    <3>2. IsFiniteSet(1..Len(available))
          /\ Cardinality(1..Len(available)) = IF 1 > Len(available) THEN 0 ELSE Len(available) - 1 + 1
      BY <3>1, FS_Interval
    <3>3. IsFiniteSet(1..Len(available)) /\ Cardinality(1..Len(available)) = Len(available)
      BY <3>1, <3>2
    <3> QED BY <2>3, <3>3, FS_Surjection
  <2>5. Cardinality(FreeConns \cup T) = Len(available) + Cardinality(Holders)
    <3>1. FreeConns \cap T = {} /\ Cardinality({}) = 0
      BY <1>1, CountedConns, FS_EmptySet
    <3>2. Cardinality(FreeConns \cup T) = Cardinality(FreeConns) + Cardinality(T) - Cardinality({})
      BY <2>2, <2>4, <3>1, FS_Union
    <3> QED BY <1>1, <2>2, <2>4, <3>1, <3>2, CountTypes
  <2>6. active = Cardinality(Holders)
    BY <1>1 DEF CapInv, ActiveCountsLeases
  <2> QED BY <1>1, <2>5, <2>6, CountedConns
<1> QED BY <1>1, TypeCorrect, LifeCycle, InitOwn, OwnInvStep, CapCorrect, PTL DEF Spec

-----------------------------------------------------------------------------
(* Shutting down *)

LEMMA SameTruth ==
  ASSUME NEW p \in BOOLEAN, NEW q \in BOOLEAN, p <=> q
  PROVE  p = q
OBVIOUS

\* A step of which the threads of the pool and its owner take no notice: nobody
\* begins to wait, or somebody does in an open pool.
LEMMA QuietShutdown ==
  ASSUME UNCHANGED <<shutdown, producer, sweeper>>,
         (main = "destroyed")' <=> main = "destroyed",
         \/ Waiting' \subseteq Waiting
         \/ ~shutdown /\ \E c \in Clients : Waiting' = Waiting \cup {c}
  PROVE  ShutdownOf!Next
<1>1. StepsLeft' = StepsLeft
  BY DEF StepsLeft, ProducerLeft, SweeperLeft
<1>2. (main = "destroyed")' = (main = "destroyed")
  <2>1. (main = "destroyed")' \in BOOLEAN /\ (main = "destroyed") \in BOOLEAN
    OBVIOUS
  <2> QED BY <2>1, Zenon
<1>3. CASE Waiting' \subseteq Waiting
  <2>1. ShutdownOf!Wake
    BY <1>1, <1>2, <1>3 DEF ShutdownOf!Wake
  <2> QED BY <2>1 DEF ShutdownOf!Next
<1>4. CASE ~shutdown /\ \E c \in Clients : Waiting' = Waiting \cup {c}
  <2>1. PICK c \in Clients : Waiting' = Waiting \cup {c}
    BY <1>4
  <2>2. ShutdownOf!Wait(c)
    BY <1>1, <1>2, <1>4, <2>1 DEF ShutdownOf!Wait
  <2> QED BY <2>2 DEF ShutdownOf!Next
<1> QED BY <1>3, <1>4

\* A step of one thread of the pool.  With _shutdown set it is a step towards
\* the thread's end.
LEMMA ThreadRuns ==
  ASSUME NEW t \in PoolThreads, NEW n \in 0..3,
         StepsLeft' = [StepsLeft EXCEPT ![t] = n],
         IF shutdown THEN n < StepsLeft[t] ELSE n # 0,
         UNCHANGED <<shutdown, main>>, Waiting' \subseteq Waiting
  PROVE  ShutdownOf!Next
<1>1. ShutdownOf!Run(t)
  BY DEF ShutdownOf!Run
<1> QED BY <1>1 DEF ShutdownOf!Next

LEMMA ProducerRuns ==
  ASSUME TypeInv, UNCHANGED <<shutdown, sweeper, main>>, Waiting' \subseteq Waiting,
         IF shutdown THEN ProducerLeft' < ProducerLeft ELSE ProducerLeft' # 0
  PROVE  ShutdownOf!Next
<1>1. StepsLeft' = [StepsLeft EXCEPT !["producer"] = ProducerLeft']
  BY DEF StepsLeft, SweeperLeft, PoolThreads
<1>2. ProducerLeft' \in 0..3 /\ StepsLeft["producer"] = ProducerLeft /\ "producer" \in PoolThreads
  BY DEF ProducerLeft, StepsLeft, PoolThreads
<1> QED BY <1>1, <1>2, ThreadRuns

LEMMA SweeperRuns ==
  ASSUME TypeInv, UNCHANGED <<shutdown, producer, main>>, Waiting' \subseteq Waiting,
         IF shutdown THEN SweeperLeft' < SweeperLeft ELSE SweeperLeft' # 0
  PROVE  ShutdownOf!Next
<1>1. StepsLeft' = [StepsLeft EXCEPT !["sweeper"] = SweeperLeft']
  BY DEF StepsLeft, ProducerLeft, PoolThreads
<1>2. SweeperLeft' \in 0..3 /\ StepsLeft["sweeper"] = SweeperLeft /\ "sweeper" \in PoolThreads
  BY DEF SweeperLeft, StepsLeft, PoolThreads
<1> QED BY <1>1, <1>2, ThreadRuns

\* Whoever is notified leaves the wait set; the notifier was not in it.
LEMMA NotifiedWaiters ==
  ASSUME TypeInv, NEW p \in [Clients -> PCs], pc' \in NotifyOne(p),
         \A c \in Clients : p[c] = "waiting" => pc[c] = "waiting"
  PROVE  Waiting' \subseteq Waiting
BY NotifyOneEffect DEF Waiting, At

LEMMA ClientShutdown ==
  ASSUME TypeInv, NEW c \in Clients, Client(c)
  PROVE  ShutdownOf!Next
<1> USE DEF poolVars, statVars, clientVars, threadVars
<1>1. UNCHANGED <<shutdown, producer, sweeper, main>>
  BY DEF Client, GetConnection, EnterLock, WakeInTime, WakeTooLate, Proceed, StartWaiting, ReturnNull,
         TakeConnected, TakeDead, Reconnected, ReconnectFailed, ReturnConnection
<1>2. \/ Waiting' \subseteq Waiting
      \/ ~shutdown /\ \E d \in Clients : Waiting' = Waiting \cup {d}
  <2> USE DEF Waiting, At, TypeInv, TypeOK
  <2>1. CASE GetConnection(c) \/ WakeTooLate(c) \/ Reconnected(c) \/ ReconnectFailed(c)
    BY <2>1 DEF GetConnection, WakeTooLate, ReturnNull, Reconnected, ReconnectFailed, Lend
  <2>2. CASE Proceed(c)
    <3>1. CASE StartWaiting(c)
      <4>1. Waiting' = Waiting \cup {c} /\ ~shutdown
        BY <3>1 DEF StartWaiting
      <4> QED BY <4>1
    <3>2. CASE ~StartWaiting(c)
      BY <2>2, <3>2 DEF Proceed, ReturnNull, TakeConnected, TakeDead, Lend
    <3> QED BY <3>1, <3>2
  <2>3. CASE ReturnConnection(c)
    <3>1. [pc EXCEPT ![c] = "idle"] \in [Clients -> PCs]
      BY DEF PCs
    <3>2. CASE Reusable
      BY <2>3, <3>1, <3>2, NotifiedWaiters DEF ReturnConnection
    <3>3. CASE ~Reusable
      BY <2>3, <3>3 DEF ReturnConnection
    <3> QED BY <3>2, <3>3
  <2> QED BY <2>1, <2>2, <2>3 DEF Client, EnterLock, WakeInTime
<1> QED BY <1>1, <1>2, QuietShutdown

LEMMA ThreadsShutdown ==
  ASSUME TypeInv, LifeInv, ProducerThread \/ SweeperThread
  PROVE  ShutdownOf!Next
<1> USE DEF poolVars, statVars, clientVars, threadVars
<1>1. CASE ProducerTest \/ ProducerLock \/ ProducerCreate
  <2>1. Waiting' = Waiting
    BY <1>1 DEF ProducerTest, ProducerLock, ProducerCreate, Waiting, At
  <2>2. UNCHANGED <<shutdown, sweeper, main>>
    BY <1>1 DEF ProducerTest, ProducerLock, ProducerCreate
  <2>3. IF shutdown THEN ProducerLeft' < ProducerLeft ELSE ProducerLeft' # 0
    BY <1>1 DEF ProducerTest, ProducerLock, ProducerCreate, ProducerLeft
  <2> QED BY <2>1, <2>2, <2>3, ProducerRuns
<1>2. CASE ProducerPush
  <2>1. pc \in [Clients -> PCs]
    BY DEF TypeInv, TypeOK, PCs
  <2>2. Waiting' \subseteq Waiting
    <3>1. CASE PushesSpare
      BY <1>2, <2>1, <3>1, NotifiedWaiters DEF ProducerPush
    <3>2. CASE ~PushesSpare
      BY <1>2, <3>2 DEF ProducerPush, Waiting, At
    <3> QED BY <3>1, <3>2
  <2>3. UNCHANGED <<shutdown, sweeper, main>> /\ producer = "relock" /\ producer' = "head"
    BY <1>2 DEF ProducerPush
  <2> QED BY <2>2, <2>3, ProducerRuns DEF ProducerLeft
<1>3. CASE SweeperThread
  <2>1. Waiting' = Waiting /\ UNCHANGED <<shutdown, producer, main>>
    BY <1>3 DEF SweeperThread, SweeperTest, SweeperSleep, SweeperLock, Waiting, At
  <2>2. IF shutdown THEN SweeperLeft' < SweeperLeft ELSE SweeperLeft' # 0
    BY <1>3 DEF SweeperThread, SweeperTest, SweeperSleep, SweeperLock, SweeperLeft
  <2> QED BY <2>1, <2>2, SweeperRuns
<1> QED BY <1>1, <1>2, <1>3 DEF ProducerThread

LEMMA MainShutdown ==
  ASSUME TypeInv, LifeInv, MainThread
  PROVE  [ShutdownOf!Next]_ShutdownOf!shutdownVars
<1> USE DEF poolVars, statVars, clientVars, threadVars
<1>1. CASE Construct
  <2>1. Waiting' = Waiting /\ shutdown' = shutdown /\ main # "destroyed" /\ main' # "destroyed"
    BY <1>1 DEF Construct, InitialConnection, InitializeThrows, StartThreads, Waiting, At
  <2>2. StepsLeft' = StepsLeft
    BY <1>1 DEF Construct, InitialConnection, InitializeThrows, StartThreads, StepsLeft,
                ProducerLeft, SweeperLeft, LifeInv
  <2>3. (main = "destroyed")' = (main = "destroyed")
    BY <2>1
  <2> QED BY <2>1, <2>2, <2>3 DEF ShutdownOf!shutdownVars
<1>2. CASE Shutdown
  <2>1. UNCHANGED <<producer, sweeper, pc>> /\ shutdown' = TRUE
        /\ main # "destroyed" /\ main' # "destroyed"
    BY <1>2 DEF Shutdown
  <2>2. StepsLeft' = StepsLeft /\ Waiting' = Waiting
    BY <2>1 DEF StepsLeft, ProducerLeft, SweeperLeft, Waiting, At
  <2>3. (main = "destroyed")' = (main = "destroyed")
    BY <2>1
  <2>4. ShutdownOf!Close
    BY <2>1, <2>2, <2>3 DEF ShutdownOf!Close
  <2> QED BY <2>4 DEF ShutdownOf!Next
<1>3. CASE NotifyAll
  <2>1. Waiting' \subseteq Waiting
    BY <1>3 DEF NotifyAll, Waiting, At, TypeInv, TypeOK
  <2>2. UNCHANGED <<shutdown, sweeper>> /\ shutdown /\ main = "notify" /\ main' = "joinProducer"
    BY <1>3 DEF NotifyAll, LifeInv
  <2>3. CASE producer = "waiting"
    <3>1. ProducerLeft = 2 /\ ProducerLeft' = 1
      BY <1>3, <2>3 DEF NotifyAll, ProducerLeft
    <3>2. /\ StepsLeft' = [StepsLeft EXCEPT !["producer"] = 1]
          /\ StepsLeft["producer"] = 2 /\ "producer" \in PoolThreads
      BY <2>2, <3>1 DEF StepsLeft, SweeperLeft, PoolThreads
    <3>3. (main = "destroyed")' = (main = "destroyed")
      BY <2>2
    <3>4. ShutdownOf!Run("producer")
      BY <2>1, <2>2, <3>2, <3>3 DEF ShutdownOf!Run
    <3> QED BY <3>2, <3>4 DEF ShutdownOf!Next
  <2>4. CASE producer # "waiting"
    BY <1>3, <2>1, <2>2, <2>4, QuietShutdown DEF NotifyAll
  <2> QED BY <2>3, <2>4
<1>4. CASE JoinProducer \/ JoinSweeper
  <2>1. Waiting' = Waiting /\ UNCHANGED <<shutdown, producer, sweeper>>
        /\ main # "destroyed" /\ main' # "destroyed"
    BY <1>4 DEF JoinProducer, JoinSweeper, Waiting, At
  <2> QED BY <2>1, QuietShutdown
<1>5. CASE Clear
  <2>1. /\ Waiting' = Waiting /\ UNCHANGED <<shutdown, producer, sweeper>>
        /\ main = "clear" /\ main' = "destroyed"
    BY <1>5 DEF Clear, Waiting, At
  <2>2. shutdown /\ Waiting = {} /\ producer = "done" /\ sweeper = "done"
    BY <2>1 DEF LifeInv, Ended, Waiting, At
  <2>3. StepsLeft' = StepsLeft /\ \A t \in PoolThreads : StepsLeft[t] = 0
    BY <2>1, <2>2 DEF StepsLeft, ProducerLeft, SweeperLeft
  <2>4. (main = "destroyed")' = TRUE
    BY <2>1
  <2>5. ShutdownOf!Destroy
    BY <2>1, <2>2, <2>3, <2>4 DEF ShutdownOf!Destroy
  <2> QED BY <2>5 DEF ShutdownOf!Next
<1> QED BY <1>1, <1>2, <1>3, <1>4, <1>5 DEF MainThread, Destruct

LEMMA EnvironmentShutdown ==
  ASSUME TypeInv, LifeInv, Environment
  PROVE  ShutdownOf!Next
<1> USE DEF poolVars, statVars, clientVars, threadVars
<1>1. Waiting' \subseteq Waiting /\ UNCHANGED <<shutdown, sweeper, main>>
  BY DEF Environment, LoseLink, DeadlinePasses, TimedWake, SpuriousWake, SpuriousProducerWake,
         Waiting, At, TypeInv, TypeOK
<1>2. CASE SpuriousProducerWake
  BY <1>1, <1>2, ProducerRuns DEF SpuriousProducerWake, ProducerLeft
<1>3. CASE ~SpuriousProducerWake
  <2>1. producer' = producer
    BY <1>3 DEF Environment, LoseLink, DeadlinePasses, TimedWake, SpuriousWake
  <2> QED BY <1>1, <2>1, QuietShutdown
<1> QED BY <1>2, <1>3

LEMMA ShutdownStep ==
  TypeInv /\ LifeInv /\ [Next]_vars => [ShutdownOf!Next]_ShutdownOf!shutdownVars
<1> SUFFICES ASSUME TypeInv, LifeInv, [Next]_vars
             PROVE  [ShutdownOf!Next]_ShutdownOf!shutdownVars
  OBVIOUS
<1>1. CASE UNCHANGED vars
  <2>1. UNCHANGED <<shutdown, producer, sweeper, main, pc>>
    BY <1>1 DEF vars, poolVars, clientVars, threadVars
  <2>2. StepsLeft' = StepsLeft /\ Waiting' = Waiting /\ (main = "destroyed")' = (main = "destroyed")
    BY <2>1 DEF StepsLeft, ProducerLeft, SweeperLeft, Waiting, At
  <2> QED BY <2>1, <2>2 DEF ShutdownOf!shutdownVars
<1> QED BY <1>1, ClientShutdown, ThreadsShutdown, MainShutdown, EnvironmentShutdown DEF Next

LEMMA ShutdownInit == Init => ShutdownOf!Init
<1> SUFFICES ASSUME Init PROVE ShutdownOf!Init
  OBVIOUS
<1>1. Waiting = {} /\ shutdown = FALSE /\ (main = "destroyed") = FALSE
  BY DEF Init, Waiting, At
<1>2. StepsLeft \in [PoolThreads -> (0..3) \ {0}]
  BY DEF Init, StepsLeft, ProducerLeft, SweeperLeft
<1> QED BY <1>1, <1>2 DEF ShutdownOf!Init

\* From wherever shutdown() finds them, the producer and the sweeper end within
\* three steps of their own, nobody begins to wait any more, and the queue is
\* cleared after the last of them, for every number of clients and every size.
THEOREM PoolShutsDown == Spec => ImplementsShutdown
BY ShutdownInit, ShutdownStep, TypeCorrect, LifeCycle, PTL DEF Spec, ImplementsShutdown, ShutdownOf!Spec
=============================================================================
