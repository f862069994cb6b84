---------------------------- MODULE IdleSweepProofs ----------------------------
(* Types and the bound on stale connections, for every number of clients and  *)
(* connections, every size, idle time, tick and delay.                        *)
EXTENDS IdleSweep, FiniteSetTheorems, SequenceTheorems, TLAPS

Period == MaxIdle * TicksPerSecond

\* A connection is queued once, leased to one client or in the producer's hands.
OwnInv ==
  /\ \A i, j \in 1..Len(queue) : queue[i] = queue[j] => i = j
  /\ \A i \in 1..Len(queue), c \in Clients : lease[c] # queue[i]
  /\ \A c, d \in Clients : lease[c] # NoConn /\ lease[c] = lease[d] => c = d
  /\ spare # NoConn =>
       /\ \A i \in 1..Len(queue) : queue[i] # spare
       /\ \A c \in Clients : lease[c] # spare

\* Connections are queued in the order in which they became unused.
Fifo == \A i, j \in 1..Len(queue) : i < j => unused[queue[i]] >= unused[queue[j]]

\* A lease began before it ended: the alive time is the older of the two.
AgeInv == \A k \in Conns : unused[k] <= age[k] \/ age[k] = AgeLimit

\* After a sweep no more than minSize connections have been unused for the idle
\* time.  The limit grows with the time since then.
SinceSweep == AgeLimit - 1 + Period - timer
StaleInv == Cardinality(UnusedLongerThan(SinceSweep)) <= MinSize

IInv == TypeOK /\ OwnInv /\ Fifo /\ AgeInv /\ StaleInv

-----------------------------------------------------------------------------
(* The limits *)

LEMMA Limits ==
  /\ Period \in Nat /\ AgeLimit = Period + TicksPerSecond
  /\ AgeLimit \in Nat \ {0} /\ UnusedLimit = AgeLimit - 1 + Period + MaxDelay
<1>1. MaxIdle \in Nat /\ TicksPerSecond \in Nat \ {0} /\ MaxDelay \in Nat
  BY TimeAssumption
<1>2. Period \in Nat /\ (MaxIdle + 1) * TicksPerSecond = Period + TicksPerSecond
  BY <1>1 DEF Period
<1> QED BY <1>1, <1>2 DEF AgeLimit, UnusedLimit, Period

\* Whole seconds exceed maxIdleTime as soon as the age is one second more.
LEMMA OldIsAged ==
  ASSUME NEW k \in Conns, age[k] = AgeLimit
  PROVE  Aged(k)
<1> DEFINE q == AgeLimit \div TicksPerSecond
           r == AgeLimit % TicksPerSecond
<1>1. MaxIdle \in Nat /\ TicksPerSecond \in Nat \ {0}
  BY TimeAssumption
<1>2. q \in Int /\ r \in 0..TicksPerSecond - 1 /\ AgeLimit = TicksPerSecond * q + r
  BY <1>1, Limits
<1>3. AgeLimit = TicksPerSecond * MaxIdle + TicksPerSecond
  BY <1>1 DEF AgeLimit
<1> HIDE DEF q, r
<1>4. q > MaxIdle
  <2> SUFFICES ASSUME q <= MaxIdle PROVE FALSE
    BY <1>1, <1>2
  <2>1. TicksPerSecond * q <= TicksPerSecond * MaxIdle
    BY <1>1, <1>2
  <2> QED BY <1>1, <1>2, <1>3, <2>1
<1> QED BY <1>4 DEF Aged, q

-----------------------------------------------------------------------------
(* The queue *)

\* The elements of a queue a connection is pushed to.
LEMMA PushElements ==
  ASSUME NEW q \in Seq(Conns), NEW k \in Conns
  PROVE  /\ Append(q, k) \in Seq(Conns)
         /\ Len(Append(q, k)) = Len(q) + 1
         /\ \A i \in 1..Len(q) : Append(q, k)[i] = q[i]
         /\ Append(q, k)[Len(q) + 1] = k
OBVIOUS

\* The elements of a queue whose first n connections are popped.
LEMMA PopElements ==
  ASSUME NEW q \in Seq(Conns), NEW n \in 0..Len(q)
  PROVE  /\ SubSeq(q, n + 1, Len(q)) \in Seq(Conns)
         /\ Len(SubSeq(q, n + 1, Len(q))) = Len(q) - n
         /\ \A i \in 1..Len(q) - n : SubSeq(q, n + 1, Len(q))[i] = q[i + n]
OBVIOUS

\* pop() is popping one.
LEMMA TailIsPop ==
  ASSUME NEW q \in Seq(Conns), q # <<>>
  PROVE  /\ Len(q) >= 1 /\ Head(q) = q[1] /\ Head(q) \in Conns
         /\ Tail(q) = SubSeq(q, 1 + 1, Len(q))
BY TailIsSubSeq

LEMMA SeqRange ==
  ASSUME NEW q \in Seq(Conns)
  PROVE  /\ Range(q) \subseteq Conns /\ q \in [1..Len(q) -> Range(q)]
         /\ \A k : k \in Range(q) <=> \E i \in 1..Len(q) : q[i] = k
BY DEF Range

\* A queue has no more connections than places.
LEMMA RangeSize ==
  ASSUME NEW q \in Seq(Conns)
  PROVE  IsFiniteSet(Range(q)) /\ Cardinality(Range(q)) <= Len(q)
<1>1. q \in Surjection(1..Len(q), Range(q))
  BY SeqRange DEF Surjection
<1>2. IsFiniteSet(1..Len(q)) /\ Cardinality(1..Len(q)) = Len(q)
  <2>1. Len(q) \in Nat
    OBVIOUS
  <2>2. /\ IsFiniteSet(1..Len(q))
        /\ Cardinality(1..Len(q)) = IF 1 > Len(q) THEN 0 ELSE Len(q) - 1 + 1
    BY <2>1, FS_Interval
  <2> QED BY <2>1, <2>2
<1> QED BY <1>1, <1>2, FS_Surjection

LEMMA LeasedIs ==
  ASSUME TypeOK
  PROVE  \A k \in Conns : k \in Leased <=> \E c \in Clients : lease[c] = k
BY NoConnAssumption DEF Leased, Range, TypeOK

\* The connections that are unused for long, by their places.
LEMMA UnusedAt ==
  ASSUME queue \in Seq(Conns), NEW limit
  PROVE  \A k : k \in UnusedLongerThan(limit)
                  <=> \E i \in 1..Len(queue) : queue[i] = k /\ unused[k] > limit
BY SeqRange DEF UnusedLongerThan

LEMMA FewUnused ==
  ASSUME queue \in Seq(Conns), NEW limit
  PROVE  /\ IsFiniteSet(UnusedLongerThan(limit))
         /\ Cardinality(UnusedLongerThan(limit)) \in Nat
         /\ Cardinality(UnusedLongerThan(limit)) <= Len(queue)
<1>1. IsFiniteSet(Range(queue)) /\ Cardinality(Range(queue)) <= Len(queue)
  BY RangeSize
<1>2. UnusedLongerThan(limit) \subseteq Range(queue)
  BY DEF UnusedLongerThan
<1> QED BY <1>1, <1>2, FS_Subset, FS_CardinalityType

\* A higher limit exempts more connections.
LEMMA HigherLimit ==
  ASSUME TypeOK, NEW l \in Int, NEW m \in Int, l <= m
  PROVE  Cardinality(UnusedLongerThan(m)) <= Cardinality(UnusedLongerThan(l))
<1>1. UnusedLongerThan(m) \subseteq UnusedLongerThan(l)
  BY SeqRange DEF UnusedLongerThan, TypeOK
<1>2. IsFiniteSet(UnusedLongerThan(l))
  BY FewUnused DEF TypeOK
<1> QED BY <1>1, <1>2, FS_Subset

-----------------------------------------------------------------------------
(* What an action has to show for StaleInv: that no connection becomes stale. *)

LEMMA NoneMoreStale ==
  ASSUME IInv, TypeOK',
         \A k \in Conns : k \in UnusedLongerThan(SinceSweep)' => k \in UnusedLongerThan(SinceSweep)
  PROVE  StaleInv'
<1>1. UnusedLongerThan(SinceSweep)' \subseteq UnusedLongerThan(SinceSweep)
  BY SeqRange DEF UnusedLongerThan, TypeOK
<1>2. IsFiniteSet(UnusedLongerThan(SinceSweep)) /\ Cardinality(UnusedLongerThan(SinceSweep)) \in Nat
  BY FewUnused DEF IInv, TypeOK
<1>3. Cardinality(UnusedLongerThan(SinceSweep)') <= Cardinality(UnusedLongerThan(SinceSweep))
      /\ Cardinality(UnusedLongerThan(SinceSweep)') \in Nat
  BY <1>1, <1>2, FS_Subset, FS_CardinalityType
<1> QED BY <1>2, <1>3, SizeAssumption DEF IInv, StaleInv

\* Somebody who has just become unused is not stale.
LEMMA SinceSweepIsNatural ==
  ASSUME TypeOK
  PROVE  SinceSweep \in Nat /\ SinceSweep <= UnusedLimit
<1>1. timer \in -MaxDelay..Period
  BY Zenon DEF TypeOK, Period
<1> QED BY <1>1, Limits, TimeAssumption DEF SinceSweep

-----------------------------------------------------------------------------
(* The types *)

LEMMA InitTypes == Init => TypeOK
<1> SUFFICES ASSUME Init PROVE TypeOK
  OBVIOUS
<1>1. queue \in Seq(Conns)
  BY SizeAssumption DEF Init
<1>2. 0 \in 0..AgeLimit /\ 0 \in 0..UnusedLimit + 1 /\ Period \in -MaxDelay..Period
  BY Limits, TimeAssumption
<1> QED BY <1>1, <1>2 DEF Init, TypeOK, Period

LEMMA TypeStep == TypeOK /\ [Next]_vars => TypeOK'
<1> SUFFICES ASSUME TypeOK, [Next]_vars PROVE TypeOK'
  OBVIOUS
<1>0. /\ 0 \in 0..AgeLimit /\ 0 \in 0..UnusedLimit + 1 /\ Period \in -MaxDelay..Period
      /\ AgeLimit \in Nat /\ UnusedLimit + 1 \in Nat /\ MaxDelay \in Nat /\ Period \in Nat
  BY Limits, TimeAssumption
<1>1. ASSUME NEW c \in Clients, Take(c) PROVE TypeOK'
  <2>1. Head(queue) \in Conns /\ Tail(queue) \in Seq(Conns)
    BY <1>1, TailIsPop, PopElements DEF Take, TypeOK
  <2> QED BY <1>0, <1>1, <2>1 DEF Take, Refresh, producerVars, TypeOK
<1>2. ASSUME NEW c \in Clients, Return(c) PROVE TypeOK'
  <2>1. lease[c] \in Conns /\ queue' \in Seq(Conns)
    BY <1>2, PushElements DEF Return, TypeOK
  <2> QED BY <1>0, <1>2, <2>1 DEF Return, producerVars, TypeOK
<1>3. CASE LoseFront
  <2>1. queue' \in Seq(Conns)
    BY <1>3, TailIsPop, PopElements DEF LoseFront, TypeOK
  <2> QED BY <1>3, <2>1 DEF LoseFront, producerVars, TypeOK
<1>4. CASE ProducerTests \/ CreateFails
  BY <1>4 DEF ProducerTests, CreateFails, TypeOK
<1>8. ASSUME NEW k \in Conns, Create(k) PROVE TypeOK'
  BY <1>0, <1>8 DEF Create, Refresh, TypeOK
<1>9. CASE Push
  <2>1. spare \in Conns /\ queue' \in Seq(Conns)
    BY <1>9, PushElements DEF Push, TypeOK
  <2> QED BY <1>0, <1>9, <2>1 DEF Push, TypeOK
<1>5. CASE Sweep
  <2>1. queue' \in Seq(Conns)
    BY <1>5, PopElements DEF Sweep, TypeOK
  <2> QED BY <1>0, <1>5, <2>1 DEF Sweep, producerVars, TypeOK, Period
<1>6. CASE Tick
  <2>1. \A a \in 0..AgeLimit : Older(a, AgeLimit) \in 0..AgeLimit
    BY <1>0 DEF Older
  <2>2. \A u \in 0..UnusedLimit + 1 : Older(u, UnusedLimit + 1) \in 0..UnusedLimit + 1
    BY <1>0 DEF Older
  <2>3. timer' \in -MaxDelay..Period
    BY <1>0, <1>6 DEF Tick, TypeOK, Period
  <2> QED BY <1>6, <2>1, <2>2, <2>3 DEF Tick, producerVars, TypeOK, Period
<1>7. CASE UNCHANGED vars
  BY <1>7 DEF vars, producerVars, TypeOK
<1> QED BY <1>1, <1>2, <1>3, <1>4, <1>8, <1>9, <1>5, <1>6, <1>7 DEF Next

\* Every variable keeps its type: ages and delays stay within their caps.
THEOREM SweepTypes == Spec => []TypeOK
BY InitTypes, TypeStep, PTL DEF Spec

-----------------------------------------------------------------------------
(* The steps *)

\* The queue after a pop of n connections, in the terms of the invariant.
Popped(n) ==
  /\ Len(queue') = Len(queue) - n
  /\ \A i \in 1..Len(queue') : i + n \in 1..Len(queue) /\ queue'[i] = queue[i + n]

LEMMA PopInv ==
  ASSUME IInv, NEW n \in 0..Len(queue), queue' = SubSeq(queue, n + 1, Len(queue))
  PROVE  Popped(n)
<1>1. queue \in Seq(Conns) /\ Len(queue) \in Nat
  BY DEF IInv, TypeOK
<1> QED BY <1>1, PopElements DEF Popped

\* A connection leaves the queue and everybody else's places stay in order.
LEMMA PopSteps ==
  ASSUME IInv, TypeOK', NEW n \in 0..Len(queue), Popped(n),
         \A i \in 1..Len(queue) : i > n => unused'[queue[i]] = unused[queue[i]]
  PROVE  /\ \A i, j \in 1..Len(queue') : queue'[i] = queue'[j] => i = j
         /\ Fifo'
         /\ timer' = timer => StaleInv'
<1>1. queue \in Seq(Conns) /\ queue' \in Seq(Conns) /\ Len(queue) \in Nat /\ Len(queue') \in Nat
  BY DEF IInv, TypeOK
<1>2. \A i, j \in 1..Len(queue') : queue'[i] = queue'[j] => i = j
  BY <1>1 DEF Popped, IInv, OwnInv
<1>3. \A i \in 1..Len(queue') : unused'[queue'[i]] = unused[queue[i + n]]
  BY <1>1 DEF Popped
<1>4. Fifo'
  <2> SUFFICES ASSUME NEW i \in 1..Len(queue'), NEW j \in 1..Len(queue'), i < j
               PROVE  unused'[queue'[i]] >= unused'[queue'[j]]
    BY DEF Fifo
  <2>1. i + n \in 1..Len(queue) /\ j + n \in 1..Len(queue) /\ i + n < j + n
    BY <1>1 DEF Popped
  <2>2. unused[queue[i + n]] >= unused[queue[j + n]]
    BY <2>1 DEF IInv, Fifo
  <2> QED BY <1>3, <2>2
<1>5. ASSUME timer' = timer PROVE StaleInv'
  <2>1. SinceSweep' = SinceSweep
    BY <1>5 DEF SinceSweep
  <2>2. \A k : k \in UnusedLongerThan(SinceSweep)' <=>
               \E i \in 1..Len(queue') : queue'[i] = k /\ unused'[k] > SinceSweep'
    BY <1>1, SeqRange DEF UnusedLongerThan
  <2> QED BY <1>1, <1>3, <2>1, <2>2, UnusedAt, NoneMoreStale DEF Popped
<1> QED BY <1>2, <1>4, <1>5

\* A connection that was not in the queue joins it, unused from now on.
LEMMA PushSteps ==
  ASSUME IInv, TypeOK', NEW k \in Conns, queue' = Append(queue, k),
         \A i \in 1..Len(queue) : queue[i] # k,
         unused' = [unused EXCEPT ![k] = 0], timer' = timer
  PROVE  /\ \A i, j \in 1..Len(queue') : queue'[i] = queue'[j] => i = j
         /\ Fifo'
         /\ StaleInv'
<1>1. /\ queue \in Seq(Conns) /\ queue' \in Seq(Conns) /\ Len(queue) \in Nat
      /\ Len(queue') = Len(queue) + 1 /\ queue'[Len(queue) + 1] = k
      /\ \A i \in 1..Len(queue) : queue'[i] = queue[i] /\ queue[i] \in Conns
  BY PushElements DEF IInv, TypeOK
<1>2. \A i, j \in 1..Len(queue') : queue'[i] = queue'[j] => i = j
  BY <1>1 DEF IInv, OwnInv
<1>3. /\ \A j \in Conns : unused[j] \in Nat
      /\ unused'[k] = 0 /\ \A i \in 1..Len(queue) : unused'[queue[i]] = unused[queue[i]]
  BY <1>1 DEF IInv, TypeOK
<1>4. Fifo'
  <2> SUFFICES ASSUME NEW i \in 1..Len(queue'), NEW j \in 1..Len(queue'), i < j
               PROVE  unused'[queue'[i]] >= unused'[queue'[j]]
    BY DEF Fifo
  <2>1. i \in 1..Len(queue) /\ queue'[i] = queue[i] /\ unused'[queue'[i]] = unused[queue[i]]
    BY <1>1, <1>3
  <2>2. CASE j \in 1..Len(queue)
    BY <1>1, <1>3, <2>1, <2>2 DEF IInv, Fifo
  <2>3. CASE j = Len(queue) + 1
    BY <1>1, <1>3, <2>1, <2>3
  <2> QED BY <1>1, <2>2, <2>3
<1>5. SinceSweep' = SinceSweep /\ SinceSweep \in Nat
  BY SinceSweepIsNatural DEF SinceSweep, IInv
<1>6. \A j : j \in UnusedLongerThan(SinceSweep)' <=>
             \E i \in 1..Len(queue') : queue'[i] = j /\ unused'[j] > SinceSweep'
  <2>1. \A j : j \in Range(queue') <=> \E i \in 1..Len(queue') : queue'[i] = j
    BY <1>1, SeqRange
  <2> QED BY <2>1 DEF UnusedLongerThan
<1>7. StaleInv'
  BY <1>1, <1>3, <1>5, <1>6, UnusedAt, NoneMoreStale
<1> QED BY <1>2, <1>4, <1>7

LEMMA TakeStep ==
  ASSUME IInv, TypeOK', NEW c \in Clients, Take(c)
  PROVE  IInv'
<1>1. /\ queue \in Seq(Conns) /\ Len(queue) >= 1 /\ Len(queue) \in Nat
      /\ Head(queue) = queue[1] /\ Head(queue) \in Conns
      /\ queue' = SubSeq(queue, 1 + 1, Len(queue))
  BY TailIsPop DEF Take, IInv, TypeOK
<1>2. Popped(1)
  BY <1>1, PopInv
<1>3. \A i \in 1..Len(queue) : i > 1 => unused'[queue[i]] = unused[queue[i]]
  <2>1. \A i \in 1..Len(queue) : queue[i] \in Conns /\ (i > 1 => queue[i] # queue[1])
    BY <1>1 DEF IInv, OwnInv
  <2>2. unused' = [unused EXCEPT ![queue[1]] = 0] /\ DOMAIN unused = Conns
    BY <1>1 DEF Take, Refresh, IInv, TypeOK
  <2> QED BY <2>1, <2>2
<1>4. /\ \A i, j \in 1..Len(queue') : queue'[i] = queue'[j] => i = j
      /\ Fifo' /\ StaleInv'
  <2>1. 1 \in 0..Len(queue) /\ timer' = timer
    BY <1>1 DEF Take
  <2> QED BY <2>1, <1>2, <1>3, PopSteps
<1>5. /\ lease' = [lease EXCEPT ![c] = queue[1]]
      /\ \A d \in Clients : lease'[d] = IF d = c THEN queue[1] ELSE lease[d]
  <2>1. lease' = [lease EXCEPT ![c] = queue[1]]
    BY <1>1 DEF Take
  <2>2. DOMAIN lease = Clients
    BY DEF IInv, TypeOK
  <2> QED BY <2>1, <2>2
<1>6. \A i \in 1..Len(queue'), d \in Clients : lease'[d] # queue'[i]
  BY <1>1, <1>2, <1>5 DEF Popped, IInv, OwnInv
<1>7. \A d, e \in Clients : lease'[d] # NoConn /\ lease'[d] = lease'[e] => d = e
  BY <1>1, <1>5 DEF IInv, OwnInv
<1>8. AgeInv'
  BY <1>1 DEF Take, Refresh, IInv, AgeInv, TypeOK
<1>9. spare' = spare /\ \A i \in 1..Len(queue') : \E j \in 1..Len(queue) : queue'[i] = queue[j]
  BY <1>1, <1>2 DEF Take, producerVars, Popped
<1> QED BY <1>1, <1>4, <1>5, <1>6, <1>7, <1>8, <1>9 DEF IInv, OwnInv

LEMMA ReturnStep ==
  ASSUME IInv, TypeOK', NEW c \in Clients, Return(c)
  PROVE  IInv'
<1>1. /\ lease[c] \in Conns /\ queue \in Seq(Conns) /\ Len(queue) \in Nat
      /\ \A i \in 1..Len(queue) : queue[i] # lease[c]
  BY DEF Return, IInv, OwnInv, TypeOK
<1>2. /\ \A i, j \in 1..Len(queue') : queue'[i] = queue'[j] => i = j
      /\ Fifo' /\ StaleInv'
  BY <1>1, PushSteps DEF Return
<1>3. \A d \in Clients : lease'[d] = IF d = c THEN NoConn ELSE lease[d]
  BY DEF Return, IInv, TypeOK
<1>4. /\ Len(queue') = Len(queue) + 1 /\ queue'[Len(queue) + 1] = lease[c]
      /\ \A i \in 1..Len(queue) : queue'[i] = queue[i]
      /\ \A i \in 1..Len(queue') : queue'[i] \in Conns
  BY <1>1, PushElements DEF Return
<1>5. \A i \in 1..Len(queue'), d \in Clients : lease'[d] # queue'[i]
  <2> TAKE i \in 1..Len(queue'), d \in Clients
  <2>1. CASE d = c
    BY <1>3, <1>4, <2>1, NoConnAssumption
  <2>2. CASE d # c /\ i = Len(queue) + 1
    BY <1>1, <1>3, <1>4, <2>2, NoConnAssumption DEF IInv, OwnInv
  <2>3. CASE d # c /\ i \in 1..Len(queue)
    BY <1>3, <1>4, <2>3 DEF IInv, OwnInv
  <2> QED BY <1>1, <1>4, <2>1, <2>2, <2>3
<1>6. \A d, e \in Clients : lease'[d] # NoConn /\ lease'[d] = lease'[e] => d = e
  BY <1>3 DEF IInv, OwnInv
<1>7. AgeInv'
  BY <1>1, Limits DEF Return, IInv, AgeInv, TypeOK
<1>8. spare' # NoConn =>
        /\ \A i \in 1..Len(queue') : queue'[i] # spare'
        /\ \A d \in Clients : lease'[d] # spare'
  <2>1. spare' = spare
    BY DEF Return, producerVars
  <2>2. ASSUME spare # NoConn, NEW i \in 1..Len(queue') PROVE queue'[i] # spare
    BY <1>1, <1>4, <2>2 DEF IInv, OwnInv
  <2> QED BY <1>3, <2>1, <2>2 DEF IInv, OwnInv
<1> QED BY <1>2, <1>5, <1>6, <1>7, <1>8 DEF IInv, OwnInv

LEMMA LoseFrontStep ==
  ASSUME IInv, TypeOK', LoseFront
  PROVE  IInv'
<1>1. queue \in Seq(Conns) /\ 1 \in 0..Len(queue) /\ queue' = SubSeq(queue, 1 + 1, Len(queue))
  BY TailIsPop DEF LoseFront, IInv, TypeOK
<1>2. Popped(1)
  BY <1>1, PopInv
<1>3. /\ \A i, j \in 1..Len(queue') : queue'[i] = queue'[j] => i = j
      /\ Fifo' /\ StaleInv'
  BY <1>1, <1>2, PopSteps DEF LoseFront
<1> QED BY <1>2, <1>3 DEF LoseFront, producerVars, Popped, IInv, OwnInv, AgeInv

\* Test, attempt and push of the producer: the queue only sees the push.
LEMMA AttemptStep ==
  ASSUME IInv, TypeOK', ProducerTests \/ CreateFails
  PROVE  IInv'
BY DEF ProducerTests, CreateFails, IInv, OwnInv, Fifo, AgeInv, StaleInv, SinceSweep, UnusedLongerThan

LEMMA CreateStep ==
  ASSUME IInv, TypeOK', NEW k \in Conns, Create(k)
  PROVE  IInv'
<1>1. queue \in Seq(Conns) /\ Len(queue) \in Nat /\ queue' = queue /\ timer' = timer
  BY DEF Create, IInv, TypeOK
<1>2. /\ \A i \in 1..Len(queue) : queue[i] # k
      /\ \A c \in Clients : lease[c] # k
  BY <1>1, SeqRange, LeasedIs DEF Create, IInv
<1>3. OwnInv'
  BY <1>2 DEF Create, IInv, OwnInv
<1>4. /\ \A i \in 1..Len(queue) : queue[i] \in Conns /\ unused'[queue[i]] = unused[queue[i]]
      /\ unused'[k] = 0 /\ age'[k] = 0
  BY <1>1, <1>2 DEF Create, Refresh, IInv, TypeOK
<1>5. Fifo'
  BY <1>1, <1>4 DEF IInv, Fifo
<1>6. AgeInv'
  BY <1>4 DEF Create, Refresh, IInv, AgeInv, TypeOK
<1>7. StaleInv'
  <2>1. SinceSweep' = SinceSweep
    BY <1>1 DEF SinceSweep
  <2>2. \A j : j \in UnusedLongerThan(SinceSweep)' => j \in UnusedLongerThan(SinceSweep)
    BY <1>1, <1>2, <1>4, <2>1, SeqRange DEF UnusedLongerThan
  <2> QED BY <2>2, NoneMoreStale
<1> QED BY <1>3, <1>5, <1>6, <1>7 DEF IInv

LEMMA PushStep ==
  ASSUME IInv, TypeOK', Push
  PROVE  IInv'
<1>1. /\ queue \in Seq(Conns) /\ Len(queue) \in Nat /\ spare \in Conns
      /\ queue' = Append(queue, spare) /\ spare' = NoConn /\ lease' = lease
  BY DEF Push, IInv, TypeOK
<1>2. /\ \A i \in 1..Len(queue) : queue[i] # spare
      /\ \A d \in Clients : lease[d] # spare
  BY DEF Push, IInv, OwnInv
<1>3. /\ \A i, j \in 1..Len(queue') : queue'[i] = queue'[j] => i = j
      /\ Fifo' /\ StaleInv'
  BY <1>1, <1>2, PushSteps DEF Push
<1>4. /\ Len(queue') = Len(queue) + 1 /\ queue'[Len(queue) + 1] = spare
      /\ \A i \in 1..Len(queue) : queue'[i] = queue[i]
  BY <1>1, PushElements
<1>5. \A i \in 1..Len(queue'), d \in Clients : lease'[d] # queue'[i]
  BY <1>1, <1>2, <1>4 DEF IInv, OwnInv
<1>6. AgeInv'
  BY <1>1, Limits DEF Push, IInv, AgeInv, TypeOK
<1> QED BY <1>1, <1>3, <1>5, <1>6 DEF IInv, OwnInv

\* What is not aged has not been unused for the idle time, and nothing behind
\* it has.
LEMMA SweepStep ==
  ASSUME IInv, TypeOK', Sweep
  PROVE  IInv'
<1>1. queue \in Seq(Conns) /\ queue' \in Seq(Conns) /\ Len(queue) \in Nat /\ Len(queue') \in Nat
  BY DEF IInv, TypeOK
<1>2. PICK n \in 0..Len(queue) : SweepCount(n) /\ queue' = SubSeq(queue, n + 1, Len(queue))
  BY DEF Sweep
<1>3. Popped(n)
  BY <1>2, PopInv
<1>4. /\ \A i, j \in 1..Len(queue') : queue'[i] = queue'[j] => i = j
      /\ Fifo'
  BY <1>3, PopSteps DEF Sweep
<1>5. SinceSweep' = AgeLimit - 1
  BY Limits DEF Sweep, SinceSweep, Period
<1>6. StaleInv'
  <2>1. CASE Len(queue') <= MinSize
    <3>1. /\ Cardinality(UnusedLongerThan(SinceSweep))' <= Len(queue')
          /\ Cardinality(UnusedLongerThan(SinceSweep))' \in Nat
      <4>1. IsFiniteSet(Range(queue')) /\ Cardinality(Range(queue')) <= Len(queue')
        BY <1>1, RangeSize
      <4>2. UnusedLongerThan(SinceSweep)' \subseteq Range(queue')
        BY DEF UnusedLongerThan
      <4> QED BY <4>1, <4>2, FS_Subset, FS_CardinalityType
    <3> QED BY <1>1, <2>1, <3>1, SizeAssumption DEF StaleInv
  <2>2. CASE Len(queue') > MinSize
    <3>1. n < Len(queue) /\ ~Aged(queue[n + 1])
      BY <1>1, <1>2, <1>3, <2>2, SizeAssumption DEF Popped, SweepCount, MaySweep
    <3>2. queue'[1] = queue[n + 1] /\ queue'[1] \in Conns /\ 1 \in 1..Len(queue')
      BY <1>1, <1>3, <2>2, SizeAssumption DEF Popped
    <3>3. unused'[queue'[1]] < AgeLimit
      <4>1. age[queue'[1]] # AgeLimit
        BY <3>1, <3>2, OldIsAged
      <4>2. /\ age[queue'[1]] \in 0..AgeLimit /\ unused[queue'[1]] \in 0..UnusedLimit + 1
            /\ unused[queue'[1]] <= age[queue'[1]]
        BY <3>2, <4>1 DEF IInv, AgeInv, TypeOK
      <4>3. unused' = unused
        BY DEF Sweep
      <4> QED BY <4>1, <4>2, <4>3, Limits
    <3>4. \A i \in 1..Len(queue') : unused'[queue'[i]] <= AgeLimit - 1
      <4> TAKE i \in 1..Len(queue')
      <4>1. queue'[i] \in Conns
        BY <1>1
      <4>2. unused'[queue'[1]] \in Nat /\ unused'[queue'[i]] \in Nat
        BY <3>2, <4>1, Limits, TimeAssumption DEF TypeOK
      <4>3. unused'[queue'[1]] >= unused'[queue'[i]]
        BY <1>1, <1>4, <3>2, <4>2 DEF Fifo
      <4> QED BY <3>3, <4>2, <4>3, Limits
    <3>5. UnusedLongerThan(SinceSweep)' = {}
      <4>1. \A k : k \in Range(queue') => \E i \in 1..Len(queue') : queue'[i] = k
        BY <1>1, SeqRange
      <4>2. \A k \in Range(queue') : unused'[k] \in Nat
        <5>1. unused' \in [Conns -> 0..UnusedLimit + 1]
          BY Zenon DEF TypeOK
        <5>2. Range(queue') \subseteq Conns
          BY <1>1, SeqRange
        <5> QED BY <5>1, <5>2
      <4> QED BY <1>5, <3>4, <4>1, <4>2, Limits DEF UnusedLongerThan
    <3> QED BY <3>5, FS_EmptySet, SizeAssumption DEF StaleInv
  <2> QED BY <1>1, <2>1, <2>2, SizeAssumption
<1>7. AgeInv'
  BY DEF Sweep, IInv, AgeInv
<1>8. spare' = spare /\ lease' = lease
      /\ \A i \in 1..Len(queue') : \E j \in 1..Len(queue) : queue'[i] = queue[j]
  BY <1>3 DEF Sweep, producerVars, Popped
<1> QED BY <1>4, <1>6, <1>7, <1>8 DEF IInv, OwnInv

\* Everybody in the queue gets older by the same, up to the caps, and so does
\* the limit.
LEMMA TickStep ==
  ASSUME IInv, TypeOK', Tick
  PROVE  IInv'
<1>1. queue \in Seq(Conns) /\ Len(queue) \in Nat /\ queue' = queue /\ lease' = lease
      /\ spare' = spare
  BY DEF Tick, producerVars, IInv, TypeOK
<1>2. \A i \in 1..Len(queue) : queue[i] \in Conns /\ queue[i] \in Range(queue)
  BY <1>1, SeqRange
<1>3. \A i \in 1..Len(queue) : unused'[queue[i]] = Older(unused[queue[i]], UnusedLimit + 1)
  BY <1>2 DEF Tick
<1>4. /\ \A k \in Conns : unused[k] \in 0..UnusedLimit + 1 /\ age[k] \in 0..AgeLimit
      /\ UnusedLimit + 1 \in Nat /\ AgeLimit \in Nat
  BY Limits, TimeAssumption DEF IInv, TypeOK
<1>5. Fifo'
  BY <1>1, <1>2, <1>3, <1>4 DEF Older, IInv, Fifo
<1>6. AgeInv'
  BY <1>4 DEF Tick, Older, IInv, AgeInv
<1>7. StaleInv'
  <2>1. SinceSweep' = SinceSweep + 1 /\ SinceSweep \in Nat
    BY SinceSweepIsNatural, Limits DEF Tick, SinceSweep, IInv, TypeOK
  <2>2. \A k \in Conns : k \in UnusedLongerThan(SinceSweep)' => k \in UnusedLongerThan(SinceSweep)
    BY <1>1, <1>4, <2>1 DEF UnusedLongerThan, Tick, Older
  <2> QED BY <2>2, NoneMoreStale
<1> QED BY <1>1, <1>5, <1>6, <1>7 DEF IInv, OwnInv

LEMMA InitIInv == Init => IInv
<1> SUFFICES ASSUME Init PROVE IInv
  OBVIOUS
<1>1. TypeOK /\ Len(queue) = MinSize /\ \A k \in Conns : unused[k] = 0 /\ age[k] = 0
  BY InitTypes, SizeAssumption DEF Init
<1>2. queue \in Seq(Conns) /\ Len(queue) \in Nat
      /\ \A i, j \in 1..Len(queue) : queue[i] = queue[j] => i = j
  BY <1>1, SizeAssumption DEF TypeOK, Init, IsInjective
<1>3. OwnInv
  <2>1. \A i \in 1..Len(queue) : queue[i] \in Conns
    BY <1>2
  <2>2. spare = NoConn /\ \A c \in Clients : lease[c] = NoConn
    BY DEF Init
  <2> QED BY <1>2, <2>1, <2>2, NoConnAssumption DEF OwnInv
<1>4. Fifo /\ AgeInv
  BY <1>1, <1>2 DEF Fifo, AgeInv
<1>5. StaleInv
  BY <1>1, <1>2, FewUnused, SizeAssumption DEF StaleInv
<1> QED BY <1>1, <1>3, <1>4, <1>5 DEF IInv

LEMMA IInvStep == IInv /\ [Next]_vars => IInv'
<1> SUFFICES ASSUME IInv, [Next]_vars PROVE IInv'
  OBVIOUS
<1>1. TypeOK'
  BY TypeStep DEF IInv
<1>2. CASE UNCHANGED vars
  BY <1>2 DEF vars, producerVars, IInv, TypeOK, OwnInv, Fifo, AgeInv, StaleInv, SinceSweep, UnusedLongerThan
<1> QED BY <1>1, <1>2, TakeStep, ReturnStep, LoseFrontStep, AttemptStep, CreateStep, PushStep,
     SweepStep, TickStep
  DEF Next

\* No connection is queued twice, lent twice, or at two of the queue, a client
\* and the producer, however test, attempt and push of the producer fall between
\* leases, returns and sweeps.
THEOREM ConnectionsHaveOnePlace == Spec => []OwnInv
<1>1. IInv => OwnInv
  BY DEF IInv
<1> QED BY <1>1, InitIInv, IInvStep, PTL DEF Spec

\* The sweeper looks at the front only and at the wrong age, and comes late: no
\* more than minSize connections are ever unused longer than two idle times,
\* the second that is cut off and the delay, for every size, idle time, delay
\* and number of clients.
THEOREM StaleStockIsBounded == Spec => []StaleStockBounded
<1>1. IInv => StaleStockBounded
  <2> SUFFICES ASSUME IInv PROVE StaleStockBounded
    OBVIOUS
  <2>1. SinceSweep \in Int /\ UnusedLimit \in Int /\ SinceSweep <= UnusedLimit
    BY SinceSweepIsNatural, Limits, TimeAssumption DEF IInv
  <2>2. Cardinality(UnusedLongerThan(UnusedLimit)) <= Cardinality(UnusedLongerThan(SinceSweep))
    BY <2>1, HigherLimit DEF IInv
  <2>3. /\ Cardinality(UnusedLongerThan(UnusedLimit)) \in Nat
        /\ Cardinality(UnusedLongerThan(SinceSweep)) \in Nat
    BY FewUnused DEF IInv, TypeOK
  <2> QED BY <2>2, <2>3, SizeAssumption DEF IInv, StaleInv, StaleStockBounded
<1> QED BY <1>1, InitIInv, IInvStep, PTL DEF Spec
=============================================================================
