------------------------- MODULE ConnectionLeaseProofs -------------------------
(***************************************************************************)
(* What the abstract pool of ConnectionLease guarantees, for every set of  *)
(* clients and connections, finite or not: every specification that is     *)
(* proved to implement it has these.                                       *)
(***************************************************************************)
EXTENDS ConnectionLease, FiniteSetTheorems, TLAPS

\* A connection has one owner, the pool or one client, and a client that waits
\* for a connection does not have one already.
OneOwner ==
  /\ \A c, d \in Clients : lease[c] = lease[d] /\ lease[c] # NoConn => c = d
  /\ \A c \in Clients : lease[c] # NoConn => lease[c] \notin free
  /\ \A c \in asking : lease[c] = NoConn

\* At most Capacity connections are free or leased, however many clients ask.
StockBound == Stock <= Capacity

LeaseInv ==
  /\ DOMAIN lease = Clients /\ asking \subseteq Clients /\ closed \in BOOLEAN
  /\ lease = [c \in Clients |-> lease[c]]
  /\ OneOwner

FiniteStock == IsFiniteSet(free) /\ IsFiniteSet(Leased)

-----------------------------------------------------------------------------
(* The leased connections, before and after a lease begins or ends.        *)
LEMMA LeasedIs ==
  ASSUME DOMAIN lease = Clients
  PROVE  Leased = {lease[c] : c \in Clients} \ {NoConn}
BY DEF Leased, Range

LEMMA LeaseBegins ==
  ASSUME LeaseInv, NEW c \in Clients, lease[c] = NoConn, NEW k, lease' = [lease EXCEPT ![c] = k]
  PROVE  /\ DOMAIN lease' = Clients /\ lease' = [d \in Clients |-> lease'[d]]
         /\ \A d \in Clients : lease'[d] = IF d = c THEN k ELSE lease[d]
         /\ Leased' = (Leased \cup {k}) \ {NoConn}
<1>1. DOMAIN lease' = Clients /\ lease' = [d \in Clients |-> lease'[d]]
  BY DEF LeaseInv
<1>2. \A d \in Clients : lease'[d] = IF d = c THEN k ELSE lease[d]
  BY DEF LeaseInv
<1>3. Leased' = {lease'[d] : d \in Clients} \ {NoConn}
  BY <1>1 DEF Leased, Range
<1>4. Leased = {lease[d] : d \in Clients} \ {NoConn}
  BY LeasedIs DEF LeaseInv
<1>5. ASSUME NEW x PROVE x \in Leased' <=> x \in (Leased \cup {k}) \ {NoConn}
  BY <1>2, <1>3, <1>4
<1> QED BY <1>1, <1>2, <1>5

LEMMA LeaseEnds ==
  ASSUME LeaseInv, NEW c \in Clients, lease[c] # NoConn, lease' = [lease EXCEPT ![c] = NoConn]
  PROVE  /\ DOMAIN lease' = Clients /\ lease' = [d \in Clients |-> lease'[d]]
         /\ \A d \in Clients : lease'[d] = IF d = c THEN NoConn ELSE lease[d]
         /\ lease[c] \in Leased
         /\ Leased' = Leased \ {lease[c]}
<1>1. DOMAIN lease' = Clients /\ lease' = [d \in Clients |-> lease'[d]]
  BY DEF LeaseInv
<1>2. \A d \in Clients : lease'[d] = IF d = c THEN NoConn ELSE lease[d]
  BY DEF LeaseInv
<1>3. Leased' = {lease'[d] : d \in Clients} \ {NoConn}
  BY <1>1 DEF Leased, Range
<1>4. Leased = {lease[d] : d \in Clients} \ {NoConn}
  BY LeasedIs DEF LeaseInv
<1>5. ASSUME NEW x PROVE x \in Leased' <=> x \in Leased \ {lease[c]}
  BY <1>2, <1>3, <1>4 DEF LeaseInv, OneOwner
<1> QED BY <1>1, <1>2, <1>4, <1>5

-----------------------------------------------------------------------------
(* The invariants.                                                         *)
LEMMA InitLease == Init => LeaseInv
BY DEF Init, LeaseInv, OneOwner

LEMMA LeaseStep == LeaseInv /\ [Next]_leaseVars => LeaseInv'
<1> SUFFICES ASSUME LeaseInv, [Next]_leaseVars PROVE LeaseInv'
  OBVIOUS
<1>0. /\ DOMAIN lease = Clients /\ asking \subseteq Clients /\ closed \in BOOLEAN
      /\ lease = [c \in Clients |-> lease[c]] /\ OneOwner
  BY DEF LeaseInv
<1>1. CASE UNCHANGED leaseVars
  BY <1>0, <1>1 DEF leaseVars, LeaseInv, OneOwner
<1>2. ASSUME NEW k \in Conns, Supply(k) PROVE LeaseInv'
  <2>1. \A c \in Clients : lease[c] = k => k = NoConn
    BY <1>0, <1>2, LeasedIs DEF Supply
  <2> QED BY <1>0, <1>2, <2>1 DEF Supply, LeaseInv, OneOwner
<1>3. ASSUME NEW S \in SUBSET Conns, Retire(S) PROVE LeaseInv'
  BY <1>0, <1>3 DEF Retire, LeaseInv, OneOwner
<1>4. ASSUME NEW c \in Clients, Ask(c) \/ TurnAway(c) PROVE LeaseInv'
  BY <1>0, <1>4 DEF Ask, TurnAway, LeaseInv, OneOwner
<1>5. ASSUME NEW c \in Clients, Grant(c) PROVE LeaseInv'
  <2>1. lease[c] = NoConn
    BY <1>0, <1>5 DEF Grant, OneOwner
  <2>2. PICK k \in free : free' = free \ {k} /\ lease' = [lease EXCEPT ![c] = k]
    BY <1>5 DEF Grant
  <2>3. asking' = asking \ {c} /\ closed' = closed
    BY <1>5 DEF Grant
  <2> QED BY <1>0, <2>1, <2>2, <2>3, LeaseBegins DEF LeaseInv, OneOwner
<1>6. ASSUME NEW c \in Clients, GrantNew(c) PROVE LeaseInv'
  <2>1. lease[c] = NoConn
    BY <1>0, <1>6 DEF GrantNew, OneOwner
  <2>2. PICK k \in Conns \ (free \cup Leased) : lease' = [lease EXCEPT ![c] = k]
    BY <1>6 DEF GrantNew
  <2>3. asking' = asking \ {c} /\ closed' = closed /\ free' = free
    BY <1>6 DEF GrantNew
  <2>4. \A d \in Clients : lease[d] = k => k = NoConn
    BY <1>0, <2>2, LeasedIs
  <2> QED BY <1>0, <2>1, <2>2, <2>3, <2>4, LeaseBegins DEF LeaseInv, OneOwner
<1>7. ASSUME NEW c \in Clients, GiveBack(c) PROVE LeaseInv'
  <2>1. /\ lease[c] # NoConn /\ lease' = [lease EXCEPT ![c] = NoConn]
        /\ free' = (IF closed THEN free ELSE free \cup {lease[c]})
        /\ asking' = asking /\ closed' = closed
    BY <1>7 DEF GiveBack
  <2> QED BY <1>0, <2>1, LeaseEnds DEF LeaseInv, OneOwner
<1>8. CASE Close
  BY <1>0, <1>8 DEF Close, LeaseInv, OneOwner
<1> QED BY <1>1, <1>2, <1>3, <1>4, <1>5, <1>6, <1>7, <1>8 DEF Next

LEMMA LeaseCorrect == Spec => []LeaseInv
BY InitLease, LeaseStep, PTL DEF Spec

\* No connection is lent twice, or lent and free, and nobody who has one waits
\* for another.
THEOREM LeasesAreExclusive == Spec => []OneOwner
<1>1. LeaseInv => OneOwner
  BY DEF LeaseInv
<1> QED BY <1>1, LeaseCorrect, PTL

-----------------------------------------------------------------------------
\* How each operation changes the stock: only Supply and GrantNew take a place,
\* and what is retired makes room.
LEMMA StockMoves ==
  ASSUME LeaseInv, FiniteStock
  PROVE  /\ Stock \in Nat
         /\ UNCHANGED <<free, lease>> => FiniteStock' /\ Stock' = Stock
         /\ \A k : Supply(k) \/ (\E c \in Clients : GrantNew(c)) => FiniteStock' /\ Stock' <= Stock + 1
         /\ \A S : Retire(S) => FiniteStock' /\ Stock' <= Stock
         /\ \A k \in free : Retire({k}) => Stock' = Stock - 1
         /\ \A c \in Clients : Grant(c) \/ GiveBack(c) => FiniteStock' /\ Stock' <= Stock
<1> DEFINE F == Cardinality(free)
           L == Cardinality(Leased)
<1>0. OneOwner /\ asking \subseteq Clients /\ IsFiniteSet(free) /\ IsFiniteSet(Leased)
  BY DEF LeaseInv, FiniteStock
<1>1. F \in Nat /\ L \in Nat /\ Stock = F + L
  BY <1>0, FS_CardinalityType DEF Stock
\* Taking one element away, or adding one, changes a cardinality by at most one.
<1>2. ASSUME NEW T, IsFiniteSet(T), NEW x
      PROVE  /\ IsFiniteSet(T \cup {x}) /\ IsFiniteSet(T \ {x})
             /\ Cardinality(T) \in Nat /\ Cardinality(T \cup {x}) \in Nat /\ Cardinality(T \ {x}) \in Nat
             /\ Cardinality(T \cup {x}) <= Cardinality(T) + 1
             /\ Cardinality(T \ {x}) <= Cardinality(T)
             /\ x \in T => Cardinality(T \ {x}) = Cardinality(T) - 1
  BY <1>2, FS_AddElement, FS_RemoveElement, FS_CardinalityType
<1>3. ASSUME NEW f, NEW l, IsFiniteSet(free'), IsFiniteSet(Leased'),
             Cardinality(free') = f, Cardinality(Leased') = l
      PROVE  FiniteStock' /\ Stock' = f + l
  BY <1>3 DEF FiniteStock, Stock
<1>4. ASSUME UNCHANGED <<free, lease>> PROVE FiniteStock' /\ Stock' = Stock
  BY <1>0, <1>1, <1>3, <1>4 DEF Leased, Range
<1>5. ASSUME NEW k, Supply(k) PROVE FiniteStock' /\ Stock' <= Stock + 1
  <2>1. free' = free \cup {k} /\ Leased' = Leased
    BY <1>5 DEF Supply, Leased, Range
  <2>2. /\ IsFiniteSet(free \cup {k}) /\ Cardinality(free \cup {k}) \in Nat
        /\ Cardinality(free \cup {k}) <= F + 1
    BY <1>0, <1>2
  <2> QED BY <1>0, <1>1, <1>3, <2>1, <2>2
<1>6. ASSUME NEW S, Retire(S) PROVE FiniteStock' /\ Stock' <= Stock
  <2>1. free' = free \ S /\ Leased' = Leased
    BY <1>6 DEF Retire, Leased, Range
  <2>2. IsFiniteSet(free \ S) /\ Cardinality(free \ S) \in Nat /\ Cardinality(free \ S) <= F
    BY <1>0, FS_Subset, FS_CardinalityType
  <2> QED BY <1>0, <1>1, <1>3, <2>1, <2>2
<1>7. ASSUME NEW k \in free, Retire({k}) PROVE Stock' = Stock - 1
  <2>1. free' = free \ {k} /\ Leased' = Leased
    BY <1>7 DEF Retire, Leased, Range
  <2>2. IsFiniteSet(free \ {k}) /\ Cardinality(free \ {k}) = F - 1
    BY <1>0, <1>2
  <2> QED BY <1>0, <1>1, <1>3, <2>1, <2>2
<1>8. ASSUME NEW c \in Clients, NEW k, lease[c] = NoConn, lease' = [lease EXCEPT ![c] = k]
      PROVE  IsFiniteSet(Leased') /\ Cardinality(Leased') \in Nat /\ Cardinality(Leased') <= L + 1
  <2>1. Leased' = (Leased \cup {k}) \ {NoConn}
    BY <1>8, LeaseBegins
  <2>2. /\ IsFiniteSet(Leased \cup {k}) /\ Cardinality(Leased \cup {k}) \in Nat
        /\ Cardinality(Leased \cup {k}) <= L + 1
    BY <1>0, <1>2
  <2>3. /\ IsFiniteSet((Leased \cup {k}) \ {NoConn}) /\ Cardinality((Leased \cup {k}) \ {NoConn}) \in Nat
        /\ Cardinality((Leased \cup {k}) \ {NoConn}) <= Cardinality(Leased \cup {k})
    BY <1>2, <2>2
  <2> QED BY <1>1, <2>1, <2>2, <2>3
<1>9. ASSUME NEW c \in Clients, Grant(c) PROVE FiniteStock' /\ Stock' <= Stock
  <2>1. lease[c] = NoConn
    BY <1>0, <1>9 DEF Grant, OneOwner
  <2>2. PICK k \in free : free' = free \ {k} /\ lease' = [lease EXCEPT ![c] = k]
    BY <1>9 DEF Grant
  <2>3. IsFiniteSet(free \ {k}) /\ Cardinality(free \ {k}) \in Nat /\ Cardinality(free \ {k}) = F - 1
    BY <1>0, <1>2, <2>2
  <2>4. IsFiniteSet(Leased') /\ Cardinality(Leased') \in Nat /\ Cardinality(Leased') <= L + 1
    BY <1>8, <2>1, <2>2
  <2> QED BY <1>1, <1>3, <2>2, <2>3, <2>4
<1>10. ASSUME NEW c \in Clients, GrantNew(c) PROVE FiniteStock' /\ Stock' <= Stock + 1
  <2>1. lease[c] = NoConn /\ free' = free
    BY <1>0, <1>10 DEF GrantNew, OneOwner
  <2>2. PICK k \in Conns : lease' = [lease EXCEPT ![c] = k]
    BY <1>10 DEF GrantNew
  <2>3. IsFiniteSet(Leased') /\ Cardinality(Leased') \in Nat /\ Cardinality(Leased') <= L + 1
    BY <1>8, <2>1, <2>2
  <2> QED BY <1>0, <1>1, <1>3, <2>1, <2>3
<1>11. ASSUME NEW c \in Clients, GiveBack(c) PROVE FiniteStock' /\ Stock' <= Stock
  <2> DEFINE k == lease[c]
  <2>1. lease[c] # NoConn /\ lease' = [lease EXCEPT ![c] = NoConn]
        /\ (free' = free \/ free' = free \cup {k})
    BY <1>11 DEF GiveBack
  <2>2. k \in Leased /\ Leased' = Leased \ {k}
    BY <2>1, LeaseEnds
  <2> HIDE DEF k
  <2>3. IsFiniteSet(Leased \ {k}) /\ Cardinality(Leased \ {k}) \in Nat /\ Cardinality(Leased \ {k}) = L - 1
    BY <1>0, <1>2, <2>2
  <2>4. /\ IsFiniteSet(free \cup {k}) /\ Cardinality(free \cup {k}) \in Nat
        /\ Cardinality(free \cup {k}) <= F + 1
    BY <1>0, <1>2
  <2>5. IsFiniteSet(free') /\ Cardinality(free') \in Nat /\ Cardinality(free') <= F + 1
    <3>1. CASE free' = free
      BY <1>0, <1>1, <3>1
    <3>2. CASE free' = free \cup {k}
      BY <2>4, <3>2
    <3> QED BY <2>1, <3>1, <3>2
  <2> QED BY <1>1, <1>3, <2>2, <2>3, <2>5
<1> HIDE DEF F, L
<1> QED BY <1>1, <1>4, <1>5, <1>6, <1>7, <1>9, <1>10, <1>11

LEMMA StockStep ==
  ASSUME Capacity \in Nat, LeaseInv, FiniteStock, StockBound, [Next]_leaseVars
  PROVE  FiniteStock' /\ StockBound'
<1>0. Stock \in Nat /\ Stock <= Capacity
  BY StockMoves DEF StockBound
<1>1. ASSUME FiniteStock', Stock' <= Stock \/ (Stock < Capacity /\ Stock' <= Stock + 1), Stock' \in Nat
      PROVE  FiniteStock' /\ StockBound'
  BY <1>0, <1>1 DEF StockBound
<1>2. FiniteStock' => Stock' \in Nat
  <2>1. ASSUME FiniteStock' PROVE Cardinality(free') \in Nat /\ Cardinality(Leased') \in Nat
    BY <2>1, FS_CardinalityType DEF FiniteStock
  <2> QED BY <2>1 DEF Stock
<1>3. CASE UNCHANGED <<free, lease>>
  BY <1>0, <1>1, <1>2, <1>3, StockMoves
<1>4. ASSUME NEW k \in Conns, Supply(k) PROVE FiniteStock' /\ StockBound'
  BY <1>1, <1>2, <1>4, StockMoves DEF Supply
<1>5. ASSUME NEW S \in SUBSET Conns, Retire(S) PROVE FiniteStock' /\ StockBound'
  BY <1>1, <1>2, <1>5, StockMoves
<1>6. ASSUME NEW c \in Clients, Grant(c) \/ GiveBack(c) PROVE FiniteStock' /\ StockBound'
  BY <1>1, <1>2, <1>6, StockMoves
<1>7. ASSUME NEW c \in Clients, GrantNew(c) PROVE FiniteStock' /\ StockBound'
  BY <1>1, <1>2, <1>7, StockMoves DEF GrantNew
<1> QED BY <1>3, <1>4, <1>5, <1>6, <1>7 DEF Next, Ask, TurnAway, Close, leaseVars

LEMMA StockCorrect ==
  ASSUME Capacity \in Nat
  PROVE  Spec => [](FiniteStock /\ StockBound)
<1>1. Init => FiniteStock /\ StockBound
  <2>1. ASSUME Init PROVE free = {} /\ Leased = {}
    BY <2>1 DEF Init, Leased, Range
  <2> QED BY <2>1, FS_EmptySet DEF FiniteStock, StockBound, Stock
<1>2. LeaseInv /\ FiniteStock /\ StockBound /\ [Next]_leaseVars => FiniteStock' /\ StockBound'
  BY StockStep
<1> QED BY <1>1, <1>2, LeaseCorrect, PTL DEF Spec

\* A connection keeps its place in the stock while it is lent, and only the
\* opening of a new one takes a place.
THEOREM StockIsBounded ==
  ASSUME Capacity \in Nat
  PROVE  Spec => []StockBound
BY StockCorrect, PTL

-----------------------------------------------------------------------------
\* A leased connection is not lost while the pool is open: it is still leased
\* after any step, or free again.
LeasedAreKept == ~closed' => Leased \subseteq free' \cup Leased'

\* A closed pool stays closed, and what it has or has lent only becomes less.
ClosedOnlyShrinks == closed => closed' /\ free' \subseteq free /\ Leased' \subseteq Leased

\* No lease is overwritten, so that the end of a lease is the only way for a
\* connection to leave a client.
THEOREM LeasedConnectionsAreKept == Spec => [][LeasedAreKept]_leaseVars
<1>1. LeaseInv /\ [Next]_leaseVars => [LeasedAreKept]_leaseVars
  <2> SUFFICES ASSUME LeaseInv, Next PROVE LeasedAreKept
    OBVIOUS
  <2>1. OneOwner /\ asking \subseteq Clients
    BY DEF LeaseInv
  <2>2. ASSUME lease' = lease PROVE LeasedAreKept
    BY <2>2 DEF LeasedAreKept, Leased, Range
  <2>3. ASSUME NEW c \in Clients, Grant(c) \/ GrantNew(c) PROVE LeasedAreKept
    <3>1. lease[c] = NoConn /\ \E k : lease' = [lease EXCEPT ![c] = k]
      BY <2>1, <2>3 DEF Grant, GrantNew, OneOwner
    <3>2. \E k : Leased' = (Leased \cup {k}) \ {NoConn}
      BY <3>1, LeaseBegins
    <3> QED BY <3>2 DEF LeasedAreKept, Leased
  <2>4. ASSUME NEW c \in Clients, GiveBack(c) PROVE LeasedAreKept
    BY <2>4, LeaseEnds DEF GiveBack, LeasedAreKept
  <2> QED BY <2>2, <2>3, <2>4 DEF Next, Supply, Retire, Ask, TurnAway, Close
<1> QED BY <1>1, LeaseCorrect, PTL DEF Spec

\* The leases that outlive the closing end, and nobody is given another.
THEOREM ClosedPoolOnlyShrinks == Spec => [][ClosedOnlyShrinks]_leaseVars
<1>1. LeaseInv /\ [Next]_leaseVars => [ClosedOnlyShrinks]_leaseVars
  <2> SUFFICES ASSUME LeaseInv, Next, closed PROVE closed' /\ free' \subseteq free /\ Leased' \subseteq Leased
    BY DEF ClosedOnlyShrinks
  <2>1. ASSUME NEW c \in Clients, GiveBack(c) PROVE closed' /\ free' \subseteq free /\ Leased' \subseteq Leased
    BY <2>1, LeaseEnds DEF GiveBack
  <2> QED BY <2>1 DEF Next, Supply, Retire, Ask, Grant, GrantNew, TurnAway, Close, Leased, Range
<1> QED BY <1>1, LeaseCorrect, PTL DEF Spec
=============================================================================
