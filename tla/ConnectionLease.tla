--------------------------- MODULE ConnectionLease ---------------------------
(***************************************************************************)
(* What a connection pool promises, without threads, locks or waiting: a   *)
(* bounded stock of connections, each of them free or leased to one        *)
(* client; a client that asks is given one or is turned away; once the     *)
(* pool is closed nobody is given a connection and nothing is stocked.     *)
(***************************************************************************)
EXTENDS Integers, FiniteSets, Functions

CONSTANTS Clients, Conns, NoConn,
          Capacity       \* the most connections that are stocked at a time

VARIABLES
  free,      \* the connections nobody has
  lease,     \* the connection each client has, or NoConn
  asking,    \* the clients that wait for an answer
  closed     \* whether the pool has been closed

leaseVars == <<free, lease, asking, closed>>

Leased == Range(lease) \ {NoConn}
Stock == Cardinality(free) + Cardinality(Leased)

Init == free = {} /\ lease = [c \in Clients |-> NoConn] /\ asking = {} /\ closed = FALSE

\* A new connection, while the pool is open and has room.
Supply(k) ==
  /\ ~closed /\ k \notin free \cup Leased /\ Stock < Capacity
  /\ free' = free \cup {k}
  /\ UNCHANGED <<lease, asking, closed>>

Retire(S) ==
  /\ S \subseteq free
  /\ free' = free \ S
  /\ UNCHANGED <<lease, asking, closed>>

Ask(c) ==
  /\ lease[c] = NoConn /\ c \notin asking
  /\ asking' = asking \cup {c}
  /\ UNCHANGED <<free, lease, closed>>

\* The client gets a free connection.
Grant(c) ==
  /\ ~closed /\ c \in asking
  /\ \E k \in free : free' = free \ {k} /\ lease' = [lease EXCEPT ![c] = k]
  /\ asking' = asking \ {c}
  /\ UNCHANGED closed

\* The client gets a connection made for it.
GrantNew(c) ==
  /\ ~closed /\ c \in asking /\ Stock < Capacity
  /\ \E k \in Conns \ (free \cup Leased) : lease' = [lease EXCEPT ![c] = k]
  /\ asking' = asking \ {c}
  /\ UNCHANGED <<free, closed>>

TurnAway(c) ==
  /\ c \in asking
  /\ asking' = asking \ {c}
  /\ UNCHANGED <<free, lease, closed>>

\* The connection becomes free again, or is gone with a closed pool.
GiveBack(c) ==
  /\ lease[c] # NoConn
  /\ lease' = [lease EXCEPT ![c] = NoConn]
  /\ free' = IF closed THEN free ELSE free \cup {lease[c]}
  /\ UNCHANGED <<asking, closed>>

Close == closed' = TRUE /\ UNCHANGED <<free, lease, asking>>

Next ==
  \/ \E k \in Conns : Supply(k)
  \/ \E S \in SUBSET Conns : Retire(S)
  \/ \E c \in Clients :
       Ask(c) \/ Grant(c) \/ GrantNew(c) \/ TurnAway(c) \/ GiveBack(c)
  \/ Close

Spec == Init /\ [][Next]_leaseVars
=============================================================================
