----------------------------- MODULE PoolShutdown -----------------------------
(***************************************************************************)
(* What shutting a pool down promises, whatever its threads are doing:     *)
(* once it is closed nobody begins to wait in it, each of its threads has  *)
(* only so many steps left, and it is destroyed when the threads have      *)
(* ended and the last waiter has left.                                     *)
(***************************************************************************)
EXTENDS Integers

CONSTANTS Threads, Clients,
          Steps     \* the steps a thread may have left, 0 among them

VARIABLES
  closed,     \* whether the pool has been closed
  left,       \* the steps each thread needs to its end, were it closed now
  waiting,    \* the clients that wait in the pool
  destroyed   \* whether it has been destroyed

shutdownVars == <<closed, left, waiting, destroyed>>

Init ==
  /\ closed = FALSE /\ destroyed = FALSE /\ waiting = {}
  /\ left \in [Threads -> Steps \ {0}]

\* A thread takes a step, and may notify.  It goes round for ever in an open
\* pool and comes nearer to its end in a closed one.
Run(t) ==
  /\ \E n \in Steps :
       /\ IF closed THEN n < left[t] ELSE n # 0
       /\ left' = [left EXCEPT ![t] = n]
  /\ waiting' \subseteq waiting
  /\ UNCHANGED <<closed, destroyed>>

Wait(c) ==
  /\ ~closed
  /\ waiting' = waiting \cup {c}
  /\ UNCHANGED <<closed, left, destroyed>>

\* Clients are notified, are late, or wake up for no reason.
Wake ==
  /\ waiting' \subseteq waiting
  /\ UNCHANGED <<closed, left, destroyed>>

Close == closed' = TRUE /\ UNCHANGED <<left, waiting, destroyed>>

Destroy ==
  /\ closed /\ waiting = {} /\ \A t \in Threads : left[t] = 0
  /\ destroyed' = TRUE
  /\ UNCHANGED <<closed, left, waiting>>

Next ==
  \/ \E t \in Threads : Run(t)
  \/ \E c \in Clients : Wait(c)
  \/ Wake \/ Close \/ Destroy

Spec == Init /\ [][Next]_shutdownVars
=============================================================================
