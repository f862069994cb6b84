-------------------------------- MODULE Startup --------------------------------
(***************************************************************************)
(* What a configuration file makes of the pool: the constructor of         *)
(* ConnectionPool on top of loadConfig, and the number of its connections  *)
(* from then on, for every configuration that loadConfig accepts.  Sizes   *)
(* are signed here, as in the code; ConnectionPool has the threads, for    *)
(* sizes that are not negative.                                            *)
(***************************************************************************)
EXTENDS LoadConfig

CONSTANT MaxLeases   \* bound on the leases at a time

ASSUME LeaseAssumption == MaxLeases \in Nat

VARIABLES
  stage,      \* how far the pool is
  queued,     \* _availableConnections.size()
  active,     \* _activeConnections
  creating    \* whether the producer is opening a connection

poolVars == <<queued, active, creating>>
vars == <<loadVars, stage, poolVars>>

TypeOK ==
  /\ LoadTypeOK
  /\ stage \in {"loading", "failed", "running", "undefined"}
  /\ queued \in Nat /\ active \in 0..MaxLeases /\ creating \in BOOLEAN

Init == LoadInit /\ stage = "loading" /\ queued = 0 /\ active = 0 /\ creating = FALSE

LoadStep == stage = "loading" /\ LoadConfig /\ UNCHANGED <<stage, poolVars>>

\* The constructor throws, or an exception of loadConfig leaves it.
ConstructorFails ==
  /\ stage = "loading" /\ outcome \in {"rejected", "throws"}
  /\ stage' = "failed"
  /\ UNCHANGED <<loadVars, poolVars>>

\* initialize(): minSize connections, unless one of them fails.
Initialize ==
  /\ stage = "loading" /\ outcome = "accepted"
  /\ \/ stage' = "running" /\ queued' = IF config.minSize > 0 THEN config.minSize ELSE 0
     \/ config.minSize > 0 /\ stage' = "failed" /\ UNCHANGED queued
  /\ UNCHANGED <<loadVars, active, creating>>

NeedMore == queued + active <= config.maxSize /\ queued < config.minSize

ProducerTests ==
  /\ stage = "running" /\ ~creating /\ NeedMore
  /\ creating' = TRUE
  /\ UNCHANGED <<loadVars, stage, queued, active>>

ProducerPushes ==
  /\ stage = "running" /\ creating
  /\ creating' = FALSE
  /\ queued' \in {queued, queued + 1}
  /\ UNCHANGED <<loadVars, stage, active>>

Lend ==
  /\ stage = "running" /\ queued > 0 /\ active < MaxLeases
  /\ queued' = queued - 1 /\ active' = active + 1
  /\ UNCHANGED <<loadVars, stage, creating>>

\* A dead connection is taken and not replaced.
Lose ==
  /\ stage = "running" /\ queued > 0
  /\ queued' = queued - 1
  /\ UNCHANGED <<loadVars, stage, active, creating>>

Return ==
  /\ stage = "running" /\ active > 0
  /\ queued' = queued + 1 /\ active' = active - 1
  /\ UNCHANGED <<loadVars, stage, creating>>

\* Slip: >= where the code has >.
SweepsBelow(n) == n >= config.minSize

\* The sweeper's loop goes on with n connections in the queue.
Sweeps(n) == n > config.minSize

\* It pops all but n connections and finds that the next is not aged or that
\* it is at the minimum.  front() of an empty queue is undefined.
Sweep(n) ==
  /\ stage = "running" /\ \A m \in n + 1..queued : Sweeps(m)
  /\ queued' = n
  /\ stage' = IF n = 0 /\ Sweeps(n) THEN "undefined" ELSE stage
  /\ UNCHANGED <<loadVars, active, creating>>

Next ==
  \/ LoadStep \/ ConstructorFails \/ Initialize
  \/ ProducerTests \/ ProducerPushes \/ Lend \/ Lose \/ Return
  \/ \E n \in 0..queued : Sweep(n)

Spec == Init /\ [][Next]_vars

-----------------------------------------------------------------------------
\* What ConnectionPool and IdleSweep assume of the sizes, for all pools but
\* those with a negative minimum.  Numbers lose their order when they are
\* narrowed to int: it is the narrowed ones that have to be validated.
SizesFit ==
  stage = "running" /\ config.minSize >= 0
    => config.minSize \in Nat /\ config.maxSize \in Nat /\ config.minSize <= config.maxSize

\* "Don't sweep below minimum size": the sweeper reads the front of an empty
\* queue for no configuration but one with a negative minSize, whatever the
\* leases and the producer do to the queue.
FrontExists == stage = "undefined" => config.minSize < 0
=============================================================================
