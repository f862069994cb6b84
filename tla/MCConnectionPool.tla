-------------------------- MODULE MCConnectionPool --------------------------
(* Instances of ConnectionPool for TLC. *)
EXTENDS ConnectionPool, TLC

Symmetry == Permutations(Clients) \cup Permutations(Conns)

\* A range of counters that no run with bounded requests exhausts.
CounterMin == -101

\* GrowsWithDemand is asked of a pool whose clients drop their leases.
RefillSpec == FairSpec /\ LeasesEnd
=============================================================================
