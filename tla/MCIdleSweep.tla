----------------------------- MODULE MCIdleSweep -----------------------------
(* Instances of IdleSweep for TLC. *)
EXTENDS IdleSweep, TLC

Symmetry == Permutations(Clients) \cup Permutations(Conns)
=============================================================================
