-------------------------- MODULE MCServerLifecycle --------------------------
(* Instances of ServerLifecycle for TLC. *)
EXTENDS ServerLifecycle

OneWorker == {"w1"}
TwoWorkers == {"w1", "w2"}
MainOnly == {Main}
\* The workers are alike.
OneOfEach == Threads \ {"w2"}
=============================================================================
