--------------------------- MODULE MCDatabaseServer ---------------------------
(* Instances of DatabaseServer for TLC. *)
EXTENDS DatabaseServer

Ask(path, token, body) == [path |-> path, token |-> token, body |-> body]

\* One request for each way through the handlers; with two requests a commit
\* would have nothing to commit.
AllAsks == {
  Ask("/health", FALSE, "malformed"), Ask("/execute", FALSE, "write"),
  Ask("/execute", TRUE, "malformed"), Ask("/execute", TRUE, "write"),
  Ask("/execute", TRUE, "begin"), Ask("/query", TRUE, "read"), Ask("/query", TRUE, "write")}

\* The requests of well-behaved clients.
GoodAsks == {
  Ask("/execute", TRUE, "begin"), Ask("/execute", TRUE, "write"), Ask("/execute", TRUE, "commit"),
  Ask("/query", TRUE, "read")}

TwoRequests == 1..2
ThreeRequests == 1..3
=============================================================================
