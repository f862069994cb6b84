------------------------------ MODULE Connection ------------------------------
(***************************************************************************)
(* The Connection objects of src/src/Connection.cc, the MySQL session each *)
(* of them has and what the statements they send do to the database.       *)
(*                                                                         *)
(* A statement is known by the request it comes from.  The driver and the  *)
(* MySQL server are external: a session starts in autocommit mode, a       *)
(* transaction that is still open when it ends is rolled back, and a       *)
(* statement of the wrong kind (rows where none are expected, or none      *)
(* where they are) is reported as an exception after it has run.           *)
(***************************************************************************)
EXTENDS Integers, FiniteSets

CONSTANTS
  Conns,      \* the Connection objects
  Requests,   \* what statements come from
  Faults      \* what goes wrong: "refused", "replyLost", "linkLost", "badRow"

ASSUME FaultAssumption == Faults \subseteq {"refused", "replyLost", "linkLost", "badRow"}

VARIABLES
  session,    \* the session of a Connection: "none", "bare" (without schema), "ready", "closed"
  inTxn,      \* whether a transaction is open in it
  pending,    \* the writes of that transaction
  database,   \* the writes that are committed
  ran,        \* history: the statements the MySQL server has executed
  enclosed    \* history: the writes it has executed inside a transaction

histVars == <<ran, enclosed>>
connVars == <<session, inTxn, pending, database, histVars>>

Statements == {"read", "write", "begin", "commit"}

ConnTypeOK ==
  /\ session \in [Conns -> {"none", "bare", "ready", "closed"}]
  /\ inTxn \in [Conns -> BOOLEAN]
  /\ pending \in [Conns -> SUBSET Requests]
  /\ database \subseteq Requests /\ ran \subseteq Requests /\ enclosed \subseteq Requests

ConnInit ==
  /\ session = [k \in Conns |-> "none"]
  /\ inTxn = [k \in Conns |-> FALSE] /\ pending = [k \in Conns |-> {}]
  /\ database = {} /\ ran = {} /\ enclosed = {}

\* Slip: the session is opened with autocommit off.
OpenInTransaction(k) ==
  /\ session[k] = "none"
  /\ session' = [session EXCEPT ![k] = "bare"] /\ inTxn' = [inTxn EXCEPT ![k] = TRUE]
  /\ UNCHANGED <<pending, database, histVars>>

\* connect() has a session from the driver.  An attempt that fails before
\* that changes nothing.
Open(k) ==
  /\ session[k] = "none"
  /\ session' = [session EXCEPT ![k] = "bare"]
  /\ UNCHANGED <<inTxn, pending, database, histVars>>

\* setSchema() succeeds, and so does connect().
SetSchema(k) ==
  /\ session[k] = "bare"
  /\ session' = [session EXCEPT ![k] = "ready"]
  /\ UNCHANGED <<inTxn, pending, database, histVars>>

\* The sessions of S become s, and MySQL rolls back what they left open.
End(S, s) ==
  /\ session' = [k \in Conns |-> IF k \in S THEN s ELSE session[k]]
  /\ inTxn' = [k \in Conns |-> k \notin S /\ inTxn[k]]
  /\ pending' = [k \in Conns |-> IF k \in S THEN {} ELSE pending[k]]
  /\ UNCHANGED <<database, histVars>>

\* The destructor: disconnect().
Destroy(S) == End(S, "none")

ServerCloses(k) ==
  /\ "linkLost" \in Faults /\ session[k] = "ready"
  /\ End({k}, "closed")

IsConnected(k) == session[k] \in {"bare", "ready"}

-----------------------------------------------------------------------------
\* The MySQL server executes statement s of r.
Executes(k, r, s) ==
  LET endsTxn == s \in {"begin", "commit"}
      encloses == s = "write" /\ inTxn[k]
  IN  /\ ran' = ran \cup {r}
      /\ enclosed' = IF encloses THEN enclosed \cup {r} ELSE enclosed
      /\ inTxn' = [inTxn EXCEPT ![k] = IF endsTxn THEN s = "begin" ELSE @]
      /\ pending' = [pending EXCEPT ![k] =
           IF endsTxn THEN {} ELSE IF encloses THEN @ \cup {r} ELSE @]
      /\ database' = database \cup
           IF endsTxn THEN pending[k] ELSE IF s = "write" /\ ~inTxn[k] THEN {r} ELSE {}
      /\ UNCHANGED session

Visible(k) == database \cup pending[k]

\* Slip: the answer does not depend on the outcome.
RunBlindly(k, r, s, expected, ok) ==
  /\ ok = TRUE
  /\ IF IsConnected(k) THEN Executes(k, r, s) \/ UNCHANGED connVars ELSE UNCHANGED connVars

\* A statement is sent if the Connection is connected; ok is whether there was
\* no exception.  An exception says nothing of whether it was executed.
Run(k, r, s, expected, ok) ==
  \/ ~IsConnected(k) /\ ok = FALSE /\ UNCHANGED connVars
  \/ IsConnected(k) /\ ok = FALSE /\ "refused" \in Faults /\ UNCHANGED connVars
  \/ /\ IsConnected(k) /\ Executes(k, r, s)
     /\ ok = expected \/ (ok = FALSE /\ "replyLost" \in Faults)

Update(k, r, s, ok) == Run(k, r, s, s # "read", ok)

Query(k, r, s, ok) == Run(k, r, s, s = "read", ok)
=============================================================================
