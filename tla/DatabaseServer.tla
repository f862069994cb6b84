---------------------------- MODULE DatabaseServer ----------------------------
(***************************************************************************)
(* The HTTP server of src/server/DatabaseServer.cc: what becomes of a      *)
(* request, on top of the pool as ConnectionLease promises it and of the   *)
(* sessions of Connection.                                                 *)
(*                                                                         *)
(* Requests are numbered as they arrive.  The HTTP library is external: it *)
(* queues them and Workers threads serve them in order.  The pool may be   *)
(* closed under them, by exit(); ServerLifecycle has the rest of that.     *)
(***************************************************************************)
EXTENDS Connection

CONSTANTS
  Asks,         \* the requests clients make: [path, token, body]
  NotAsked,     \* no request yet
  NoConn,
  Capacity,     \* the most connections in the pool
  MaxRequests,  \* bound on the requests
  Workers       \* threads of the HTTP library

ASSUME ServerAssumption ==
  /\ MaxRequests \in Nat /\ Requests = 1..MaxRequests /\ Workers \in Nat \ {0} /\ Capacity \in Nat
  /\ NoConn \notin Conns /\ NotAsked \notin Asks
  /\ Asks \subseteq [path : {"/health", "/query", "/execute"}, token : BOOLEAN,
                     body : Statements \cup {"malformed"}]

VARIABLES
  asked,    \* what each request is
  stage,    \* how far it is
  answer,   \* what it is answered, or will be
  rows,     \* the writes its rows show
  known,    \* history: the writes acknowledged when it was made
  free, lease, closed,  \* the pool: who has which connection
  creating, \* whether the producer is between its test and its push
  spare,    \* the producer's local conn
  dead,     \* what getConnection popped and found not connected
  fresh     \* what it opens in its place

serverVars == <<asked, stage, answer, rows, known>>
poolVars == <<free, lease, closed>>
producerVars == <<creating, spare>>
replaceVars == <<dead, fresh>>
vars == <<connVars, serverVars, poolVars, producerVars, replaceVars>>

\* A request that replaces a dead connection is still waiting for its own.
Asking == {r \in Requests : stage[r] \in {"asking", "replacing"}}

Pool == INSTANCE ConnectionLease WITH Clients <- Requests, asking <- Asking

TypeOK ==
  /\ ConnTypeOK
  /\ asked \in [Requests -> Asks \cup {NotAsked}]
  /\ stage \in [Requests ->
       {"none", "queued", "asking", "replacing", "leased", "ran", "replying", "answered"}]
  /\ answer \in [Requests ->
       {"none", "unauthorized", "healthy", "error", "success", "failure", "rows", "noRows"}]
  /\ rows \in [Requests -> SUBSET Requests] /\ known \in [Requests -> SUBSET Requests]
  /\ closed \in BOOLEAN /\ free \subseteq Conns /\ lease \in [Requests -> Conns \cup {NoConn}]
  /\ creating \in BOOLEAN /\ {spare, dead, fresh} \subseteq Conns \cup {NoConn}

Init ==
  /\ ConnInit
  /\ asked = [r \in Requests |-> NotAsked]
  /\ stage = [r \in Requests |-> "none"] /\ answer = [r \in Requests |-> "none"]
  /\ rows = [r \in Requests |-> {}] /\ known = [r \in Requests |-> {}]
  /\ closed = FALSE /\ free = {} /\ lease = [r \in Requests |-> NoConn]
  /\ creating = FALSE /\ spare = NoConn /\ dead = NoConn /\ fresh = NoConn

Goto(r, s) == stage' = [stage EXCEPT ![r] = s]
Answer(r, a) == answer' = [answer EXCEPT ![r] = a]

\* _mu is free.  Only the replacement of a dead connection keeps it for more
\* than a step.
MutexFree == dead = NoConn

Acknowledged == {r \in Requests :
  stage[r] = "answered" /\ answer[r] = "success" /\ asked[r].body = "write"}

-----------------------------------------------------------------------------
\* The HTTP library.
Arrive(r, a) ==
  /\ stage[r] = "none" /\ \A q \in 1..r - 1 : stage[q] # "none"
  /\ asked' = [asked EXCEPT ![r] = a] /\ Goto(r, "queued")
  /\ known' = [known EXCEPT ![r] = Acknowledged]
  /\ UNCHANGED <<connVars, answer, rows, poolVars, producerVars, replaceVars>>

Busy == {r \in Requests : stage[r] \in {"asking", "replacing", "leased", "ran", "replying"}}

\* A worker takes the request that has waited longest.
TakenUp(r) ==
  /\ stage[r] = "queued" /\ \A q \in 1..r - 1 : stage[q] # "queued"
  /\ Cardinality(Busy) < Workers

Reply(r) ==
  /\ stage[r] = "replying"
  /\ Goto(r, "answered")
  /\ UNCHANGED <<connVars, asked, answer, rows, known, poolVars, producerVars, replaceVars>>

-----------------------------------------------------------------------------
\* authenticate(), by the pre-routing handler, for all but /health.
Authenticated(r) == asked[r].path = "/health" \/ asked[r].token

\* What the handlers answer without a connection.
Rejection(r) ==
  IF ~Authenticated(r) THEN "unauthorized"
  ELSE IF asked[r].path = "/health" THEN "healthy"
  ELSE IF asked[r].body = "malformed" THEN "error" ELSE "none"

\* Slip: the pre-routing handler sets 401 and returns Unhandled.
HandleRegardless(r) ==
  /\ TakenUp(r)
  /\ Answer(r, Rejection(r))
  /\ IF Rejection(r) \in {"none", "unauthorized"}
       THEN Goto(r, "asking") /\ Pool!Ask(r) ELSE Goto(r, "replying") /\ UNCHANGED poolVars
  /\ UNCHANGED <<connVars, asked, rows, known, producerVars, replaceVars>>

\* Routing, parsing, and the call of getConnection, or of getStats.
Handle(r) ==
  /\ TakenUp(r)
  /\ Rejection(r) = "healthy" => MutexFree
  /\ Answer(r, Rejection(r))
  /\ IF Rejection(r) = "none"
       THEN Goto(r, "asking") /\ Pool!Ask(r) ELSE Goto(r, "replying") /\ UNCHANGED poolVars
  /\ UNCHANGED <<connVars, asked, rows, known, producerVars, replaceVars>>

\* getConnection returns a connection that was just found connected.
GetPooled(r) ==
  /\ stage[r] = "asking" /\ MutexFree /\ Goto(r, "leased")
  /\ Pool!Grant(r) /\ IsConnected(lease'[r])
  /\ UNCHANGED <<connVars, asked, answer, rows, known, producerVars, replaceVars>>

\* It pops one that is not, and keeps it until it has another.
FindDead(r) ==
  /\ stage[r] = "asking" /\ MutexFree /\ ~closed /\ Goto(r, "replacing")
  /\ \E k \in free : ~IsConnected(k) /\ Pool!Retire({k}) /\ dead' = k
  /\ UNCHANGED <<connVars, asked, answer, rows, known, producerVars, fresh>>

OpenReplacement(r, k) ==
  /\ stage[r] = "replacing" /\ fresh = NoConn
  /\ Open(k) /\ fresh' = k
  /\ UNCHANGED <<serverVars, poolVars, producerVars, dead>>

ConnectReplacement(r) ==
  /\ stage[r] = "replacing" /\ fresh # NoConn /\ SetSchema(fresh)
  /\ UNCHANGED <<serverVars, poolVars, producerVars, replaceVars>>

\* connect() has succeeded: the assignment deletes the dead Connection.
Replaced(r) ==
  /\ stage[r] = "replacing" /\ fresh # NoConn /\ session[fresh] # "bare"
  /\ Goto(r, "leased") /\ Pool!GrantNew(r) /\ lease'[r] = fresh
  /\ Destroy({dead}) /\ dead' = NoConn /\ fresh' = NoConn
  /\ UNCHANGED <<asked, answer, rows, known, producerVars>>

\* connect() has failed, with or without a session: null, "No connection
\* available".
ReplaceFails(r) ==
  /\ stage[r] = "replacing" /\ (fresh # NoConn => session[fresh] = "bare")
  /\ Goto(r, "replying") /\ Pool!TurnAway(r) /\ Answer(r, "error")
  /\ Destroy({dead, fresh}) /\ dead' = NoConn /\ fresh' = NoConn
  /\ UNCHANGED <<asked, rows, known, producerVars>>

\* Slip: handleError for a null connection is forgotten.
NeverTurnedAway(r) == FALSE /\ UNCHANGED vars

\* getConnection returns null, late or in a closed pool: "No connection
\* available".
GetNothing(r) ==
  /\ stage[r] = "asking" /\ MutexFree /\ Goto(r, "replying")
  /\ Pool!TurnAway(r) /\ Answer(r, "error")
  /\ UNCHANGED <<connVars, asked, rows, known, producerVars, replaceVars>>

RunExecute(r) ==
  /\ stage[r] = "leased" /\ asked[r].path = "/execute"
  /\ \E ok \in BOOLEAN :
       /\ Update(lease[r], r, asked[r].body, ok)
       /\ Answer(r, IF ok THEN "success" ELSE "failure")
  /\ Goto(r, "ran")
  /\ UNCHANGED <<asked, rows, known, poolVars, producerVars, replaceVars>>

\* A null result set becomes an empty array: the client sees no row and no error.
RunQuery(r) ==
  /\ stage[r] = "leased" /\ asked[r].path = "/query"
  /\ \E ok \in BOOLEAN :
       /\ Query(lease[r], r, asked[r].body, ok)
       /\ rows' = [rows EXCEPT ![r] = IF ok THEN Visible(lease[r]) ELSE {}]
       /\ Answer(r, IF ok THEN "rows" ELSE "noRows")
  /\ Goto(r, "ran")
  /\ UNCHANGED <<asked, known, poolVars, producerVars, replaceVars>>

\* Slip: the pointer is reset before it is pushed.
ResetThenPush(r) ==
  /\ lease' = [lease EXCEPT ![r] = NoConn] /\ free' = free \cup {NoConn}
  /\ UNCHANGED <<closed, connVars>>

\* The deleter: the connection goes back, or ends with a closed pool.
EndLease(r) ==
  /\ MutexFree /\ Pool!GiveBack(r)
  /\ IF closed THEN Destroy({lease[r]}) ELSE UNCHANGED connVars

\* Slip: an exception of convertResultSet leaves the connection behind.
KeepOnError(r) ==
  /\ stage[r] = "ran" /\ Goto(r, "replying")
  /\ \/ answer[r] = "rows" /\ Answer(r, "error") /\ UNCHANGED <<connVars, poolVars>>
     \/ EndLease(r) /\ UNCHANGED answer
  /\ UNCHANGED <<asked, rows, known, producerVars, replaceVars>>

\* The response is built, which may throw for rows, and the connection goes
\* back as the handler's scope ends.
Finish(r) ==
  /\ stage[r] = "ran" /\ Goto(r, "replying") /\ EndLease(r)
  /\ \/ UNCHANGED answer
     \/ "badRow" \in Faults /\ answer[r] = "rows" /\ Answer(r, "error")
  /\ UNCHANGED <<asked, rows, known, producerVars, replaceVars>>

-----------------------------------------------------------------------------
\* The producer, and initialize() before it.

\* Slip: the size is tested against one too many.
TestsTooLate ==
  /\ MutexFree /\ ~closed /\ ~creating /\ Pool!Stock <= Capacity
  /\ creating' = TRUE
  /\ UNCHANGED <<connVars, serverVars, poolVars, spare, replaceVars>>

\* There is room; when a connection is missing is left open here.
ProducerTests ==
  /\ MutexFree /\ ~closed /\ ~creating /\ Pool!Stock < Capacity
  /\ creating' = TRUE
  /\ UNCHANGED <<connVars, serverVars, poolVars, spare, replaceVars>>

\* createConnection(), without the mutex.
StartConnection(k) ==
  /\ creating /\ spare = NoConn
  /\ Open(k) /\ spare' = k
  /\ UNCHANGED <<serverVars, poolVars, creating, replaceVars>>

ConnectSpare ==
  /\ spare # NoConn /\ SetSchema(spare)
  /\ UNCHANGED <<serverVars, poolVars, producerVars, replaceVars>>

\* connect() fails, with or without a session.
CreateFails ==
  /\ creating /\ (spare # NoConn => session[spare] = "bare")
  /\ Destroy({spare})
  /\ creating' = FALSE /\ spare' = NoConn
  /\ UNCHANGED <<serverVars, poolVars, replaceVars>>

\* Slip: connect() returns true whatever setSchema() did.
QueueBare ==
  /\ MutexFree /\ spare # NoConn
  /\ creating' = FALSE /\ spare' = NoConn
  /\ UNCHANGED <<connVars, serverVars, replaceVars>>
  /\ Pool!Supply(spare)

QueueSpare ==
  /\ MutexFree /\ spare # NoConn /\ session[spare] # "bare"
  /\ creating' = FALSE /\ spare' = NoConn
  /\ UNCHANGED <<connVars, serverVars, replaceVars>>
  /\ Pool!Supply(spare)

\* The pool was closed while the producer was connecting.
DiscardSpare ==
  /\ MutexFree /\ closed /\ spare # NoConn /\ session[spare] # "bare"
  /\ Destroy({spare})
  /\ creating' = FALSE /\ spare' = NoConn
  /\ UNCHANGED <<serverVars, poolVars, replaceVars>>

-----------------------------------------------------------------------------
\* The sweeper drops connections; in a closed pool it is shutdown() that clears
\* the queue, after the producer has ended.
RetireConnections(S) ==
  /\ MutexFree /\ S # {} /\ (closed => S = free /\ ~creating)
  /\ UNCHANGED <<serverVars, producerVars, replaceVars>>
  /\ Pool!Retire(S) /\ Destroy(S)

\* exit() destroys the pool while requests run: shutdown() sets the flag.
ClosePool ==
  /\ MutexFree /\ ~closed
  /\ UNCHANGED <<connVars, serverVars, producerVars, replaceVars>> /\ Pool!Close

CloseLink(k) == ServerCloses(k) /\ UNCHANGED <<serverVars, poolVars, producerVars, replaceVars>>

Pooling ==
  \/ ProducerTests \/ ConnectSpare \/ CreateFails \/ QueueSpare \/ DiscardSpare
  \/ \E k \in Conns : StartConnection(k) \/ CloseLink(k)
  \/ \E S \in SUBSET free : RetireConnections(S)
  \/ ClosePool

Replacing(r) ==
  \/ FindDead(r) \/ ConnectReplacement(r) \/ Replaced(r) \/ ReplaceFails(r)
  \/ \E k \in Conns : OpenReplacement(r, k)

Serving(r) ==
  \/ Handle(r) \/ GetPooled(r) \/ Replacing(r) \/ GetNothing(r)
  \/ RunExecute(r) \/ RunQuery(r) \/ Finish(r) \/ Reply(r)

Next == Pooling \/ \E r \in Requests : Serving(r) \/ \E a \in Asks : Arrive(r, a)

Spec == Init /\ [][Next]_vars

\* The workers run and every getConnection returns (RequestCompletes of
\* ConnectionPool); who has the mutex while others want it is bounded by the
\* number of requests.  Clients need not ask, connections need not be there.
FairSpec == Spec /\ \A r \in Requests : WF_vars(Serving(r))

-----------------------------------------------------------------------------
\* The pool is used as ConnectionLease means it to be: a request that asks has
\* no connection yet, and only one that has one gives it back.
UsesPoolAsPromised == Pool!Spec

\* Where a Connection can be: in the queue, leased, or in a local variable of
\* the producer or of getConnection.
Pooled == free \cup Pool!Leased
Local == {spare, dead, fresh} \ {NoConn}

\* MySQL has a session, open or closed, for each Connection that is somewhere
\* and for no other, however connect() fails and whenever the pool is closed;
\* none of the pool is without its schema or in two places, and no transaction
\* is left behind in a session that has ended or not begun.
SessionsBelongToPool ==
  /\ {k \in Conns : session[k] # "none"} = Pooled \cup Local /\ Pooled \cap Local = {}
  /\ \A k \in Pooled : session[k] # "bare"
  /\ \A k \in Conns : inTxn[k] => session[k] = "ready" /\ k \in Pooled

\* The connections being made in the places that were found free for them: one
\* by the producer, one by getConnection.
InProgress == (IF creating THEN 1 ELSE 0) + (IF dead # NoConn THEN 1 ELSE 0)

\* The MySQL server sees at most one session more than maxSize, although the
\* producer and getConnection open theirs at the same time, one of them without
\* the mutex and one while the dead Connection still exists; and the pool has
\* room for both, which nobody tests again before they are queued or lent.
SessionBound ==
  /\ Pool!Stock + InProgress <= Capacity
  /\ Cardinality({k \in Conns : session[k] \in {"bare", "ready"}}) <= Capacity

\* A connection is leased only while its request uses it: every way out of a
\* handler gives it back before the client is answered.
LeasesAreInUse ==
  \A r \in Requests : lease[r] # NoConn <=> stage[r] \in {"leased", "ran"}

\* A client that is told that its statement succeeded, or sees rows, can rely on
\* it, and one that is refused (401, no connection, a bad body) can send it
\* again: it has not run.  In between, "failure", no rows and an error after a
\* lease promise nothing.
AnswersAreReliable ==
  \A r \in Requests :
    /\ answer[r] \in {"success", "rows"} => r \in ran
    /\ r \in ran => Authenticated(r) /\ answer[r] \in {"success", "failure", "rows", "noRows", "error"}
    /\ r \in ran /\ answer[r] = "error" => asked[r].path = "/query"

\* A write that was acknowledged and ran outside of a transaction is committed,
\* whatever happens to its connection afterwards, and it runs inside of one only
\* if some request has begun one.
AcknowledgedMeansCommitted ==
  /\ Acknowledged \ enclosed \subseteq database
  /\ enclosed # {} => \E r \in ran : asked[r].body = "begin"

\* Every request is answered, so that in the end none is queued or in progress:
\* no worker is lost or waits for ever, even if the pool never has a connection.
EveryRequestAnswered ==
  <>[](\A r \in Requests : stage[r] \in {"none", "answered"})

\* dbcp_client.py:42-49, "Insert data", then "Query data": a query sees the
\* writes that were acknowledged before it was made.
QuerySeesInserts ==
  \A r \in Requests :
    stage[r] = "answered" /\ answer[r] \in {"rows", "noRows"} /\ asked[r].body = "read" => known[r] \subseteq rows[r]
=============================================================================
