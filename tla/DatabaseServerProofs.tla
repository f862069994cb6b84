------------------------- MODULE DatabaseServerProofs -------------------------
(* Theorems about DatabaseServer for every set of requests, connections and *)
(* faults.                                                                  *)
EXTENDS DatabaseServer, FiniteSetTheorems, TLAPS

Stages == {"none", "queued", "asking", "replacing", "leased", "ran", "replying", "answered"}
Answers == {"none", "unauthorized", "healthy", "error", "success", "failure", "rows", "noRows"}

\* The types of the HTTP side, those of the pool and those of the connections
\* being made, each of which most steps leave alone.
ServerTypeOK ==
  /\ asked \in [Requests -> Asks \cup {NotAsked}]
  /\ stage \in [Requests -> Stages]
  /\ answer \in [Requests -> Answers]
  /\ rows \in [Requests -> SUBSET Requests] /\ known \in [Requests -> SUBSET Requests]
PoolTypeOK ==
  closed \in BOOLEAN /\ free \subseteq Conns /\ lease \in [Requests -> Conns \cup {NoConn}]
MakingTypeOK ==
  /\ creating \in BOOLEAN /\ spare \in Conns \cup {NoConn}
  /\ dead \in Conns \cup {NoConn} /\ fresh \in Conns \cup {NoConn}

LEMMA NoConnAssumption == NoConn \notin Conns
BY ServerAssumption

\* The types are inductive together with the leases: a statement runs on a
\* connection because its request has one.
TypeInv == ConnTypeOK /\ ServerTypeOK /\ PoolTypeOK /\ MakingTypeOK /\ LeasesAreInUse

LEMMA InitTypes == Init => TypeInv
<1>1. Init => ConnTypeOK /\ ServerTypeOK /\ MakingTypeOK
  BY DEF Init, ConnInit, ConnTypeOK, ServerTypeOK, MakingTypeOK, Stages, Answers
<1>2. Init => PoolTypeOK /\ LeasesAreInUse
  BY NoConnAssumption DEF Init, PoolTypeOK, LeasesAreInUse
<1> QED BY <1>1, <1>2 DEF TypeInv

-----------------------------------------------------------------------------
\* What the operations of Connection do to its types.
LEMMA OpenTypes ==
  ASSUME ConnTypeOK, NEW k, Open(k) \/ SetSchema(k)
  PROVE  ConnTypeOK'
BY DEF ConnTypeOK, Open, SetSchema, histVars

LEMMA EndTypes ==
  ASSUME ConnTypeOK, NEW S, NEW s \in {"none", "closed"}, End(S, s)
  PROVE  ConnTypeOK'
BY DEF ConnTypeOK, End, histVars

LEMMA RunTypes ==
  ASSUME ConnTypeOK, NEW k \in Conns, NEW r \in Requests, NEW s, NEW expected, NEW ok,
         Run(k, r, s, expected, ok)
  PROVE  ConnTypeOK'
<1>1. CASE UNCHANGED connVars
  BY <1>1 DEF ConnTypeOK, connVars, histVars
<1>2. CASE Executes(k, r, s)
  <2>1. ran' \subseteq Requests /\ enclosed' \subseteq Requests /\ session' = session
    BY <1>2 DEF Executes, ConnTypeOK
  <2>2. inTxn' \in [Conns -> BOOLEAN]
    BY <1>2 DEF Executes, ConnTypeOK
  <2>3. pending' \in [Conns -> SUBSET Requests]
    BY <1>2 DEF Executes, ConnTypeOK
  <2>4. database' \subseteq Requests
    BY <1>2 DEF Executes, ConnTypeOK
  <2> QED BY <2>1, <2>2, <2>3, <2>4 DEF ConnTypeOK
<1> QED BY <1>1, <1>2 DEF Run

\* A leased connection is one.
LEMMA LeasedIsConn ==
  ASSUME TypeInv, NEW r \in Requests, stage[r] \in {"leased", "ran"}
  PROVE  lease[r] \in Conns
BY DEF TypeInv, PoolTypeOK, LeasesAreInUse

\* What a step leaves alone keeps its type.
LEMMA Untouched ==
  ASSUME TypeInv
  PROVE  /\ UNCHANGED connVars => ConnTypeOK'
         /\ UNCHANGED serverVars => ServerTypeOK'
         /\ UNCHANGED poolVars => PoolTypeOK'
         /\ UNCHANGED <<producerVars, replaceVars>> => MakingTypeOK'
         /\ UNCHANGED <<stage, lease>> => LeasesAreInUse'
<1>1. ConnTypeOK /\ ServerTypeOK /\ PoolTypeOK /\ MakingTypeOK /\ LeasesAreInUse
  BY DEF TypeInv
<1>2. UNCHANGED connVars => ConnTypeOK'
  BY <1>1 DEF connVars, histVars, ConnTypeOK
<1>3. UNCHANGED serverVars => ServerTypeOK'
  BY <1>1 DEF serverVars, ServerTypeOK
<1>4. UNCHANGED poolVars => PoolTypeOK'
  BY <1>1 DEF poolVars, PoolTypeOK
<1>5. UNCHANGED <<producerVars, replaceVars>> => MakingTypeOK'
  BY <1>1 DEF producerVars, replaceVars, MakingTypeOK
<1>6. UNCHANGED <<stage, lease>> => LeasesAreInUse'
  BY <1>1 DEF LeasesAreInUse
<1> QED BY <1>2, <1>3, <1>4, <1>5, <1>6

\* A step that gives no request a lease, nor ends one, as its stage says.
LEMMA NoLeaseMoves ==
  ASSUME TypeInv, NEW r \in Requests, stage[r] \notin {"leased", "ran"}, lease' = lease,
         NEW s \in Stages \ {"leased", "ran"}, stage' = [stage EXCEPT ![r] = s]
  PROVE  LeasesAreInUse'
BY DEF TypeInv, ServerTypeOK, LeasesAreInUse

-----------------------------------------------------------------------------
\* Replacing a dead connection keeps TypeInv ...
LEMMA ReplacingTypes ==
  ASSUME TypeInv, NEW r \in Requests, Replacing(r)
  PROVE  TypeInv'
<1>0. ConnTypeOK /\ ServerTypeOK /\ PoolTypeOK /\ MakingTypeOK /\ LeasesAreInUse
  BY DEF TypeInv
<1> USE NoConnAssumption DEF Goto, Answer
<1>1. CASE FindDead(r)
  <2>1. PICK k \in free : free' = free \ {k} /\ lease' = lease /\ closed' = closed /\ dead' = k
    BY <1>1 DEF FindDead, Pool!Retire
  <2>2. PoolTypeOK' /\ MakingTypeOK'
    BY <1>0, <1>1, <2>1 DEF FindDead, producerVars, PoolTypeOK, MakingTypeOK
  <2>3. ServerTypeOK'
    BY <1>0, <1>1 DEF FindDead, ServerTypeOK, Stages
  <2>4. LeasesAreInUse'
    BY <1>1, <2>1, NoLeaseMoves DEF FindDead, Stages
  <2> QED BY <1>1, <2>2, <2>3, <2>4, Untouched DEF FindDead, TypeInv
<1>2. ASSUME NEW k \in Conns, OpenReplacement(r, k) PROVE TypeInv'
  <2>1. ConnTypeOK'
    BY <1>0, <1>2, OpenTypes DEF OpenReplacement
  <2>2. MakingTypeOK'
    BY <1>0, <1>2 DEF OpenReplacement, producerVars, MakingTypeOK
  <2> QED BY <1>2, <2>1, <2>2, Untouched DEF OpenReplacement, serverVars, poolVars, TypeInv
<1>3. CASE ConnectReplacement(r)
  <2>1. ConnTypeOK'
    BY <1>0, <1>3, OpenTypes DEF ConnectReplacement
  <2> QED BY <1>3, <2>1, Untouched DEF ConnectReplacement, serverVars, poolVars, TypeInv
<1>4. CASE Replaced(r)
  <2>1. ConnTypeOK'
    BY <1>0, <1>4, EndTypes DEF Replaced, Destroy
  <2>2. PICK k \in Conns : lease' = [lease EXCEPT ![r] = k] /\ free' = free /\ closed' = closed
    BY <1>4 DEF Replaced, Pool!GrantNew
  <2>3. PoolTypeOK' /\ MakingTypeOK'
    BY <1>0, <1>4, <2>2 DEF Replaced, producerVars, PoolTypeOK, MakingTypeOK
  <2>4. ServerTypeOK'
    BY <1>0, <1>4 DEF Replaced, ServerTypeOK, Stages
  <2>5. LeasesAreInUse'
    BY <1>0, <1>4, <2>2 DEF Replaced, ServerTypeOK, PoolTypeOK, LeasesAreInUse
  <2> QED BY <2>1, <2>3, <2>4, <2>5 DEF TypeInv
<1>5. CASE ReplaceFails(r)
  <2>1. ConnTypeOK'
    BY <1>0, <1>5, EndTypes DEF ReplaceFails, Destroy
  <2>2. lease' = lease /\ free' = free /\ closed' = closed
    BY <1>5 DEF ReplaceFails, Pool!TurnAway
  <2>3. PoolTypeOK' /\ MakingTypeOK'
    BY <1>0, <1>5, <2>2 DEF ReplaceFails, producerVars, PoolTypeOK, MakingTypeOK
  <2>4. ServerTypeOK'
    BY <1>0, <1>5 DEF ReplaceFails, ServerTypeOK, Stages, Answers
  <2>5. LeasesAreInUse'
    BY <1>5, <2>2, NoLeaseMoves DEF ReplaceFails, Stages
  <2> QED BY <2>1, <2>3, <2>4, <2>5 DEF TypeInv
<1> QED BY <1>1, <1>2, <1>3, <1>4, <1>5 DEF Replacing

\* ... and so do the other steps of a request ...
LEMMA ServingTypes ==
  ASSUME TypeInv, NEW r \in Requests, Serving(r) \/ \E a \in Asks : Arrive(r, a)
  PROVE  TypeInv'
<1>0. ConnTypeOK /\ ServerTypeOK /\ PoolTypeOK /\ MakingTypeOK /\ LeasesAreInUse
  BY DEF TypeInv
<1> USE NoConnAssumption DEF Goto, Answer, Stages, Answers
<1>1. ASSUME NEW a \in Asks, Arrive(r, a) PROVE TypeInv'
  <2>1. ServerTypeOK'
    BY <1>0, <1>1 DEF Arrive, ServerTypeOK, Acknowledged
  <2>2. LeasesAreInUse'
    BY <1>1, NoLeaseMoves DEF Arrive, poolVars
  <2> QED BY <1>1, <2>1, <2>2, Untouched DEF Arrive, TypeInv
<1>2. CASE Handle(r)
  <2>1. Rejection(r) \in Answers
    BY DEF Rejection
  <2>2. ServerTypeOK'
    BY <1>0, <1>2, <2>1 DEF Handle, ServerTypeOK
  <2>3. PoolTypeOK' /\ lease' = lease
    BY <1>0, <1>2 DEF Handle, poolVars, Pool!Ask, PoolTypeOK
  <2>4. LeasesAreInUse'
    <3>1. stage[r] = "queued"
      BY <1>2 DEF Handle, TakenUp
    <3>2. \E s \in {"asking", "replying"} : stage' = [stage EXCEPT ![r] = s]
      BY <1>2 DEF Handle
    <3> QED BY <2>3, <3>1, <3>2, NoLeaseMoves
  <2> QED BY <1>2, <2>2, <2>3, <2>4, Untouched DEF Handle, TypeInv
<1>3. CASE GetPooled(r)
  <2>1. stage[r] = "asking"
    BY <1>3 DEF GetPooled
  <2>2. PICK k \in free : free' = free \ {k} /\ lease' = [lease EXCEPT ![r] = k] /\ closed' = closed
    BY <1>3 DEF GetPooled, Pool!Grant
  <2>3. ServerTypeOK' /\ PoolTypeOK'
    BY <1>0, <1>3, <2>2 DEF GetPooled, ServerTypeOK, PoolTypeOK
  <2>4. LeasesAreInUse'
    BY <1>0, <1>3, <2>1, <2>2 DEF GetPooled, ServerTypeOK, PoolTypeOK, LeasesAreInUse
  <2> QED BY <1>3, <2>3, <2>4, Untouched DEF GetPooled, TypeInv
<1>4. CASE GetNothing(r)
  <2>1. ServerTypeOK'
    BY <1>0, <1>4 DEF GetNothing, ServerTypeOK
  <2>2. UNCHANGED poolVars
    BY <1>4 DEF GetNothing, Pool!TurnAway, poolVars
  <2>3. LeasesAreInUse'
    BY <1>4, <2>2, NoLeaseMoves DEF GetNothing, poolVars
  <2> QED BY <1>4, <2>1, <2>2, <2>3, Untouched DEF GetNothing, TypeInv
<1>5. CASE RunExecute(r)
  <2>1. ServerTypeOK' /\ LeasesAreInUse'
    BY <1>0, <1>5 DEF RunExecute, poolVars, ServerTypeOK, LeasesAreInUse
  <2>2. lease[r] \in Conns
    BY <1>5, LeasedIsConn DEF RunExecute
  <2>3. ConnTypeOK'
    BY <1>0, <1>5, <2>2, RunTypes DEF RunExecute, Update
  <2> QED BY <1>5, <2>1, <2>3, Untouched DEF RunExecute, TypeInv
<1>6. CASE RunQuery(r)
  <2>1. lease[r] \in Conns
    BY <1>6, LeasedIsConn DEF RunQuery
  <2>2. Visible(lease[r]) \subseteq Requests
    BY <1>0, <2>1 DEF Visible, ConnTypeOK
  <2>3. ServerTypeOK' /\ LeasesAreInUse'
    BY <1>0, <1>6, <2>2 DEF RunQuery, poolVars, ServerTypeOK, LeasesAreInUse
  <2>4. ConnTypeOK'
    <3>1. PICK ok \in BOOLEAN : Query(lease[r], r, asked[r].body, ok)
      BY <1>6 DEF RunQuery
    <3>2. Run(lease[r], r, asked[r].body, asked[r].body = "read", ok)
      BY <3>1 DEF Query
    <3> HIDE DEF Goto, Answer
    <3> QED BY <1>0, <2>1, <3>2, RunTypes, Zenon
  <2> QED BY <1>6, <2>3, <2>4, Untouched DEF RunQuery, TypeInv
<1>7. CASE Finish(r)
  <2>1. lease[r] \in Conns
    BY <1>7, LeasedIsConn DEF Finish
  <2>2. PoolTypeOK' /\ lease' = [lease EXCEPT ![r] = NoConn]
    BY <1>0, <1>7, <2>1 DEF Finish, EndLease, Pool!GiveBack, PoolTypeOK
  <2>3. ServerTypeOK' /\ LeasesAreInUse'
    BY <1>0, <1>7, <2>2 DEF Finish, ServerTypeOK, PoolTypeOK, LeasesAreInUse
  <2>4. ConnTypeOK'
    <3>1. CASE closed
      BY <1>0, <1>7, <3>1, EndTypes DEF Finish, EndLease, Destroy
    <3>2. CASE ~closed
      BY <1>7, <3>2, Untouched DEF Finish, EndLease
    <3> QED BY <3>1, <3>2
  <2> QED BY <1>7, <2>2, <2>3, <2>4, Untouched DEF Finish, TypeInv
<1>8. CASE Reply(r)
  <2>1. ServerTypeOK'
    BY <1>0, <1>8 DEF Reply, ServerTypeOK
  <2>2. LeasesAreInUse'
    BY <1>8, NoLeaseMoves DEF Reply, poolVars
  <2> QED BY <1>8, <2>1, <2>2, Untouched DEF Reply, TypeInv
<1> QED BY <1>1, <1>2, <1>3, <1>4, <1>5, <1>6, <1>7, <1>8, ReplacingTypes DEF Serving

\* ... and those of the pool.
LEMMA PoolingTypes ==
  ASSUME TypeInv, Pooling
  PROVE  TypeInv'
<1>0. ConnTypeOK /\ PoolTypeOK /\ MakingTypeOK
  BY DEF TypeInv
<1> USE NoConnAssumption
<1>1. ASSUME UNCHANGED serverVars, lease' = lease, ConnTypeOK', PoolTypeOK', MakingTypeOK' PROVE TypeInv'
  <2>1. LeasesAreInUse'
    BY <1>1, Untouched DEF serverVars
  <2> QED BY <1>1, <2>1, Untouched DEF TypeInv
\* The steps that only make or end a connection of the producer's.
<1>2. ASSUME UNCHANGED <<serverVars, poolVars>>, ConnTypeOK', MakingTypeOK' PROVE TypeInv'
  BY <1>1, <1>2, Untouched DEF poolVars
<1>3. CASE ProducerTests
  BY <1>0, <1>2, <1>3, Untouched DEF ProducerTests, replaceVars, MakingTypeOK
<1>4. ASSUME NEW k \in Conns, StartConnection(k) PROVE TypeInv'
  <2>1. ConnTypeOK' /\ MakingTypeOK'
    BY <1>0, <1>4, OpenTypes DEF StartConnection, replaceVars, MakingTypeOK
  <2> QED BY <1>2, <1>4, <2>1 DEF StartConnection
<1>5. CASE ConnectSpare
  <2>1. ConnTypeOK' /\ MakingTypeOK'
    BY <1>0, <1>5, OpenTypes, Untouched DEF ConnectSpare
  <2> QED BY <1>2, <1>5, <2>1 DEF ConnectSpare
<1>6. CASE CreateFails \/ DiscardSpare
  <2>1. ConnTypeOK' /\ MakingTypeOK'
    BY <1>0, <1>6, EndTypes DEF CreateFails, DiscardSpare, Destroy, replaceVars, MakingTypeOK
  <2> QED BY <1>2, <1>6, <2>1 DEF CreateFails, DiscardSpare
<1>7. CASE QueueSpare
  <2>1. PoolTypeOK' /\ MakingTypeOK' /\ lease' = lease
    BY <1>0, <1>7 DEF QueueSpare, Pool!Supply, replaceVars, PoolTypeOK, MakingTypeOK
  <2> QED BY <1>1, <1>7, <2>1, Untouched DEF QueueSpare
<1>8. ASSUME NEW k \in Conns, CloseLink(k) PROVE TypeInv'
  <2>1. ConnTypeOK'
    BY <1>0, <1>8, EndTypes DEF CloseLink, ServerCloses
  <2> QED BY <1>2, <1>8, <2>1, Untouched DEF CloseLink
<1>9. ASSUME NEW S \in SUBSET free, RetireConnections(S) PROVE TypeInv'
  <2>1. ConnTypeOK'
    BY <1>0, <1>9, EndTypes DEF RetireConnections, Destroy
  <2>2. PoolTypeOK' /\ lease' = lease
    BY <1>0, <1>9 DEF RetireConnections, Pool!Retire, PoolTypeOK
  <2> QED BY <1>1, <1>9, <2>1, <2>2, Untouched DEF RetireConnections
<1>10. CASE ClosePool
  <2>1. PoolTypeOK' /\ lease' = lease
    BY <1>0, <1>10 DEF ClosePool, Pool!Close, PoolTypeOK
  <2> QED BY <1>1, <1>10, <2>1, Untouched DEF ClosePool
<1> QED BY <1>3, <1>4, <1>5, <1>6, <1>7, <1>8, <1>9, <1>10 DEF Pooling

LEMMA TypeStep == TypeInv /\ [Next]_vars => TypeInv'
<1>1. ASSUME TypeInv, UNCHANGED vars PROVE TypeInv'
  BY <1>1, Untouched DEF vars, serverVars, poolVars, TypeInv
<1> QED BY <1>1, ServingTypes, PoolingTypes DEF Next

\* TypeInv holds in every reachable state.
LEMMA TypeCorrect == Spec => []TypeInv
BY InitTypes, TypeStep, PTL DEF Spec

\* Every variable keeps its type.
THEOREM ServerTypes == Spec => []TypeOK
<1>1. TypeInv => TypeOK
  BY DEF TypeInv, TypeOK, ServerTypeOK, PoolTypeOK, MakingTypeOK, Stages, Answers
<1> QED BY <1>1, TypeCorrect, PTL

\* No handler, on any of its ways out, answers before its connection is back:
\* a request has a lease exactly while it uses it.
THEOREM LeasesEndWithTheirRequests == Spec => []LeasesAreInUse
<1>1. TypeInv => LeasesAreInUse
  BY DEF TypeInv
<1> QED BY <1>1, TypeCorrect, PTL

-----------------------------------------------------------------------------
(* What a statement can do to the history of statements, whatever comes of *)
(* it: only its own request is added, and it is if the answer is success.  *)
LEMMA RunRuns ==
  ASSUME NEW k \in Conns, NEW r \in Requests, NEW s, NEW expected, NEW ok, Run(k, r, s, expected, ok)
  PROVE  ran \subseteq ran' /\ ran' \subseteq ran \cup {r} /\ (ok = TRUE => r \in ran')
BY DEF Run, Executes, connVars, histVars

\* The answer of a request agrees with how far it is, and with whether its
\* statement has been executed.
AnswerInv ==
  \A r \in Requests :
    /\ stage[r] = "none" <=> asked[r] = NotAsked
    /\ stage[r] \in {"none", "queued", "asking", "replacing", "leased"} => answer[r] = "none" /\ r \notin ran
    /\ stage[r] \in {"asking", "replacing", "leased", "ran"} => Rejection(r) = "none"
    /\ stage[r] = "ran" => answer[r] \in {"success", "failure", "rows", "noRows"}
    /\ answer[r] \in {"success", "rows"} => r \in ran
    /\ answer[r] \in {"rows", "noRows"} => asked[r].path = "/query"
    /\ r \in ran => Rejection(r) = "none" /\ answer[r] \in {"success", "failure", "rows", "noRows", "error"}
    /\ r \in ran /\ answer[r] = "error" => asked[r].path = "/query"

LEMMA InitAnswers == Init => AnswerInv
BY DEF Init, ConnInit, AnswerInv

\* The steps of a connection that run no statement leave the histories, the
\* database and the transactions as they are, but for those MySQL rolls back.
LEMMA NoStatement ==
  ASSUME ConnTypeOK,
         UNCHANGED connVars \/ (\E k : Open(k) \/ SetSchema(k)) \/ (\E S, s : End(S, s))
  PROVE  UNCHANGED <<ran, enclosed, database>> /\ \A j \in Conns : inTxn'[j] => inTxn[j]
BY DEF connVars, histVars, Open, SetSchema, End

LEMMA ReplacingRunsNothing ==
  ASSUME TypeInv, NEW r \in Requests, Replacing(r)
  PROVE  UNCHANGED <<ran, enclosed, database>> /\ \A j \in Conns : inTxn'[j] => inTxn[j]
<1>1. UNCHANGED connVars \/ (\E k : Open(k) \/ SetSchema(k)) \/ (\E S, s : End(S, s))
  <2>1. CASE FindDead(r)
    BY <2>1 DEF FindDead
  <2>2. CASE (\E k \in Conns : OpenReplacement(r, k)) \/ ConnectReplacement(r)
    BY <2>2 DEF OpenReplacement, ConnectReplacement
  <2>3. CASE Replaced(r) \/ ReplaceFails(r)
    <3>1. \E S : Destroy(S)
      BY <2>3 DEF Replaced, ReplaceFails
    <3> QED BY <3>1 DEF Destroy
  <2> QED BY <2>1, <2>2, <2>3 DEF Replacing
<1> QED BY <1>1, NoStatement DEF TypeInv

LEMMA PoolingRunsNothing ==
  ASSUME TypeInv, Pooling
  PROVE  UNCHANGED <<ran, enclosed, database>> /\ \A j \in Conns : inTxn'[j] => inTxn[j]
<1>1. UNCHANGED connVars \/ (\E k : Open(k) \/ SetSchema(k)) \/ (\E S, s : End(S, s))
  <2>1. CASE ProducerTests \/ QueueSpare \/ ClosePool
    BY <2>1 DEF ProducerTests, QueueSpare, ClosePool
  <2>2. CASE (\E k \in Conns : StartConnection(k)) \/ ConnectSpare
    BY <2>2 DEF StartConnection, ConnectSpare
  <2>3. CASE CreateFails \/ DiscardSpare \/ \E S \in SUBSET free : RetireConnections(S)
    <3>1. \E S : Destroy(S)
      BY <2>3 DEF CreateFails, DiscardSpare, RetireConnections
    <3> QED BY <3>1 DEF Destroy
  <2>4. CASE \E k \in Conns : CloseLink(k)
    BY <2>4 DEF CloseLink, ServerCloses
  <2> QED BY <2>1, <2>2, <2>3, <2>4 DEF Pooling
<1> QED BY <1>1, NoStatement DEF TypeInv

\* The steps of the pool answer nobody.
LEMMA PoolingAnswersNobody ==
  ASSUME Pooling
  PROVE  UNCHANGED serverVars
BY DEF Pooling, ProducerTests, StartConnection, ConnectSpare, CreateFails, QueueSpare, DiscardSpare,
       CloseLink, RetireConnections, ClosePool

LEMMA ServingAnswers ==
  ASSUME TypeInv, AnswerInv, NEW r \in Requests, Serving(r) \/ \E a \in Asks : Arrive(r, a)
  PROVE  AnswerInv'
<1>0. ServerTypeOK /\ r \in Requests
  BY DEF TypeInv
<1> USE DEF Goto, Answer, ServerTypeOK, Stages, Answers
<1>1. ASSUME NEW a \in Asks, Arrive(r, a) PROVE AnswerInv'
  <2>1. a # NotAsked
    BY ServerAssumption
  <2> QED BY <1>0, <1>1, <2>1 DEF Arrive, connVars, histVars, AnswerInv, Rejection, Authenticated
<1>2. CASE Handle(r)
  <2>1. stage[r] = "queued" /\ asked' = asked /\ ran' = ran /\ answer' = [answer EXCEPT ![r] = Rejection(r)]
    BY <1>2 DEF Handle, TakenUp, connVars, histVars
  <2>2. Rejection(r) \in {"none", "unauthorized", "healthy", "error"}
    BY DEF Rejection
  <2>3. stage' = [stage EXCEPT ![r] = IF Rejection(r) = "none" THEN "asking" ELSE "replying"]
    BY <1>2 DEF Handle
  <2>4. \A q \in Requests : Rejection(q)' = Rejection(q)
    BY <2>1 DEF Rejection, Authenticated
  <2> QED BY <1>0, <2>1, <2>2, <2>3, <2>4 DEF AnswerInv
<1>3. CASE GetPooled(r)
  <2>1. stage[r] = "asking" /\ stage' = [stage EXCEPT ![r] = "leased"] /\ UNCHANGED <<asked, answer, ran>>
    BY <1>3 DEF GetPooled, connVars, histVars
  <2> QED BY <1>0, <2>1 DEF AnswerInv, Rejection, Authenticated
<1>4. CASE GetNothing(r) \/ ReplaceFails(r)
  <2>1. /\ stage[r] \in {"asking", "replacing"} /\ stage' = [stage EXCEPT ![r] = "replying"]
        /\ answer' = [answer EXCEPT ![r] = "error"] /\ asked' = asked
    BY <1>4 DEF GetNothing, ReplaceFails
  <2>2. ran' = ran
    BY <1>4, ReplacingRunsNothing DEF GetNothing, connVars, histVars, Replacing
  <2> QED BY <1>0, <2>1, <2>2 DEF AnswerInv, Rejection, Authenticated
<1>5. CASE Replacing(r) /\ ~ReplaceFails(r)
  <2>1. ran' = ran
    BY <1>5, ReplacingRunsNothing
  <2>2. CASE (\E k \in Conns : OpenReplacement(r, k)) \/ ConnectReplacement(r)
    BY <2>1, <2>2 DEF OpenReplacement, ConnectReplacement, serverVars, AnswerInv, Rejection, Authenticated
  <2>3. CASE FindDead(r) \/ Replaced(r)
    <3>1. /\ stage[r] \in {"asking", "replacing"} /\ UNCHANGED <<asked, answer>>
          /\ \E s \in {"replacing", "leased"} : stage' = [stage EXCEPT ![r] = s]
      BY <2>3 DEF FindDead, Replaced
    <3> QED BY <1>0, <2>1, <3>1 DEF AnswerInv, Rejection, Authenticated
  <2> QED BY <1>5, <2>2, <2>3 DEF Replacing
<1>6. ASSUME NEW ok \in BOOLEAN, NEW expected, Run(lease[r], r, asked[r].body, expected, ok),
             stage[r] = "leased", stage' = [stage EXCEPT ![r] = "ran"], asked' = asked,
             NEW good, NEW bad, answer' = [answer EXCEPT ![r] = IF ok THEN good ELSE bad],
             \/ good = "success" /\ bad = "failure" /\ asked[r].path = "/execute"
             \/ good = "rows" /\ bad = "noRows" /\ asked[r].path = "/query"
      PROVE  AnswerInv'
  <2>1. lease[r] \in Conns
    BY <1>6, LeasedIsConn
  <2>2. ran \subseteq ran' /\ ran' \subseteq ran \cup {r} /\ (ok = TRUE => r \in ran')
    BY <1>6, <2>1, RunRuns
  <2>3. \A q \in Requests : Rejection(q)' = Rejection(q)
    BY <1>6 DEF Rejection, Authenticated
  <2> QED BY <1>0, <1>6, <2>2, <2>3 DEF AnswerInv
<1>7. CASE RunExecute(r)
  <2>1. PICK ok \in BOOLEAN : /\ Update(lease[r], r, asked[r].body, ok)
                              /\ Answer(r, IF ok THEN "success" ELSE "failure")
    BY <1>7 DEF RunExecute
  <2>2. Run(lease[r], r, asked[r].body, asked[r].body # "read", ok)
    BY <2>1 DEF Update
  <2> QED BY <1>6, <1>7, <2>1, <2>2 DEF RunExecute
<1>8. CASE RunQuery(r)
  <2>1. PICK ok \in BOOLEAN : /\ Query(lease[r], r, asked[r].body, ok)
                              /\ Answer(r, IF ok THEN "rows" ELSE "noRows")
    BY <1>8 DEF RunQuery
  <2>2. Run(lease[r], r, asked[r].body, asked[r].body = "read", ok)
    BY <2>1 DEF Query
  <2> QED BY <1>6, <1>8, <2>1, <2>2 DEF RunQuery
<1>9. CASE Finish(r)
  <2>1. ran' = ran /\ asked' = asked
    BY <1>9 DEF Finish, EndLease, Destroy, End, connVars, histVars
  <2>2. stage[r] = "ran" /\ stage' = [stage EXCEPT ![r] = "replying"]
        /\ (answer' = answer \/ (answer[r] = "rows" /\ answer' = [answer EXCEPT ![r] = "error"]))
    BY <1>9 DEF Finish
  <2> QED BY <1>0, <2>1, <2>2 DEF AnswerInv, Rejection, Authenticated
<1>10. CASE Reply(r)
  BY <1>0, <1>10 DEF Reply, connVars, histVars, AnswerInv, Rejection, Authenticated
<1> QED BY <1>1, <1>2, <1>3, <1>4, <1>5, <1>7, <1>8, <1>9, <1>10 DEF Serving, Replacing

LEMMA AnswerStep == TypeInv /\ AnswerInv /\ [Next]_vars => AnswerInv'
<1>1. ASSUME AnswerInv, UNCHANGED <<asked, answer, stage, ran>> PROVE AnswerInv'
  BY <1>1 DEF AnswerInv, Rejection, Authenticated
<1>2. ASSUME TypeInv, AnswerInv, Pooling PROVE AnswerInv'
  BY <1>1, <1>2, PoolingAnswersNobody, PoolingRunsNothing DEF serverVars
<1>3. ASSUME AnswerInv, UNCHANGED vars PROVE AnswerInv'
  BY <1>1, <1>3 DEF vars, connVars, histVars, serverVars
<1> QED BY <1>2, <1>3, ServingAnswers DEF Next

LEMMA AnswersCorrect == Spec => [](TypeInv /\ AnswerInv)
BY InitTypes, TypeStep, InitAnswers, AnswerStep, PTL DEF Spec

\* "success" means executed, and 401, "no connection" and a bad body mean not
\* executed, under every fault of the connection and of the server.
THEOREM AnswersAreHonest == Spec => []AnswersAreReliable
<1>1. AnswerInv => AnswersAreReliable
  BY DEF AnswerInv, AnswersAreReliable, Rejection
<1> QED BY <1>1, AnswersCorrect, PTL

-----------------------------------------------------------------------------
\* Some request has begun a transaction.
Begun == \E r \in ran : asked[r].body = "begin"

\* Until then every session is in autocommit mode.
CommitInv ==
  /\ \A k \in Conns : inTxn[k] => Begun
  /\ enclosed # {} => Begun
  /\ \A r \in Requests :
       answer[r] = "success" /\ asked[r].body = "write" => r \in database \cup enclosed

LEMMA RunCommits ==
  ASSUME ConnTypeOK, NEW k \in Conns, NEW r \in Requests, NEW s, NEW expected, NEW ok,
         Run(k, r, s, expected, ok)
  PROVE  /\ database \subseteq database' /\ enclosed \subseteq enclosed' /\ ran \subseteq ran'
         /\ \A j \in Conns : inTxn'[j] => inTxn[j] \/ (s = "begin" /\ r \in ran')
         /\ enclosed' # enclosed => inTxn[k]
         /\ ok = TRUE /\ s = "write" => r \in database' \cup enclosed'
<1>1. CASE UNCHANGED connVars /\ ok = FALSE
  BY <1>1 DEF connVars, histVars
<1>2. CASE Executes(k, r, s)
  <2>1. database \subseteq database' /\ enclosed \subseteq enclosed' /\ ran \subseteq ran' /\ r \in ran'
    BY <1>2 DEF Executes
  <2>2. \A j \in Conns : inTxn'[j] => inTxn[j] \/ s = "begin"
    BY <1>2 DEF Executes, ConnTypeOK
  <2>3. (enclosed' # enclosed => inTxn[k]) /\ (s = "write" => r \in database' \cup enclosed')
    BY <1>2 DEF Executes
  <2> QED BY <2>1, <2>2, <2>3
<1> QED BY <1>1, <1>2 DEF Run

\* A step that runs nothing and acknowledges nothing.
LEMMA NothingCommitted ==
  ASSUME CommitInv, UNCHANGED <<asked, ran, enclosed, database>>,
         \A j \in Conns : inTxn'[j] => inTxn[j],
         \A q \in Requests : answer'[q] = "success" => answer[q] = "success"
  PROVE  CommitInv'
BY DEF CommitInv, Begun

LEMMA ServingCommits ==
  ASSUME TypeInv, AnswerInv, CommitInv, NEW r \in Requests,
         Serving(r) \/ \E a \in Asks : Arrive(r, a)
  PROVE  CommitInv'
<1>0. ServerTypeOK /\ ConnTypeOK
  BY DEF TypeInv
<1> USE DEF Goto, Answer, ServerTypeOK, Stages, Answers
<1>1. ASSUME NEW a \in Asks, Arrive(r, a) PROVE CommitInv'
  <2>1. asked' = [asked EXCEPT ![r] = a] /\ UNCHANGED <<answer, inTxn, ran, enclosed, database>>
    BY <1>1 DEF Arrive, connVars, histVars
  <2>2. r \notin ran /\ answer[r] = "none"
    BY <1>1 DEF Arrive, AnswerInv
  <2>3. Begun => Begun'
    BY <1>0, <2>1, <2>2 DEF Begun, ConnTypeOK
  <2> QED BY <1>0, <2>1, <2>2, <2>3 DEF CommitInv
<1>2. CASE Handle(r)
  <2>1. Rejection(r) # "success"
    BY DEF Rejection
  <2> QED BY <1>0, <1>2, <2>1, NothingCommitted DEF Handle, connVars, histVars
<1>3. CASE GetPooled(r) \/ GetNothing(r) \/ Reply(r)
  BY <1>0, <1>3, NothingCommitted DEF GetPooled, GetNothing, Reply, connVars, histVars
<1>4. CASE Replacing(r)
  <2>1. asked' = asked /\ \A q \in Requests : answer'[q] = "success" => answer[q] = "success"
    BY <1>0, <1>4 DEF Replacing, FindDead, OpenReplacement, ConnectReplacement, Replaced, ReplaceFails, serverVars
  <2> QED BY <1>4, <2>1, ReplacingRunsNothing, NothingCommitted
<1>5. ASSUME NEW ok \in BOOLEAN, NEW expected, Run(lease[r], r, asked[r].body, expected, ok),
             stage[r] = "leased", asked' = asked,
             NEW good, NEW bad, answer' = [answer EXCEPT ![r] = IF ok THEN good ELSE bad],
             bad # "success"
      PROVE  CommitInv'
  <2>1. lease[r] \in Conns
    BY <1>5, LeasedIsConn
  <2>2. /\ database \subseteq database' /\ enclosed \subseteq enclosed' /\ ran \subseteq ran'
        /\ \A j \in Conns : inTxn'[j] => inTxn[j] \/ (asked[r].body = "begin" /\ r \in ran')
        /\ enclosed' # enclosed => inTxn[lease[r]]
        /\ ok = TRUE /\ asked[r].body = "write" => r \in database' \cup enclosed'
    BY <1>0, <1>5, <2>1, RunCommits
  <2>3. Begun => Begun'
    BY <1>5, <2>2 DEF Begun
  <2>4. \A j \in Conns : inTxn'[j] => Begun'
    <3>1. asked[r].body = "begin" /\ r \in ran' => Begun'
      BY <1>5 DEF Begun
    <3> QED BY <2>2, <2>3, <3>1 DEF CommitInv
  <2>5. enclosed' # {} => Begun'
    BY <2>1, <2>2, <2>3 DEF CommitInv
  <2>6. ASSUME NEW q \in Requests, answer'[q] = "success", asked[q].body = "write"
        PROVE  q \in database' \cup enclosed'
    BY <1>0, <1>5, <2>2, <2>6 DEF CommitInv
  <2> QED BY <1>5, <2>4, <2>5, <2>6 DEF CommitInv
<1>6. CASE RunExecute(r)
  <2>1. PICK ok \in BOOLEAN : /\ Update(lease[r], r, asked[r].body, ok)
                              /\ Answer(r, IF ok THEN "success" ELSE "failure")
    BY <1>6 DEF RunExecute
  <2>2. Run(lease[r], r, asked[r].body, asked[r].body # "read", ok)
    BY <2>1 DEF Update
  <2> QED BY <1>5, <1>6, <2>1, <2>2 DEF RunExecute
<1>7. CASE RunQuery(r)
  <2>1. PICK ok \in BOOLEAN : /\ Query(lease[r], r, asked[r].body, ok)
                              /\ Answer(r, IF ok THEN "rows" ELSE "noRows")
    BY <1>7 DEF RunQuery
  <2>2. Run(lease[r], r, asked[r].body, asked[r].body = "read", ok)
    BY <2>1 DEF Query
  <2> QED BY <1>5, <1>7, <2>1, <2>2 DEF RunQuery
<1>8. CASE Finish(r)
  <2>1. UNCHANGED <<ran, enclosed, database>> /\ \A k \in Conns : inTxn'[k] => inTxn[k]
    BY <1>0, <1>8, NoStatement DEF Finish, EndLease, Destroy
  <2>2. asked' = asked /\ (answer' = answer \/ answer' = [answer EXCEPT ![r] = "error"])
    BY <1>8 DEF Finish
  <2> QED BY <1>0, <2>1, <2>2, NothingCommitted
<1> QED BY <1>1, <1>2, <1>3, <1>4, <1>6, <1>7, <1>8 DEF Serving

LEMMA CommitStep == TypeInv /\ AnswerInv /\ CommitInv /\ [Next]_vars => CommitInv'
<1>1. ASSUME CommitInv, UNCHANGED vars PROVE CommitInv'
  BY <1>1, NothingCommitted DEF vars, connVars, histVars, serverVars
<1>2. ASSUME TypeInv, CommitInv, Pooling PROVE CommitInv'
  BY <1>2, PoolingAnswersNobody, PoolingRunsNothing, NothingCommitted DEF serverVars
<1> QED BY <1>1, <1>2, ServingCommits DEF Next

\* A write that was acknowledged and ran outside of a transaction stays
\* committed through every later failure of its connection or the pool, whatever
\* the other requests begin; and only a BEGIN puts a write into a transaction.
THEOREM AcknowledgedWritesAreCommitted == Spec => []AcknowledgedMeansCommitted
<1>1. Init => CommitInv
  BY DEF Init, ConnInit, CommitInv
<1>2. CommitInv => AcknowledgedMeansCommitted
  BY DEF CommitInv, Begun, AcknowledgedMeansCommitted, Acknowledged
<1> QED BY <1>1, <1>2, InitTypes, TypeStep, InitAnswers, AnswerStep, CommitStep, PTL DEF Spec

-----------------------------------------------------------------------------
\* The connections being made: the producer has one at most, and one request at
\* most replaces a dead one, holding the mutex.
MakingInv ==
  /\ spare # NoConn => creating
  /\ \A r \in Requests : stage[r] = "replacing" => dead # NoConn
  /\ \A q, r \in Requests : stage[q] = "replacing" /\ stage[r] = "replacing" => q = r
  /\ dead = NoConn => fresh = NoConn
  /\ dead # NoConn => ~closed

LEMMA InitMaking == Init => MakingInv
BY DEF Init, MakingInv

LEMMA ReplacingMaking ==
  ASSUME TypeInv, MakingInv, NEW r \in Requests, Replacing(r)
  PROVE  MakingInv'
<1>0. ServerTypeOK /\ PoolTypeOK /\ MakingTypeOK
  BY DEF TypeInv
<1> USE NoConnAssumption DEF Goto
<1>1. CASE FindDead(r)
  <2>1. dead' \in free /\ closed' = closed /\ ~closed /\ dead = NoConn
    BY <1>1 DEF FindDead, Pool!Retire, MutexFree
  <2> QED BY <1>0, <1>1, <2>1 DEF FindDead, producerVars, ServerTypeOK, PoolTypeOK, MakingInv
<1>2. CASE (\E k \in Conns : OpenReplacement(r, k)) \/ ConnectReplacement(r)
  <2>1. dead # NoConn /\ dead' = dead
    BY <1>2 DEF OpenReplacement, ConnectReplacement, replaceVars, MakingInv
  <2> QED BY <1>2, <2>1 DEF OpenReplacement, ConnectReplacement, serverVars, poolVars, producerVars, MakingInv
<1>3. CASE Replaced(r) \/ ReplaceFails(r)
  <2>1. /\ stage[r] = "replacing" /\ dead' = NoConn /\ fresh' = NoConn /\ UNCHANGED producerVars
        /\ \E s \in {"leased", "replying"} : stage' = [stage EXCEPT ![r] = s]
    BY <1>3 DEF Replaced, ReplaceFails
  <2>2. \A q \in Requests : stage'[q] # "replacing"
    BY <1>0, <2>1 DEF ServerTypeOK, MakingInv
  <2> QED BY <2>1, <2>2 DEF producerVars, MakingInv
<1> QED BY <1>1, <1>2, <1>3 DEF Replacing

LEMMA MakingStep == TypeInv /\ MakingInv /\ [Next]_vars => MakingInv'
<1>1. ASSUME TypeInv, MakingInv, NEW r \in Requests, Serving(r) \/ \E a \in Asks : Arrive(r, a), ~Replacing(r)
      PROVE  MakingInv'
  <2>1. UNCHANGED <<producerVars, replaceVars>> /\ closed' = closed
    BY <1>1 DEF Serving, Arrive, Handle, GetPooled, GetNothing, RunExecute, RunQuery, Finish, EndLease,
                Reply, poolVars, Pool!Ask, Pool!Grant, Pool!TurnAway, Pool!GiveBack
  <2>2. \E s \in Stages \ {"replacing"} : stage' = [stage EXCEPT ![r] = s]
    BY <1>1 DEF Serving, Arrive, Handle, GetPooled, GetNothing, RunExecute, RunQuery, Finish, Reply, Goto, Stages
  <2>3. \A q \in Requests : stage'[q] = "replacing" => stage[q] = "replacing"
    BY <1>1, <2>2 DEF TypeInv, ServerTypeOK
  <2> QED BY <1>1, <2>1, <2>3 DEF producerVars, replaceVars, MakingInv
<1>2. ASSUME TypeInv, MakingInv, Pooling PROVE MakingInv'
  <2>1. stage' = stage
    BY <1>2, PoolingAnswersNobody DEF serverVars
  <2>2. UNCHANGED replaceVars /\ (closed' # closed => dead = NoConn) /\ (spare' # NoConn => creating')
    BY <1>2, NoConnAssumption
       DEF Pooling, ProducerTests, StartConnection, ConnectSpare, CreateFails, QueueSpare, DiscardSpare,
           CloseLink, RetireConnections, ClosePool, producerVars, replaceVars, poolVars, MutexFree,
           Pool!Supply, Pool!Retire, MakingInv
  <2> QED BY <1>2, <2>1, <2>2 DEF replaceVars, MakingInv
<1>3. ASSUME MakingInv, UNCHANGED vars PROVE MakingInv'
  BY <1>3 DEF vars, serverVars, poolVars, producerVars, replaceVars, MakingInv
<1> QED BY <1>1, <1>2, <1>3, ReplacingMaking DEF Next

-----------------------------------------------------------------------------
\* A Connection has one place, the queue, a request or a local variable, those
\* that have one have a session, or had one until the MySQL server closed it,
\* and what is not of the pool has no transaction.
Kept(k) == k \in free \/ \E r \in Requests : lease[r] = k
Held(k) == k \in {spare, dead, fresh}
SessionInv ==
  /\ \A k \in Conns : session[k] # "none" <=> Kept(k) \/ Held(k)
  /\ \A k \in Conns : Kept(k) => session[k] # "bare" /\ ~Held(k)
  /\ \A k \in Conns : inTxn[k] => session[k] = "ready" /\ Kept(k)
  /\ \A q, r \in Requests : lease[q] = lease[r] /\ lease[q] # NoConn => q = r
  /\ \A r \in Requests : lease[r] \notin free
  /\ spare # NoConn => spare # dead /\ spare # fresh
  /\ dead # NoConn => dead # fresh /\ session[dead] = "closed"

LEMMA InitSessions == Init => SessionInv
BY NoConnAssumption DEF Init, ConnInit, SessionInv, Kept, Held

\* Connections stay where they are, and so do the sessions.
LEMMA SessionsStay ==
  ASSUME SessionInv, UNCHANGED <<free, lease, spare, dead, fresh, session>>,
         \A k \in Conns : inTxn'[k] => inTxn[k] \/ (session[k] = "ready" /\ Kept(k))
  PROVE  SessionInv'
BY DEF SessionInv, Kept, Held

\* The connections of S, of one part of the pool or local, end.
LEMMA SessionsEnd ==
  ASSUME TypeInv, SessionInv, NEW S, Destroy(S),
         \A k \in Conns : Kept(k)' <=> Kept(k) /\ k \notin S,
         \A k \in Conns : Held(k)' <=> Held(k) /\ k \notin S
  PROVE  /\ \A k \in Conns : session'[k] # "none" <=> (Kept(k) \/ Held(k))'
         /\ \A k \in Conns : Kept(k)' => session'[k] # "bare" /\ ~Held(k)'
         /\ \A k \in Conns : inTxn'[k] => session'[k] = "ready" /\ Kept(k)'
         /\ \A k \in Conns : k \notin S => session'[k] = session[k]
<1>1. \A k \in Conns : /\ session'[k] = IF k \in S THEN "none" ELSE session[k]
                       /\ inTxn'[k] => k \notin S /\ inTxn[k]
  BY DEF Destroy, End
<1> QED BY <1>1 DEF SessionInv

LEMMA ReplacingSessions ==
  ASSUME TypeInv, MakingInv, SessionInv, NEW r \in Requests, Replacing(r)
  PROVE  SessionInv'
<1>0. ConnTypeOK /\ PoolTypeOK /\ MakingTypeOK /\ r \in Requests
  BY DEF TypeInv
<1> USE NoConnAssumption
<1>1. CASE FindDead(r)
  <2>1. PICK k \in free : ~IsConnected(k) /\ free' = free \ {k} /\ lease' = lease /\ dead' = k
    BY <1>1 DEF FindDead, Pool!Retire
  <2>2. dead = NoConn /\ fresh = NoConn /\ fresh' = fresh /\ spare' = spare
    BY <1>1 DEF FindDead, MutexFree, MakingInv, producerVars
  <2>3. session' = session /\ inTxn' = inTxn
    BY <1>1 DEF FindDead, connVars
  <2>4. k \in Conns /\ session[k] = "closed" /\ ~inTxn[k] /\ k # spare
    BY <1>0, <2>1 DEF IsConnected, ConnTypeOK, PoolTypeOK, SessionInv, Kept, Held
  <2>5. \A j \in Conns : (Kept(j)' <=> Kept(j) /\ j # k) /\ (Held(j)' <=> Held(j) \/ j = k)
    BY <2>1, <2>2, <2>4 DEF Kept, Held, SessionInv
  <2>6. \A q \in Requests : lease'[q] \notin free'
    BY <2>1 DEF SessionInv
  <2>7. /\ spare' # NoConn => spare' # dead' /\ spare' # fresh'
        /\ dead' # NoConn => dead' # fresh' /\ session'[dead'] = "closed"
    BY <2>1, <2>2, <2>3, <2>4 DEF SessionInv
  <2>8. Kept(k)
    BY <2>1 DEF Kept
  <2> QED BY <2>1, <2>3, <2>4, <2>5, <2>6, <2>7, <2>8 DEF SessionInv
<1>2. ASSUME NEW k \in Conns, OpenReplacement(r, k) PROVE SessionInv'
  <2>1. /\ session[k] = "none" /\ session' = [session EXCEPT ![k] = "bare"] /\ inTxn' = inTxn
        /\ fresh = NoConn /\ fresh' = k /\ UNCHANGED <<free, lease, spare, dead>>
    BY <1>2 DEF OpenReplacement, Open, poolVars, producerVars
  <2>2. ~Kept(k) /\ k # spare /\ k # dead
    BY <2>1 DEF SessionInv, Held
  <2>3. \A j \in Conns : (Kept(j)' <=> Kept(j)) /\ (Held(j)' <=> Held(j) \/ j = k)
    BY <2>1 DEF Kept, Held
  <2>4. \A j \in Conns : session'[j] = IF j = k THEN "bare" ELSE session[j]
    BY <1>0, <2>1 DEF ConnTypeOK
  <2>5. dead # NoConn => session'[dead] = "closed"
    BY <1>0, <2>2, <2>4 DEF MakingTypeOK, SessionInv
  <2> QED BY <2>1, <2>2, <2>3, <2>4, <2>5 DEF SessionInv
<1>3. CASE ConnectReplacement(r)
  <2>1. /\ session[fresh] = "bare" /\ session' = [session EXCEPT ![fresh] = "ready"] /\ inTxn' = inTxn
        /\ fresh # NoConn /\ UNCHANGED <<free, lease, spare, dead, fresh>>
    BY <1>3 DEF ConnectReplacement, SetSchema, poolVars, producerVars, replaceVars
  <2>2. fresh \in Conns /\ \A j \in Conns : session'[j] = IF j = fresh THEN "ready" ELSE session[j]
    BY <1>0, <2>1 DEF ConnTypeOK, MakingTypeOK
  <2>3. \A j \in Conns : (Kept(j)' <=> Kept(j)) /\ (Held(j)' <=> Held(j))
    BY <2>1 DEF Kept, Held
  <2>4. dead # NoConn => session'[dead] = "closed"
    BY <1>0, <2>1, <2>2 DEF MakingTypeOK, SessionInv
  <2> QED BY <2>1, <2>2, <2>3, <2>4 DEF SessionInv
<1>4. CASE Replaced(r)
  <2>1. dead \in Conns /\ fresh \in Conns /\ dead # fresh /\ session[fresh] # "bare"
    BY <1>0, <1>4 DEF Replaced, MakingTypeOK, MakingInv, SessionInv
  <2>2. /\ dead' = NoConn /\ fresh' = NoConn /\ spare' = spare /\ free' = free /\ Destroy({dead})
        /\ stage[r] = "replacing"
    BY <1>4 DEF Replaced, Pool!GrantNew, producerVars
  <2>3. lease' = [lease EXCEPT ![r] = fresh] /\ lease[r] = NoConn
    <3>1. PICK j \in Conns : lease' = [lease EXCEPT ![r] = j]
      BY <1>4 DEF Replaced, Pool!GrantNew
    <3>2. lease'[r] = fresh
      BY <1>4 DEF Replaced
    <3>3. lease[r] = NoConn
      BY <2>2 DEF TypeInv, LeasesAreInUse
    <3> QED BY <1>0, <3>1, <3>2, <3>3 DEF PoolTypeOK
  <2>4. \A q \in Requests : lease'[q] = IF q = r THEN fresh ELSE lease[q]
    BY <1>0, <2>3 DEF PoolTypeOK
  <2>5. ~Kept(fresh) /\ ~Kept(dead) /\ fresh # spare /\ dead # spare
    BY <2>1 DEF SessionInv, Held
  <2>6. \A j \in Conns : Kept(j)' <=> Kept(j) \/ j = fresh
    BY <2>1, <2>2, <2>3, <2>4 DEF Kept
  <2>7. \A j \in Conns : Held(j)' <=> Held(j) /\ j # dead /\ j # fresh
    BY <2>1, <2>2, <2>5 DEF Held
  <2>8. \A j \in Conns : /\ session'[j] = IF j = dead THEN "none" ELSE session[j]
                         /\ inTxn'[j] => j # dead /\ inTxn[j]
    BY <2>2 DEF Destroy, End
  <2>9. Held(fresh) /\ Held(dead)
    BY DEF Held
  <2>10. \A q \in Requests : lease[q] # fresh /\ fresh \notin free
    BY <2>5 DEF Kept
  <2>11. \A j \in Conns : session'[j] # "none" <=> Kept(j)' \/ Held(j)'
    BY <2>1, <2>5, <2>6, <2>7, <2>8, <2>9 DEF SessionInv
  <2>12. \A j \in Conns : Kept(j)' => session'[j] # "bare" /\ ~Held(j)'
    BY <2>1, <2>5, <2>6, <2>7, <2>8 DEF SessionInv
  <2>13. \A j \in Conns : inTxn'[j] => session'[j] = "ready" /\ Kept(j)'
    BY <2>6, <2>8 DEF SessionInv
  <2>14. \A p, q \in Requests : lease'[p] = lease'[q] /\ lease'[p] # NoConn => p = q
    BY <2>4, <2>10 DEF SessionInv
  <2>15. \A q \in Requests : lease'[q] \notin free'
    BY <2>2, <2>4, <2>10 DEF SessionInv
  <2>16. spare' # NoConn => spare' # dead' /\ spare' # fresh'
    BY <2>2
  <2> QED BY <2>2, <2>11, <2>12, <2>13, <2>14, <2>15, <2>16 DEF SessionInv
<1>5. CASE ReplaceFails(r)
  <2>1. /\ dead' = NoConn /\ fresh' = NoConn /\ UNCHANGED <<free, lease, spare>> /\ Destroy({dead, fresh})
    BY <1>5 DEF ReplaceFails, Pool!TurnAway, producerVars
  <2>2. \A j \in Conns : Held(j)' <=> Held(j) /\ j \notin {dead, fresh}
    BY <2>1 DEF Held, SessionInv
  <2>3. \A j \in Conns : Kept(j)' <=> Kept(j) /\ j \notin {dead, fresh}
    BY <2>1 DEF Kept, Held, SessionInv
  <2>4. spare' # NoConn => spare' # dead' /\ spare' # fresh'
    BY <2>1
  <2> QED BY <2>1, <2>2, <2>3, <2>4, SessionsEnd DEF SessionInv
<1> QED BY <1>1, <1>2, <1>3, <1>4, <1>5 DEF Replacing

LEMMA ServingSessions ==
  ASSUME TypeInv, MakingInv, SessionInv, NEW r \in Requests, Serving(r) \/ \E a \in Asks : Arrive(r, a)
  PROVE  SessionInv'
<1>0. ConnTypeOK /\ PoolTypeOK /\ MakingTypeOK
  BY DEF TypeInv
<1> USE NoConnAssumption
<1>1. CASE (\E a \in Asks : Arrive(r, a)) \/ Handle(r) \/ GetNothing(r) \/ Reply(r)
  BY <1>1, SessionsStay DEF Arrive, Handle, GetNothing, Reply, connVars, poolVars, producerVars, replaceVars,
                            Pool!Ask, Pool!TurnAway
<1>2. CASE GetPooled(r)
  <2>1. PICK k \in free : free' = free \ {k} /\ lease' = [lease EXCEPT ![r] = k]
    BY <1>2 DEF GetPooled, Pool!Grant
  <2>2. lease[r] = NoConn
    BY <1>2 DEF GetPooled, TypeInv, LeasesAreInUse
  <2>3. UNCHANGED <<session, inTxn, spare, dead, fresh>>
    BY <1>2 DEF GetPooled, connVars, producerVars, replaceVars
  <2>4. \A q \in Requests : lease'[q] = IF q = r THEN k ELSE lease[q]
    BY <1>0, <2>1 DEF PoolTypeOK
  <2>5. \A j \in Conns : (Kept(j)' <=> Kept(j)) /\ (Held(j)' <=> Held(j))
    BY <2>1, <2>2, <2>3, <2>4 DEF Kept, Held
  <2>6. \A p, q \in Requests : lease'[p] = lease'[q] /\ lease'[p] # NoConn => p = q
    BY <2>1, <2>4 DEF SessionInv
  <2>7. \A q \in Requests : lease'[q] \notin free'
    BY <2>1, <2>4 DEF SessionInv
  <2> QED BY <2>3, <2>5, <2>6, <2>7 DEF SessionInv
<1>3. CASE RunExecute(r) \/ RunQuery(r)
  <2>1. lease[r] \in Conns /\ UNCHANGED <<free, lease, spare, dead, fresh>>
    BY <1>3, LeasedIsConn DEF RunExecute, RunQuery, poolVars, producerVars, replaceVars
  <2>2. PICK expected, ok : Run(lease[r], r, asked[r].body, expected, ok)
    BY <1>3 DEF RunExecute, RunQuery, Update, Query
  <2>3. session' = session
    BY <2>2 DEF Run, Executes, connVars
  <2>4. ASSUME NEW k \in Conns, inTxn'[k] PROVE inTxn[k] \/ (session[k] = "ready" /\ Kept(k))
    <3>1. CASE k = lease[r]
      <4>1. Kept(k)
        BY <3>1 DEF Kept
      <4>2. session[k] # "bare"
        BY <4>1 DEF SessionInv
      <4> QED BY <2>2, <2>4, <3>1, <4>1, <4>2 DEF Run, IsConnected, connVars
    <3>2. CASE k # lease[r]
      BY <1>0, <2>1, <2>2, <2>4, <3>2 DEF Run, Executes, ConnTypeOK, connVars
    <3> QED BY <3>1, <3>2
  <2> QED BY <2>1, <2>3, <2>4, SessionsStay
<1>4. CASE Finish(r)
  <2> DEFINE k == lease[r]
  <2>1. k \in Conns
    BY <1>4, LeasedIsConn DEF Finish
  <2>2. /\ lease' = [lease EXCEPT ![r] = NoConn] /\ free' = IF closed THEN free ELSE free \cup {k}
        /\ UNCHANGED <<spare, dead, fresh>>
    BY <1>4 DEF Finish, EndLease, Pool!GiveBack, producerVars, replaceVars
  <2>3. \A q \in Requests : lease'[q] = IF q = r THEN NoConn ELSE lease[q]
    BY <1>0, <2>2 DEF PoolTypeOK
  <2>4. \A j \in Conns : Held(j)' <=> Held(j)
    BY <2>2 DEF Held
  <2>5. \A p, q \in Requests : lease'[p] = lease'[q] /\ lease'[p] # NoConn => p = q
    BY <2>3 DEF SessionInv
  <2>6. Kept(k)
    BY DEF Kept
  <2>7. \A q \in Requests : q # r => lease[q] # k
    BY <2>1 DEF SessionInv
  <2>8. CASE closed
    <3>1. Destroy({k})
      BY <1>4, <2>8 DEF Finish, EndLease
    <3> HIDE DEF k
    <3>2. \A j \in Conns : Kept(j)' <=> Kept(j) /\ j \notin {k}
      <4>1. lease[r] = k /\ k \notin free
        BY DEF k, SessionInv
      <4> QED BY <2>1, <2>2, <2>3, <2>7, <2>8, <4>1 DEF Kept
    <3>3. \A j \in Conns : Held(j)' <=> Held(j) /\ j \notin {k}
      BY <2>1, <2>4, <2>6 DEF SessionInv
    <3>4. \A q \in Requests : lease'[q] \notin free'
      BY <1>0, <2>2, <2>3, <2>8 DEF SessionInv, PoolTypeOK
    <3>5. dead # NoConn => session'[dead] = "closed"
      BY <1>0, <2>8 DEF MakingInv
    <3> QED BY <2>2, <2>5, <3>1, <3>2, <3>3, <3>4, <3>5, SessionsEnd DEF SessionInv
  <2>9. CASE ~closed
    <3>1. session' = session /\ inTxn' = inTxn
      BY <1>4, <2>9 DEF Finish, EndLease, connVars
    <3>2. \A j \in Conns : Kept(j)' <=> Kept(j)
      <4>1. \A j \in Conns : Kept(j)' => Kept(j)
        BY <2>1, <2>2, <2>3, <2>9 DEF Kept
      <4>2. \A j \in Conns : Kept(j) => Kept(j)'
        BY <2>1, <2>2, <2>3, <2>9 DEF Kept
      <4> QED BY <4>1, <4>2
    <3>3. \A q \in Requests : lease'[q] \notin free'
      BY <1>0, <2>1, <2>2, <2>3, <2>7, <2>9 DEF SessionInv, PoolTypeOK
    <3> QED BY <2>2, <2>4, <2>5, <3>1, <3>2, <3>3 DEF SessionInv
  <2> QED BY <2>8, <2>9
<1> QED BY <1>1, <1>2, <1>3, <1>4, ReplacingSessions DEF Serving

LEMMA PoolingSessions ==
  ASSUME TypeInv, MakingInv, SessionInv, Pooling
  PROVE  SessionInv'
<1>0. ConnTypeOK /\ PoolTypeOK /\ MakingTypeOK
  BY DEF TypeInv
<1> USE NoConnAssumption
<1>1. CASE ProducerTests \/ ClosePool
  BY <1>1, SessionsStay DEF ProducerTests, ClosePool, Pool!Close, connVars, poolVars, producerVars, replaceVars
<1>2. ASSUME NEW k \in Conns, StartConnection(k) PROVE SessionInv'
  <2>1. /\ session[k] = "none" /\ session' = [session EXCEPT ![k] = "bare"] /\ inTxn' = inTxn
        /\ spare = NoConn /\ spare' = k /\ UNCHANGED <<free, lease, dead, fresh>>
    BY <1>2 DEF StartConnection, Open, poolVars, replaceVars
  <2>2. ~Kept(k) /\ k # fresh /\ k # dead
    BY <2>1 DEF SessionInv, Held
  <2>3. \A j \in Conns : (Kept(j)' <=> Kept(j)) /\ (Held(j)' <=> Held(j) \/ j = k)
    BY <2>1 DEF Kept, Held
  <2>4. \A j \in Conns : session'[j] = IF j = k THEN "bare" ELSE session[j]
    BY <1>0, <2>1 DEF ConnTypeOK
  <2>5. dead # NoConn => session'[dead] = "closed"
    BY <1>0, <2>2, <2>4 DEF MakingTypeOK, SessionInv
  <2> QED BY <2>1, <2>2, <2>3, <2>4, <2>5 DEF SessionInv
<1>3. CASE ConnectSpare
  <2>1. /\ session[spare] = "bare" /\ session' = [session EXCEPT ![spare] = "ready"] /\ inTxn' = inTxn
        /\ spare # NoConn /\ UNCHANGED <<free, lease, spare, dead, fresh>>
    BY <1>3 DEF ConnectSpare, SetSchema, poolVars, producerVars, replaceVars
  <2>2. spare \in Conns /\ \A j \in Conns : session'[j] = IF j = spare THEN "ready" ELSE session[j]
    BY <1>0, <2>1 DEF ConnTypeOK, MakingTypeOK
  <2>3. \A j \in Conns : (Kept(j)' <=> Kept(j)) /\ (Held(j)' <=> Held(j))
    BY <2>1 DEF Kept, Held
  <2>4. dead # NoConn => session'[dead] = "closed"
    BY <1>0, <2>1, <2>2 DEF MakingTypeOK, SessionInv
  <2> QED BY <2>1, <2>2, <2>3, <2>4 DEF SessionInv
<1>4. CASE CreateFails \/ DiscardSpare
  <2>1. spare' = NoConn /\ UNCHANGED <<free, lease, dead, fresh>> /\ Destroy({spare})
    BY <1>4 DEF CreateFails, DiscardSpare, poolVars, replaceVars
  <2>2. \A j \in Conns : Held(j)' <=> Held(j) /\ j \notin {spare}
    BY <2>1 DEF Held, SessionInv
  <2>3. \A j \in Conns : Kept(j)' <=> Kept(j) /\ j \notin {spare}
    BY <2>1 DEF Kept, Held, SessionInv
  <2>4. dead # NoConn => session'[dead] = "closed"
    <3>1. \A j \in Conns : j \notin {spare} => session'[j] = session[j]
      BY <2>1, <2>2, <2>3, SessionsEnd
    <3> QED BY <1>0, <3>1 DEF MakingTypeOK, SessionInv
  <2> QED BY <2>1, <2>2, <2>3, <2>4, SessionsEnd DEF SessionInv
<1>5. CASE QueueSpare
  <2>1. /\ spare \in Conns /\ session[spare] # "bare" /\ spare' = NoConn
        /\ UNCHANGED <<session, inTxn, dead, fresh>>
    BY <1>0, <1>5 DEF QueueSpare, connVars, replaceVars, MakingTypeOK
  <2>2. free' = free \cup {spare} /\ lease' = lease
    BY <1>5 DEF QueueSpare, Pool!Supply
  <2>3. ~Kept(spare) /\ spare # dead /\ spare # fresh
    BY <2>1 DEF SessionInv, Held
  <2>4. \A j \in Conns : (Kept(j)' <=> Kept(j) \/ j = spare) /\ (Held(j)' <=> Held(j) /\ j # spare)
    BY <2>1, <2>2, <2>3 DEF Kept, Held
  <2>5. \A q \in Requests : lease'[q] \notin free'
    BY <2>2, <2>3 DEF Kept, SessionInv
  <2>6. Held(spare)
    BY DEF Held
  <2> QED BY <2>1, <2>2, <2>3, <2>4, <2>5, <2>6 DEF SessionInv
<1>6. ASSUME NEW S \in SUBSET free, RetireConnections(S) PROVE SessionInv'
  <2>1. lease' = lease /\ free' = free \ S /\ UNCHANGED <<spare, dead, fresh>> /\ Destroy(S)
    BY <1>6 DEF RetireConnections, Pool!Retire, producerVars, replaceVars
  <2>2. \A j \in Conns : Kept(j)' <=> Kept(j) /\ j \notin S
    BY <2>1 DEF Kept, SessionInv
  <2>3. \A j \in Conns : j \in S => Kept(j)
    BY DEF Kept
  <2>4. \A j \in Conns : Held(j)' <=> Held(j) /\ j \notin S
    BY <2>1, <2>3 DEF Held, SessionInv
  <2>5. dead = NoConn
    BY <1>6 DEF RetireConnections, MutexFree
  <2> QED BY <2>1, <2>2, <2>4, <2>5, SessionsEnd DEF SessionInv
<1>7. ASSUME NEW k \in Conns, CloseLink(k) PROVE SessionInv'
  <2>1. session[k] = "ready" /\ UNCHANGED <<free, lease, spare, dead, fresh>>
    BY <1>7 DEF CloseLink, ServerCloses, poolVars, producerVars, replaceVars
  <2>2. \A j \in Conns : /\ session'[j] = IF j = k THEN "closed" ELSE session[j]
                         /\ inTxn'[j] => j # k /\ inTxn[j]
    BY <1>7 DEF CloseLink, ServerCloses, End
  <2>3. \A j \in Conns : (Kept(j)' <=> Kept(j)) /\ (Held(j)' <=> Held(j))
    BY <2>1 DEF Kept, Held
  <2>4. dead # NoConn => session'[dead] = "closed"
    BY <1>0, <2>1, <2>2 DEF MakingTypeOK, SessionInv
  <2> QED BY <2>1, <2>2, <2>3, <2>4 DEF SessionInv
<1> QED BY <1>1, <1>2, <1>3, <1>4, <1>5, <1>6, <1>7 DEF Pooling

LEMMA SessionStep == TypeInv /\ MakingInv /\ SessionInv /\ [Next]_vars => SessionInv'
<1>1. ASSUME SessionInv, UNCHANGED vars PROVE SessionInv'
  BY <1>1, SessionsStay DEF vars, connVars, poolVars, producerVars, replaceVars
<1> QED BY <1>1, ServingSessions, PoolingSessions DEF Next

LEMMA SessionsCorrect == Spec => [](TypeInv /\ MakingInv /\ SessionInv)
BY InitTypes, TypeStep, InitMaking, MakingStep, InitSessions, SessionStep, PTL DEF Spec

\* Where a Connection can be, as the property has it.
LEMMA Places ==
  ASSUME TypeInv
  PROVE  /\ \A k \in Conns : (k \in Pooled <=> Kept(k)) /\ (k \in Local <=> Held(k))
         /\ Pooled \subseteq Conns /\ Local \subseteq Conns
<1>1. PoolTypeOK /\ MakingTypeOK
  BY DEF TypeInv
<1>2. Pool!Leased = {lease[r] : r \in Requests} \ {NoConn}
  BY <1>1 DEF PoolTypeOK, Pool!Leased, Pool!Range
<1> QED BY <1>1, <1>2, NoConnAssumption DEF Pooled, Local, Kept, Held, PoolTypeOK, MakingTypeOK

\* No session outlives its Connection, or is missing while one is lent, however
\* connections are opened, replaced, thrown away and returned, and even when the
\* pool is destroyed under the requests.
THEOREM SessionsAreOwned == Spec => []SessionsBelongToPool
<1>1. TypeInv /\ SessionInv => SessionsBelongToPool
  BY Places DEF SessionInv, SessionsBelongToPool
<1> QED BY <1>1, SessionsCorrect, PTL

-----------------------------------------------------------------------------
\* Every step of the server is one that the abstract pool allows, or none of
\* its business: what is proved of the pool alone holds under this use of it.
LEMMA InitUse == Init => Pool!Init
BY DEF Init, Pool!Init, Asking

\* A change of stage is a change of who asks.
LEMMA StopsAsking ==
  ASSUME ServerTypeOK, NEW r \in Requests, NEW s \in Stages \ {"asking", "replacing"}, Goto(r, s)
  PROVE  Asking' = Asking \ {r}
BY DEF ServerTypeOK, Asking, Goto, Stages

LEMMA ServingUse ==
  ASSUME TypeInv, NEW r \in Requests, Serving(r) \/ \E a \in Asks : Arrive(r, a)
  PROVE  [Pool!Next]_(Pool!leaseVars)
<1>0. ServerTypeOK /\ PoolTypeOK
  BY DEF TypeInv
<1> DEFINE Outside == r \notin Asking
<1>1. ASSUME NEW s \in Stages \ {"asking", "replacing"}, Outside, Goto(r, s), UNCHANGED poolVars
      PROVE  UNCHANGED Pool!leaseVars
  BY <1>0, <1>1, StopsAsking DEF Pool!leaseVars, poolVars
<1>2. ASSUME stage[r] \notin {"asking", "replacing"} PROVE Outside
  BY <1>2 DEF Asking
<1> HIDE DEF Outside
<1>3. ASSUME NEW a \in Asks, Arrive(r, a) PROVE UNCHANGED Pool!leaseVars
  BY <1>1, <1>2, <1>3 DEF Arrive, Stages
<1>4. CASE Handle(r)
  <2>1. CASE Rejection(r) = "none"
    BY <1>4, <2>1 DEF Handle, Pool!Next
  <2>2. CASE Rejection(r) # "none"
    BY <1>1, <1>2, <1>4, <2>2 DEF Handle, TakenUp, Stages
  <2> QED BY <2>1, <2>2
<1>5. CASE GetPooled(r) \/ GetNothing(r) \/ Replaced(r) \/ ReplaceFails(r)
  BY <1>5 DEF GetPooled, GetNothing, Replaced, ReplaceFails, Pool!Next
<1>6. CASE FindDead(r)
  BY <1>0, <1>6 DEF FindDead, PoolTypeOK, Pool!Next
<1>7. CASE (\E k \in Conns : OpenReplacement(r, k)) \/ ConnectReplacement(r)
  BY <1>7 DEF OpenReplacement, ConnectReplacement, serverVars, poolVars, Asking, Pool!leaseVars
<1>8. CASE RunExecute(r) \/ RunQuery(r) \/ Reply(r)
  BY <1>1, <1>2, <1>8 DEF RunExecute, RunQuery, Reply, Stages
<1>9. CASE Finish(r)
  BY <1>9 DEF Finish, EndLease, Pool!Next
<1> QED BY <1>3, <1>4, <1>5, <1>6, <1>7, <1>8, <1>9 DEF Serving, Replacing

LEMMA PoolingUse ==
  ASSUME TypeInv, Pooling
  PROVE  [Pool!Next]_(Pool!leaseVars)
<1>1. ASSUME UNCHANGED <<serverVars, poolVars>> PROVE UNCHANGED Pool!leaseVars
  BY <1>1 DEF serverVars, poolVars, Asking, Pool!leaseVars
<1>2. CASE ProducerTests \/ ConnectSpare \/ CreateFails \/ DiscardSpare
  BY <1>1, <1>2 DEF ProducerTests, ConnectSpare, CreateFails, DiscardSpare
<1>3. CASE \E k \in Conns : StartConnection(k) \/ CloseLink(k)
  BY <1>1, <1>3 DEF StartConnection, CloseLink
<1>4. CASE QueueSpare
  BY <1>4 DEF QueueSpare, TypeInv, MakingTypeOK, Pool!Next
<1>5. ASSUME NEW S \in SUBSET free, RetireConnections(S) PROVE Pool!Next
  BY <1>5 DEF RetireConnections, TypeInv, PoolTypeOK, Pool!Next
<1>6. CASE ClosePool
  BY <1>6 DEF ClosePool, Pool!Next
<1> QED BY <1>2, <1>3, <1>4, <1>5, <1>6 DEF Pooling

LEMMA StutterUse == UNCHANGED vars => UNCHANGED Pool!leaseVars
BY DEF vars, serverVars, poolVars, Asking, Pool!leaseVars

\* The server and its connections keep to the pool's side of the interface:
\* nobody asks twice, answers for another, or returns what it does not have.
THEOREM ServerUsesPool == Spec => UsesPoolAsPromised
<1>1. TypeInv /\ [Next]_vars => [Pool!Next]_(Pool!leaseVars)
  BY StutterUse, ServingUse, PoolingUse DEF Next
<1> QED BY <1>1, InitUse, TypeCorrect, PTL DEF Spec, UsesPoolAsPromised, Pool!Spec

-----------------------------------------------------------------------------
\* So the server has what ConnectionLeaseProofs proves of the abstract pool.
Promise == INSTANCE ConnectionLeaseProofs WITH Clients <- Requests, asking <- Asking

\* Each INSTANCE has finite sets of its own, with the same definitions.
LEMMA SameSets ==
  \A S : /\ Pool!Cardinality(S) = Cardinality(S) /\ Promise!Cardinality(S) = Cardinality(S)
         /\ Promise!IsFiniteSet(S) <=> IsFiniteSet(S)
<1>1. \A S : Pool!Cardinality(S) = Cardinality(S)
  BY Zenon DEF Pool!Cardinality, Cardinality
<1>2. \A S : Promise!Cardinality(S) = Cardinality(S)
  BY Zenon DEF Promise!Cardinality, Cardinality
<1>3. \A S : Promise!IsFiniteSet(S) <=> IsFiniteSet(S)
  BY Zenon DEF Promise!IsFiniteSet, IsFiniteSet
<1> QED BY <1>1, <1>2, <1>3

LEMMA SameActions ==
  /\ Pool!Leased = Promise!Leased /\ Pool!Stock = Promise!Stock
  /\ \A k : Pool!Supply(k) <=> Promise!Supply(k)
  /\ \A S : Pool!Retire(S) <=> Promise!Retire(S)
  /\ \A r : /\ Pool!Ask(r) <=> Promise!Ask(r)
            /\ Pool!Grant(r) <=> Promise!Grant(r)
            /\ Pool!GrantNew(r) <=> Promise!GrantNew(r)
            /\ Pool!TurnAway(r) <=> Promise!TurnAway(r)
            /\ Pool!GiveBack(r) <=> Promise!GiveBack(r)
<1>1. Pool!Leased = Promise!Leased /\ Pool!Stock = Promise!Stock
  BY SameSets DEF Pool!Stock, Promise!Stock, Pool!Leased, Promise!Leased, Pool!Range, Promise!Range
<1>2. \A k : Pool!Supply(k) <=> Promise!Supply(k)
  BY <1>1 DEF Pool!Supply, Promise!Supply
<1>3. \A S : Pool!Retire(S) <=> Promise!Retire(S)
  BY DEF Pool!Retire, Promise!Retire
<1>4. \A r : Pool!Ask(r) <=> Promise!Ask(r)
  BY DEF Pool!Ask, Promise!Ask
<1>5. \A r : Pool!Grant(r) <=> Promise!Grant(r)
  BY DEF Pool!Grant, Promise!Grant
<1>6. \A r : Pool!GrantNew(r) <=> Promise!GrantNew(r)
  BY <1>1 DEF Pool!GrantNew, Promise!GrantNew
<1>7. \A r : Pool!TurnAway(r) <=> Promise!TurnAway(r)
  BY DEF Pool!TurnAway, Promise!TurnAway
<1>8. \A r : Pool!GiveBack(r) <=> Promise!GiveBack(r)
  BY DEF Pool!GiveBack, Promise!GiveBack
<1> QED BY <1>1, <1>2, <1>3, <1>4, <1>5, <1>6, <1>7, <1>8

LEMMA SamePool ==
  /\ Pool!Init <=> Promise!Init
  /\ [Pool!Next]_(Pool!leaseVars) <=> [Promise!Next]_(Promise!leaseVars)
<1>1. Pool!Close <=> Promise!Close
  BY DEF Pool!Close, Promise!Close
<1>2. Pool!Next <=> Promise!Next
  BY <1>1, SameActions DEF Pool!Next, Promise!Next
<1> QED BY <1>2 DEF Pool!Init, Promise!Init, Pool!leaseVars, Promise!leaseVars

LEMMA PromiseKept == Spec => []Promise!LeaseInv /\ [](Promise!FiniteStock /\ Promise!StockBound)
<1>1. Spec => Promise!Spec
  BY ServerUsesPool, SamePool, PTL DEF UsesPoolAsPromised, Pool!Spec, Promise!Spec
<1>2. Promise!Spec => [](Promise!FiniteStock /\ Promise!StockBound)
  BY ServerAssumption, Promise!StockCorrect
<1> QED BY <1>1, <1>2, Promise!LeaseCorrect, PTL

-----------------------------------------------------------------------------
\* There is room in the pool for what is being made.
Stocked == Promise!Stock
Opening == IF creating THEN 1 ELSE 0
Replacement == IF dead # NoConn THEN 1 ELSE 0
RoomInv == Stocked + Opening + Replacement <= Capacity

LEMMA InitRoom == Init => RoomInv
<1>1. ASSUME Init PROVE free = {} /\ Promise!Leased = {} /\ Opening = 0 /\ Replacement = 0
  BY <1>1 DEF Init, Promise!Leased, Promise!Range, Opening, Replacement
<1>2. ASSUME Init PROVE Promise!Stock = 0
  BY <1>1, <1>2, SameSets, FS_EmptySet DEF Promise!Stock
<1> QED BY <1>1, <1>2, ServerAssumption DEF RoomInv, Stocked

\* How the steps of the pool change its stock, as ConnectionLeaseProofs has it.
LEMMA StockMoves ==
  ASSUME Promise!LeaseInv, Promise!FiniteStock
  PROVE  /\ Promise!Stock \in Nat
         /\ UNCHANGED <<free, lease>> => Promise!Stock' = Promise!Stock
         /\ \A k : Pool!Supply(k) => Promise!Stock' <= Promise!Stock + 1
         /\ \A S : Pool!Retire(S) => Promise!Stock' <= Promise!Stock
         /\ \A k \in free : Pool!Retire({k}) => Promise!Stock' = Promise!Stock - 1
         /\ \A r \in Requests :
              /\ Pool!GrantNew(r) => Promise!Stock' <= Promise!Stock + 1
              /\ Pool!Grant(r) \/ Pool!GiveBack(r) => Promise!Stock' <= Promise!Stock
<1>1. \A k : Promise!Supply(k) \/ (\E r \in Requests : Promise!GrantNew(r)) => Promise!Stock' <= Promise!Stock + 1
  BY Promise!StockMoves
<1>2. \A S : Promise!Retire(S) => Promise!Stock' <= Promise!Stock
  BY Promise!StockMoves
<1>3. \A k \in free : Promise!Retire({k}) => Promise!Stock' = Promise!Stock - 1
  BY Promise!StockMoves
<1>4. \A r \in Requests : Promise!Grant(r) \/ Promise!GiveBack(r) => Promise!Stock' <= Promise!Stock
  BY Promise!StockMoves
<1>5. Promise!Stock \in Nat /\ (UNCHANGED <<free, lease>> => Promise!Stock' = Promise!Stock)
  BY Promise!StockMoves
<1> QED BY <1>1, <1>2, <1>3, <1>4, <1>5, SameActions

LEMMA RoomStep ==
  TypeInv /\ MakingInv /\ Promise!LeaseInv /\ Promise!FiniteStock /\ RoomInv /\ [Next]_vars
    /\ Promise!FiniteStock' => RoomInv'
<1> SUFFICES ASSUME TypeInv, MakingInv, Promise!LeaseInv, Promise!FiniteStock, RoomInv, [Next]_vars,
                    Promise!FiniteStock'
             PROVE  RoomInv'
  OBVIOUS
\* The state after the step, as numbers of its own.
<1>0. PICK n \in Nat, o \in Nat, p \in Nat : n = Stocked' /\ o = Opening' /\ p = Replacement'
  <2>1. Cardinality(free') \in Nat /\ Cardinality(Promise!Leased') \in Nat
    BY SameSets, FS_CardinalityType DEF Promise!FiniteStock
  <2>2. Stocked' \in Nat
    BY <2>1, SameSets DEF Promise!Stock, Stocked
  <2>3. Opening' \in Nat /\ Replacement' \in Nat
    BY DEF Opening, Replacement
  <2> QED BY <2>2, <2>3
<1>1. Stocked \in Nat /\ Capacity \in Nat /\ Opening \in Nat /\ Replacement \in Nat
  <2>1. Stocked \in Nat
    BY StockMoves DEF Stocked
  <2> QED BY <2>1, ServerAssumption DEF Opening, Replacement
<1>2. Stocked + Opening + Replacement <= Capacity
  BY DEF RoomInv
<1>3. ASSUME n + o + p <= Stocked + Opening + Replacement \/ n + o + p <= Capacity PROVE RoomInv'
  <2>1. n + o + p <= Capacity
    BY <1>1, <1>2, <1>3
  <2> QED BY <1>0, <2>1 DEF RoomInv
\* The steps that leave the connections being made alone.
<1>4. ASSUME UNCHANGED <<producerVars, replaceVars>>, n <= Stocked PROVE RoomInv'
  <2>1. o = Opening /\ p = Replacement
    BY <1>0, <1>4 DEF producerVars, replaceVars, Opening, Replacement
  <2> QED BY <1>1, <1>3, <1>4, <2>1
<1>5. ASSUME UNCHANGED poolVars PROVE n = Stocked
  BY <1>0, <1>5, StockMoves DEF Stocked, poolVars
<1>6. ASSUME NEW r \in Requests, Serving(r) \/ \E a \in Asks : Arrive(r, a), ~Replacing(r) PROVE RoomInv'
  <2>1. UNCHANGED <<producerVars, replaceVars>>
    BY <1>6 DEF Serving, Arrive, Handle, GetPooled, GetNothing, RunExecute, RunQuery, Finish, Reply
  <2>2. UNCHANGED <<free, lease>> \/ Pool!Grant(r) \/ Pool!GiveBack(r)
    BY <1>6 DEF Serving, Arrive, Handle, GetPooled, GetNothing, RunExecute, RunQuery, Finish, EndLease, Reply,
                poolVars, Pool!Ask, Pool!TurnAway
  <2>3. n <= Stocked
    BY <1>0, <2>2, StockMoves DEF Stocked
  <2> QED BY <1>4, <2>1, <2>3
<1>7. ASSUME NEW r \in Requests, FindDead(r) PROVE RoomInv'
  <2>1. n = Stocked - 1
    BY <1>0, <1>7, StockMoves DEF Stocked, FindDead
  <2>2. o = Opening /\ Replacement = 0 /\ p <= 1
    BY <1>0, <1>7 DEF FindDead, producerVars, MutexFree, Opening, Replacement
  <2> QED BY <1>1, <1>3, <2>1, <2>2
<1>8. ASSUME NEW r \in Requests, (\E k \in Conns : OpenReplacement(r, k)) \/ ConnectReplacement(r) PROVE RoomInv'
  <2>1. n = Stocked /\ o = Opening /\ p = Replacement
    BY <1>0, <1>5, <1>8 DEF OpenReplacement, ConnectReplacement, producerVars, replaceVars, Opening, Replacement
  <2> QED BY <1>1, <1>3, <2>1
<1>9. ASSUME NEW r \in Requests, Replaced(r) \/ ReplaceFails(r) PROVE RoomInv'
  <2>1. o = Opening /\ Replacement = 1 /\ p = 0
    BY <1>0, <1>9 DEF Replaced, ReplaceFails, producerVars, MakingInv, Opening, Replacement
  <2>2. n <= Stocked + 1
    <3>1. CASE Replaced(r)
      BY <1>0, <3>1, StockMoves DEF Stocked, Replaced
    <3>2. CASE ReplaceFails(r)
      BY <1>0, <3>2, StockMoves DEF Stocked, ReplaceFails, Pool!TurnAway
    <3> QED BY <1>9, <3>1, <3>2
  <2> QED BY <1>1, <1>3, <2>1, <2>2
<1>10. CASE ProducerTests
  <2>1. Stocked < Capacity /\ Opening = 0 /\ o = 1 /\ Replacement = 0 /\ p = 0
    BY <1>0, <1>10, SameActions DEF Stocked, ProducerTests, MutexFree, replaceVars, Opening, Replacement
  <2>2. n = Stocked
    BY <1>0, <1>5, <1>10 DEF ProducerTests
  <2> QED BY <1>1, <1>3, <2>1, <2>2
<1>11. CASE (\E k \in Conns : StartConnection(k) \/ CloseLink(k)) \/ ConnectSpare
  <2>1. n = Stocked
    BY <1>0, <1>5, <1>11 DEF StartConnection, CloseLink, ConnectSpare
  <2>2. o = Opening /\ p = Replacement
    BY <1>0, <1>11 DEF StartConnection, CloseLink, ConnectSpare, producerVars, replaceVars, Opening, Replacement
  <2> QED BY <1>1, <1>3, <2>1, <2>2
<1>12. CASE CreateFails \/ DiscardSpare
  <2>1. n = Stocked
    BY <1>0, <1>5, <1>12 DEF CreateFails, DiscardSpare
  <2>2. o = 0 /\ p = Replacement
    BY <1>0, <1>12 DEF CreateFails, DiscardSpare, replaceVars, Opening, Replacement
  <2> QED BY <1>1, <1>3, <2>1, <2>2
<1>13. CASE QueueSpare
  <2>1. n <= Stocked + 1
    BY <1>0, <1>13, StockMoves DEF Stocked, QueueSpare
  <2>2. Opening = 1 /\ o = 0 /\ p = Replacement
    BY <1>0, <1>13 DEF QueueSpare, replaceVars, MakingInv, Opening, Replacement
  <2> QED BY <1>1, <1>3, <2>1, <2>2
<1>14. CASE (\E S \in SUBSET free : RetireConnections(S)) \/ ClosePool
  <2>1. n <= Stocked
    BY <1>0, <1>14, StockMoves DEF Stocked, RetireConnections, ClosePool, Pool!Close
  <2> QED BY <1>4, <1>14, <2>1 DEF RetireConnections, ClosePool
<1>15. CASE UNCHANGED vars
  BY <1>0, <1>4, <1>5, <1>15 DEF vars
<1> QED BY <1>6, <1>7, <1>8, <1>9, <1>10, <1>11, <1>12, <1>13, <1>14, <1>15 DEF Next, Replacing, Pooling

LEMMA RoomCorrect == Spec => []RoomInv
BY InitTypes, TypeStep, InitMaking, MakingStep, InitRoom, RoomStep, PromiseKept, PTL DEF Spec

\* A set with an element that is there or not.
LEMMA MaybeAdd ==
  ASSUME NEW S, IsFiniteSet(S), NEW x, NEW b
  PROVE  LET T == S \cup (IF b THEN {x} ELSE {})
         IN  /\ IsFiniteSet(T) /\ Cardinality(T) \in Nat /\ Cardinality(S) \in Nat
             /\ Cardinality(T) <= Cardinality(S) + (IF b THEN 1 ELSE 0)
<1>1. /\ IsFiniteSet(S \cup {x}) /\ Cardinality(S \cup {x}) \in Nat /\ Cardinality(S) \in Nat
      /\ Cardinality(S \cup {x}) <= Cardinality(S) + 1
  <2>1. Cardinality(S) \in Nat
    BY FS_CardinalityType
  <2>2. IsFiniteSet(S \cup {x}) /\ Cardinality(S \cup {x}) = IF x \in S THEN Cardinality(S) ELSE Cardinality(S) + 1
    BY FS_AddElement
  <2> QED BY <2>1, <2>2
<1>2. CASE b
  BY <1>1, <1>2
<1>3. CASE ~b
  <2>1. S \cup (IF b THEN {x} ELSE {}) = S
    BY <1>3
  <2> QED BY <1>1, <1>3, <2>1
<1> QED BY <1>2, <1>3

\* The sessions of the MySQL server are never more than the pool's capacity,
\* and the connections being made have their room in it, however many requests
\* there are, whatever fails and even while the pool is being destroyed.
THEOREM SessionsAreBounded == Spec => []SessionBound
<1>1. ASSUME TypeInv, MakingInv, SessionInv, Promise!FiniteStock, RoomInv
      PROVE  SessionBound
  <2> DEFINE L == Promise!Leased
             B == free \cup L
             C == B \cup (IF creating THEN {spare} ELSE {})
             E == C \cup (IF dead # NoConn THEN {fresh} ELSE {})
             S == {k \in Conns : session[k] \in {"bare", "ready"}}
  <2>1. S \subseteq E
    <3>1. ASSUME NEW k \in S PROVE k \in E
      <4>1. k \in Conns /\ session[k] # "none" /\ session[k] # "closed" /\ k # NoConn
        BY NoConnAssumption
      <4>2. k \in B \/ k \in {spare, dead, fresh}
        BY <1>1, <4>1, Places, SameActions DEF SessionInv, Pooled, Held
      <4>3. CASE k = spare
        BY <1>1, <4>1, <4>3 DEF MakingInv
      <4>4. CASE k = dead
        BY <1>1, <4>1, <4>4 DEF SessionInv
      <4>5. CASE k = fresh
        BY <1>1, <4>1, <4>5 DEF MakingInv
      <4> QED BY <4>2, <4>3, <4>4, <4>5
    <3> QED BY <3>1
  <2>2. IsFiniteSet(free) /\ IsFiniteSet(L)
    BY <1>1, SameSets DEF Promise!FiniteStock
  <2>3. /\ Cardinality(free) + Cardinality(L) + Opening + Replacement <= Capacity
        /\ Promise!Stock + InProgress <= Capacity
    <3>1. Promise!Stock = Cardinality(free) + Cardinality(L)
      BY SameSets DEF Promise!Stock
    <3>2. Cardinality(free) \in Nat /\ Cardinality(L) \in Nat
      BY <2>2, FS_CardinalityType
    <3>3. InProgress = Opening + Replacement /\ Opening \in Nat /\ Replacement \in Nat
      BY DEF InProgress, Opening, Replacement
    <3> QED BY <1>1, <3>1, <3>2, <3>3, ServerAssumption DEF RoomInv, Stocked
  <2> HIDE DEF L, S
  <2>4. /\ IsFiniteSet(B) /\ Cardinality(B) <= Cardinality(free) + Cardinality(L)
        /\ Cardinality(free) \in Nat /\ Cardinality(L) \in Nat /\ Cardinality(B) \in Nat
    <3>1. /\ Cardinality(B) = Cardinality(free) + Cardinality(L) - Cardinality(free \cap L)
          /\ IsFiniteSet(free \cap L) /\ IsFiniteSet(B)
      BY <2>2, FS_Union, FS_Intersection
    <3>2. Cardinality(free) \in Nat /\ Cardinality(L) \in Nat /\ Cardinality(free \cap L) \in Nat /\ Cardinality(B) \in Nat
      BY <2>2, <3>1, FS_CardinalityType
    <3> QED BY <3>1, <3>2
  <2> HIDE DEF B
  <2>5. IsFiniteSet(C) /\ Cardinality(C) <= Cardinality(B) + Opening /\ Cardinality(C) \in Nat
    BY <2>4, MaybeAdd DEF Opening
  <2> HIDE DEF C
  <2>6. IsFiniteSet(E) /\ Cardinality(E) <= Cardinality(C) + Replacement /\ Cardinality(E) \in Nat
    BY <2>5, MaybeAdd DEF Replacement
  <2> HIDE DEF E
  <2>7. Cardinality(S) <= Cardinality(E) /\ Cardinality(S) \in Nat
    BY <2>1, <2>6, FS_Subset, FS_CardinalityType
  <2>8. Cardinality(S) <= Capacity
    <3>1. Opening \in Nat /\ Replacement \in Nat
      BY DEF Opening, Replacement
    <3> QED BY <2>3, <2>4, <2>5, <2>6, <2>7, <3>1, ServerAssumption
  <2> QED BY <2>3, <2>8, SameActions DEF SessionBound, S
<1> QED BY <1>1, SessionsCorrect, RoomCorrect, PromiseKept, PTL
=============================================================================
