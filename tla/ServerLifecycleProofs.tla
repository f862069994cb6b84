------------------------- MODULE ServerLifecycleProofs -------------------------
(* Theorems about ServerLifecycle for every number of workers and wherever    *)
(* the signal may be delivered.                                               *)
EXTENDS ServerLifecycle, TLAPS

LEMMA ThreadNames ==
  /\ Main \in Threads /\ Producer \in Threads /\ Sweeper \in Threads /\ Workers \subseteq Threads
  /\ Main # Producer /\ Main # Sweeper /\ Producer # Sweeper
  /\ Main \notin Workers /\ Producer \notin Workers /\ Sweeper \notin Workers
  /\ Nobody \notin Threads
BY ThreadAssumption DEF Threads, Main, Producer, Sweeper, Nobody

\* How far the threads are when exit() has come so far, and when the accept
\* loop has ended.
EndInv ==
  /\ exit \notin {"none", "shutdown"} => shutdown
  /\ exit \in {"joinSweeper", "clear", "unwait", "poolGone"} => at[Producer] = "finished"
  /\ exit \in {"clear", "unwait", "poolGone"} => at[Sweeper] = "finished"
  /\ exit = "poolGone" => \A w \in Workers : at[w] # "waiting"
  /\ exit # "none" /\ interrupted = Nobody => at[Main] = "returned"
  /\ exit = "none" <=> exiter = Nobody
  /\ at[Main] = "returned" => \A w \in Workers : at[w] = "finished"
  /\ (\E w \in Workers : at[w] = "finished") => jobs = 0 /\ at[Main] \in {"joining", "returned"}

IInv == TypeOK /\ EndInv

LEMMA InitInv == Init => IInv
<1> SUFFICES ASSUME Init PROVE IInv
  OBVIOUS
<1>1. at \in [Threads -> MainStates \cup WorkerStates \cup PoolStates]
  BY DEF Init, MainStates, WorkerStates, PoolStates
<1>2. /\ at[Main] = "installed" /\ at[Producer] = "testing" /\ at[Sweeper] = "testing"
      /\ \A w \in Workers : at[w] = "idle"
  BY ThreadNames DEF Init
<1>3. jobs \in 0..MaxJobs
  BY ThreadAssumption DEF Init
<1>4. TypeOK
  BY <1>1, <1>2, <1>3 DEF Init, TypeOK, MainStates, PoolStates
<1>5. EndInv
  BY <1>2 DEF Init, EndInv
<1> QED BY <1>4, <1>5 DEF IInv

\* A step of one thread moves that thread and no other.
LEMMA StepMoves ==
  ASSUME TypeOK, NEW t \in Threads, NEW u, NEW v \in MainStates \cup WorkerStates \cup PoolStates,
         Step(t, u, v)
  PROVE  /\ at' \in [Threads -> MainStates \cup WorkerStates \cup PoolStates]
         /\ at[t] = u /\ at'[t] = v /\ \A s \in Threads \ {t} : at'[s] = at[s]
BY DEF Step, TypeOK

LEMMA MainInv ==
  ASSUME IInv, MainStarts \/ Accept \/ LeaveLoop \/ JoinWorkers
  PROVE  IInv'
<1>0. TypeOK /\ EndInv
  BY DEF IInv
<1> USE ThreadNames DEF exitVars
<1>1. ASSUME NEW u \in MainStates, NEW v \in MainStates, Step(Main, u, v), v \notin {"joining", "returned"},
             u \notin {"joining", "returned"}, jobs' \in 0..MaxJobs,
             UNCHANGED <<interrupted, handler, stopped, exitVars>>
      PROVE  IInv'
  <2>1. /\ at' \in [Threads -> MainStates \cup WorkerStates \cup PoolStates]
        /\ at[Main] = u /\ at'[Main] = v /\ \A s \in Threads \ {Main} : at'[s] = at[s]
    BY <1>0, <1>1, StepMoves
  <2>2. TypeOK'
    BY <1>0, <1>1, <2>1 DEF TypeOK
  <2>3. EndInv'
    BY <1>0, <1>1, <2>1 DEF EndInv
  <2> QED BY <2>2, <2>3 DEF IInv
<1>2. CASE MainStarts
  BY <1>0, <1>1, <1>2 DEF MainStarts, MainStates, TypeOK
<1>3. CASE Accept
  <2>1. jobs' \in 0..MaxJobs
    BY <1>0, <1>3, ThreadAssumption DEF Accept, TypeOK
  <2> QED BY <1>1, <1>3, <2>1 DEF Accept, MainStates
<1>4. CASE LeaveLoop
  <2>1. /\ at' \in [Threads -> MainStates \cup WorkerStates \cup PoolStates]
        /\ at[Main] = "serving" /\ at'[Main] = "joining" /\ \A s \in Threads \ {Main} : at'[s] = at[s]
    BY <1>0, <1>4, StepMoves DEF LeaveLoop, MainStates
  <2>2. TypeOK'
    BY <1>0, <1>4, <2>1 DEF LeaveLoop, TypeOK, MainStates
  <2>3. EndInv'
    BY <1>0, <1>4, <2>1 DEF LeaveLoop, EndInv
  <2> QED BY <2>2, <2>3 DEF IInv
<1>5. CASE JoinWorkers
  <2>1. /\ at' \in [Threads -> MainStates \cup WorkerStates \cup PoolStates]
        /\ at[Main] = "joining" /\ at'[Main] = "returned" /\ \A s \in Threads \ {Main} : at'[s] = at[s]
    BY <1>0, <1>5, StepMoves DEF JoinWorkers, MainStates
  <2>2. TypeOK'
    BY <1>0, <1>5, <2>1 DEF JoinWorkers, TypeOK, MainStates
  <2>3. EndInv'
    BY <1>0, <1>5, <2>1 DEF JoinWorkers, EndInv
  <2> QED BY <2>2, <2>3 DEF IInv
<1> QED BY <1>2, <1>3, <1>4, <1>5

LEMMA WorkerInv ==
  ASSUME IInv, NEW w \in Workers, Worker(w) \/ WaitForConnection(w) \/ UseDestroyedPool(w)
  PROVE  IInv'
<1>0. TypeOK /\ EndInv
  BY DEF IInv
<1> USE ThreadNames DEF exitVars
<1>1. ASSUME NEW u, NEW v \in WorkerStates, Step(w, u, v), u # "finished",
             v = "finished" => jobs = 0 /\ at[Main] = "joining",
             v = "waiting" => ~shutdown,
             jobs' \in 0..MaxJobs, jobs' <= jobs,
             UNCHANGED <<interrupted, handler, stopped, exitVars>>
      PROVE  IInv'
  <2>1. /\ at' \in [Threads -> MainStates \cup WorkerStates \cup PoolStates]
        /\ at[w] = u /\ at'[w] = v /\ \A s \in Threads \ {w} : at'[s] = at[s]
    BY <1>0, <1>1, StepMoves
  <2>2. TypeOK'
    BY <1>0, <1>1, <2>1 DEF TypeOK
  <2>3. jobs = 0 => jobs' = 0
    BY <1>0, <1>1, ThreadAssumption DEF TypeOK
  <2>4. EndInv'
    BY <1>0, <1>1, <2>1, <2>3 DEF EndInv
  <2> QED BY <2>2, <2>4 DEF IInv
<1>2. CASE TakeJob(w)
  <2>1. jobs' \in 0..MaxJobs /\ jobs' <= jobs
    BY <1>0, <1>2, ThreadAssumption DEF TakeJob, TypeOK
  <2> QED BY <1>1, <1>2, <2>1 DEF TakeJob, WorkerStates
<1>3. jobs \in 0..MaxJobs /\ jobs <= jobs
  BY <1>0, ThreadAssumption DEF TypeOK
<1>4. CASE Handle(w)
  BY <1>1, <1>3, <1>4 DEF Handle, WorkerStates
<1>5. CASE WakeUp(w) \/ LeavePool(w)
  BY <1>1, <1>3, <1>5 DEF WakeUp, LeavePool, WorkerStates
<1>6. CASE Finish(w)
  BY <1>1, <1>3, <1>6 DEF Finish, WorkerStates
<1>7. CASE WaitForConnection(w)
  BY <1>1, <1>3, <1>7 DEF WaitForConnection, WorkerStates
<1>8. CASE UseDestroyedPool(w)
  BY <1>0, <1>8 DEF UseDestroyedPool, IInv, TypeOK, EndInv
<1> QED BY <1>2, <1>4, <1>5, <1>6, <1>7, <1>8 DEF Worker

LEMMA PoolInv ==
  ASSUME IInv, ProducerThread \/ SweeperThread
  PROVE  IInv'
<1>0. TypeOK /\ EndInv
  BY DEF IInv
<1> USE ThreadNames DEF exitVars
<1>1. ASSUME NEW t \in {Producer, Sweeper}, NEW u, NEW v \in PoolStates, Step(t, u, v), u # "finished",
             UNCHANGED <<jobs, interrupted, handler, stopped, exitVars>>
      PROVE  IInv'
  <2>1. /\ at' \in [Threads -> MainStates \cup WorkerStates \cup PoolStates]
        /\ at[t] = u /\ at'[t] = v /\ \A s \in Threads \ {t} : at'[s] = at[s]
    BY <1>0, <1>1, StepMoves
  <2>2. TypeOK'
    BY <1>0, <1>1, <2>1 DEF TypeOK
  <2>3. EndInv'
    BY <1>0, <1>1, <2>1 DEF EndInv
  <2> QED BY <2>2, <2>3 DEF IInv
<1>2. CASE ProducerThread
  BY <1>1, <1>2 DEF ProducerThread, PoolStates
<1>3. CASE SweeperThread
  BY <1>1, <1>3 DEF SweeperThread, PoolStates
<1> QED BY <1>2, <1>3

LEMMA ExitInv ==
  ASSUME IInv, SignalHandler \/ ExitSteps \/ \E t \in Threads : Signal(t) \/ CallExit(t)
  PROVE  IInv'
<1>0. TypeOK /\ EndInv
  BY DEF IInv
<1> USE ThreadNames DEF exitVars
<1>1. CASE SignalHandler
  <2>1. UNCHANGED <<at, jobs, interrupted, exiter, exit, shutdown, ended>>
    BY <1>1 DEF SignalHandler, Handler
  <2>2. handler' \in {"none", "log", "logging", "stop", "exit"}
    BY <1>1 DEF SignalHandler, Handler
  <2>3. stopped' \in BOOLEAN
    <3>1. CASE UNCHANGED stopped
      BY <1>0, <3>1 DEF TypeOK
    <3>2. CASE stopped' = (at[Main] \in {"serving", "joining"})
      <4>1. (at[Main] \in {"serving", "joining"}) \in BOOLEAN
        OBVIOUS
      <4> QED BY <3>2, <4>1, Zenon
    <3> QED BY <1>1, <3>1, <3>2, Zenon DEF SignalHandler
  <2>4. TypeOK'
    BY <1>0, <2>1, <2>2, <2>3 DEF TypeOK
  <2>5. EndInv'
    BY <1>0, <2>1 DEF EndInv
  <2> QED BY <2>4, <2>5 DEF IInv
<1>2. ASSUME NEW t \in Threads, Signal(t) PROVE IInv'
  BY <1>0, <1>2 DEF Signal, IInv, TypeOK, EndInv
<1>3. ASSUME NEW t \in Threads, CallExit(t) PROVE IInv'
  BY <1>0, <1>3 DEF CallExit, IInv, TypeOK, EndInv
<1>4. CASE SetShutdown
  BY <1>0, <1>4 DEF SetShutdown, Exit, IInv, TypeOK, EndInv
<1>5. CASE Join(Producer, "joinProducer", "joinSweeper")
  BY <1>0, <1>5 DEF Join, Exit, IInv, TypeOK, EndInv
<1>6. CASE Join(Sweeper, "joinSweeper", "clear")
  BY <1>0, <1>6 DEF Join, Exit, IInv, TypeOK, EndInv
<1>7. CASE Clear
  BY <1>0, <1>7 DEF Clear, Exit, IInv, TypeOK, EndInv
<1>8. CASE DestroyConditions
  BY <1>0, <1>8 DEF DestroyConditions, Exit, IInv, TypeOK, EndInv
<1>9. CASE EndProcess
  BY <1>0, <1>9 DEF EndProcess, Exit, IInv, TypeOK, EndInv
<1> QED BY <1>1, <1>2, <1>3, <1>4, <1>5, <1>6, <1>7, <1>8, <1>9 DEF ExitSteps

LEMMA InvStep == IInv /\ [Next]_vars => IInv'
<1>1. IInv /\ UNCHANGED vars => IInv'
  BY DEF vars, exitVars, IInv, TypeOK, EndInv
<1> QED BY <1>1, MainInv, WorkerInv, PoolInv, ExitInv DEF Next

LEMMA InvCorrect == Spec => []IInv
BY InitInv, InvStep, PTL DEF Spec

\* Every variable keeps its type.
THEOREM LifecycleTypes == Spec => []TypeOK
<1>1. IInv => TypeOK
  BY DEF IInv
<1> QED BY <1>1, InvCorrect, PTL

\* Wherever the signal lands and whoever calls exit(): the pool goes after its
\* own threads and after everybody who waits in it, and after every request
\* if no handler has run.
THEOREM PoolOutlivesItsUsers == Spec => []DestroyedWhenUnused
<1>1. IInv => DestroyedWhenUnused
  <2> SUFFICES ASSUME IInv, exit = "poolGone" PROVE DestroyedWhenUnused
    BY DEF DestroyedWhenUnused
  <2>1. /\ at[Producer] = "finished" /\ at[Sweeper] = "finished"
        /\ \A w \in Workers : at[w] # "waiting"
    BY DEF IInv, EndInv
  <2>2. interrupted = Nobody => jobs = 0 /\ \A w \in Workers : at[w] = "finished"
    BY ThreadAssumption DEF IInv, EndInv
  <2> QED BY <2>1, <2>2 DEF DestroyedWhenUnused
<1> QED BY <1>1, InvCorrect, PTL

-----------------------------------------------------------------------------
(* The mutexes *)

\* Each mutex has one owner at a time, the handler's spdlog call included.  A
\* thread that the signal has stopped keeps what it has.
MutexInv ==
  /\ \A s, t \in Threads : HasPool(s) /\ HasPool(t) => s = t
  /\ \A s, t \in Threads : HasLogger(s) /\ HasLogger(t) => s = t
  /\ handler = "logging" => \A t \in Threads : ~HasLogger(t)

\* A thread gets a mutex only while it is free.
LEMMA MovesKeepMutexes ==
  ASSUME TypeOK, MutexInv, NEW t \in Threads, NEW u, NEW v, Step(t, u, v), handler' = handler,
         v \in {"locked", "woken", "returning", "pushing"} =>
           PoolFree \/ u \in {"locked", "woken", "returning", "pushing"},
         v \in {"logging", "loggingStart"} => LoggerFree
  PROVE  MutexInv'
<1>1. at[t] = u /\ \A s \in Threads : at'[s] = IF s = t THEN v ELSE at[s]
  BY DEF Step, TypeOK
<1>2. ASSUME NEW s \in Threads, HasPool(s)' PROVE s = t \/ HasPool(s)
  BY <1>1, <1>2 DEF HasPool
<1>3. HasPool(t)' => PoolFree \/ HasPool(t)
  BY <1>1 DEF HasPool
<1>4. \A r, s \in Threads : HasPool(r)' /\ HasPool(s)' => r = s
  BY <1>2, <1>3 DEF MutexInv, PoolFree
<1>5. ASSUME NEW s \in Threads, HasLogger(s)' PROVE s = t \/ HasLogger(s)
  BY <1>1, <1>5 DEF HasLogger
<1>6. HasLogger(t)' => LoggerFree
  BY <1>1 DEF HasLogger
<1>7. \A r, s \in Threads : HasLogger(r)' /\ HasLogger(s)' => r = s
  BY <1>5, <1>6 DEF MutexInv, LoggerFree
<1>8. handler' = "logging" => \A s \in Threads : ~HasLogger(s)'
  BY <1>5, <1>6 DEF MutexInv, LoggerFree
<1> QED BY <1>4, <1>7, <1>8 DEF MutexInv

LEMMA MutexStep == TypeOK /\ MutexInv /\ [Next]_vars => MutexInv'
<1> SUFFICES ASSUME TypeOK, MutexInv, [Next]_vars PROVE MutexInv'
  OBVIOUS
<1> USE ThreadNames
<1>1. CASE MainStarts \/ Accept \/ LeaveLoop \/ JoinWorkers
  BY <1>1, MovesKeepMutexes DEF MainStarts, Accept, LeaveLoop, JoinWorkers
<1>2. ASSUME NEW w \in Workers, Worker(w) \/ WaitForConnection(w) PROVE MutexInv'
  <2>1. CASE Handle(w)
    BY <2>1, MovesKeepMutexes DEF Handle
  <2>2. CASE TakeJob(w) \/ WakeUp(w) \/ LeavePool(w) \/ Finish(w) \/ WaitForConnection(w)
    BY <2>2, MovesKeepMutexes DEF TakeJob, WakeUp, LeavePool, Finish, WaitForConnection
  <2> QED BY <1>2, <2>1, <2>2 DEF Worker
<1>3. CASE ProducerThread
  BY <1>3, MovesKeepMutexes DEF ProducerThread
<1>4. CASE SweeperThread
  BY <1>4, MovesKeepMutexes DEF SweeperThread
<1>5. ASSUME at' = at, handler' = handler \/ handler' # "logging" \/ LoggerFree PROVE MutexInv'
  BY <1>5 DEF MutexInv, HasPool, HasLogger, LoggerFree
<1>6. CASE SignalHandler
  BY <1>5, <1>6 DEF SignalHandler, Handler
<1>7. CASE ExitSteps
  BY <1>5, <1>7 DEF ExitSteps, SetShutdown, Clear, DestroyConditions, EndProcess, Join, Exit
<1>8. ASSUME NEW t \in Threads, Signal(t) \/ CallExit(t) PROVE MutexInv'
  BY <1>5, <1>8 DEF Signal, CallExit
<1>9. ASSUME NEW w \in Workers, UseDestroyedPool(w) PROVE MutexInv'
  BY <1>5, <1>9 DEF UseDestroyedPool
<1>10. CASE UNCHANGED vars
  BY <1>5, <1>10 DEF vars
<1> QED BY <1>1, <1>2, <1>3, <1>4, <1>6, <1>7, <1>8, <1>9, <1>10 DEF Next

\* spdlog's mutex and _mu each have one owner, on every thread, in the handler
\* and in exit().
THEOREM MutexesExclude == Spec => []MutexInv
<1>1. Init => MutexInv
  <2> SUFFICES ASSUME Init PROVE MutexInv
    OBVIOUS
  <2>1. \A t \in Threads : at[t] \in {"installed", "testing", "idle"} /\ handler = "none"
    BY DEF Init
  <2> QED BY <2>1 DEF MutexInv, HasPool, HasLogger
<1>2. IInv => TypeOK
  BY DEF IInv
<1> QED BY <1>1, <1>2, MutexStep, InvCorrect, PTL DEF Spec

-----------------------------------------------------------------------------
(* The handler that waits for itself *)

\* The handler asks for spdlog's mutex on the thread that has it.
SelfDeadlock ==
  /\ interrupted # Nobody /\ handler = "log" /\ HasLogger(interrupted)
  /\ exiter = Nobody /\ ended = "no"

\* A step of a thread that is not interrupted leaves the one that is alone.
LEMMA StoppedThreadStays ==
  ASSUME TypeOK, SelfDeadlock, NEW t \in Threads, NEW u, NEW v, Step(t, u, v),
         UNCHANGED <<interrupted, handler, exitVars>>
  PROVE  SelfDeadlock'
<1>1. at'[interrupted] = at[interrupted]
  BY DEF Step, TypeOK
<1> QED BY <1>1 DEF SelfDeadlock, HasLogger, exitVars

LEMMA DeadlockStays == IInv /\ SelfDeadlock /\ [Next]_vars => SelfDeadlock'
<1> SUFFICES ASSUME IInv, SelfDeadlock, [Next]_vars PROVE SelfDeadlock'
  OBVIOUS
<1>0. TypeOK /\ EndInv
  BY DEF IInv
<1> USE ThreadNames
\* The thread is main or a worker, so main has not returned and cannot.
<1>1. interrupted \in Threads /\ interrupted \in Workers \cup {Main}
  BY <1>0, ThreadAssumption DEF SelfDeadlock, HasLogger, TypeOK, PoolStates, Threads
<1>2. at[Main] # "returned"
  BY <1>0, <1>1 DEF EndInv, SelfDeadlock, HasLogger
<1>3. exit = "none" /\ ~LoggerFree
  BY <1>0, <1>1 DEF EndInv, SelfDeadlock, LoggerFree
<1>4. CASE MainStarts \/ Accept \/ LeaveLoop \/ JoinWorkers
  BY <1>0, <1>4, StoppedThreadStays DEF MainStarts, Accept, LeaveLoop, JoinWorkers
<1>5. ASSUME NEW w \in Workers, Worker(w) \/ WaitForConnection(w) PROVE SelfDeadlock'
  <2>1. CASE Handle(w)
    BY <1>0, <2>1, StoppedThreadStays DEF Handle
  <2>2. CASE TakeJob(w) \/ WakeUp(w) \/ LeavePool(w) \/ Finish(w) \/ WaitForConnection(w)
    BY <1>0, <2>2, StoppedThreadStays DEF TakeJob, WakeUp, LeavePool, Finish, WaitForConnection
  <2> QED BY <1>5, <2>1, <2>2 DEF Worker
<1>6. CASE ProducerThread
  BY <1>0, <1>6, StoppedThreadStays DEF ProducerThread
<1>7. CASE SweeperThread
  BY <1>0, <1>7, StoppedThreadStays DEF SweeperThread
<1>8. CASE SignalHandler
  BY <1>3, <1>8 DEF SignalHandler, Handler, SelfDeadlock
<1>9. CASE ExitSteps
  BY <1>3, <1>9 DEF ExitSteps, SetShutdown, Clear, DestroyConditions, EndProcess, Join, Exit
<1>10. ASSUME NEW t \in Threads, Signal(t) \/ CallExit(t) PROVE SelfDeadlock'
  BY <1>2, <1>10 DEF Signal, CallExit, SelfDeadlock
<1>11. ASSUME NEW w \in Workers, UseDestroyedPool(w) PROVE SelfDeadlock'
  BY <1>3, <1>11 DEF UseDestroyedPool
<1>12. CASE UNCHANGED vars
  BY <1>12 DEF vars, exitVars, SelfDeadlock, HasLogger
<1> QED BY <1>4, <1>5, <1>6, <1>7, <1>8, <1>9, <1>10, <1>11, <1>12 DEF Next

\* The signal finds its thread between the log call's lock and unlock.
SignalInsideLogger == \E t \in Threads : Signal(t) /\ HasLogger(t)

\* A signal that finds its thread inside spdlog leaves the process running for
\* ever, whatever the other threads do: no step ends it, and nobody else can
\* call exit(), since main does not return without that thread.
THEOREM HandlerDeadlockIsForever ==
  Spec => [][SignalInsideLogger => SelfDeadlock']_vars /\ [](SelfDeadlock => []SelfDeadlock)
<1>1. [SignalInsideLogger => SelfDeadlock']_vars
  BY ThreadNames DEF SignalInsideLogger, Signal, SelfDeadlock, HasLogger, exitVars
<1> QED BY <1>1, DeadlockStays, InvCorrect, PTL DEF Spec

-----------------------------------------------------------------------------
(* The static pool is shut down as PoolShutdown has it *)

\* What the mapping depends on.
LEMMA SameMaps ==
  ASSUME UNCHANGED <<shutdown, exit>>, at'[Producer] = at[Producer], at'[Sweeper] = at[Sweeper]
  PROVE  shutdown' = shutdown /\ StepsLeft' = StepsLeft /\ (exit = "poolGone")' = (exit = "poolGone")
BY DEF StepsLeft, ProducerLeft, SweeperLeft

LEMMA MainShutdown ==
  ASSUME IInv, MainStarts \/ Accept \/ LeaveLoop \/ JoinWorkers
  PROVE  UNCHANGED ShutdownOf!shutdownVars
<1> USE ThreadNames DEF exitVars
<1>1. /\ UNCHANGED <<shutdown, exit>>
      /\ \A s \in Threads \ {Main} : at'[s] = at[s]
  BY DEF MainStarts, Accept, LeaveLoop, JoinWorkers, Step, IInv, TypeOK
<1>2. WaitingWorkers' = WaitingWorkers
  BY <1>1 DEF WaitingWorkers
<1> QED BY <1>1, <1>2, SameMaps DEF ShutdownOf!shutdownVars

LEMMA WorkerShutdown ==
  ASSUME IInv, NEW w \in Workers, Worker(w) \/ WaitForConnection(w) \/ UseDestroyedPool(w)
  PROVE  [ShutdownOf!Next]_ShutdownOf!shutdownVars
<1> USE ThreadNames DEF exitVars
<1>1. CASE UseDestroyedPool(w)
  <2>1. UNCHANGED <<at, shutdown, exit>>
    BY <1>1 DEF UseDestroyedPool
  <2> QED BY <2>1, SameMaps DEF WaitingWorkers, ShutdownOf!shutdownVars
<1>2. CASE Worker(w) \/ WaitForConnection(w)
  <2>1. /\ UNCHANGED <<shutdown, exit>>
        /\ \A s \in Threads \ {w} : at'[s] = at[s]
    BY <1>2 DEF Worker, TakeJob, Handle, WakeUp, LeavePool, Finish, WaitForConnection, Step, IInv, TypeOK
  <2>2. shutdown' = shutdown /\ StepsLeft' = StepsLeft /\ (exit = "poolGone")' = (exit = "poolGone")
    BY <2>1, SameMaps
  <2>3. CASE Worker(w)
    <3>1. at'[w] # "waiting"
      BY <2>3 DEF Worker, TakeJob, Handle, WakeUp, LeavePool, Finish, Step, IInv, TypeOK
    <3>2. WaitingWorkers' \subseteq WaitingWorkers
      BY <2>1, <3>1 DEF WaitingWorkers
    <3>3. ShutdownOf!Wake
      BY <2>2, <3>2 DEF ShutdownOf!Wake
    <3> QED BY <3>3 DEF ShutdownOf!Next
  <2>4. CASE WaitForConnection(w)
    <3>1. ~shutdown /\ at'[w] = "waiting"
      BY <2>4 DEF WaitForConnection, Step, IInv, TypeOK
    <3>2. WaitingWorkers' = WaitingWorkers \cup {w}
      BY <2>1, <3>1 DEF WaitingWorkers
    <3>3. ShutdownOf!Wait(w)
      BY <2>2, <3>1, <3>2 DEF ShutdownOf!Wait
    <3> QED BY <3>3 DEF ShutdownOf!Next
  <2> QED BY <1>2, <2>3, <2>4
<1> QED BY <1>1, <1>2

LEMMA PoolThreadShutdown ==
  ASSUME IInv, ProducerThread \/ SweeperThread
  PROVE  ShutdownOf!Next
<1> USE ThreadNames DEF exitVars
<1>1. ASSUME NEW t \in PoolThreads, \A s \in Threads \ {t} : at'[s] = at[s],
             UNCHANGED <<shutdown, exit>>,
             IF shutdown THEN StepsLeft'[t] < StepsLeft[t] ELSE StepsLeft'[t] # 0
      PROVE  ShutdownOf!Next
  <2>1. WaitingWorkers' = WaitingWorkers
    BY <1>1 DEF WaitingWorkers, PoolThreads
  <2>2. \A s \in PoolThreads : s # t => StepsLeft'[s] = StepsLeft[s]
    BY <1>1 DEF PoolThreads, StepsLeft, ProducerLeft, SweeperLeft
  <2>3. StepsLeft' = [StepsLeft EXCEPT ![t] = StepsLeft'[t]]
    BY <2>2 DEF StepsLeft
  <2>4. StepsLeft'[t] \in 0..3
    BY DEF StepsLeft, ProducerLeft, SweeperLeft, PoolThreads
  <2>5. (exit = "poolGone")' = (exit = "poolGone")
    BY <1>1
  <2>6. ShutdownOf!Run(t)
    BY <1>1, <2>1, <2>3, <2>4, <2>5 DEF ShutdownOf!Run
  <2> QED BY <2>6 DEF ShutdownOf!Next
<1>2. Producer \in PoolThreads /\ Sweeper \in PoolThreads
  BY DEF PoolThreads
<1>3. CASE ProducerThread
  <2>1. \A s \in Threads \ {Producer} : at'[s] = at[s]
    BY <1>3 DEF ProducerThread, Step, IInv, TypeOK
  <2>2. UNCHANGED <<shutdown, exit>>
    BY <1>3 DEF ProducerThread
  <2>3. IF shutdown THEN ProducerLeft' < ProducerLeft ELSE ProducerLeft' # 0
    BY <1>3 DEF ProducerThread, Step, ProducerLeft, IInv, TypeOK
  <2> QED BY <1>1, <1>2, <2>1, <2>2, <2>3 DEF StepsLeft, PoolThreads
<1>4. CASE SweeperThread
  <2>1. \A s \in Threads \ {Sweeper} : at'[s] = at[s]
    BY <1>4 DEF SweeperThread, Step, IInv, TypeOK
  <2>2. UNCHANGED <<shutdown, exit>>
    BY <1>4 DEF SweeperThread
  <2>3. IF shutdown THEN SweeperLeft' < SweeperLeft ELSE SweeperLeft' # 0
    BY <1>4 DEF SweeperThread, Step, SweeperLeft, IInv, TypeOK
  <2> QED BY <1>1, <1>2, <2>1, <2>2, <2>3 DEF StepsLeft, PoolThreads
<1> QED BY <1>3, <1>4

LEMMA ExitShutdown ==
  ASSUME IInv, SignalHandler \/ ExitSteps \/ \E t \in Threads : Signal(t) \/ CallExit(t)
  PROVE  [ShutdownOf!Next]_ShutdownOf!shutdownVars
<1> USE DEF exitVars
<1>1. at' = at
  BY DEF SignalHandler, Handler, Signal, CallExit, ExitSteps, SetShutdown, Clear, DestroyConditions,
         EndProcess, Join, Exit
<1>2. StepsLeft' = StepsLeft /\ WaitingWorkers' = WaitingWorkers
  BY <1>1 DEF StepsLeft, ProducerLeft, SweeperLeft, WaitingWorkers
<1>3. CASE SetShutdown
  <2>1. shutdown' = TRUE /\ (exit = "poolGone")' = (exit = "poolGone")
    BY <1>3 DEF SetShutdown, Exit
  <2>2. ShutdownOf!Close
    BY <1>2, <2>1 DEF ShutdownOf!Close
  <2> QED BY <2>2 DEF ShutdownOf!Next
<1>4. CASE DestroyConditions
  <2>1. /\ at[Producer] = "finished" /\ at[Sweeper] = "finished" /\ shutdown
        /\ \A w \in Workers : at[w] # "waiting"
    BY <1>4, ThreadNames DEF DestroyConditions, Exit, IInv, EndInv
  <2>2. shutdown' = shutdown /\ (exit = "poolGone")' = TRUE
    BY <1>4 DEF DestroyConditions, Exit
  <2>3. WaitingWorkers = {} /\ \A t \in PoolThreads : StepsLeft[t] = 0
    BY <2>1 DEF WaitingWorkers, StepsLeft, ProducerLeft, SweeperLeft, PoolThreads
  <2>4. ShutdownOf!Destroy
    BY <1>2, <2>1, <2>2, <2>3 DEF ShutdownOf!Destroy
  <2> QED BY <2>4 DEF ShutdownOf!Next
<1>5. CASE ~SetShutdown /\ ~DestroyConditions
  <2>1. shutdown' = shutdown
    BY <1>5 DEF SignalHandler, Handler, Signal, CallExit, ExitSteps, Clear, EndProcess, Join, Exit
  <2>2. (exit = "poolGone")' = (exit = "poolGone")
    BY <1>5 DEF SignalHandler, Handler, Signal, CallExit, ExitSteps, Clear, EndProcess, Join, Exit,
                IInv, EndInv
  <2> QED BY <1>2, <2>1, <2>2 DEF ShutdownOf!shutdownVars
<1> QED BY <1>3, <1>4, <1>5

LEMMA ShutdownInit == Init => ShutdownOf!Init
<1> SUFFICES ASSUME Init PROVE ShutdownOf!Init
  OBVIOUS
<1>1. /\ at[Producer] = "testing" /\ at[Sweeper] = "testing" /\ \A w \in Workers : at[w] = "idle"
  BY ThreadNames DEF Init
<1>2. WaitingWorkers = {} /\ shutdown = FALSE /\ (exit = "poolGone") = FALSE
  BY <1>1 DEF Init, WaitingWorkers
<1>3. StepsLeft \in [PoolThreads -> (0..3) \ {0}]
  BY <1>1 DEF StepsLeft, ProducerLeft, SweeperLeft, PoolThreads
<1> QED BY <1>2, <1>3 DEF ShutdownOf!Init

LEMMA ShutdownStep == IInv /\ [Next]_vars => [ShutdownOf!Next]_ShutdownOf!shutdownVars
<1> SUFFICES ASSUME IInv, [Next]_vars PROVE [ShutdownOf!Next]_ShutdownOf!shutdownVars
  OBVIOUS
<1>1. CASE UNCHANGED vars
  <2>1. UNCHANGED <<at, shutdown, exit>>
    BY <1>1 DEF vars, exitVars
  <2> QED BY <2>1, SameMaps DEF WaitingWorkers, ShutdownOf!shutdownVars
<1> QED BY <1>1, MainShutdown, WorkerShutdown, PoolThreadShutdown, ExitShutdown DEF Next

\* The reduced pool of this module shuts down by the contract that the pool of
\* ConnectionPool is proved to keep: its threads end within three steps, nobody
\* begins to wait, and it is destroyed after them, for any number of workers.
THEOREM StaticPoolShutsDown == Spec => ImplementsShutdown
BY ShutdownInit, ShutdownStep, InvCorrect, PTL DEF Spec, ImplementsShutdown, ShutdownOf!Spec
=============================================================================
