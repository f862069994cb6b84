--------------------------- MODULE ServerLifecycle ---------------------------
(***************************************************************************)
(* The end of the process of src/server/main.cc: a signal handler that     *)
(* runs on whatever thread the signal finds, with the mutexes that thread  *)
(* has, logs, stops the server and calls exit(), which destroys the pool   *)
(* under the threads that still run; or main() that returns.               *)
(*                                                                         *)
(* Two mutexes matter: spdlog's and the pool's _mu.  A thread has one of   *)
(* them while it is in a state named in Inside.  One signal comes at most, *)
(* and not once exit() has begun; before the handler is installed a signal *)
(* just kills the process.  The HTTP library, spdlog and exit() are        *)
(* external.                                                               *)
(***************************************************************************)
EXTENDS Integers, FiniteSets

CONSTANTS
  Workers,          \* threads of the HTTP library
  HandlerThreads,   \* the threads a signal may be delivered to
  MaxJobs           \* bound on the connections that wait for a worker

Main == "main"
Producer == "producer"
Sweeper == "sweeper"
Nobody == "nobody"
Threads == Workers \cup {Main, Producer, Sweeper}

ASSUME ThreadAssumption ==
  /\ Workers # {} /\ Workers \cap {Main, Producer, Sweeper, Nobody} = {}
  /\ HandlerThreads \subseteq Threads /\ MaxJobs \in Nat

VARIABLES
  at,           \* how far each thread is
  jobs,         \* accepted connections without a worker
  interrupted,  \* the thread the handler runs on
  handler,      \* how far the handler is
  stopped,      \* whether stop() has closed the socket
  exiter,       \* the thread that called exit()
  exit,         \* how far exit() is
  shutdown,     \* _shutdown
  ended         \* whether the process runs, has exited or was aborted

vars == <<at, jobs, interrupted, handler, stopped, exiter, exit, shutdown, ended>>
exitVars == <<exiter, exit, shutdown, ended>>

MainStates == {"installed", "logging", "announced", "loggingStart", "serving", "joining", "returned"}
WorkerStates == {"idle", "request", "locked", "waiting", "woken", "leased", "returning", "failing", "logging", "finished"}
PoolStates == {"testing", "locked", "waiting", "creating", "pushing", "sleeping", "finished"}

TypeOK ==
  /\ at \in [Threads -> MainStates \cup WorkerStates \cup PoolStates]
  /\ at[Main] \in MainStates /\ at[Producer] \in PoolStates /\ at[Sweeper] \in PoolStates
  /\ jobs \in 0..MaxJobs
  /\ interrupted \in HandlerThreads \cup {Nobody}
  /\ handler \in {"none", "log", "logging", "stop", "exit"}
  /\ exiter \in {Nobody, Main, interrupted}
  /\ exit \in {"none", "shutdown", "joinProducer", "joinSweeper", "clear", "unwait", "poolGone"}
  /\ stopped \in BOOLEAN /\ shutdown \in BOOLEAN /\ ended \in {"no", "exited", "aborted"}

\* The server and the pool are constructed and the handler is installed.
Init ==
  /\ at = [t \in Threads |->
       CASE t = Main -> "installed" [] t \in {Producer, Sweeper} -> "testing"
         [] OTHER -> "idle"]
  /\ jobs = 0 /\ interrupted = Nobody /\ handler = "none" /\ stopped = FALSE
  /\ exiter = Nobody /\ exit = "none" /\ shutdown = FALSE /\ ended = "no"

HasPool(t) == at[t] \in {"locked", "woken", "returning", "pushing"}
HasLogger(t) == at[t] \in {"logging", "loggingStart"}
Inside(t) == HasPool(t) \/ HasLogger(t) \/ (t \in Workers /\ at[t] = "waiting")

PoolFree == \A t \in Threads : ~HasPool(t)
LoggerFree == handler # "logging" /\ \A t \in Threads : ~HasLogger(t)

\* A thread takes a step of its own: not while the handler runs on it.
Step(t, from, to) ==
  /\ ended = "no" /\ interrupted # t /\ at[t] = from
  /\ at' = [at EXCEPT ![t] = to]

-----------------------------------------------------------------------------
(* main *)

\* main() and start() log, then the server listens.
MainStarts ==
  /\ \/ LoggerFree /\ Step(Main, "installed", "logging")
     \/ Step(Main, "logging", "announced")
     \/ LoggerFree /\ Step(Main, "announced", "loggingStart")
     \/ Step(Main, "loggingStart", "serving")
  /\ UNCHANGED <<jobs, interrupted, handler, stopped, exitVars>>

Accept ==
  /\ at[Main] = "serving" /\ ~stopped /\ jobs < MaxJobs
  /\ Step(Main, "serving", "serving")
  /\ jobs' = jobs + 1
  /\ UNCHANGED <<interrupted, handler, stopped, exitVars>>

\* The socket is closed by stop() or accept() fails: the loop ends.
LeaveLoop ==
  /\ Step(Main, "serving", "joining")
  /\ UNCHANGED <<jobs, interrupted, handler, stopped, exitVars>>

\* Slip: the workers are detached.
ReturnAtOnce ==
  /\ Step(Main, "joining", "returned")
  /\ UNCHANGED <<jobs, interrupted, handler, stopped, exitVars>>

\* The workers are joined and main returns.
JoinWorkers ==
  /\ \A w \in Workers : at[w] = "finished"
  /\ Step(Main, "joining", "returned")
  /\ UNCHANGED <<jobs, interrupted, handler, stopped, exitVars>>

-----------------------------------------------------------------------------
(* The workers *)

TakeJob(w) ==
  /\ jobs > 0 /\ Step(w, "idle", "request")
  /\ jobs' = jobs - 1
  /\ UNCHANGED <<interrupted, handler, stopped, exitVars>>

\* A rejected request is done, or logs; the others ask the pool.
Handle(w) ==
  /\ \/ Step(w, "request", "idle") \/ Step(w, "request", "failing")
     \/ PoolFree /\ (Step(w, "request", "locked") \/ Step(w, "leased", "returning"))
     \/ LoggerFree /\ Step(w, "failing", "logging")
     \/ Step(w, "logging", "idle")
     \/ Step(w, "returning", "idle") \/ Step(w, "returning", "failing")
  /\ UNCHANGED <<jobs, interrupted, handler, stopped, exitVars>>

\* Slip: the wait loop looks at the queue only.
WaitRegardless(w) ==
  /\ Step(w, "locked", "waiting")
  /\ UNCHANGED <<jobs, interrupted, handler, stopped, exitVars>>

\* getConnection waits.  It wakes up for good, notified or late; to wait
\* again is no step.
WaitForConnection(w) ==
  /\ ~shutdown /\ Step(w, "locked", "waiting")
  /\ UNCHANGED <<jobs, interrupted, handler, stopped, exitVars>>

WakeUp(w) ==
  /\ PoolFree /\ Step(w, "waiting", "woken")
  /\ UNCHANGED <<jobs, interrupted, handler, stopped, exitVars>>

\* getConnection returns, or getStats, which needs no connection.
LeavePool(w) ==
  /\ \/ Step(w, "locked", "idle")
     \/ \E s \in {"locked", "woken"} :
          Step(w, s, "failing") \/ (~shutdown /\ Step(w, s, "leased"))
  /\ UNCHANGED <<jobs, interrupted, handler, stopped, exitVars>>

\* The task queue is shut down and empty.
Finish(w) ==
  /\ at[Main] = "joining" /\ jobs = 0 /\ Step(w, "idle", "finished")
  /\ UNCHANGED <<jobs, interrupted, handler, stopped, exitVars>>

\* Undefined behaviour of a call into the destroyed pool: it may crash.
UseDestroyedPool(w) ==
  /\ ended = "no" /\ interrupted # w /\ exit = "poolGone" /\ at[w] \in {"request", "leased"}
  /\ ended' = "aborted"
  /\ UNCHANGED <<at, jobs, interrupted, handler, stopped, exiter, exit, shutdown>>

-----------------------------------------------------------------------------
(* The threads of the pool *)

\* Slip: the flag is tested before the wait and not after it.
ProduceForEver ==
  /\ \/ PoolFree /\ Step(Producer, "testing", "locked")
     \/ Step(Producer, "locked", "waiting") \/ Step(Producer, "locked", "creating")
     \/ PoolFree /\ (Step(Producer, "creating", "pushing") \/ Step(Producer, "waiting", "locked"))
     \/ Step(Producer, "pushing", "testing")
  /\ UNCHANGED <<jobs, interrupted, handler, stopped, exitVars>>

ProducerThread ==
  /\ \/ ~shutdown /\ PoolFree /\ Step(Producer, "testing", "locked")
     \/ shutdown /\ Step(Producer, "testing", "finished")
     \/ ~shutdown /\ (Step(Producer, "locked", "waiting") \/ Step(Producer, "locked", "creating"))
     \/ shutdown /\ Step(Producer, "locked", "finished")
     \/ PoolFree /\ (Step(Producer, "creating", "pushing") \/ Step(Producer, "waiting", "locked"))
     \/ Step(Producer, "pushing", "testing")
  /\ UNCHANGED <<jobs, interrupted, handler, stopped, exitVars>>

\* Slip: continue where the code has break, in a loop without end.
SweepForEver ==
  /\ \/ PoolFree /\ Step(Sweeper, "sleeping", "locked")
     \/ Step(Sweeper, "testing", "sleeping") \/ Step(Sweeper, "locked", "testing")
  /\ UNCHANGED <<jobs, interrupted, handler, stopped, exitVars>>

SweeperThread ==
  /\ \/ ~shutdown /\ (Step(Sweeper, "testing", "sleeping") \/ Step(Sweeper, "locked", "testing"))
     \/ PoolFree /\ Step(Sweeper, "sleeping", "locked")
     \/ shutdown /\ (Step(Sweeper, "testing", "finished") \/ Step(Sweeper, "locked", "finished"))
  /\ UNCHANGED <<jobs, interrupted, handler, stopped, exitVars>>

-----------------------------------------------------------------------------
(* The signal handler *)

Signal(t) ==
  /\ ended = "no" /\ interrupted = Nobody /\ exiter = Nobody
  /\ t \in HandlerThreads /\ at[t] \notin {"finished", "returned"}
  /\ t \in Workers => at[Main] \in {"serving", "joining"}
  /\ interrupted' = t /\ handler' = "log"
  /\ UNCHANGED <<at, jobs, stopped, exitVars>>

Handler(from, to) ==
  /\ ended = "no" /\ handler = from
  /\ handler' = to
  /\ UNCHANGED <<at, jobs, interrupted, exitVars>>

\* spdlog::info, then stop(), which does nothing before the server listens.
SignalHandler ==
  \/ LoggerFree /\ Handler("log", "logging") /\ UNCHANGED stopped
  \/ Handler("logging", "stop") /\ UNCHANGED stopped
  \/ Handler("stop", "exit") /\ stopped' = (at[Main] \in {"serving", "joining"})

-----------------------------------------------------------------------------
(* exit(): the static pool is destroyed, then server_ptr *)

\* Slip: a request that fails ends the server as the handler does.
ExitOnError(t) ==
  /\ ended = "no" /\ exiter = Nobody
  /\ at[t] = "failing" \/ (t = interrupted /\ handler = "exit")
  /\ exiter' = t /\ exit' = "shutdown"
  /\ UNCHANGED <<at, jobs, interrupted, handler, stopped, shutdown, ended>>

\* Whoever calls it first.  A second call does not return.
CallExit(t) ==
  /\ ended = "no" /\ exiter = Nobody
  /\ (t = interrupted /\ handler = "exit") \/ (t = Main /\ interrupted # Main /\ at[Main] = "returned")
  /\ exiter' = t /\ exit' = "shutdown"
  /\ UNCHANGED <<at, jobs, interrupted, handler, stopped, shutdown, ended>>

Exit(from, to) ==
  /\ ended = "no" /\ exit = from
  /\ exit' = to
  /\ UNCHANGED <<at, jobs, interrupted, handler, stopped, exiter>>

\* shutdown() sets the flag and notifies.
SetShutdown ==
  PoolFree /\ Exit("shutdown", "joinProducer") /\ shutdown' = TRUE /\ UNCHANGED ended

\* join() of another thread waits for it; of the own thread it throws, out of
\* a destructor.
Join(t, from, to) ==
  /\ UNCHANGED shutdown
  /\ \/ exiter # t /\ at[t] = "finished" /\ Exit(from, to) /\ UNCHANGED ended
     \/ exiter = t /\ Exit(from, from) /\ ended' = "aborted"

\* The queue is cleared under _mu.
Clear == PoolFree /\ Exit("clear", "unwait") /\ UNCHANGED <<shutdown, ended>>

\* The destructor of a condition variable waits until nobody waits on it.
DestroyConditions ==
  /\ \A t \in Threads : at[t] # "waiting"
  /\ Exit("unwait", "poolGone") /\ UNCHANGED <<shutdown, ended>>

EndProcess == Exit("poolGone", "poolGone") /\ ended' = "exited" /\ UNCHANGED shutdown

ExitSteps ==
  \/ SetShutdown \/ Clear \/ DestroyConditions \/ EndProcess
  \/ Join(Producer, "joinProducer", "joinSweeper") \/ Join(Sweeper, "joinSweeper", "clear")

-----------------------------------------------------------------------------
Worker(w) ==
  TakeJob(w) \/ Handle(w) \/ WakeUp(w) \/ LeavePool(w) \/ Finish(w)

Next ==
  \/ MainStarts \/ Accept \/ LeaveLoop \/ JoinWorkers
  \/ \E w \in Workers : Worker(w) \/ WaitForConnection(w) \/ UseDestroyedPool(w)
  \/ ProducerThread \/ SweeperThread \/ SignalHandler \/ ExitSteps
  \/ \E t \in Threads : Signal(t) \/ CallExit(t)

Spec == Init /\ [][Next]_vars

MainRuns == MainStarts \/ (stopped /\ LeaveLoop) \/ JoinWorkers
ExitRuns == SignalHandler \/ ExitSteps \/ \E t \in Threads : CallExit(t)

\* Every thread runs and gets a mutex that is free again and again.  A worker
\* that waits leaves getConnection, by its deadline at the latest
\* (RequestCompletes of ConnectionPool).  Main leaves its loop once stopped.
FairSpec ==
  /\ Spec
  /\ SF_vars(ProducerThread) /\ SF_vars(SweeperThread)
  /\ WF_vars(MainRuns) /\ SF_vars(ExitRuns)
  /\ \A w \in Workers : SF_vars(Worker(w))

-----------------------------------------------------------------------------
\* The pool is never destroyed under its own threads or under a client that
\* waits; when main returns by itself, not under a request at all.
DestroyedWhenUnused ==
  exit = "poolGone" =>
    /\ at[Producer] = "finished" /\ at[Sweeper] = "finished"
    /\ \A w \in Workers : at[w] \notin {"waiting"}
    /\ interrupted = Nobody => jobs = 0 /\ \A w \in Workers : at[w] = "finished"

\* A signal on main or a worker ends the process if it finds the thread
\* outside of the mutexes and of a wait.
SignalEndsProcess ==
  (interrupted \in Workers \cup {Main} /\ ~Inside(interrupted)) ~> ended # "no"

\* Once the accept loop has ended by itself, the process exits.
ReturnEndsProcess ==
  (at[Main] = "joining" /\ interrupted = Nobody) ~> (ended = "exited" \/ interrupted # Nobody)

\* The steps to the end of each thread of the pool once _shutdown is set.
ProducerLeft ==
  CASE at[Producer] = "finished" -> 0 [] at[Producer] \in {"testing", "locked"} -> 1
    [] at[Producer] \in {"waiting", "pushing"} -> 2 [] OTHER -> 3
SweeperLeft ==
  CASE at[Sweeper] = "finished" -> 0 [] at[Sweeper] \in {"testing", "locked"} -> 1 [] OTHER -> 2

PoolThreads == {Producer, Sweeper}
StepsLeft == [t \in PoolThreads |-> IF t = Producer THEN ProducerLeft ELSE SweeperLeft]
WaitingWorkers == {w \in Workers : at[w] = "waiting"}

ShutdownOf == INSTANCE PoolShutdown WITH
  Threads <- PoolThreads, Clients <- Workers, Steps <- 0..3,
  closed <- shutdown, left <- StepsLeft, waiting <- WaitingWorkers, destroyed <- exit = "poolGone"

\* The static pool is shut down as ConnectionPool shuts a pool down, whichever
\* thread the handler stops and whoever calls exit().
ImplementsShutdown == ShutdownOf!Spec

\* main.cc:27, "Press Ctrl+C to shutdown".
SignalAlwaysEndsProcess == interrupted # Nobody ~> ended # "no"
=============================================================================
