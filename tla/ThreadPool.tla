------------------------------ MODULE ThreadPool ------------------------------
(***************************************************************************)
(* xcoro::thread_pool (thread_pool.hpp): worker threads that resume        *)
(* coroutines from one global queue and one queue per worker, with         *)
(* stealing, a condition variable to sleep on, and stop().                 *)
(*                                                                         *)
(* A task is a coroutine: it is queued, or running on a worker, or outside *)
(* the pool.  A queue holds a task through its handle.  state_mutex_       *)
(* covers everything a worker or enqueue() does to the queues and the      *)
(* counters, so each of its critical sections is one step; notifications   *)
(* are sent after it is released and are steps of their own.  The threads  *)
(* sleeping on cv_ are those at "sleep"; a notify_one() wakes any one of   *)
(* them, and they may wake spuriously.                                     *)
(*                                                                         *)
(* A schedule() or yield() that enqueue() refuses, because the pool is     *)
(* being stopped, leaves every variable as it is: the task runs on.        *)
(***************************************************************************)
EXTENDS Integers, SequencesExt

CONSTANTS Workers,   \* indices of threads_
          PoolTasks, \* coroutines
          Stoppers,  \* threads that call stop()
          NoTask     \* the null handle

ASSUME NoTaskAssumption == NoTask \notin PoolTasks
ASSUME WorkersAssumption == IsFiniteSet(Workers)

VARIABLES
  global,     \* global_queue_
  local,      \* local_queues_; the bottom of a deque is its last element
  pending,    \* pending_tasks_
  active,     \* active_workers_
  accepting,  \* accepting_
  wpc,        \* where worker w is
  running,    \* worker_thread()'s local variable task
  spc,        \* where stopper s is
  notifying   \* tasks whose external thread has yet to call notify_one()

queueVars == <<global, local, pending>>
poolVars == <<queueVars, active, accepting, wpc, running, spc, notifying>>

WorkerPoints == {"lock", "sleep", "run", "notify_run", "notify", "finish",
                 "wake_all", "exit"}
StopPoints   == {"idle", "wake_all", "join", "returned", "returned_early"}

PoolInit ==
  /\ global = <<>>
  /\ local = [w \in Workers |-> <<>>]
  /\ pending = 0
  /\ active = 0
  /\ accepting = TRUE
  /\ wpc = [w \in Workers |-> "lock"]
  /\ running = [w \in Workers |-> NoTask]
  /\ spc = [s \in Stoppers |-> "idle"]
  /\ notifying = {}

-----------------------------------------------------------------------------
Queued  == ToSet(global) \cup UNION {ToSet(local[w]) : w \in Workers}
Running == {running[w] : w \in Workers} \ {NoTask}
Outside == PoolTasks \ (Queued \cup Running)

(* should_exit_locked(), for a value of active_workers_.                   *)
MayExit(n) == ~accepting /\ pending = 0 /\ n = 0
ShouldExit == MayExit(active)

WGoto(w, point) == wpc' = [wpc EXCEPT ![w] = point]

(* The two places of enqueue(): behind everything else, or at the bottom   *)
(* of the worker's own queue.                                              *)
PushGlobal(t) ==
  /\ accepting
  /\ global' = Append(global, t)
  /\ pending' = pending + 1
  /\ UNCHANGED local

PushLocal(w, t) ==
  /\ accepting
  /\ local' = [local EXCEPT ![w] = Append(@, t)]
  /\ pending' = pending + 1
  /\ UNCHANGED global

-----------------------------------------------------------------------------
(* Mutant of ScheduleOutside: notify_one() is forgotten.                   *)
ScheduleQuietly(t) ==
  /\ t \in Outside \ notifying
  /\ PushGlobal(t)
  /\ UNCHANGED <<active, accepting, wpc, running, spc, notifying>>

(* co_await pool.schedule() on a thread that is not a worker; each task    *)
(* has one external thread, which has to finish one call before the next.  *)
ScheduleOutside(t) ==
  /\ t \in Outside \ notifying
  /\ PushGlobal(t)
  /\ notifying' = notifying \cup {t}
  /\ UNCHANGED <<active, accepting, wpc, running, spc>>

NotifyOne ==
  IF \E w \in Workers : wpc[w] = "sleep"
    THEN \E w \in Workers : wpc[w] = "sleep" /\ WGoto(w, "lock")
    ELSE UNCHANGED wpc

NotifyOutside(t) ==
  /\ t \in notifying
  /\ NotifyOne
  /\ notifying' = notifying \ {t}
  /\ UNCHANGED <<queueVars, active, accepting, running, spc>>

-----------------------------------------------------------------------------
(* The worker's critical section: wait for work or the end, take a task.   *)
WorkerSleep(w) ==
  /\ wpc[w] = "lock"
  /\ pending = 0 /\ ~ShouldExit
  /\ WGoto(w, "sleep")
  /\ UNCHANGED <<queueVars, active, accepting, running, spc, notifying>>

SleeperWakes(w) ==
  /\ wpc[w] = "sleep"
  /\ WGoto(w, "lock")
  /\ UNCHANGED <<queueVars, active, accepting, running, spc, notifying>>

WorkerExit(w) ==
  /\ wpc[w] = "lock"
  /\ ShouldExit
  /\ WGoto(w, "exit")
  /\ UNCHANGED <<queueVars, active, accepting, running, spc, notifying>>

(* Mutant of TakeTask: the stolen handle stays in its queue.               *)
TakeOrCopyTask(w, t) ==
  /\ \/ /\ local[w] # <<>> /\ t = Last(local[w])
        /\ local' = [local EXCEPT ![w] = Front(@)]
        /\ UNCHANGED global
     \/ /\ local[w] = <<>> /\ global # <<>> /\ t = Head(global)
        /\ global' = Tail(global)
        /\ UNCHANGED local
     \/ /\ local[w] = <<>> /\ global = <<>>
        /\ \E v \in Workers \ {w} : local[v] # <<>> /\ t = Head(local[v])
        /\ UNCHANGED <<local, global>>

(* try_take_task_locked(): the newest task of the worker's own queue, else *)
(* the oldest of the global one, else the oldest of any other worker's     *)
(* (the scan starts at random and takes the first that is not empty).      *)
TakeTask(w, t) ==
  \/ /\ local[w] # <<>> /\ t = Last(local[w])
     /\ local' = [local EXCEPT ![w] = Front(@)]
     /\ UNCHANGED global
  \/ /\ local[w] = <<>> /\ global # <<>> /\ t = Head(global)
     /\ global' = Tail(global)
     /\ UNCHANGED local
  \/ /\ local[w] = <<>> /\ global = <<>>
     /\ \E v \in Workers \ {w} :
          /\ local[v] # <<>> /\ t = Head(local[v])
          /\ local' = [local EXCEPT ![v] = Tail(@)]
     /\ UNCHANGED global

WorkerTake(w) ==
  /\ wpc[w] = "lock"
  /\ pending # 0
  /\ \E t \in PoolTasks : TakeTask(w, t) /\ running' = [running EXCEPT ![w] = t]
  /\ pending' = pending - 1
  /\ active' = active + 1
  /\ WGoto(w, "run")
  /\ UNCHANGED <<accepting, spc, notifying>>

-----------------------------------------------------------------------------
(* task.resume(): what the coroutine does until it suspends.               *)

Suspends(w) == running' = [running EXCEPT ![w] = NoTask]

(* co_await pool.schedule() on the worker.                                 *)
TaskSchedules(w) ==
  /\ wpc[w] = "run"
  /\ PushLocal(w, running[w])
  /\ Suspends(w)
  /\ WGoto(w, "notify")
  /\ UNCHANGED <<active, accepting, spc, notifying>>

(* co_await pool.yield().                                                  *)
TaskYields(w) ==
  /\ wpc[w] = "run"
  /\ PushGlobal(running[w])
  /\ Suspends(w)
  /\ WGoto(w, "notify")
  /\ UNCHANGED <<active, accepting, spc, notifying>>

(* The coroutine ends, or waits for something outside the pool.            *)
TaskLeaves(w) ==
  /\ wpc[w] = "run"
  /\ Suspends(w)
  /\ WGoto(w, "finish")
  /\ UNCHANGED <<queueVars, active, accepting, spc, notifying>>

(* The coroutine starts or resumes another one, which runs on this worker  *)
(* as far as its co_await pool.schedule(); then the coroutine goes on.     *)
TaskStartsTask(w) ==
  /\ wpc[w] = "run"
  /\ \E t \in Outside : PushLocal(w, t)
  /\ WGoto(w, "notify_run")
  /\ UNCHANGED <<active, accepting, running, spc, notifying>>

(* Mutant of WorkerNotify: what a worker enqueues wakes nobody.            *)
WorkerSkipsNotify(w) ==
  /\ wpc[w] \in {"notify", "notify_run"}
  /\ WGoto(w, IF wpc[w] = "notify" THEN "finish" ELSE "run")
  /\ UNCHANGED <<queueVars, active, accepting, running, spc, notifying>>

(* cv_.notify_one() at the end of enqueue() on a worker.                   *)
WorkerNotify(w) ==
  LET next == IF wpc[w] = "notify" THEN "finish" ELSE "run" IN
  /\ wpc[w] \in {"notify", "notify_run"}
  /\ IF \E v \in Workers : wpc[v] = "sleep"
       THEN \E v \in Workers :
              /\ wpc[v] = "sleep"
              /\ wpc' = [wpc EXCEPT ![w] = next, ![v] = "lock"]
       ELSE WGoto(w, next)
  /\ UNCHANGED <<queueVars, active, accepting, running, spc, notifying>>

(* Mutant of WorkerFinish: the last worker to finish wakes nobody.         *)
WorkerFinishesQuietly(w) ==
  /\ wpc[w] = "finish"
  /\ active' = active - 1
  /\ WGoto(w, "lock")
  /\ UNCHANGED <<queueVars, accepting, running, spc, notifying>>

(* resume() has returned; the last one to finish after stop() has to wake  *)
(* the others.                                                             *)
WorkerFinish(w) ==
  /\ wpc[w] = "finish"
  /\ active' = active - 1
  /\ WGoto(w, IF MayExit(active - 1) THEN "wake_all" ELSE "lock")
  /\ UNCHANGED <<queueVars, accepting, running, spc, notifying>>

AwakeAll == [v \in Workers |-> IF wpc[v] = "sleep" THEN "lock" ELSE wpc[v]]

WorkerWakeAll(w) ==
  /\ wpc[w] = "wake_all"
  /\ wpc' = [AwakeAll EXCEPT ![w] = "lock"]
  /\ UNCHANGED <<queueVars, active, accepting, running, spc, notifying>>

-----------------------------------------------------------------------------
(* stop(), also called by the destructor.                                  *)
Stop(s) ==
  /\ spc[s] = "idle"
  /\ accepting' = FALSE
  /\ spc' = [spc EXCEPT ![s] = IF accepting THEN "wake_all" ELSE "returned_early"]
  /\ UNCHANGED <<queueVars, active, wpc, running, notifying>>

StopWakeAll(s) ==
  /\ spc[s] = "wake_all"
  /\ wpc' = AwakeAll
  /\ spc' = [spc EXCEPT ![s] = "join"]
  /\ UNCHANGED <<queueVars, active, accepting, running, notifying>>

StopJoined(s) ==
  /\ spc[s] = "join"
  /\ \A w \in Workers : wpc[w] = "exit"
  /\ spc' = [spc EXCEPT ![s] = "returned"]
  /\ UNCHANGED <<queueVars, active, accepting, wpc, running, notifying>>

-----------------------------------------------------------------------------
(* A worker that has work or must end; a coroutine that reaches its next   *)
(* suspension point.                                                       *)
WorkerStep(w) ==
  \/ WorkerSleep(w) \/ WorkerExit(w) \/ WorkerTake(w)
  \/ WorkerNotify(w) \/ WorkerFinish(w) \/ WorkerWakeAll(w)
TaskSuspends(w) == TaskSchedules(w) \/ TaskYields(w) \/ TaskLeaves(w)
StopStep(s)     == StopWakeAll(s) \/ StopJoined(s)

PoolNext ==
  \/ \E t \in PoolTasks : ScheduleOutside(t) \/ NotifyOutside(t)
  \/ \E w \in Workers :
       WorkerStep(w) \/ SleeperWakes(w) \/ TaskSuspends(w) \/ TaskStartsTask(w)
  \/ \E s \in Stoppers : Stop(s) \/ StopStep(s)

PoolSpec == PoolInit /\ [][PoolNext]_poolVars

(* Threads keep running and no coroutine occupies its worker for ever.     *)
PoolFairSpec ==
  /\ PoolSpec
  /\ \A w \in Workers : WF_poolVars(WorkerStep(w)) /\ WF_poolVars(TaskSuspends(w))
  /\ \A t \in PoolTasks : WF_poolVars(NotifyOutside(t))
  /\ \A s \in Stoppers : WF_poolVars(StopStep(s))

-----------------------------------------------------------------------------
WorkersAt(points) == {w \in Workers : wpc[w] \in points}

(* The types of the code's variables; a worker runs a task exactly while   *)
(* it is inside resume() and the task has not suspended.                   *)
PoolTypeOK ==
  /\ global \in Seq(PoolTasks)
  /\ local \in [Workers -> Seq(PoolTasks)]
  /\ pending \in Nat /\ active \in Nat
  /\ accepting \in BOOLEAN
  /\ wpc \in [Workers -> WorkerPoints]
  /\ running \in [Workers -> PoolTasks \cup {NoTask}]
  /\ \A w \in Workers : running[w] # NoTask <=> wpc[w] \in {"run", "notify_run"}
  /\ spc \in [Stoppers -> StopPoints]
  /\ notifying \subseteq PoolTasks

(* The size of every worker's own queue.                                   *)
LocalSizes == [w \in Workers |-> Len(local[w])]

(* pending_tasks_ counts the queued handles and active_workers_ the        *)
(* workers inside resume(), so the take in worker_thread() cannot fail.    *)
CountersExact ==
  /\ pending = Len(global) + SumFunction(LocalSizes)
  /\ active = Cardinality(WorkersAt({"run", "notify_run", "notify", "finish"}))

(* A handle is in one queue once or running on one worker, never both:     *)
(* with stealing and re-queueing from two sides no coroutine is resumed    *)
(* twice for one suspension.                                               *)
HandlesUnique ==
  pending + Cardinality(WorkersAt({"run", "notify_run"}))
    = Cardinality(Queued \cup Running)

(* No wake-up is lost: while a worker sleeps, every queued task has a      *)
(* worker about to look for work or a notification on its way.             *)
WakeupsCoverWork ==
  WorkersAt({"sleep"}) # {} =>
    pending <= Cardinality(WorkersAt({"lock", "notify", "notify_run"}))
                 + Cardinality(notifying)

(* Nor the one that ends the pool: while a worker sleeps on a drained and  *)
(* stopped pool, somebody is about to wake all.                            *)
ExitIsAnnounced ==
  ShouldExit /\ WorkersAt({"sleep"}) # {} =>
    WorkersAt({"wake_all"}) # {} \/ \E s \in Stoppers : spc[s] = "wake_all"

(* A worker exits only from a drained pool, and the pool stays drained: no *)
(* accepted coroutine is left suspended in a queue nobody serves.          *)
ExitOnlyDrained ==
  WorkersAt({"exit"}) # {} => ~accepting /\ Queued = {} /\ Running = {}

(* The stop() that closed the pool returns when every worker has exited.   *)
StopReturns ==
  \A s \in Stoppers : spc[s] = "wake_all" ~> spc[s] = "returned"

(* The steps that push on a worker's own queue.                            *)
LocalPush == local' # local /\ pending' > pending

(* Once the tasks stop scheduling themselves from inside the pool, every   *)
(* queued task is run, by its own worker, from the global queue, or by     *)
(* being stolen.                                                           *)
QueuedTaskRuns ==
  <>[][~LocalPush]_poolVars => \A t \in PoolTasks : t \in Queued ~> t \in Running

(* What holds of the queues, the counters and the workers in every state:  *)
(* exact counters, no handle twice, no sleep through the end and no exit   *)
(* before it.                                                              *)
PoolInvariant ==
  /\ PoolTypeOK
  /\ CountersExact
  /\ HandlesUnique
  /\ ExitIsAnnounced
  /\ ExitOnlyDrained
=============================================================================
