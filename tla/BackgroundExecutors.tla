------------------------- MODULE BackgroundExecutors -------------------------
(***************************************************************************)
(* The three bounded pools that run asynchronous work                      *)
(* (carriers/_background.py) and the completions that let one task wait    *)
(* for another (carriers/move/await_result.py).                            *)
(*                                                                         *)
(* A copy of one element range is a move; a residency request waits for    *)
(* the moves its caller submitted; a selection waits for the residency     *)
(* request that promotes its tiles and, when its body is done, submits and *)
(* waits for one that evicts.  A worker that waits is not free for another *)
(* task, so the pools must not wait for each other in a circle.            *)
(***************************************************************************)
EXTENDS Naturals, Sequences, FiniteSets

CONSTANTS Task,
          Work,          \* what each task is: a move, a residency request, a selection
          Awaits,        \* the tasks submitted before a task, which it waits for
          Submits,       \* the tasks it submits and waits for when its body is done
          MaxWorkers     \* _max_workers of each pool

Pools == {"move", "residency", "selection"}

Depth(p) == CASE p = "move" -> 0 [] p = "residency" -> 1 [] p = "selection" -> 2

ASSUME ExecutorsAssumption ==
    /\ Work \in [Task -> Pools]
    /\ MaxWorkers \in [Pools -> Nat \ {0}]
    /\ Awaits \in [Task -> SUBSET Task] /\ Submits \in [Task -> SUBSET Task]
    /\ \A t \in Task : \A d \in Awaits[t] \union Submits[t] : Depth(Work[d]) < Depth(Work[t])

VARIABLES
    threads,     \* the number of started workers of each pool, len(_threads)
    waiting,     \* how many of them wait in _tasks.get()
    tasks,       \* _tasks, the queue of each pool
    stage        \* where each task is

execVars == <<threads, waiting, tasks, stage>>
-----------------------------------------------------------------------------
(* Mutant: residency requests and selections share one pool.               *)
PoolShared(t) == IF Work[t] = "move" THEN "move" ELSE "residency"

(* _MOVE_BACKGROUND_EXECUTOR, _TILED_RESIDENCY_EXECUTOR and                *)
(* _TILED_SELECTION_EXECUTOR.                                              *)
PoolOf(t) == Work[t]

Stages == {"new", "queued", "running", "ending", "done", "refused"}

ExecInit == /\ threads = [p \in Pools |-> 0]
            /\ waiting = [p \in Pools |-> 0]
            /\ tasks = [p \in Pools |-> <<>>]
            /\ stage = [t \in Task |-> "new"]

(* A completion with an outcome: wait() returns at once.                   *)
Terminal(t) == stage[t] \in {"done", "refused"}

(* The task whose worker submits t, if it is no program thread.            *)
Within(t, s) == t \in Submits[s] \/ \E r \in Submits[s] : t \in Awaits[r]

(* A task object is made and submitted by one caller.                      *)
ASSUME SubmitterAssumption == \A t, s, r \in Task : Within(t, s) /\ Within(t, r) => s = r

Inner == {t \in Task : \E s \in Task : Within(t, s)}

(* The thread that submits t has submitted what t waits for.               *)
Submittable(t) == /\ stage[t] = "new"
                  /\ \A d \in Awaits[t] : stage[d] # "new"
                  /\ \A s \in Task : Within(t, s) => stage[s] = "ending"

Served(t) == Awaits[t] = {} \/ \E d \in Awaits[t] : stage[d] # "refused"

(* submit: below the bound a worker is started first; when that fails, the *)
(* task is still queued if the pool has a worker at all.                   *)
Queue(t) == /\ tasks' = [tasks EXCEPT ![PoolOf(t)] = Append(@, t)]
            /\ stage' = [stage EXCEPT ![t] = "queued"]

StartWorker(p) == /\ threads[p] < MaxWorkers[p]
                  /\ threads' = [threads EXCEPT ![p] = @ + 1]
                  /\ waiting' = [waiting EXCEPT ![p] = @ + 1]

(* Mutant: a worker that does not start is never reported.                 *)
KeepAnyWorkers(p) == UNCHANGED <<threads, waiting>>

KeepWorkers(p) == threads[p] > 0 /\ UNCHANGED <<threads, waiting>>

Submit(t) == /\ Submittable(t) /\ Served(t)
             /\ StartWorker(PoolOf(t)) \/ KeepWorkers(PoolOf(t))
             /\ Queue(t)

(* The only worker does not start, or everything t would wait for has been *)
(* refused: the error reaches the caller.                                  *)
RefuseTask(t) == /\ Submittable(t)
                 /\ threads[PoolOf(t)] = 0 \/ ~Served(t)
                 /\ stage' = [stage EXCEPT ![t] = "refused"]
                 /\ UNCHANGED <<threads, waiting, tasks>>

(* _run: a waiting worker takes the oldest task.                           *)
Take(p) == /\ waiting[p] > 0 /\ tasks[p] # <<>>
           /\ waiting' = [waiting EXCEPT ![p] = @ - 1]
           /\ tasks' = [tasks EXCEPT ![p] = Tail(@)]
           /\ stage' = [stage EXCEPT ![Head(tasks[p])] = "running"]
           /\ UNCHANGED threads

(* Mutant: an exception ends the worker.                                   *)
ReturnOrDie(t) == /\ stage' = [stage EXCEPT ![t] = "done"]
                  /\ \/ waiting' = [waiting EXCEPT ![PoolOf(t)] = @ + 1]
                     \/ UNCHANGED waiting
                  /\ UNCHANGED <<threads, tasks>>

(* The task has published its outcome; whether it returned or raised, its  *)
(* worker waits for the next one.                                          *)
Return(t) == /\ stage' = [stage EXCEPT ![t] = "done"]
             /\ waiting' = [waiting EXCEPT ![PoolOf(t)] = @ + 1]
             /\ UNCHANGED <<threads, tasks>>

(* The body, after everything the task awaits is terminal.  A body that    *)
(* succeeds goes on to what it submits itself; one that fails does not.    *)
Body(t) == /\ stage[t] = "running"
           /\ \A d \in Awaits[t] : Terminal(d)
           /\ \/ Return(t)
              \/ /\ Submits[t] # {}
                 /\ stage' = [stage EXCEPT ![t] = "ending"]
                 /\ UNCHANGED <<threads, waiting, tasks>>

Finish(t) == /\ stage[t] = "ending"
             /\ \A d \in Submits[t] : Terminal(d)
             /\ Return(t)

ExecNext == \/ \E t \in Task : Submit(t) \/ RefuseTask(t) \/ Body(t) \/ Finish(t)
            \/ \E p \in Pools : Take(p)

(* While some worker can go on, some worker does: no thread is promised    *)
(* more than that.                                                         *)
WorkerStep == \/ \E p \in Pools : Take(p)
              \/ \E t \in Task : Body(t) \/ Finish(t)
              \/ \E t \in Inner : Submit(t) \/ RefuseTask(t)

ExecFairness == WF_execVars(WorkerStep)

ExecSpec == ExecInit /\ [][ExecNext]_execVars /\ ExecFairness
-----------------------------------------------------------------------------
ExecTypeOK == /\ threads \in [Pools -> Nat]
              /\ waiting \in [Pools -> Nat]
              /\ \A p \in Pools : tasks[p] \in Seq(Task)
              /\ stage \in [Task -> Stages]

Busy(p) == {t \in Task : PoolOf(t) = p /\ stage[t] \in {"running", "ending"}}

(* No worker is lost or taken twice, whatever its tasks raise, a pool      *)
(* keeps its bound, and a task is never accepted into a queue that nobody  *)
(* serves.                                                                 *)
WorkersServe == \A p \in Pools : /\ waiting[p] + Cardinality(Busy(p)) = threads[p]
                                 /\ threads[p] <= MaxWorkers[p]
                                 /\ tasks[p] # <<>> => threads[p] > 0

(* Every task that was accepted ends, although workers wait for tasks of   *)
(* other pools and every pool may have a single worker: in the end nothing *)
(* is queued and no worker is busy.                                        *)
WorkDrains == <>[](\A t \in Task : stage[t] \in {"new", "done", "refused"})
=============================================================================
