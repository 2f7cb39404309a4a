---------------------- MODULE BackgroundExecutors_proofs ----------------------
(***************************************************************************)
(* Proofs about BackgroundExecutors, for any tasks, any bounds of the      *)
(* pools and any tasks that wait for each other across pools.              *)
(***************************************************************************)
EXTENDS BackgroundExecutors, FiniteSetTheorems, SequenceTheorems, TLAPS

(* A queue holds, once each, the tasks of its pool that are queued.        *)
Queues ==
    /\ tasks \in [Pools -> Seq(Task)]
    /\ \A p \in Pools : \A i \in 1 .. Len(tasks[p]) :
          /\ PoolOf(tasks[p][i]) = p /\ stage[tasks[p][i]] = "queued"
          /\ \A j \in 1 .. Len(tasks[p]) : tasks[p][i] = tasks[p][j] => i = j

(* Every worker waits or is busy.                                          *)
Workers == \A p \in Pools : IsFiniteSet(Busy(p)) /\ waiting[p] + Cardinality(Busy(p)) = threads[p]

Bounds == \A p \in Pools : threads[p] <= MaxWorkers[p] /\ (tasks[p] # <<>> => threads[p] > 0)

Staffed == ExecTypeOK /\ Queues /\ Workers /\ Bounds

LEMMA PoolOfTask == \A t \in Task : PoolOf(t) \in Pools /\ MaxWorkers[PoolOf(t)] \in Nat \ {0}
  BY ExecutorsAssumption DEF PoolOf

(* A task that gets a stage that is not busy, or has had one.              *)
LEMMA BusySame ==
    ASSUME NEW t \in Task, NEW s, stage \in [Task -> Stages], stage' = [stage EXCEPT ![t] = s],
           s \in {"running", "ending"} <=> stage[t] \in {"running", "ending"}
    PROVE  \A p \in Pools : Busy(p)' = Busy(p)
  BY DEF Busy

LEMMA BusyMore ==
    ASSUME NEW t \in Task, stage \in [Task -> Stages], stage' = [stage EXCEPT ![t] = "running"],
           stage[t] \notin {"running", "ending"}
    PROVE  /\ \A p \in Pools \ {PoolOf(t)} : Busy(p)' = Busy(p)
           /\ t \notin Busy(PoolOf(t)) /\ Busy(PoolOf(t))' = Busy(PoolOf(t)) \union {t}
  BY DEF Busy

LEMMA BusyLess ==
    ASSUME NEW t \in Task, stage \in [Task -> Stages], stage' = [stage EXCEPT ![t] = "done"],
           stage[t] \in {"running", "ending"}
    PROVE  /\ \A p \in Pools \ {PoolOf(t)} : Busy(p)' = Busy(p)
           /\ t \in Busy(PoolOf(t)) /\ Busy(PoolOf(t))' = Busy(PoolOf(t)) \ {t}
  BY DEF Busy

LEMMA SubmitStaffed == ASSUME Staffed, NEW t \in Task, Submit(t) PROVE Staffed'
<1> DEFINE p == PoolOf(t)
<1>1. p \in Pools /\ stage[t] = "new" /\ stage \in [Task -> Stages] /\ MaxWorkers[p] \in Nat \ {0}
  BY PoolOfTask DEF Submit, Submittable, Staffed, ExecTypeOK
<1>2. /\ tasks' = [tasks EXCEPT ![p] = Append(tasks[p], t)]
      /\ stage' = [stage EXCEPT ![t] = "queued"]
  BY DEF Submit, Queue
<1>3. \A q \in Pools : Busy(q)' = Busy(q)
  BY <1>1, <1>2, BusySame
<1>4. tasks \in [Pools -> Seq(Task)] /\ Append(tasks[p], t) \in Seq(Task)
  BY <1>1 DEF Staffed, Queues
<1>5. \/ /\ threads[p] < MaxWorkers[p]
         /\ threads' = [threads EXCEPT ![p] = threads[p] + 1]
         /\ waiting' = [waiting EXCEPT ![p] = waiting[p] + 1]
      \/ threads[p] > 0 /\ UNCHANGED <<threads, waiting>>
  BY DEF Submit, StartWorker, KeepWorkers
<1> HIDE DEF p
<1>6. threads \in [Pools -> Nat] /\ waiting \in [Pools -> Nat]
  BY DEF Staffed, ExecTypeOK
<1>7. threads' \in [Pools -> Nat] /\ waiting' \in [Pools -> Nat]
  BY <1>1, <1>5, <1>6
<1>8. ExecTypeOK'
  BY <1>1, <1>2, <1>4, <1>7 DEF ExecTypeOK, Stages
<1>9. Queues'
  <2>1. tasks' \in [Pools -> Seq(Task)]
    BY <1>1, <1>2, <1>4
  <2>2. ASSUME NEW q \in Pools, NEW i \in 1 .. Len(tasks[q])
        PROVE  tasks[q][i] \in Task /\ tasks[q][i] # t
    BY <1>1, <1>4, <2>2, ElementOfSeq DEF Staffed, Queues
  <2>3. /\ Len(tasks'[p]) = Len(tasks[p]) + 1 /\ Len(tasks[p]) \in Nat
        /\ tasks'[p][Len(tasks[p]) + 1] = t
        /\ \A i \in 1 .. Len(tasks[p]) : tasks'[p][i] = tasks[p][i]
    BY <1>1, <1>2, <1>4
  <2>4. ASSUME NEW q \in Pools \ {p}, NEW i \in 1 .. Len(tasks'[q])
        PROVE  /\ PoolOf(tasks'[q][i]) = q /\ stage'[tasks'[q][i]] = "queued"
               /\ \A j \in 1 .. Len(tasks'[q]) : tasks'[q][i] = tasks'[q][j] => i = j
    <3>1. tasks'[q] = tasks[q]
      BY <1>2, <1>4, <2>4
    <3>2. stage'[tasks[q][i]] = stage[tasks[q][i]]
      BY <1>1, <1>2, <2>2, <3>1
    <3> QED BY <3>1, <3>2 DEF Staffed, Queues
  <2>5. ASSUME NEW i \in 1 .. Len(tasks'[p])
        PROVE  /\ PoolOf(tasks'[p][i]) = p /\ stage'[tasks'[p][i]] = "queued"
               /\ \A j \in 1 .. Len(tasks'[p]) : tasks'[p][i] = tasks'[p][j] => i = j
    <3>1. CASE i = Len(tasks[p]) + 1
      <4>1. tasks'[p][i] = t /\ stage'[t] = "queued" /\ PoolOf(t) = p
        BY <1>1, <1>2, <2>3, <3>1 DEF p
      <4>2. \A j \in 1 .. Len(tasks[p]) : tasks'[p][j] # t
        BY <1>1, <2>2, <2>3
      <4> QED BY <2>3, <3>1, <4>1, <4>2
    <3>2. CASE i \in 1 .. Len(tasks[p])
      <4>1. tasks'[p][i] = tasks[p][i] /\ tasks[p][i] \in Task /\ tasks[p][i] # t
        BY <1>1, <2>2, <2>3, <3>2
      <4>2. stage'[tasks[p][i]] = stage[tasks[p][i]]
        BY <1>1, <1>2, <4>1
      <4>3. /\ PoolOf(tasks[p][i]) = p /\ stage[tasks[p][i]] = "queued"
            /\ \A j \in 1 .. Len(tasks[p]) : tasks[p][i] = tasks[p][j] => i = j
        BY <1>1, <3>2 DEF Staffed, Queues
      <4>4. ASSUME NEW j \in 1 .. Len(tasks'[p]), tasks'[p][i] = tasks'[p][j] PROVE i = j
        <5>1. j \in 1 .. Len(tasks[p])
          BY <2>3, <4>1, <4>4
        <5> QED BY <2>3, <4>1, <4>3, <4>4, <5>1
      <4> QED BY <4>1, <4>2, <4>3, <4>4
    <3> QED BY <2>3, <2>5, <3>1, <3>2
  <2> QED BY <2>1, <2>4, <2>5 DEF Queues
<1>10. Workers'
  <2>1. ASSUME NEW q \in Pools PROVE waiting'[q] + Cardinality(Busy(q)) = threads'[q]
    <3>1. Cardinality(Busy(q)) \in Nat /\ waiting[q] + Cardinality(Busy(q)) = threads[q]
      BY FS_CardinalityType DEF Staffed, Workers
    <3> QED BY <1>1, <1>5, <1>6, <3>1
  <2> QED BY <1>3, <2>1 DEF Staffed, Workers
<1>11. Bounds'
  <2>1. ASSUME NEW q \in Pools
        PROVE threads'[q] <= MaxWorkers[q] /\ (tasks'[q] # <<>> => threads'[q] > 0)
    <3>1. CASE q = p
      BY <1>1, <1>5, <1>6, <3>1 DEF Staffed, Bounds
    <3>2. CASE q # p
      BY <1>2, <1>4, <1>5, <1>6, <3>2 DEF Staffed, Bounds
    <3> QED BY <3>1, <3>2
  <2> QED BY <2>1 DEF Bounds
<1> QED BY <1>8, <1>9, <1>10, <1>11 DEF Staffed

(* A step that leaves the queues alone and puts no queued task elsewhere.  *)
LEMMA QueuesKept ==
    ASSUME Queues, stage \in [Task -> Stages], NEW t \in Task, NEW s,
           stage' = [stage EXCEPT ![t] = s], stage[t] # "queued", tasks' = tasks
    PROVE  Queues'
<1>1. ASSUME NEW p \in Pools, NEW i \in 1 .. Len(tasks[p]) PROVE stage'[tasks[p][i]] = "queued"
  <2>1. tasks[p][i] \in Task /\ stage[tasks[p][i]] = "queued"
    BY <1>1, ElementOfSeq DEF Queues
  <2> QED BY <2>1
<1> QED BY <1>1 DEF Queues

LEMMA RefuseStaffed == ASSUME Staffed, NEW t \in Task, RefuseTask(t) PROVE Staffed'
<1>1. /\ stage \in [Task -> Stages] /\ stage' = [stage EXCEPT ![t] = "refused"] /\ stage[t] = "new"
      /\ UNCHANGED <<threads, waiting, tasks>>
  BY DEF RefuseTask, Submittable, Staffed, ExecTypeOK
<1>2. \A q \in Pools : Busy(q)' = Busy(q)
  BY <1>1, BusySame
<1>3. Queues'
  BY <1>1, QueuesKept DEF Staffed
<1> QED BY <1>1, <1>2, <1>3 DEF Staffed, ExecTypeOK, Workers, Bounds, Stages

LEMMA ReturnStaffed ==
    ASSUME Staffed, NEW t \in Task, stage[t] \in {"running", "ending"}, Return(t)
    PROVE  Staffed'
<1> DEFINE p == PoolOf(t)
<1>1. /\ stage \in [Task -> Stages] /\ stage' = [stage EXCEPT ![t] = "done"] /\ p \in Pools
      /\ waiting' = [waiting EXCEPT ![p] = waiting[p] + 1] /\ UNCHANGED <<threads, tasks>>
  BY PoolOfTask DEF Return, Staffed, ExecTypeOK
<1>2. /\ \A q \in Pools \ {p} : Busy(q)' = Busy(q)
      /\ t \in Busy(p) /\ Busy(p)' = Busy(p) \ {t}
  BY <1>1, BusyLess
<1> HIDE DEF p
<1>3. waiting \in [Pools -> Nat] /\ threads \in [Pools -> Nat]
  BY DEF Staffed, ExecTypeOK
<1>4. Queues'
  BY <1>1, QueuesKept DEF Staffed
<1>5. Workers'
  <2>1. IsFiniteSet(Busy(p)') /\ Cardinality(Busy(p)') = Cardinality(Busy(p)) - 1
        /\ Cardinality(Busy(p)) \in Nat
    BY <1>1, <1>2, FS_RemoveElement, FS_CardinalityType DEF Staffed, Workers
  <2>2. waiting'[p] + Cardinality(Busy(p)') = threads'[p]
    BY <1>1, <1>3, <2>1 DEF Staffed, Workers
  <2>3. ASSUME NEW q \in Pools \ {p}
        PROVE  IsFiniteSet(Busy(q)') /\ waiting'[q] + Cardinality(Busy(q)') = threads'[q]
    BY <1>1, <1>2, <1>3 DEF Staffed, Workers
  <2> QED BY <2>1, <2>2, <2>3 DEF Workers
<1>6. ExecTypeOK'
  BY <1>1, <1>3 DEF Staffed, ExecTypeOK, Stages
<1> QED BY <1>1, <1>4, <1>5, <1>6 DEF Staffed, Bounds

LEMMA EndingStaffed ==
    ASSUME Staffed, NEW t \in Task, stage[t] = "running", stage' = [stage EXCEPT ![t] = "ending"],
           UNCHANGED <<threads, waiting, tasks>>
    PROVE  Staffed'
<1>1. stage \in [Task -> Stages]
  BY DEF Staffed, ExecTypeOK
<1>2. \A q \in Pools : Busy(q)' = Busy(q)
  BY <1>1, BusySame
<1>3. Queues'
  BY <1>1, QueuesKept DEF Staffed
<1> QED BY <1>1, <1>2, <1>3 DEF Staffed, ExecTypeOK, Workers, Bounds, Stages

LEMMA TakeStaffed == ASSUME Staffed, NEW p \in Pools, Take(p) PROVE Staffed'
<1> DEFINE t == Head(tasks[p])
<1>1. tasks \in [Pools -> Seq(Task)] /\ tasks[p] \in Seq(Task) /\ tasks[p] # <<>>
  BY DEF Take, Staffed, Queues
<1>2. /\ t \in Task /\ t = tasks[p][1] /\ Len(tasks[p]) \in Nat \ {0} /\ Tail(tasks[p]) \in Seq(Task)
      /\ Len(Tail(tasks[p])) = Len(tasks[p]) - 1
      /\ \A i \in 1 .. Len(tasks[p]) - 1 : Tail(tasks[p])[i] = tasks[p][i + 1]
  BY <1>1, HeadTailProperties, ElementOfSeq
<1>3. stage[t] = "queued" /\ PoolOf(t) = p
  BY <1>2 DEF Staffed, Queues
<1>4. /\ waiting' = [waiting EXCEPT ![p] = waiting[p] - 1] /\ waiting[p] > 0 /\ threads' = threads
      /\ tasks' = [tasks EXCEPT ![p] = Tail(tasks[p])] /\ stage' = [stage EXCEPT ![t] = "running"]
  BY DEF Take
<1> HIDE DEF t
<1>5. stage \in [Task -> Stages] /\ waiting \in [Pools -> Nat] /\ threads \in [Pools -> Nat]
  BY DEF Staffed, ExecTypeOK
<1>6. /\ \A q \in Pools \ {p} : Busy(q)' = Busy(q)
      /\ t \notin Busy(p) /\ Busy(p)' = Busy(p) \union {t}
  BY <1>2, <1>3, <1>4, <1>5, BusyMore
<1>7. Workers'
  <2>1. IsFiniteSet(Busy(p)') /\ Cardinality(Busy(p)') = Cardinality(Busy(p)) + 1
        /\ Cardinality(Busy(p)) \in Nat
    BY <1>6, FS_AddElement, FS_CardinalityType DEF Staffed, Workers
  <2>2. waiting'[p] + Cardinality(Busy(p)') = threads'[p]
    BY <1>4, <1>5, <2>1 DEF Staffed, Workers
  <2>3. ASSUME NEW q \in Pools \ {p}
        PROVE  IsFiniteSet(Busy(q)') /\ waiting'[q] + Cardinality(Busy(q)') = threads'[q]
    BY <1>4, <1>5, <1>6 DEF Staffed, Workers
  <2> QED BY <2>1, <2>2, <2>3 DEF Workers
<1>8. Queues'
  <2>1. tasks' \in [Pools -> Seq(Task)]
    BY <1>1, <1>2, <1>4
  <2>2. ASSUME NEW q \in Pools, NEW i \in 1 .. Len(tasks'[q])
        PROVE  \E k \in 1 .. Len(tasks[q]) :
                  /\ k = IF q = p THEN i + 1 ELSE i
                  /\ tasks'[q][i] = tasks[q][k] /\ tasks[q][k] # t
    <3>1. CASE q = p
      <4>1. tasks'[p] = Tail(tasks[p]) /\ i + 1 \in 1 .. Len(tasks[p]) /\ tasks'[p][i] = tasks[p][i + 1]
        BY <1>1, <1>2, <1>4, <2>2, <3>1
      <4>2. tasks[p][i + 1] # t
        BY <1>2, <2>2, <4>1 DEF Staffed, Queues
      <4> QED BY <3>1, <4>1, <4>2
    <3>2. CASE q # p
      <4>1. tasks'[q] = tasks[q]
        BY <1>1, <1>4, <3>2
      <4>2. tasks[q][i] # t
        BY <1>3, <2>2, <3>2, <4>1 DEF Staffed, Queues
      <4> QED BY <2>2, <3>2, <4>1, <4>2
    <3> QED BY <3>1, <3>2
  <2>3. ASSUME NEW q \in Pools, NEW i \in 1 .. Len(tasks'[q])
        PROVE  /\ PoolOf(tasks'[q][i]) = q /\ stage'[tasks'[q][i]] = "queued"
               /\ \A j \in 1 .. Len(tasks'[q]) : tasks'[q][i] = tasks'[q][j] => i = j
    <3>1. PICK k \in 1 .. Len(tasks[q]) : /\ k = IF q = p THEN i + 1 ELSE i
                                          /\ tasks'[q][i] = tasks[q][k] /\ tasks[q][k] # t
      BY <2>2, <2>3
    <3>2. tasks[q] \in Seq(Task)
      BY <1>1
    <3>3. tasks[q][k] \in Task
      BY <3>1, <3>2, ElementOfSeq
    <3>4. PoolOf(tasks[q][k]) = q /\ stage'[tasks[q][k]] = "queued"
      BY <1>4, <1>5, <3>1, <3>3 DEF Staffed, Queues
    <3>5. ASSUME NEW j \in 1 .. Len(tasks'[q]), tasks'[q][i] = tasks'[q][j] PROVE i = j
      <4>1. PICK l \in 1 .. Len(tasks[q]) : /\ l = IF q = p THEN j + 1 ELSE j
                                            /\ tasks'[q][j] = tasks[q][l]
        BY <2>2, <3>5
      <4>2. k = l
        BY <3>1, <3>5, <4>1 DEF Staffed, Queues
      <4>3. i \in Int /\ j \in Int
        OBVIOUS
      <4> QED BY <3>1, <4>1, <4>2, <4>3
    <3> QED BY <3>1, <3>4, <3>5
  <2> QED BY <2>1, <2>3 DEF Queues
<1>9. ExecTypeOK'
  <2>1. waiting' \in [Pools -> Nat] /\ threads' \in [Pools -> Nat] /\ stage' \in [Task -> Stages]
    BY <1>2, <1>4, <1>5 DEF Stages
  <2> QED BY <1>8, <2>1 DEF ExecTypeOK, Queues
<1>10. Bounds'
  BY <1>1, <1>4 DEF Staffed, Bounds
<1> QED BY <1>7, <1>8, <1>9, <1>10 DEF Staffed

LEMMA InitStaffed == ExecInit => Staffed
<1> SUFFICES ASSUME ExecInit PROVE Staffed
  OBVIOUS
<1>1. \A p \in Pools : Busy(p) = {}
  BY DEF ExecInit, Busy
<1>2. tasks \in [Pools -> Seq(Task)] /\ \A p \in Pools : tasks[p] = <<>> /\ Len(tasks[p]) = 0
  BY EmptySeq DEF ExecInit
<1>3. ExecTypeOK /\ Bounds
  BY <1>2, ExecutorsAssumption DEF ExecInit, ExecTypeOK, Bounds, Stages
<1>4. Workers
  <2>1. IsFiniteSet({}) /\ Cardinality({}) = 0
    BY FS_EmptySet
  <2>2. ASSUME NEW p \in Pools
        PROVE  IsFiniteSet(Busy(p)) /\ waiting[p] + Cardinality(Busy(p)) = threads[p]
    <3>1. waiting[p] = 0 /\ threads[p] = 0
      BY DEF ExecInit
    <3>2. IsFiniteSet(Busy(p)) /\ Cardinality(Busy(p)) = 0
      BY ONLY <1>1, <2>1, <2>2
    <3> QED BY <3>1, <3>2
  <2> QED BY <2>2 DEF Workers
<1> QED BY <1>2, <1>3, <1>4 DEF Staffed, Queues

LEMMA StaffedInvariant == ExecSpec => []Staffed
<1>1. ASSUME Staffed, [ExecNext]_execVars PROVE Staffed'
  <2>1. CASE UNCHANGED execVars
    BY <1>1, <2>1 DEF execVars, Staffed, ExecTypeOK, Queues, Workers, Bounds, Busy
  <2>2. ASSUME NEW t \in Task, Body(t) PROVE Staffed'
    BY <1>1, <2>2, ReturnStaffed, EndingStaffed DEF Body
  <2>3. ASSUME NEW t \in Task, Finish(t) PROVE Staffed'
    BY <1>1, <2>3, ReturnStaffed DEF Finish
  <2> QED BY <1>1, <2>1, <2>2, <2>3, SubmitStaffed, RefuseStaffed, TakeStaffed DEF ExecNext
<1> QED BY <1>1, InitStaffed, PTL DEF ExecSpec

(* No worker is lost or taken twice, whatever its tasks raise, a pool      *)
(* keeps its bound, and no task is accepted into a queue nobody serves.    *)
THEOREM WorkersAlwaysServe == ExecSpec => []WorkersServe
<1>1. Staffed => WorkersServe
  BY DEF Staffed, Workers, Bounds, WorkersServe
<1> QED BY <1>1, StaffedInvariant, PTL
-----------------------------------------------------------------------------
(* Nobody waits in a circle.                                               *)

(* What a task waits for has been submitted before it, and a queued task   *)
(* is in the queue of its pool.                                            *)
Waits == \A t \in Task :
            /\ stage[t] # "new" => \A d \in Awaits[t] : stage[d] # "new"
            /\ stage[t] = "queued" =>
                  \E i \in 1 .. Len(tasks[PoolOf(t)]) : tasks[PoolOf(t)][i] = t

Active(t) == stage[t] \in {"queued", "running", "ending"}

(* Some worker can take a task or go on with one: the guards of the        *)
(* disjuncts of WorkerStep.                                                *)
Able == \/ \E p \in Pools : waiting[p] > 0 /\ tasks[p] # <<>>
        \/ \E t \in Task : stage[t] = "running" /\ \A d \in Awaits[t] : Terminal(d)
        \/ \E t \in Task : stage[t] = "ending" /\ \A d \in Submits[t] : Terminal(d)
        \/ \E t \in Inner : Submittable(t)

NeverStuck == (\E t \in Task : Active(t)) => Able

LEMMA WaitsKept ==
    ASSUME Staffed, Waits, NEW t \in Task, NEW s, s # "new", s # "queued",
           stage' = [stage EXCEPT ![t] = s], tasks' = tasks,
           stage[t] = "new" => \A d \in Awaits[t] : stage[d] # "new"
    PROVE  Waits'
<1>1. stage \in [Task -> Stages] /\ \A x \in Task : Awaits[x] \subseteq Task
  BY ExecutorsAssumption DEF Staffed, ExecTypeOK
<1>2. \A d \in Task : stage[d] # "new" => stage'[d] # "new"
  BY <1>1
<1>3. ASSUME NEW x \in Task, stage'[x] # "new" PROVE \A d \in Awaits[x] : stage'[d] # "new"
  <2>1. \A d \in Awaits[x] : stage[d] # "new"
    BY <1>1, <1>3 DEF Waits
  <2> QED BY <1>1, <1>2, <2>1
<1>4. ASSUME NEW x \in Task, stage'[x] = "queued"
      PROVE  \E i \in 1 .. Len(tasks[PoolOf(x)]) : tasks[PoolOf(x)][i] = x
  <2>1. stage[x] = "queued"
    BY <1>1, <1>4
  <2> QED BY <2>1 DEF Waits
<1> QED BY <1>3, <1>4 DEF Waits, PoolOf

LEMMA SubmitWaits == ASSUME Staffed, Waits, NEW t \in Task, Submit(t) PROVE Waits'
<1> DEFINE p == PoolOf(t)
<1>1. /\ p \in Pools /\ stage \in [Task -> Stages] /\ \A x \in Task : Awaits[x] \subseteq Task
      /\ tasks \in [Pools -> Seq(Task)] /\ \A d \in Awaits[t] : stage[d] # "new"
  BY PoolOfTask, ExecutorsAssumption DEF Submit, Submittable, Staffed, ExecTypeOK, Queues
<1>2. tasks' = [tasks EXCEPT ![p] = Append(tasks[p], t)] /\ stage' = [stage EXCEPT ![t] = "queued"]
  BY DEF Submit, Queue
<1>3. p = PoolOf(t)
  OBVIOUS
<1> HIDE DEF p
<1>4. /\ Len(tasks'[p]) = Len(tasks[p]) + 1 /\ Len(tasks[p]) \in Nat
      /\ tasks'[p][Len(tasks[p]) + 1] = t
      /\ \A i \in 1 .. Len(tasks[p]) : tasks'[p][i] = tasks[p][i]
      /\ \A q \in Pools \ {p} : tasks'[q] = tasks[q]
  BY <1>1, <1>2
<1>5. ASSUME NEW x \in Task, stage'[x] # "new" PROVE \A d \in Awaits[x] : stage'[d] # "new"
  <2>1. \A d \in Awaits[x] : stage[d] # "new"
    BY <1>1, <1>2, <1>5 DEF Waits
  <2> QED BY <1>1, <1>2, <2>1
<1>6. ASSUME NEW x \in Task, stage'[x] = "queued"
      PROVE  \E i \in 1 .. Len(tasks'[PoolOf(x)]) : tasks'[PoolOf(x)][i] = x
  <2>1. CASE x = t
    BY <1>3, <1>4, <2>1
  <2>2. CASE x # t
    <3>1. stage[x] = "queued" /\ PoolOf(x) \in Pools
      BY <1>1, <1>2, <1>6, <2>2, PoolOfTask
    <3>2. PICK i \in 1 .. Len(tasks[PoolOf(x)]) : tasks[PoolOf(x)][i] = x
      BY <3>1 DEF Waits
    <3>3. CASE PoolOf(x) = p
      BY <1>4, <3>2, <3>3
    <3>4. CASE PoolOf(x) # p
      BY <1>4, <3>1, <3>2, <3>4
    <3> QED BY <3>3, <3>4
  <2> QED BY <2>1, <2>2
<1> QED BY <1>5, <1>6 DEF Waits, PoolOf

LEMMA TakeWaits == ASSUME Staffed, Waits, NEW p \in Pools, Take(p) PROVE Waits'
<1> DEFINE t == Head(tasks[p])
<1>1. tasks \in [Pools -> Seq(Task)] /\ tasks[p] \in Seq(Task) /\ tasks[p] # <<>>
  BY DEF Take, Staffed, Queues
<1>2. /\ t \in Task /\ t = tasks[p][1] /\ Len(tasks[p]) \in Nat \ {0}
      /\ Len(Tail(tasks[p])) = Len(tasks[p]) - 1
      /\ \A i \in 1 .. Len(tasks[p]) - 1 : Tail(tasks[p])[i] = tasks[p][i + 1]
  BY <1>1, HeadTailProperties, ElementOfSeq
<1>3. tasks' = [tasks EXCEPT ![p] = Tail(tasks[p])] /\ stage' = [stage EXCEPT ![t] = "running"]
  BY DEF Take
<1>4. stage[t] = "queued"
  BY <1>2 DEF Staffed, Queues
<1> HIDE DEF t
<1>5. stage \in [Task -> Stages] /\ \A x \in Task : Awaits[x] \subseteq Task
  BY ExecutorsAssumption DEF Staffed, ExecTypeOK
<1>6. ASSUME NEW x \in Task, stage'[x] # "new" PROVE \A d \in Awaits[x] : stage'[d] # "new"
  <2>1. \A d \in Awaits[x] : stage[d] # "new"
    BY <1>3, <1>4, <1>5, <1>6 DEF Waits
  <2> QED BY <1>3, <1>5, <2>1
<1>7. ASSUME NEW x \in Task, stage'[x] = "queued"
      PROVE  \E i \in 1 .. Len(tasks'[PoolOf(x)]) : tasks'[PoolOf(x)][i] = x
  <2>1. stage[x] = "queued" /\ x # t /\ PoolOf(x) \in Pools
    BY <1>2, <1>3, <1>5, <1>7, PoolOfTask
  <2>2. PICK i \in 1 .. Len(tasks[PoolOf(x)]) : tasks[PoolOf(x)][i] = x
    BY <2>1 DEF Waits
  <2>3. CASE PoolOf(x) = p
    <3>1. i # 1 /\ i \in Int /\ 1 <= i /\ i <= Len(tasks[p])
      BY <1>2, <2>1, <2>2, <2>3
    <3>2. i - 1 \in 1 .. Len(tasks[p]) - 1 /\ (i - 1) + 1 = i
      BY <1>2, <3>1
    <3>3. tasks'[p] = Tail(tasks[p])
      BY <1>1, <1>3
    <3>4. tasks'[p][i - 1] = x
      BY <1>2, <2>2, <2>3, <3>2, <3>3
    <3> QED BY <1>2, <2>3, <3>2, <3>3, <3>4
  <2>4. CASE PoolOf(x) # p
    BY <1>1, <1>3, <2>1, <2>2, <2>4
  <2> QED BY <2>3, <2>4
<1> QED BY <1>6, <1>7 DEF Waits, PoolOf

LEMMA WaitsInvariant == ExecSpec => [](Staffed /\ Waits)
<1>1. ExecInit => Waits
  BY ExecutorsAssumption DEF ExecInit, Waits
<1>2. ASSUME Staffed, Waits, [ExecNext]_execVars PROVE Waits'
  <2>1. CASE UNCHANGED execVars
    BY <1>2, <2>1 DEF execVars, Waits, PoolOf
  <2>2. ASSUME NEW t \in Task, RefuseTask(t) PROVE Waits'
    <3>1. stage' = [stage EXCEPT ![t] = "refused"] /\ tasks' = tasks /\ \A d \in Awaits[t] : stage[d] # "new"
      BY <2>2 DEF RefuseTask, Submittable
    <3> QED BY <1>2, <3>1, WaitsKept
  <2>3. ASSUME NEW t \in Task, Body(t) \/ Finish(t) PROVE Waits'
    <3>1. /\ \E s \in {"done", "ending"} : stage' = [stage EXCEPT ![t] = s]
          /\ tasks' = tasks /\ stage[t] # "new"
      BY <2>3 DEF Body, Finish, Return
    <3> QED BY <1>2, <3>1, WaitsKept
  <2> QED BY <1>2, <2>1, <2>2, <2>3, SubmitWaits, TakeWaits DEF ExecNext
<1> QED BY <1>1, <1>2, StaffedInvariant, PTL DEF ExecSpec

(* Of the active tasks one has the least depth.                            *)
LEMMA Deepest ==
    ASSUME NEW t \in Task, Active(t)
    PROVE  \E d \in Task : Active(d) /\ \A x \in Task : Active(x) => Depth(Work[d]) <= Depth(Work[x])
<1>1. \A x \in Task : Depth(Work[x]) \in {0, 1, 2}
  BY ExecutorsAssumption DEF Depth, Pools
<1>2. CASE \E d \in Task : Active(d) /\ Depth(Work[d]) = 0
  BY <1>1, <1>2
<1>3. CASE /\ ~\E d \in Task : Active(d) /\ Depth(Work[d]) = 0
           /\ \E d \in Task : Active(d) /\ Depth(Work[d]) = 1
  BY <1>1, <1>3
<1>4. CASE \A d \in Task : Active(d) => Depth(Work[d]) = 2
  BY <1>4
<1> QED BY <1>1, <1>2, <1>3, <1>4

LEMMA SomebodyGoesOn == ASSUME Staffed, Waits PROVE NeverStuck
<1> SUFFICES ASSUME NEW t0 \in Task, Active(t0) PROVE Able
  BY DEF NeverStuck
<1>1. PICK t \in Task : Active(t) /\ \A x \in Task : Active(x) => Depth(Work[t]) <= Depth(Work[x])
  BY Deepest
<1>a. /\ stage \in [Task -> Stages] /\ Work \in [Task -> Pools]
      /\ \A x \in Task : Awaits[x] \subseteq Task /\ Submits[x] \subseteq Task
      /\ \A x \in Task : Depth(Work[x]) \in {0, 1, 2}
      /\ \A x \in Task : \A d \in Awaits[x] \union Submits[x] : Depth(Work[d]) < Depth(Work[x])
  BY ExecutorsAssumption DEF Staffed, ExecTypeOK, Depth, Pools
<1> DEFINE p == PoolOf(t)
<1>b. p \in Pools /\ p = Work[t]
  BY PoolOfTask DEF PoolOf
<1> HIDE DEF p
(* A task that waits for deeper ones only waits for tasks that are over,   *)
(* or were never submitted.                                                *)
<1>2. ASSUME NEW b \in Task, Depth(Work[b]) = Depth(Work[t]), NEW d \in Awaits[b] \union Submits[b],
             stage[d] # "new"
      PROVE  Terminal(d)
  <2>1. d \in Task /\ ~Active(d)
    BY <1>1, <1>2, <1>a
  <2> QED BY <1>2, <1>a, <2>1 DEF Active, Terminal, Stages
<1>3. ASSUME NEW b \in Task, Depth(Work[b]) = Depth(Work[t]), stage[b] = "running" PROVE Able
  <2>1. \A d \in Awaits[b] : stage[d] # "new"
    BY <1>3 DEF Waits
  <2> QED BY <1>2, <1>3, <2>1 DEF Able
<1>4. ASSUME NEW b \in Task, Depth(Work[b]) = Depth(Work[t]), stage[b] = "ending" PROVE Able
  <2>1. CASE \A d \in Submits[b] : stage[d] # "new"
    BY <1>2, <1>4, <2>1 DEF Able
  <2>2. ASSUME NEW d \in Submits[b], stage[d] = "new" PROVE Able
    <3>1. d \in Task /\ Within(d, b) /\ Depth(Work[d]) <= 1
      BY <1>a, <2>2 DEF Within
    <3>2. ASSUME NEW r \in Task, Within(r, b), stage[r] = "new", \A x \in Awaits[r] : stage[x] # "new"
          PROVE  Able
      <4>1. r \in Inner /\ \A s \in Task : Within(r, s) => s = b
        BY <3>2, SubmitterAssumption DEF Inner
      <4>2. Submittable(r)
        BY <1>4, <3>2, <4>1 DEF Submittable
      <4> QED BY <4>1, <4>2 DEF Able
    <3>3. CASE \A x \in Awaits[d] : stage[x] # "new"
      BY <2>2, <3>1, <3>2, <3>3
    <3>4. ASSUME NEW r \in Awaits[d], stage[r] = "new" PROVE Able
      <4>1. r \in Task /\ Within(r, b) /\ Depth(Work[r]) = 0
        BY <1>a, <3>1, <3>4 DEF Within
      <4>2. Awaits[r] = {}
        BY <1>a, <4>1
      <4> QED BY <3>2, <3>4, <4>1, <4>2
    <3> QED BY <3>3, <3>4
  <2> QED BY <2>1, <2>2
<1>5. CASE stage[t] = "queued"
  <2>1. tasks[p] # <<>> /\ threads[p] > 0
    <3>1. tasks[p] \in Seq(Task) /\ \E i \in 1 .. Len(tasks[p]) : tasks[p][i] = t
      BY <1>5, <1>b DEF p, Waits, Staffed, Queues
    <3>2. tasks[p] # <<>>
      BY <3>1
    <3> QED BY <1>b, <3>2 DEF Staffed, Bounds
  <2>2. CASE waiting[p] > 0
    BY <1>b, <2>1, <2>2 DEF Able
  <2>3. CASE ~(waiting[p] > 0)
    <3>1. waiting[p] \in Nat /\ waiting[p] + Cardinality(Busy(p)) = threads[p] /\ IsFiniteSet(Busy(p))
      BY <1>b DEF Staffed, ExecTypeOK, Workers
    <3>2. Cardinality(Busy(p)) # 0
      BY <2>1, <2>3, <3>1, FS_CardinalityType
    <3>3. Busy(p) # {}
      BY <3>2, FS_EmptySet
    <3>4. PICK b \in Busy(p) : TRUE
      BY <3>3
    <3>5. b \in Task /\ Work[b] = Work[t] /\ stage[b] \in {"running", "ending"}
      BY <1>b, <3>4 DEF Busy, PoolOf
    <3> QED BY <1>3, <1>4, <3>5
  <2> QED BY <2>2, <2>3
<1> QED BY <1>1, <1>3, <1>4, <1>5 DEF Active

(* Although workers wait for tasks of other pools, and each pool may have  *)
(* a single worker, some worker can go on as long as any accepted task is  *)
(* not over: the pools never wait for each other in a circle.              *)
THEOREM NobodyWaitsInACircle == ExecSpec => []NeverStuck
  BY WaitsInvariant, SomebodyGoesOn, PTL
===============================================================================
