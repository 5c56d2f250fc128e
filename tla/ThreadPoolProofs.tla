-------------------------- MODULE ThreadPoolProofs --------------------------
(***************************************************************************)
(* Proofs about ThreadPool, for every number of functions and of threads.  *)
(* PoolIInv is inductive; the safety properties follow from it.            *)
(***************************************************************************)
EXTENDS ThreadPool, FiniteSetTheorems, TLAPS

USE NumTasksAssumption, NumThreadsAssumption DEF Workers, nullptr

-----------------------------------------------------------------------------
(* The queue.                                                              *)

\* The shape of a queue determines how many functions have been begun.
LEMMA ShapeBegun ==
  ASSUME NEW q \in Seq(Nat), NEW b \in Nat, NEW n \in Nat, Shape(q, b, n)
  PROVE  BegunOf(q, n) = b
BY DEF Shape, BegunOf

\* Schedule pushes the next function behind the others.
LEMMA ShapeAppend ==
  ASSUME NEW q \in Seq(Nat), NEW b \in Nat, NEW n \in Nat,
         Shape(q, b, n), Len(q) = n - b
  PROVE  Shape(Append(q, n + 1), b, n + 1)
BY DEF Shape

\* The destructor pushes signals behind the functions.
LEMMA ShapeSignals ==
  ASSUME NEW q \in Seq(Nat), NEW b \in Nat, NEW n \in Nat, NEW k \in Nat,
         Shape(q, b, n)
  PROVE  Shape(q \o [i \in 1..k |-> nullptr], b, n)
BY DEF Shape

\* A worker pops a function: it is the next one.
LEMMA ShapePopWork ==
  ASSUME NEW q \in Seq(Nat), NEW b \in Nat, NEW n \in Nat,
         Shape(q, b, n), q # <<>>, Head(q) # nullptr
  PROVE  /\ Head(q) = b + 1
         /\ b < n
         /\ Shape(Tail(q), b + 1, n)
BY DEF Shape

\* A worker pops a signal: no function was left.
LEMMA ShapePopSignal ==
  ASSUME NEW q \in Seq(Nat), NEW b \in Nat, NEW n \in Nat,
         Shape(q, b, n), q # <<>>, Head(q) = nullptr
  PROVE  b = n /\ Shape(Tail(q), n, n)
BY DEF Shape

\* The workers are finitely many: max(NumThreads, 0).
LEMMA WorkersFinite ==
  /\ IsFiniteSet(Workers)
  /\ Cardinality(Workers) = IF NumThreads > 0 THEN NumThreads ELSE 0
BY FS_Interval, 1 \in Int

LEMMA LeaversFinite ==
  /\ IsFiniteSet(Leavers)
  /\ Cardinality(Leavers) \in Nat
BY WorkersFinite, FS_Subset, FS_CardinalityType DEF Leavers

-----------------------------------------------------------------------------
(* PoolIInv is inductive: one lemma per action.                            *)

LEMMA PoolInitInv == PoolInit => PoolIInv
<1> SUFFICES ASSUME PoolInit PROVE PoolIInv
  OBVIOUS
<1>1. PoolTypeOK
  <2>1. started \in BOOLEAN
    BY Zenon DEF PoolInit
  <2> QED
    BY <2>1 DEF PoolInit, PoolTypeOK
<1>2. Begun = 0
  BY DEF PoolInit, Begun, BegunOf
<1>3. QueueShape
  BY <1>2 DEF PoolInit, QueueShape, Shape
<1>4. Lifecycle
  BY DEF PoolInit, Lifecycle
<1>5. Holding
  BY <1>2 DEF PoolInit, Holding, Signalled
<1>6. SignalCount
  BY DEF PoolInit, SignalCount
<1> QED
  BY <1>1, <1>3, <1>4, <1>5, <1>6 DEF PoolIInv

\* The owner's steps that touch neither the queue nor a worker.
LEMMA OwnerOnlyInv ==
  ASSUME PoolIInv, MarkStarted \/ DestroyUnstarted \/ Join \/ DestructorReturns
  PROVE  PoolIInv'
<1> USE DEF PoolIInv
<1>1. UNCHANGED <<queue, scheduled, threads, worker, func, finished>>
  BY DEF MarkStarted, DestroyUnstarted, Join, DestructorReturns, workerVars
<1>2. Begun' = Begun /\ Leavers' = Leavers /\ WorkQueued' = WorkQueued
      /\ \A w \in Workers : Signalled(w)' = Signalled(w)
  BY <1>1 DEF Begun, BegunOf, Leavers, Signalled, WorkQueued
<1>3. PoolTypeOK'
  <2>1. started' \in BOOLEAN
    BY Zenon DEF PoolTypeOK, MarkStarted, DestroyUnstarted, Join, DestructorReturns
  <2> QED
    BY <1>1, <2>1 DEF PoolTypeOK, MarkStarted, DestroyUnstarted, Join,
                      DestructorReturns
<1>4. Lifecycle'
  BY <1>1 DEF PoolTypeOK, Lifecycle, MarkStarted, DestroyUnstarted, Join,
              DestructorReturns
<1>5. QueueShape'
  BY <1>1, <1>2 DEF QueueShape, Shape, MarkStarted, DestroyUnstarted, Join,
                    DestructorReturns
<1>6. Holding'
  BY <1>1, <1>2 DEF Holding, MarkStarted, DestroyUnstarted, Join,
                    DestructorReturns
<1>7. SignalCount'
  <2>1. CASE owner \in {"built", "serving"}
    <3>1. Leavers = {} /\ Len(queue) = scheduled - Begun
      BY <2>1 DEF Holding, Leavers, QueueShape
    <3>2. owner' \in {"joining", "gone"} => threads = 0
      BY <2>1 DEF MarkStarted, DestroyUnstarted, Join, DestructorReturns
    <3>3. Begun \in Nat /\ scheduled \in Nat
      BY DEF QueueShape, Shape, PoolTypeOK
    <3> QED
      BY <1>1, <1>2, <3>1, <3>2, <3>3, FS_EmptySet DEF SignalCount
  <2>2. CASE owner \in {"joining", "gone"}
    BY <1>1, <1>2, <2>2 DEF SignalCount
  <2> QED
    BY <2>1, <2>2 DEF PoolTypeOK
<1> QED
  BY <1>3, <1>4, <1>5, <1>6, <1>7

LEMMA SpawnWorkerInv ==
  ASSUME PoolIInv, SpawnWorker
  PROVE  PoolIInv'
<1> USE DEF PoolIInv
<1>1. threads + 1 \in Workers /\ worker[threads + 1] = "unborn"
  BY DEF PoolTypeOK, Lifecycle, SpawnWorker
<1>2. /\ Begun' = Begun
      /\ \A w \in Workers : Signalled(w)' = Signalled(w)
  BY <1>1 DEF SpawnWorker, PoolTypeOK, Begun, BegunOf, Signalled
<1>3. PoolTypeOK'
  BY DEF SpawnWorker, PoolTypeOK
<1>4. QueueShape'
  BY <1>2 DEF SpawnWorker, QueueShape, Shape
<1>5. Lifecycle'
  BY <1>1 DEF SpawnWorker, PoolTypeOK, Lifecycle
<1>6. Holding'
  BY <1>1, <1>2 DEF SpawnWorker, PoolTypeOK, Holding, WorkQueued
<1>7. SignalCount'
  BY DEF SpawnWorker, SignalCount
<1> QED
  BY <1>3, <1>4, <1>5, <1>6, <1>7

LEMMA ScheduleInv ==
  ASSUME PoolIInv, Schedule
  PROVE  PoolIInv'
<1> USE DEF PoolIInv
<1>1. UNCHANGED <<worker, func, finished, owner, started, threads, joined>>
  BY DEF Schedule, workerVars
<1>2. Begun \in Nat /\ scheduled \in Nat /\ scheduled' \in Nat
  BY DEF Schedule, PoolTypeOK, QueueShape, Shape
<1>3. Shape(queue', Begun, scheduled')
  BY <1>2, ShapeAppend DEF Schedule, PoolTypeOK, QueueShape
<1>4. PoolTypeOK'
  BY <1>1 DEF Schedule, PoolTypeOK
<1>5. Begun' = Begun
  BY <1>2, <1>3, <1>4, ShapeBegun DEF PoolTypeOK, Begun
<1>6. QueueShape'
  <2>1. Len(queue') = Len(queue) + 1 /\ scheduled' = scheduled + 1
    BY DEF Schedule, PoolTypeOK
  <2>2. Len(queue) = scheduled - Begun
    BY DEF Schedule, QueueShape
  <2> QED
    BY <1>2, <1>3, <1>5, <2>1, <2>2 DEF QueueShape, PoolTypeOK
<1>7. Lifecycle'
  BY <1>1 DEF Schedule, Lifecycle
<1>8. \A w \in Workers : ~Signalled(w) /\ ~Signalled(w)'
  BY <1>1 DEF Schedule, Holding, Signalled
<1>9. Holding'
  BY <1>1, <1>5, <1>8 DEF Holding
<1>10. SignalCount'
  BY <1>1 DEF Schedule, SignalCount
<1> QED
  BY <1>4, <1>6, <1>7, <1>9, <1>10

LEMMA SignalShutdownInv ==
  ASSUME PoolIInv, SignalShutdown
  PROVE  PoolIInv'
<1> USE DEF PoolIInv
<1>1. UNCHANGED <<worker, func, finished, started, threads, joined, scheduled>>
  BY DEF SignalShutdown, workerVars
<1>2. Begun \in Nat /\ scheduled \in Nat /\ threads \in Nat
  BY DEF PoolTypeOK, QueueShape, Shape
<1>3. Shape(queue', Begun, scheduled')
  BY <1>1, <1>2, ShapeSignals DEF SignalShutdown, PoolTypeOK, QueueShape
<1>4. PoolTypeOK'
  BY <1>1 DEF SignalShutdown, PoolTypeOK
<1>5. Begun' = Begun
  BY <1>1, <1>2, <1>3, <1>4, ShapeBegun DEF PoolTypeOK, Begun
<1>6. QueueShape'
  BY <1>3, <1>5 DEF SignalShutdown, QueueShape
<1>7. Lifecycle'
  BY <1>1 DEF SignalShutdown, Lifecycle
<1>8. \A w \in Workers : ~Signalled(w) /\ ~Signalled(w)'
  BY <1>1 DEF SignalShutdown, Holding, Signalled
<1>9. Holding'
  BY <1>1, <1>5, <1>8 DEF Holding
<1>10. SignalCount'
  <2>1. Leavers' = {}
    BY <1>8 DEF Leavers
  <2>2. Len(queue') = Len(queue) + threads
    BY <1>2 DEF SignalShutdown, PoolTypeOK
  <2>3. Len(queue) = scheduled - Begun
    BY DEF SignalShutdown, QueueShape
  <2> QED
    BY <1>1, <1>2, <1>5, <2>1, <2>2, <2>3, FS_EmptySet DEF SignalCount
<1> QED
  BY <1>4, <1>6, <1>7, <1>9, <1>10

LEMMA TakeWorkInv ==
  ASSUME PoolIInv, NEW w \in Workers, TakeWork(w)
  PROVE  PoolIInv'
<1> USE DEF PoolIInv
<1>1. UNCHANGED <<finished, owner, started, threads, joined, scheduled>>
  BY DEF TakeWork, ownerVars
<1>2. /\ Begun \in Nat /\ scheduled \in Nat
      /\ queue \in Seq(Nat) /\ queue # <<>> /\ queue' = Tail(queue)
      /\ Head(queue) \in Nat /\ Len(queue') = Len(queue) - 1
  BY DEF TakeWork, PoolTypeOK, QueueShape, Shape
<1>3. /\ worker' = [worker EXCEPT ![w] = "holding"]
      /\ func' = [func EXCEPT ![w] = Head(queue)]
      /\ worker[w] = "await" /\ func[w] = nullptr
  BY DEF TakeWork, Holding
<1>4. PoolTypeOK'
  BY <1>1, <1>2, <1>3 DEF PoolTypeOK
<1>5. Lifecycle'
  BY <1>1, <1>3 DEF PoolTypeOK, Lifecycle
<1>6. CASE Head(queue) # nullptr
  <2>1. Head(queue) = Begun + 1 /\ Begun < scheduled /\ Shape(queue', Begun + 1, scheduled')
    BY <1>1, <1>2, <1>6, ShapePopWork DEF QueueShape
  <2>2. Begun' = Begun + 1
    BY <1>1, <1>2, <1>4, <2>1, ShapeBegun DEF PoolTypeOK, Begun
  <2>3. QueueShape'
    BY <1>1, <1>2, <2>1, <2>2 DEF QueueShape
  <2>4. \A v \in Workers : ~Signalled(v)
    BY <1>2, <1>6 DEF Holding, WorkQueued
  <2>5. \A v \in Workers : ~Signalled(v)'
    BY <1>3, <1>6, <2>4 DEF Signalled, PoolTypeOK
  <2>6. Holding'
    <3>1. \A v \in Workers \ {w} : func'[v] = func[v] /\ worker'[v] = worker[v]
      BY <1>3 DEF PoolTypeOK
    <3>2. func'[w] = Begun + 1 /\ worker'[w] = "holding"
      BY <1>3, <2>1 DEF PoolTypeOK
    <3>3. /\ finished' \subseteq 1..Begun'
          /\ \A t \in 1..Begun' : t \in finished' \/ \E v \in Workers : func'[v] = t
      BY <1>1, <1>2, <1>3, <2>2, <3>1, <3>2 DEF Holding
    <3>0. Begun + 1 \notin finished
      BY <1>2 DEF Holding
    <3>4. \A v \in Workers :
            /\ worker'[v] = "calling" => func'[v] # nullptr
            /\ func'[v] # nullptr => /\ worker'[v] \in {"holding", "calling"}
                                     /\ func'[v] \in 1..Begun'
                                     /\ func'[v] \notin finished'
      <4>1. finished' = finished /\ Begun \in Nat /\ Begun' = Begun + 1
        BY <1>1, <1>2, <2>2
      <4>2. func'[w] \in 1..Begun' /\ func'[w] \notin finished'
        BY <3>0, <3>2, <4>1
      <4>3. \A v \in Workers \ {w} : func'[v] # nullptr =>
              func'[v] \in 1..Begun' /\ func'[v] \notin finished'
        BY <3>1, <4>1 DEF Holding
      <4> QED
        BY <3>1, <3>2, <4>2, <4>3 DEF Holding
    <3>5. \A u, v \in Workers :
            u # v /\ func'[u] # nullptr => func'[u] # func'[v]
      BY <1>2, <3>1, <3>2 DEF Holding
    <3> QED
      BY <2>5, <3>3, <3>4, <3>5 DEF Holding
  <2>7. SignalCount'
    <3>1. Leavers = {} /\ Leavers' = {}
      BY <2>4, <2>5 DEF Leavers
    <3> QED
      BY <1>1, <1>2, <2>2, <3>1 DEF SignalCount
  <2> QED
    BY <1>4, <1>5, <2>3, <2>6, <2>7
<1>7. CASE Head(queue) = nullptr
  <2>1. Begun = scheduled /\ Shape(queue', scheduled, scheduled)
    BY <1>1, <1>2, <1>7, ShapePopSignal DEF QueueShape
  <2>2. Begun' = scheduled
    BY <1>1, <1>2, <1>4, <2>1, ShapeBegun DEF PoolTypeOK, Begun
  <2>3. owner \in {"joining", "gone"}
    BY <1>2, <2>1 DEF QueueShape, PoolTypeOK
  <2>4. QueueShape'
    BY <1>1, <2>1, <2>2, <2>3 DEF QueueShape
  <2>5. func' = func
    BY <1>3, <1>7 DEF PoolTypeOK
  <2>6. Signalled(w)' /\ ~Signalled(w)
    BY <1>3, <2>5 DEF Signalled, PoolTypeOK
  <2>7. \A v \in Workers \ {w} : Signalled(v)' = Signalled(v)
    BY <1>3, <2>5 DEF Signalled, PoolTypeOK
  <2>8. ~WorkQueued'
    <3>1. \A i \in 1..Len(queue') : queue'[i] = nullptr
      BY <1>1, <1>2, <2>1 DEF Shape
    <3> QED
      BY <1>4, <3>1 DEF WorkQueued, PoolTypeOK
  <2>9. Holding'
    <3>1. Begun' = Begun
      BY <2>1, <2>2
    <3>2. \A v \in Workers : func[v] # nullptr => worker'[v] = worker[v]
      BY <1>3 DEF PoolTypeOK
    <3>3. \A v \in Workers : worker'[v] = "calling" => worker[v] = "calling"
      BY <1>3 DEF PoolTypeOK
    <3> QED
      BY <1>1, <2>3, <2>5, <2>8, <3>1, <3>2, <3>3 DEF Holding
  <2>10. SignalCount'
    <3>1. Leavers' = Leavers \cup {w} /\ w \notin Leavers
      BY <2>6, <2>7 DEF Leavers
    <3>2. Cardinality(Leavers') = Cardinality(Leavers) + 1
      BY <3>1, LeaversFinite, FS_AddElement
    <3> QED
      BY <1>1, <1>2, <2>1, <2>2, <3>2, LeaversFinite DEF SignalCount
  <2> QED
    BY <1>4, <1>5, <2>4, <2>9, <2>10
<1> QED
  BY <1>6, <1>7

\* The worker's steps that leave the queue alone.
LEMMA LeaveOrCallInv ==
  ASSUME PoolIInv, NEW w \in Workers, LeaveLoop(w) \/ CallFunc(w)
  PROVE  PoolIInv'
<1> USE DEF PoolIInv
<1>1. UNCHANGED <<queue, func, finished, owner, started, threads, joined, scheduled>>
  BY DEF LeaveLoop, CallFunc, ownerVars
<1>2. /\ Begun' = Begun
      /\ WorkQueued' = WorkQueued
  BY <1>1 DEF Begun, BegunOf, WorkQueued
<1>3. \A v \in Workers : Signalled(v)' = Signalled(v)
  BY <1>1 DEF LeaveLoop, CallFunc, Signalled, PoolTypeOK
<1>4. PoolTypeOK'
  BY <1>1 DEF LeaveLoop, CallFunc, PoolTypeOK
<1>5. QueueShape'
  BY <1>1, <1>2 DEF QueueShape
<1>6. Lifecycle'
  BY <1>1 DEF LeaveLoop, CallFunc, Lifecycle, PoolTypeOK
<1>7. Holding'
  BY <1>1, <1>2, <1>3 DEF LeaveLoop, CallFunc, Holding, PoolTypeOK
<1>8. SignalCount'
  BY <1>1, <1>2, <1>3 DEF SignalCount, Leavers
<1> QED
  BY <1>4, <1>5, <1>6, <1>7, <1>8

LEMMA FuncReturnsInv ==
  ASSUME PoolIInv, NEW w \in Workers, FuncReturns(w)
  PROVE  PoolIInv'
<1> USE DEF PoolIInv
<1>1. UNCHANGED <<queue, owner, started, threads, joined, scheduled>>
  BY DEF FuncReturns, ownerVars
<1>2. /\ Begun' = Begun
      /\ WorkQueued' = WorkQueued
  BY <1>1 DEF Begun, BegunOf, WorkQueued
<1>3. func[w] \in 1..Begun /\ Begun \in 0..scheduled
  BY DEF FuncReturns, Holding, PoolTypeOK, QueueShape, Shape
<1>4. /\ func'[w] = nullptr /\ worker'[w] = "await"
      /\ finished' = finished \cup {func[w]}
      /\ \A v \in Workers \ {w} : func'[v] = func[v] /\ worker'[v] = worker[v]
  BY DEF FuncReturns, PoolTypeOK
<1>5. \A v \in Workers : Signalled(v)' = Signalled(v)
  BY <1>4 DEF FuncReturns, Signalled
<1>6. PoolTypeOK'
  <2>1. finished' \subseteq 1..NumTasks
    <3>1. func[w] \in 1..NumTasks
      BY <1>3 DEF PoolTypeOK
    <3> QED
      BY <1>4, <3>1 DEF PoolTypeOK
  <2> QED
    BY <1>1, <2>1 DEF FuncReturns, PoolTypeOK
<1>7. QueueShape'
  BY <1>1, <1>2 DEF QueueShape
<1>8. Lifecycle'
  BY <1>1 DEF FuncReturns, Lifecycle, PoolTypeOK
<1>9. Holding'
  <2>1. /\ finished' \subseteq 1..Begun'
        /\ \A t \in 1..Begun' : t \in finished' \/ \E v \in Workers : func'[v] = t
    <3>1. finished' \subseteq 1..Begun'
      BY <1>2, <1>3, <1>4 DEF Holding
    <3>2. ASSUME NEW t \in 1..Begun', t \notin finished'
          PROVE  \E v \in Workers : func'[v] = t
      <4>1. PICK v \in Workers : func[v] = t
        BY <1>2, <1>4, <3>2 DEF Holding
      <4>2. v # w
        BY <1>4, <3>2, <4>1
      <4> QED
        BY <1>4, <4>1, <4>2
    <3> QED
      BY <3>1, <3>2
  <2>2. \A v \in Workers \ {w} : func[v] # func[w]
    BY <1>3 DEF Holding
  <2>3. \A v \in Workers :
          /\ worker'[v] = "calling" => func'[v] # nullptr
          /\ func'[v] # nullptr => /\ worker'[v] \in {"holding", "calling"}
                                   /\ func'[v] \in 1..Begun'
                                   /\ func'[v] \notin finished'
    BY <1>2, <1>4, <2>2 DEF Holding
  <2>4. \A u, v \in Workers :
          u # v /\ func'[u] # nullptr => func'[u] # func'[v]
    BY <1>4 DEF Holding
  <2> QED
    BY <1>1, <1>2, <1>5, <2>1, <2>3, <2>4 DEF Holding
<1>10. SignalCount'
  BY <1>1, <1>2, <1>5 DEF SignalCount, Leavers
<1> QED
  BY <1>6, <1>7, <1>8, <1>9, <1>10

LEMMA PoolStutterInv ==
  ASSUME PoolIInv, UNCHANGED poolVars
  PROVE  PoolIInv'
BY DEF PoolIInv, poolVars, PoolTypeOK, QueueShape, Shape, Lifecycle, Holding,
       SignalCount, Leavers, Signalled, WorkQueued, Begun, BegunOf

LEMMA PoolStepInv == PoolIInv /\ [PoolNext]_poolVars => PoolIInv'
<1> SUFFICES ASSUME PoolIInv, [PoolNext]_poolVars PROVE PoolIInv'
  OBVIOUS
<1>1. CASE OwnerStep
  BY <1>1, OwnerOnlyInv, SpawnWorkerInv, ScheduleInv, SignalShutdownInv
  DEF OwnerStep
<1>2. ASSUME NEW w \in Workers, WorkLoop(w) PROVE PoolIInv'
  BY <1>2, TakeWorkInv, LeaveOrCallInv, FuncReturnsInv DEF WorkLoop
<1>3. CASE UNCHANGED poolVars
  BY <1>3, PoolStutterInv
<1> QED
  BY <1>1, <1>2, <1>3 DEF PoolNext

\* Every reachable state of the pool satisfies the inductive invariant.
THEOREM PoolInvariant == PoolSpec => []PoolIInv
BY PoolInitInv, PoolStepInv, PTL DEF PoolSpec

-----------------------------------------------------------------------------
(* The safety properties.                                                  *)

\* Once every thread has been joined nothing is left in the queue and every
\* function has returned: each worker took one signal, so none is left, and a
\* signal is taken only when no function is queued.
LEMMA AllJoinedDrained ==
  ASSUME PoolIInv, owner \in {"joining", "gone"}, joined = threads, threads > 0
  PROVE  /\ queue = <<>>
         /\ finished = 1..scheduled
         /\ \A w \in Workers : worker[w] = "exited" /\ func[w] = nullptr
         /\ Begun = scheduled
<1> USE DEF PoolIInv
<1>1. threads = NumThreads /\ NumThreads > 0
  BY DEF PoolTypeOK, Lifecycle
<1>2. \A w \in Workers : worker[w] = "exited" /\ func[w] = nullptr
  BY <1>1 DEF Lifecycle, Holding
<1>3. Leavers = Workers
  BY <1>2 DEF Leavers, Signalled
<1>4. Cardinality(Leavers) = threads
  BY <1>1, <1>3, WorkersFinite
<1>5. ~WorkQueued /\ Begun = scheduled
  BY <1>1, <1>2 DEF Holding, Signalled, WorkQueued, Begun, BegunOf
<1>6. queue = <<>>
  BY <1>1, <1>4, <1>5 DEF SignalCount, PoolTypeOK
<1>7. finished = 1..scheduled
  <2>1. \A t \in 1..Begun : t \in finished
    BY <1>2 DEF Holding
  <2> QED
    BY <1>5, <2>1 DEF Holding
<1> QED
  BY <1>2, <1>5, <1>6, <1>7

\* No worker leaves while a function is queued (simple_threadpool.h 38-51).
THEOREM LeavesOnlyWhenDrainedHolds == PoolSpec => []LeavesOnlyWhenDrained
<1>1. PoolIInv => LeavesOnlyWhenDrained
  BY DEF PoolIInv, Holding, LeavesOnlyWhenDrained, Leavers
<1> QED
  BY <1>1, PoolInvariant, PTL

\* The join loop of the destructor cannot wait for a thread that got no
\* shutdown signal (simple_threadpool.h 42-50).
THEOREM NoStrandedWorkerHolds == PoolSpec => []NoStrandedWorker
<1>1. ASSUME PoolIInv, owner = "joining" PROVE NoStrandedWorker
  <2> DEFINE Waiting == {w \in Workers : worker[w] = "await"}
             k == scheduled - Begun
  <2> USE DEF PoolIInv
  <2>1. Begun \in Nat /\ scheduled = Begun + k /\ k \in Nat /\ k <= Len(queue) /\ Len(queue) \in Nat
    BY <1>1 DEF QueueShape, Shape, PoolTypeOK
  <2>2. SignalsQueued = (k + 1)..Len(queue)
    <3>1. \A i \in 1..Len(queue) : queue[i] = nullptr <=> i > k
      BY <1>1, <2>1 DEF QueueShape, Shape, PoolTypeOK
    <3> QED
      BY <2>1, <3>1 DEF SignalsQueued
  <2>3. Cardinality(SignalsQueued) = Len(queue) - k
    BY <2>1, <2>2, FS_Interval
  <2>4. Waiting \cap Leavers = {} /\ Waiting \cup Leavers \subseteq Workers
    BY DEF Leavers, Signalled
  <2>5. IsFiniteSet(Waiting) /\ Cardinality(Waiting) \in Nat
    BY WorkersFinite, FS_Subset, FS_CardinalityType
  <2>6. Cardinality(Waiting \cup Leavers)
          = Cardinality(Waiting) + Cardinality(Leavers)
    <3>1. Cardinality(Waiting \cap Leavers) = 0
      BY <2>4, FS_EmptySet
    <3>2. Cardinality(Waiting \cup Leavers)
            = Cardinality(Waiting) + Cardinality(Leavers)
                - Cardinality(Waiting \cap Leavers)
      BY <2>5, LeaversFinite, FS_Union
    <3> QED
      BY <2>5, <3>1, <3>2, LeaversFinite
  <2>7. Cardinality(Waiting \cup Leavers) <= Cardinality(Workers)
    BY <2>4, WorkersFinite, FS_Subset
  <2>8. Cardinality(Workers) = threads
    BY <1>1, WorkersFinite DEF Lifecycle, PoolTypeOK
  <2>9. Len(queue) - k + Cardinality(Leavers) = threads
    BY <1>1 DEF SignalCount
  <2>10. Cardinality(Waiting) <= Cardinality(SignalsQueued)
    BY <1>1, <2>1, <2>3, <2>5, <2>6, <2>7, <2>8, <2>9, LeaversFinite
       DEF PoolTypeOK
  <2> QED
    BY <2>10 DEF NoStrandedWorker
<1>2. PoolIInv => NoStrandedWorker
  BY <1>1 DEF NoStrandedWorker
<1> QED
  BY <1>2, PoolInvariant, PTL

\* Leaving the scope of a started pool means that all work was done.
THEOREM GoneMeansDrainedHolds == PoolSpec => []GoneMeansDrained
<1>1. PoolIInv => GoneMeansDrained
  BY AllJoinedDrained DEF GoneMeansDrained, PoolIInv, Lifecycle
<1> QED
  BY <1>1, PoolInvariant, PTL

\* The type invariant by itself, for the modules that extend the pool.
THEOREM PoolTypeCorrect == PoolSpec => []PoolTypeOK
<1>1. PoolIInv => PoolTypeOK
  BY DEF PoolIInv
<1> QED
  BY <1>1, PoolInvariant, PTL

-----------------------------------------------------------------------------
(* The pool implements TaskService.                                        *)

\* A worker that is about to take a function has no function yet, so fewer
\* than NumThreads functions are running.
LEMMA RunningBound ==
  ASSUME PoolIInv, NEW w \in Workers, func[w] = nullptr
  PROVE  /\ IsFiniteSet(Running)
         /\ Cardinality(Running) < NumThreads
<1> DEFINE B == {v \in Workers : func[v] # nullptr}
           f == [v \in B |-> func[v]]
<1>1. IsFiniteSet(B) /\ Cardinality(B) \in Nat /\ w \notin B
  BY WorkersFinite, FS_Subset, FS_CardinalityType
<1>2. B \cup {w} \subseteq Workers
  OBVIOUS
<1>3. Cardinality(B \cup {w}) = Cardinality(B) + 1
  BY <1>1, FS_AddElement
<1>4. Cardinality(B \cup {w}) <= Cardinality(Workers)
  BY <1>2, WorkersFinite, FS_Subset
<1>5. f \in Surjection(B, Running)
  BY DEF Surjection, Running
<1>6. IsFiniteSet(Running) /\ Cardinality(Running) <= Cardinality(B)
  BY <1>1, <1>5, FS_Surjection
<1>7. NumThreads > 0 /\ Cardinality(Workers) = NumThreads
  BY WorkersFinite
<1> QED
  BY <1>1, <1>3, <1>4, <1>6, <1>7, FS_CardinalityType

LEMMA PoolStepRefines ==
  ASSUME NumThreads > 0, PoolIInv, PoolIInv', [PoolNext]_poolVars
  PROVE  [Service!Next]_(Service!vars)
<1> USE DEF PoolIInv, Service!Next, Service!vars
<1>0. /\ queue \in Seq(Nat) /\ queue' \in Seq(Nat) /\ threads \in Nat
      /\ scheduled \in Nat /\ scheduled' \in Nat /\ Begun \in Nat
  BY DEF PoolTypeOK, QueueShape, Shape
<1>1. CASE SpawnWorker \/ MarkStarted \/ SignalShutdown \/ Join
  <2>1. UNCHANGED <<scheduled, func, finished>>
    BY <1>1 DEF SpawnWorker, MarkStarted, SignalShutdown, Join, workerVars
  <2>2. Begun' = Begun
    <3>1. CASE SignalShutdown
      <4>1. Shape(queue', Begun, scheduled)
        BY <1>0, <3>1, ShapeSignals DEF SignalShutdown, QueueShape
      <4> QED
        BY <1>0, <2>1, <4>1, ShapeBegun DEF Begun
    <3>2. CASE UNCHANGED queue
      BY <2>1, <3>2 DEF Begun, BegunOf
    <3> QED
      BY <1>1, <3>1, <3>2 DEF SpawnWorker, MarkStarted, Join
  <2>3. Running' = Running
    BY <2>1 DEF Running
  <2>4. (owner = "gone")' = (owner = "gone")
    BY <1>1 DEF SpawnWorker, MarkStarted, SignalShutdown, Join
  <2> QED
    BY <2>1, <2>2, <2>3, <2>4
<1>2. CASE Schedule
  <2>1. Begun' = Begun
    <3>1. Shape(queue', Begun, scheduled')
      BY <1>0, <1>2, ShapeAppend DEF Schedule, QueueShape
    <3> QED
      BY <1>0, <3>1, ShapeBegun DEF Begun
  <2>2. Running' = Running /\ finished' = finished
    BY <1>2 DEF Schedule, workerVars, Running
  <2>3. ~(owner = "gone") /\ ~(owner' = "gone")
    BY <1>2 DEF Schedule
  <2>4. Service!Accept
    BY <1>2, <2>1, <2>2, <2>3 DEF Schedule, Service!Accept
  <2> QED
    BY <2>4
<1>3. CASE DestroyUnstarted \/ DestructorReturns
  <2>1. UNCHANGED <<queue, scheduled, func, finished>>
    BY <1>3 DEF DestroyUnstarted, DestructorReturns, workerVars
  <2>2. Begun' = Begun /\ Running' = Running
    BY <2>1 DEF Begun, BegunOf, Running
  <2>3. ~(owner = "gone") /\ owner' = "gone"
    BY <1>3 DEF DestroyUnstarted, DestructorReturns
  <2>4. Begun = scheduled /\ \A w \in Workers : func[w] = nullptr
    <3>1. CASE DestroyUnstarted
      <4>1. scheduled = 0 /\ \A w \in Workers : worker[w] = "unborn"
        BY <3>1 DEF DestroyUnstarted, Lifecycle
      <4> QED
        BY <1>0, <4>1 DEF Holding, QueueShape, Shape
    <3>2. CASE DestructorReturns
      <4>1. owner = "joining" /\ joined = threads /\ threads > 0
        BY <3>2 DEF DestructorReturns, Lifecycle, PoolTypeOK
      <4> QED
        BY <4>1, AllJoinedDrained
    <3> QED
      BY <1>3, <3>1, <3>2
  <2>5. Running = {}
    BY <2>4 DEF Running
  <2>6. Service!Close
    BY <2>1, <2>2, <2>3, <2>4, <2>5 DEF Service!Close
  <2> QED
    BY <2>6
<1>4. ASSUME NEW w \in Workers, TakeWork(w)
      PROVE  [Service!Next]_(Service!vars)
  <2>1. /\ UNCHANGED <<finished, owner, scheduled>>
        /\ func[w] = nullptr
        /\ func' = [func EXCEPT ![w] = Head(queue)]
        /\ queue \in Seq(Nat) /\ queue # <<>> /\ queue' = Tail(queue)
        /\ func \in [Workers -> Nat] /\ Head(queue) \in Nat
        /\ scheduled \in Nat /\ Begun \in Nat
    <3>1. UNCHANGED <<finished, owner, scheduled>>
      BY <1>4 DEF TakeWork, ownerVars
    <3>2. func[w] = nullptr
      BY <1>4 DEF TakeWork, Holding
    <3> QED
      BY <1>0, <1>4, <3>1, <3>2 DEF TakeWork, PoolTypeOK
  <2>2. CASE Head(queue) = nullptr
    <3>1. Begun = scheduled /\ Shape(queue', scheduled, scheduled)
      BY <2>1, <2>2, ShapePopSignal DEF QueueShape
    <3>2. Begun' = Begun
      BY <2>1, <3>1, ShapeBegun DEF Begun, PoolTypeOK
    <3>3. func' = func
      BY <2>1, <2>2
    <3> QED
      BY <2>1, <3>2, <3>3 DEF Running
  <2>3. CASE Head(queue) # nullptr
    <3>1. /\ Head(queue) = Begun + 1 /\ Begun < scheduled
          /\ Shape(queue', Begun + 1, scheduled)
      BY <2>1, <2>3, ShapePopWork DEF QueueShape
    <3>2. Begun' = Begun + 1
      BY <2>1, <3>1, ShapeBegun DEF Begun, PoolTypeOK
    <3>3. Running' = Running \cup {Begun + 1}
      <4>1. /\ func'[w] = Begun + 1
            /\ \A v \in Workers \ {w} : func'[v] = func[v]
        BY <2>1, <3>1
      <4> QED
        BY <2>1, <4>1 DEF Running
    <3>4. ~(owner = "gone")
      <4>1. threads > 0
        BY <1>0, <1>4 DEF TakeWork, Lifecycle
      <4> QED
        BY <2>1, <4>1, AllJoinedDrained DEF Lifecycle
    <3>5. Service!Cardinality(Running) < NumThreads
      <4>1. Cardinality(Running) < NumThreads
        BY <2>1, RunningBound
      <4>2. Service!Cardinality(Running) = Cardinality(Running)
        BY Zenon DEF Cardinality, Service!Cardinality, IsFiniteSet, Service!IsFiniteSet
      <4> QED
        BY <4>1, <4>2
    <3>6. UNCHANGED <<scheduled, finished, (owner = "gone")>>
      BY <2>1
    <3>7. Service!Begin
      BY <3>1, <3>2, <3>3, <3>4, <3>5, <3>6, Zenon DEF Service!Begin
    <3> QED
      BY <3>7
  <2> QED
    BY <2>2, <2>3
<1>5. ASSUME NEW w \in Workers, LeaveLoop(w) \/ CallFunc(w)
      PROVE  [Service!Next]_(Service!vars)
  <2>1. UNCHANGED <<queue, func, finished, owner, scheduled>>
    BY <1>5 DEF LeaveLoop, CallFunc, ownerVars
  <2> QED
    BY <2>1 DEF Begun, BegunOf, Running
<1>6. ASSUME NEW w \in Workers, FuncReturns(w)
      PROVE  [Service!Next]_(Service!vars)
  <2>1. UNCHANGED <<queue, owner, scheduled>>
    BY <1>6 DEF FuncReturns, ownerVars
  <2>2. Begun' = Begun
    BY <2>1 DEF Begun, BegunOf
  <2>3. /\ func[w] # nullptr /\ func[w] \in Nat
        /\ finished' = finished \cup {func[w]}
        /\ func'[w] = nullptr
        /\ \A v \in Workers \ {w} : func'[v] = func[v] /\ func[v] # func[w]
    BY <1>6 DEF FuncReturns, Holding, PoolTypeOK
  <2>4. Running' = Running \ {func[w]} /\ func[w] \in Running
    BY <2>3 DEF Running
  <2>5. func[w] \in 1..NumTasks
    BY <2>3 DEF Holding, QueueShape, Shape, PoolTypeOK
  <2>6. Service!End(func[w])
    BY <2>1, <2>2, <2>3, <2>4 DEF Service!End
  <2> QED
    BY <2>5, <2>6
<1>7. CASE UNCHANGED poolVars
  BY <1>7 DEF poolVars, Begun, BegunOf, Running
<1> QED
  BY <1>1, <1>2, <1>3, <1>4, <1>5, <1>6, <1>7
     DEF PoolNext, OwnerStep, WorkLoop

\* A pool with at least one thread implements TaskService.
THEOREM PoolImplementsService ==
  ASSUME NumThreads > 0
  PROVE  PoolSpec => RefinesService
<1>1. PoolInit => Service!Init
  BY DEF PoolInit, Service!Init, Begun, BegunOf, Running
<1>2. PoolIInv /\ PoolIInv' /\ [PoolNext]_poolVars => [Service!Next]_(Service!vars)
  BY PoolStepRefines
<1> QED
  BY <1>1, <1>2, PoolInvariant, PTL DEF PoolSpec, RefinesService, Service!Spec
=============================================================================
