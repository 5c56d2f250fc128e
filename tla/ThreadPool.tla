----------------------------- MODULE ThreadPool -----------------------------
(***************************************************************************)
(* The ThreadPool of execution/simple_threadpool.h: one owner thread       *)
(* constructs the pool, starts its workers, schedules functions and        *)
(* destroys it; num_threads workers take functions from a FIFO queue.      *)
(* Every access to the queue is one critical section of mu_, so each is    *)
(* one action here.                                                        *)
(*                                                                         *)
(* The function of the k-th call of Schedule is written k, so nullptr, the *)
(* empty function that tells a worker to leave, is written 0.              *)
(***************************************************************************)
EXTENDS Integers, Sequences, FiniteSets

CONSTANTS NumTasks,    (* bound on the calls of Schedule                    *)
          NumThreads   (* num_threads_: any int, the constructor is unchecked *)

ASSUME NumTasksAssumption == NumTasks \in Nat
ASSUME NumThreadsAssumption == NumThreads \in Int

Workers == 1..NumThreads
nullptr == 0

VARIABLES
  owner,      (* where the owner is: built, serving, joining, gone        *)
  started,    (* started_                                                 *)
  threads,    (* threads_.size()                                          *)
  joined,     (* how many of threads_ the destructor has joined           *)
  queue,      (* queue_, guarded by mu_                                   *)
  worker,     (* where each worker is in WorkLoop                         *)
  func,       (* the func local to the current iteration of each worker   *)
  scheduled,  (* history: calls of Schedule so far                        *)
  finished    (* history: the functions that have returned                *)

poolVars == <<owner, started, threads, joined, queue, worker, func,
              scheduled, finished>>
ownerVars == <<owner, started, threads, joined, scheduled>>
workerVars == <<worker, func, finished>>

PoolInit ==
  /\ owner = "built"
  /\ started = FALSE
  /\ threads = 0
  /\ joined = 0
  /\ queue = <<>>
  /\ worker = [w \in Workers |-> "unborn"]
  /\ func = [w \in Workers |-> nullptr]
  /\ scheduled = 0
  /\ finished = {}

-----------------------------------------------------------------------------
(* The owner.                                                              *)

\* One iteration of the loop of StartWorkers; the new thread runs at once.
SpawnWorker ==
  /\ owner = "built"
  /\ ~started
  /\ threads < NumThreads
  /\ threads' = threads + 1
  /\ worker' = [worker EXCEPT ![threads + 1] = "await"]
  /\ UNCHANGED <<owner, started, joined, queue, func, scheduled, finished>>

\* The end of StartWorkers.
MarkStarted ==
  /\ owner = "built"
  /\ threads >= NumThreads
  /\ started' = TRUE
  /\ owner' = "serving"
  /\ UNCHANGED <<threads, joined, queue, scheduled, workerVars>>

\* As Schedule, with the function pushed to the front of the queue.
ScheduleInFront ==
  /\ owner = "serving"
  /\ scheduled < NumTasks
  /\ scheduled' = scheduled + 1
  /\ queue' = <<scheduled + 1>> \o queue
  /\ UNCHANGED <<owner, started, threads, joined, workerVars>>

Schedule ==
  /\ owner = "serving"
  /\ scheduled < NumTasks
  /\ scheduled' = scheduled + 1
  /\ queue' = Append(queue, scheduled + 1)
  /\ UNCHANGED <<owner, started, threads, joined, workerVars>>

\* The destructor of a pool whose workers were never started.
DestroyUnstarted ==
  /\ owner = "built"
  /\ ~started
  /\ threads = 0
  /\ owner' = "gone"
  /\ UNCHANGED <<started, threads, joined, queue, scheduled, workerVars>>

\* As SignalShutdown, with the signals pushed in front of the work.
SignalShutdownInFront ==
  /\ owner = "serving"
  /\ owner' = "joining"
  /\ queue' = [i \in 1..threads |-> nullptr] \o queue
  /\ UNCHANGED <<started, threads, joined, scheduled, workerVars>>

\* As SignalShutdown, with one signal too few.
SignalShutdownOneShort ==
  /\ owner = "serving"
  /\ owner' = "joining"
  /\ queue' = queue \o [i \in 1..(threads - 1) |-> nullptr]
  /\ UNCHANGED <<started, threads, joined, scheduled, workerVars>>

\* One shutdown signal per thread, all pushed under one acquisition of mu_.
SignalShutdown ==
  /\ owner = "serving"
  /\ owner' = "joining"
  /\ queue' = queue \o [i \in 1..threads |-> nullptr]
  /\ UNCHANGED <<started, threads, joined, scheduled, workerVars>>

\* The destructor joins the threads in the order they were started.
Join ==
  /\ owner = "joining"
  /\ joined < threads
  /\ worker[joined + 1] = "exited"
  /\ joined' = joined + 1
  /\ UNCHANGED <<owner, started, threads, queue, scheduled, workerVars>>

\* As DestructorReturns, without waiting for the threads.
DestructorReturnsUnjoined ==
  /\ owner = "joining"
  /\ owner' = "gone"
  /\ UNCHANGED <<started, threads, joined, queue, scheduled, workerVars>>

DestructorReturns ==
  /\ owner = "joining"
  /\ joined = threads
  /\ owner' = "gone"
  /\ UNCHANGED <<started, threads, joined, queue, scheduled, workerVars>>

OwnerStep ==
  \/ SpawnWorker \/ MarkStarted \/ Schedule
  \/ DestroyUnstarted \/ SignalShutdown \/ Join \/ DestructorReturns

-----------------------------------------------------------------------------
(* A worker.                                                               *)

\* As TakeWork, when front and pop are not one critical section and two
\* workers may read the same front.
TakeWorkUnpopped(w) ==
  /\ worker[w] = "await"
  /\ queue # <<>>
  /\ func' = [func EXCEPT ![w] = Head(queue)]
  /\ worker' = [worker EXCEPT ![w] = "holding"]
  /\ queue' \in {queue, Tail(queue)}
  /\ UNCHANGED <<ownerVars, finished>>

\* mu_.Await(WorkAvailable), then front and pop in the same critical section.
TakeWork(w) ==
  /\ worker[w] = "await"
  /\ queue # <<>>
  /\ func' = [func EXCEPT ![w] = Head(queue)]
  /\ queue' = Tail(queue)
  /\ worker' = [worker EXCEPT ![w] = "holding"]
  /\ UNCHANGED <<ownerVars, finished>>

\* The shutdown signal: break out of the loop.
LeaveLoop(w) ==
  /\ worker[w] = "holding"
  /\ func[w] = nullptr
  /\ worker' = [worker EXCEPT ![w] = "exited"]
  /\ UNCHANGED <<ownerVars, queue, func, finished>>

\* As CallFunc, without the test for nullptr.
CallFuncUnchecked(w) ==
  /\ worker[w] = "holding"
  /\ worker' = [worker EXCEPT ![w] = "calling"]
  /\ UNCHANGED <<ownerVars, queue, func, finished>>

\* Control enters the function.
CallFunc(w) ==
  /\ worker[w] = "holding"
  /\ func[w] # nullptr
  /\ worker' = [worker EXCEPT ![w] = "calling"]
  /\ UNCHANGED <<ownerVars, queue, func, finished>>

\* The function returns; the next iteration has a fresh, empty func.
FuncReturns(w) ==
  /\ worker[w] = "calling"
  /\ finished' = finished \cup {func[w]}
  /\ func' = [func EXCEPT ![w] = nullptr]
  /\ worker' = [worker EXCEPT ![w] = "await"]
  /\ UNCHANGED <<ownerVars, queue>>

WorkLoop(w) == TakeWork(w) \/ LeaveLoop(w) \/ CallFunc(w) \/ FuncReturns(w)

PoolNext == OwnerStep \/ \E w \in Workers : WorkLoop(w)

PoolSpec == PoolInit /\ [][PoolNext]_poolVars

\* Once the pool is gone nothing is left to do.
PoolIdle == owner = "gone" /\ UNCHANGED poolVars

\* The threads are scheduled by the operating system and a function that was
\* called returns; the owner goes on until the destructor returns.
PoolFairness ==
  /\ WF_poolVars(OwnerStep)
  /\ \A w \in Workers : WF_poolVars(WorkLoop(w))

FairPool == PoolInit /\ [][PoolNext \/ PoolIdle]_poolVars /\ PoolFairness

-----------------------------------------------------------------------------
(* The abstract state of the pool, for TaskService.                        *)

\* Whether a function is still waiting in the queue.
WorkQueued == queue # <<>> /\ Head(queue) # nullptr

\* Functions leave the queue in the order they entered it: those before the
\* one at the head of the queue q have been begun, or all n of them.
BegunOf(q, n) == IF q # <<>> /\ Head(q) # nullptr THEN Head(q) - 1 ELSE n
Begun == BegunOf(queue, scheduled)

\* The functions that were begun and have not returned.
Running == {func[w] : w \in Workers} \ {nullptr}

Service == INSTANCE TaskService WITH
             begun <- Begun, running <- Running, done <- finished,
             closed <- (owner = "gone")

\* A worker that has taken a shutdown signal, whether it has left or not.
Signalled(w) == \/ worker[w] = "exited"
                \/ worker[w] = "holding" /\ func[w] = nullptr
Leavers == {w \in Workers : Signalled(w)}

\* The type invariant of the pool.
PoolTypeOK ==
  /\ owner \in {"built", "serving", "joining", "gone"}
  /\ started \in BOOLEAN
  /\ threads \in Nat
  /\ joined \in Nat
  /\ queue \in Seq(Nat)
  /\ worker \in [Workers -> {"unborn", "await", "holding", "calling", "exited"}]
  /\ func \in [Workers -> Nat]
  /\ scheduled \in 0..NumTasks
  /\ finished \subseteq 1..NumTasks

-----------------------------------------------------------------------------
(* The inductive invariant of the pool.                                    *)

\* The queue q holds the functions b+1 .. n, in order, and behind them
\* nothing but shutdown signals.
Shape(q, b, n) ==
  /\ b \in 0..n
  /\ n - b <= Len(q)
  /\ \A i \in 1..Len(q) : q[i] = IF i <= n - b THEN b + i ELSE nullptr

QueueShape ==
  /\ Shape(queue, Begun, scheduled)
  /\ owner \in {"built", "serving"} => Len(queue) = scheduled - Begun

\* Threads exist from StartWorkers on and leave only in the destructor.
Lifecycle ==
  /\ threads = 0 \/ threads <= NumThreads
  /\ joined <= threads
  /\ owner = "built" => scheduled = 0 /\ ~started
  /\ owner \in {"built", "serving"} => joined = 0
  /\ owner \in {"serving", "joining"} => started /\ threads >= NumThreads
  /\ owner = "gone" => joined = threads
  /\ owner = "gone" /\ threads > 0 => threads >= NumThreads
  /\ \A w \in Workers : w <= joined => worker[w] = "exited"
  /\ \A w \in Workers : (worker[w] = "unborn") <=> (w > threads)

\* What a worker holds: a begun function nobody else holds, or a signal.
Holding ==
  /\ finished \subseteq 1..Begun
  /\ \A w \in Workers :
       /\ worker[w] = "calling" => func[w] # nullptr
       /\ func[w] # nullptr =>
            /\ worker[w] \in {"holding", "calling"}
            /\ func[w] \in 1..Begun
            /\ func[w] \notin finished
       /\ Signalled(w) => ~WorkQueued /\ owner \in {"joining", "gone"}
  /\ \A v, w \in Workers : v # w /\ func[v] # nullptr => func[v] # func[w]
  /\ \A t \in 1..Begun : t \in finished \/ \E w \in Workers : func[w] = t

\* One signal for each thread, in the queue or taken.
SignalCount ==
  owner \in {"joining", "gone"} =>
    Len(queue) - (scheduled - Begun) + Cardinality(Leavers) = threads

PoolIInv == PoolTypeOK /\ QueueShape /\ Lifecycle /\ Holding /\ SignalCount

-----------------------------------------------------------------------------
(* Properties.                                                             *)

\* No worker obeys a shutdown signal while a function is still queued: the
\* destructor pushes its signals behind all the work (simple_threadpool.h
\* lines 42-45) and the queue is FIFO, so the work is taken first.
LeavesOnlyWhenDrained ==
  Leavers # {} => ~WorkQueued

\* The positions of the queue that hold a shutdown signal.
SignalsQueued == {i \in 1..Len(queue) : queue[i] = nullptr}

\* The destructor cannot hang in join: when the queue has run empty during
\* the shutdown no worker waits for more, each one took a signal of its own
\* or is still busy with the one that was meant for it behind it in the queue.
NoStrandedWorker ==
  owner = "joining" =>
    Cardinality({w \in Workers : worker[w] = "await"}) <= Cardinality(SignalsQueued)

\* Leaving the scope of a pool that has at least one thread means that every
\* scheduled function has returned, that no thread is left and that no
\* element was forgotten in the queue.
GoneMeansDrained ==
  (owner = "gone" /\ threads > 0) =>
    /\ finished = 1..scheduled
    /\ \A w \in Workers : worker[w] = "exited"
    /\ queue = <<>>

\* With at least one thread the pool implements TaskService: FIFO, exactly
\* once, at most NumThreads at a time, and nothing left behind at the end.
RefinesService == Service!Spec

\* A scheduled function is eventually executed, whatever the order in which
\* the threads are scheduled and however early the destructor is entered.
EveryTaskReturns ==
  \A t \in 1..NumTasks : (scheduled >= t) ~> (t \in finished)

\* The destructor returns.
DestructionCompletes == <>(owner = "gone")
=============================================================================
