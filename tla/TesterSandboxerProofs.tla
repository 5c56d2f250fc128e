------------------------ MODULE TesterSandboxerProofs ------------------------
(***************************************************************************)
(* Proofs about TesterSandboxer, for every number of tests and of threads. *)
(* A call of Test drives its pool as ThreadPool allows, so the invariant   *)
(* of the pool holds; TesterIInv is inductive beside it, and AnswerIInv,   *)
(* about what Test answers, is inductive beside both.                      *)
(***************************************************************************)
EXTENDS TesterSandboxer, ThreadPoolProofs

USE NumTasksAssumption, NumThreadsAssumption, RunStatusesAssumption
    DEF Workers, nullptr, Tests, kMaxTestAttempts, ProgramStatus

-----------------------------------------------------------------------------
(* Every step of Test is a step of the pool or leaves the pool alone.      *)

LEMMA StepIsPoolStep == [Next]_vars => [PoolNext]_poolVars
<1> SUFFICES ASSUME [Next]_vars PROVE [PoolNext]_poolVars
  OBVIOUS
<1>1. CASE Caller
  BY <1>1 DEF Caller, RejectArguments, AcceptArguments, MakeTempPath, CompileThrows,
     CompileAttempt, ScopeStep, GiveAnswer, PoolNext, OwnerStep
<1>2. ASSUME NEW w \in Workers, Worker(w) PROVE [PoolNext]_poolVars
  BY <1>2 DEF Worker, BeginTest, CheckStop, RunCodeOnInput, RecordError,
     RecordResult, EndTest, PoolNext, WorkLoop
<1>3. CASE UNCHANGED vars
  BY <1>3 DEF vars
<1> QED
  BY <1>1, <1>2, <1>3 DEF Next

\* A call of Test uses the pool as a client of ThreadPool may.
THEOREM TestDrivesPool == Spec => PoolSpec
<1>1. Init => PoolInit
  BY DEF Init
<1> QED
  BY <1>1, StepIsPoolStep, PTL DEF Spec, PoolSpec

-----------------------------------------------------------------------------
(* What the parts of the invariant depend on.                              *)

LEMMA MayFailFinite ==
  /\ MayFail \subseteq Tests
  /\ IsFiniteSet(MayFail)
  /\ Cardinality(MayFail) \in Nat
<1>1. MayFail \subseteq Tests
  BY DEF MayFail, Failed
<1>2. IsFiniteSet(Tests)
  BY FS_Interval, 1 \in Int
<1> QED
  BY <1>1, <1>2, FS_Subset, FS_CardinalityType

\* Steps after which no more tests may fail than before.
LEMMA KeepsFailureLimit ==
  ASSUME FailureLimit, MayFail' \subseteq MayFail, Failed' \subseteq Failed,
         UNCHANGED <<stop_on_first_failure, should_stop>>
  PROVE  FailureLimit'
<1>1. IsFiniteSet(MayFail) /\ Cardinality(MayFail) \in Nat
  BY MayFailFinite
<1>2. Cardinality(MayFail') <= Cardinality(MayFail) /\ Cardinality(MayFail') \in Nat
  BY <1>1, FS_Subset, FS_CardinalityType
<1>3. /\ stop_on_first_failure' <=> stop_on_first_failure
      /\ should_stop' <=> should_stop
  BY Zenon
<1>4. stop_on_first_failure' /\ should_stop' => Cardinality(MayFail') <= NumThreads
  BY <1>1, <1>2, <1>3 DEF FailureLimit
<1>5. stop_on_first_failure' /\ ~should_stop' => Failed' = {}
  BY <1>3 DEF FailureLimit
<1> QED
  BY <1>4, <1>5 DEF FailureLimit

\* At most NumThreads functions are running at any time.
LEMMA RunningLimit ==
  ASSUME PoolIInv
  PROVE  /\ IsFiniteSet(Running)
         /\ Cardinality(Running) \in Nat
         /\ NumThreads >= 0 => Cardinality(Running) <= NumThreads
<1> DEFINE B == {v \in Workers : func[v] # nullptr}
           f == [v \in B |-> func[v]]
<1>1. f \in Surjection(B, Running)
  BY DEF Surjection, Running
<1>2. IsFiniteSet(B) /\ Cardinality(B) <= Cardinality(Workers)
  BY WorkersFinite, FS_Subset
<1>3. IsFiniteSet(Running) /\ Cardinality(Running) <= Cardinality(B)
  BY <1>1, <1>2, FS_Surjection
<1> QED
  BY <1>2, <1>3, WorkersFinite, FS_CardinalityType

LEMMA InFlightLimit ==
  ASSUME PoolIInv, Steps, NEW w \in Workers
  PROVE  Cardinality({t \in Tests : InFlight(t)}) <= NumThreads
<1>1. {t \in Tests : InFlight(t)} \subseteq Running
  BY DEF InFlight, Steps, Running
<1>2. NumThreads >= 0
  OBVIOUS
<1>3. Cardinality({t \in Tests : InFlight(t)}) <= Cardinality(Running)
      /\ Cardinality({t \in Tests : InFlight(t)}) \in Nat
  BY <1>1, RunningLimit, FS_Subset, FS_CardinalityType
<1> QED
  BY <1>2, <1>3, RunningLimit

-----------------------------------------------------------------------------
(* TesterIInv is inductive.                                                *)

LEMMA TesterInitInv == Init => TesterIInv
<1> SUFFICES ASSUME Init PROVE TesterIInv
  OBVIOUS
<1>1. PoolIInv
  BY PoolInitInv DEF Init
<1>2. TesterTypeOK
  <2>1. stop_on_first_failure \in BOOLEAN /\ should_stop \in BOOLEAN
    BY Zenon DEF Init
  <2> QED
    BY <1>1, <2>1 DEF Init, TesterTypeOK, PoolIInv
<1>3. ~should_stop
  BY Zenon DEF Init
<1>4. Phases
  BY DEF Init, PoolInit, Phases
<1>5. Steps
  BY DEF Init, PoolInit, Steps
<1>6. StopCauses
  BY <1>3 DEF Init, StopCauses, Ran
<1>7. FailureLimit
  BY <1>3 DEF Init, FailureLimit, Failed, Ran
<1> QED
  BY <1>1, <1>2, <1>4, <1>5, <1>6, <1>7 DEF TesterIInv

\* The steps of the calling thread outside the pool and the compilation.
LEMMA CallerOutsideInv ==
  ASSUME TesterIInv, PoolIInv',
         RejectArguments \/ AcceptArguments \/ MakeTempPath \/ CompileThrows \/ GiveAnswer
  PROVE  TesterIInv'
<1> USE DEF TesterIInv
<1>1. UNCHANGED <<poolVars, callVars, attempts, compilation, resultVars, funcVars>>
  BY DEF RejectArguments, AcceptArguments, MakeTempPath, CompileThrows, GiveAnswer
<1>2. UNCHANGED <<owner, threads, worker, func, scheduled, finished, expected,
                  attempts, compilation, test_results, overall_status,
                  step, retry, test_result>>
  BY <1>1 DEF poolVars, callVars, resultVars, funcVars
<1>3. /\ stop_on_first_failure' <=> stop_on_first_failure
      /\ should_stop' <=> should_stop
      /\ UNCHANGED <<stop_on_first_failure, should_stop>>
  BY <1>1, Zenon DEF callVars, resultVars
<1>4. \A t \in Tests : (Ran(t)' <=> Ran(t)) /\ (InFlight(t)' <=> InFlight(t))
  BY <1>2 DEF Ran, InFlight
<1>5. Failed' = Failed
  BY <1>2, <1>4 DEF Failed
<1>6. MayFail' = MayFail
  BY <1>4, <1>5 DEF MayFail
<1>7. TesterTypeOK'
  <2>1. stop_on_first_failure' \in BOOLEAN /\ should_stop' \in BOOLEAN
    BY <1>3, Zenon DEF TesterTypeOK
  <2>2. /\ phase' \in {"arguments", "temp_path", "compiling", "testing", "returned", "aborted"}
        /\ answer' \in {"none", "InvalidArgument", "Ok", "Error"}
    BY DEF RejectArguments, AcceptArguments, MakeTempPath, CompileThrows, GiveAnswer, Return,
           TesterTypeOK
  <2> QED
    BY <1>2, <2>1, <2>2 DEF TesterTypeOK, PoolIInv
<1>8. Phases'
  BY <1>2 DEF Phases, RejectArguments, AcceptArguments, MakeTempPath, CompileThrows,
              GiveAnswer, Return
<1>9. Steps'
  BY <1>2 DEF Steps
<1>10. StopCauses'
  BY <1>2, <1>3, <1>4, <1>5 DEF StopCauses
<1>11. FailureLimit'
  BY <1>3, <1>5, <1>6, KeepsFailureLimit
<1> QED
  BY <1>7, <1>8, <1>9, <1>10, <1>11

LEMMA CompileAttemptInv ==
  ASSUME TesterIInv, PoolIInv', NEW result \in {"kSuccess", "kFailed", "Error"},
         CompileAttempt(result)
  PROVE  TesterIInv'
<1> USE DEF TesterIInv
<1>1. UNCHANGED <<owner, threads, worker, func, scheduled, finished, expected,
                  overall_status, step, retry, test_result>>
  BY DEF CompileAttempt, poolVars, callVars, funcVars
<1>2. /\ stop_on_first_failure' <=> stop_on_first_failure
      /\ should_stop' <=> should_stop
      /\ UNCHANGED <<stop_on_first_failure, should_stop>>
  BY Zenon DEF CompileAttempt, callVars
<1>3. /\ phase = "compiling" /\ compilation # "kSuccess" /\ answer = "none"
      /\ overall_status = 0 /\ ~should_stop
      /\ compilation' = result
  BY DEF CompileAttempt, Phases, StopCauses
<1>4. /\ attempts' \in 0..kMaxTestAttempts
      /\ test_results' = IF result = "kSuccess" THEN [t \in Tests |-> NotRun] ELSE <<>>
      /\ phase' \in {"compiling", "testing", "returned"}
      /\ answer' \in {"none", "Ok", "Error"}
      /\ (result = "kSuccess" => phase' = "testing" /\ answer' = "none")
      /\ (phase' = "compiling" => answer' = "none")
  <2>1. attempts \in Nat /\ attempts < kMaxTestAttempts /\ test_results = <<>>
    BY <1>3 DEF Phases, TesterTypeOK
  <2>2. CASE result = "kSuccess"
    BY <1>3, <2>1, <2>2 DEF CompileAttempt
  <2>3. CASE result = "kFailed"
    BY <1>3, <2>1, <2>3 DEF CompileAttempt, Return
  <2>4. CASE result = "Error"
    BY <1>3, <2>1, <2>4 DEF CompileAttempt, Return
  <2> QED
    BY <2>2, <2>3, <2>4
<1>5. \A t \in Tests : ~Ran(t)'
  BY <1>3, <1>4 DEF Ran, NotRun
<1>6. Failed' = {}
  BY <1>5 DEF Failed
<1>7. \A t \in Tests : step'[t] = "queued"
  BY <1>1, <1>3 DEF Phases
<1>8. owner' = "built" /\ threads' = 0 /\ scheduled' = 0
  BY <1>1, <1>3 DEF Phases
<1>9. TesterTypeOK'
  <2>1. stop_on_first_failure' \in BOOLEAN /\ should_stop' \in BOOLEAN
    BY <1>2, Zenon DEF TesterTypeOK
  <2>2. test_results' \in IF compilation' = "kSuccess"
                            THEN [Tests -> ExecutionResults'] ELSE {<<>>}
    <3>1. NotRun \in ExecutionResults'
      BY DEF NotRun, ExecutionResults
    <3> QED
      BY <1>3, <1>4, <3>1
  <2> QED
    BY <1>1, <1>3, <1>4, <2>1, <2>2 DEF TesterTypeOK, PoolIInv
<1>10. Phases'
  BY <1>3, <1>4, <1>7, <1>8 DEF Phases, CompileAttempt, Return
<1>11. Steps'
  BY <1>1 DEF Steps
<1>12. StopCauses'
  BY <1>1, <1>2, <1>3, <1>5, <1>7 DEF StopCauses
<1>13. FailureLimit'
  BY <1>2, <1>3, <1>6 DEF FailureLimit
<1> QED
  BY <1>9, <1>10, <1>11, <1>12, <1>13

\* The steps of the pool itself: the owner's, and those of a worker between
\* two functions.
LEMMA PoolOnlyInv ==
  ASSUME TesterIInv, PoolIInv',
         ScopeStep \/ \E w \in Workers :
                        (TakeWork(w) \/ LeaveLoop(w) \/ EndTest(w)) /\ UNCHANGED testVars
  PROVE  TesterIInv'
<1> USE DEF TesterIInv
<1>1. UNCHANGED <<callVars, phase, attempts, compilation, resultVars, funcVars, answer>>
  BY DEF ScopeStep, testVars
<1>2. UNCHANGED <<expected, phase, attempts, compilation, test_results,
                  overall_status, step, retry, test_result, answer>>
  BY <1>1 DEF callVars, resultVars, funcVars
<1>3. /\ stop_on_first_failure' <=> stop_on_first_failure
      /\ should_stop' <=> should_stop
      /\ UNCHANGED <<stop_on_first_failure, should_stop>>
  BY <1>1, Zenon DEF callVars, resultVars
<1>4. \A t \in Tests : (Ran(t)' <=> Ran(t)) /\ (InFlight(t)' <=> InFlight(t))
  BY <1>2 DEF Ran, InFlight
<1>5. Failed' = Failed
  BY <1>2, <1>4 DEF Failed
<1>6. MayFail' = MayFail
  BY <1>4, <1>5 DEF MayFail
<1>7. TesterTypeOK'
  <2>1. stop_on_first_failure' \in BOOLEAN /\ should_stop' \in BOOLEAN
    BY <1>3, Zenon DEF TesterTypeOK
  <2> QED
    BY <1>2, <2>1 DEF TesterTypeOK, PoolIInv, ExecutionResults
<1>8. compilation = "kSuccess"
  <2>1. CASE ScopeStep
    BY <2>1 DEF ScopeStep, Phases
  <2>2. ASSUME NEW w \in Workers, worker[w] # "unborn" PROVE compilation = "kSuccess"
    BY <2>2 DEF PoolIInv, Lifecycle, Phases
  <2> QED
    BY <2>1, <2>2 DEF TakeWork, LeaveLoop, EndTest, AtStep
<1>9. Phases'
  <2>1. CASE ScopeStep
    BY <1>2, <1>8, <2>1 DEF Phases, ScopeStep, SpawnWorker, MarkStarted, Schedule,
       SignalShutdown, Join, DestructorReturns, PoolIInv, PoolTypeOK, Lifecycle
  <2>2. CASE UNCHANGED <<owner, threads, scheduled>>
    BY <1>2, <1>8, <2>2 DEF Phases
  <2> QED
    BY <2>1, <2>2 DEF TakeWork, LeaveLoop, EndTest, FuncReturns, ownerVars
<1>10. Steps'
  <2>1. CASE ScopeStep
    <3>1. UNCHANGED <<func, finished>>
      BY <2>1 DEF ScopeStep, SpawnWorker, MarkStarted, Schedule,
         SignalShutdown, Join, DestructorReturns, workerVars
    <3>2. \A w \in Workers : worker'[w] = "calling" <=> worker[w] = "calling"
      <4>1. CASE SpawnWorker
        BY <4>1 DEF SpawnWorker, PoolIInv, PoolTypeOK, Lifecycle
      <4>2. CASE UNCHANGED worker
        BY <4>2
      <4> QED
        BY <2>1, <4>1, <4>2 DEF ScopeStep, MarkStarted, Schedule,
           SignalShutdown, Join, DestructorReturns, workerVars
    <3> QED
      BY <1>2, <3>1, <3>2 DEF Steps
  <2>2. ASSUME NEW w \in Workers, TakeWork(w) \/ LeaveLoop(w) PROVE Steps'
    <3>1. /\ worker[w] # "calling" /\ worker'[w] # "calling"
          /\ finished' = finished
          /\ \A v \in Workers \ {w} : worker'[v] = worker[v] /\ func'[v] = func[v]
      BY <2>2 DEF TakeWork, LeaveLoop, PoolIInv, PoolTypeOK
    <3> QED
      BY <1>2, <3>1 DEF Steps
  <2>3. ASSUME NEW w \in Workers, EndTest(w) PROVE Steps'
    <3>1. /\ step[func[w]] = "return" /\ worker'[w] # "calling"
          /\ finished' = finished \cup {func[w]}
          /\ \A v \in Workers \ {w} : worker'[v] = worker[v] /\ func'[v] = func[v]
      BY <2>3 DEF EndTest, AtStep, FuncReturns, PoolIInv, PoolTypeOK
    <3> QED
      BY <1>2, <3>1 DEF Steps
  <2> QED
    BY <2>1, <2>2, <2>3
<1>11. StopCauses'
  BY <1>2, <1>3, <1>4, <1>5 DEF StopCauses
<1>12. FailureLimit'
  BY <1>3, <1>5, <1>6, KeepsFailureLimit
<1> QED
  BY <1>7, <1>9, <1>10, <1>11, <1>12

\* What holds at a worker that is in a function.
LEMMA InFunction ==
  ASSUME TesterIInv, NEW w \in Workers, worker[w] \in {"holding", "calling"},
         func[w] # nullptr
  PROVE  /\ func[w] \in Tests
         /\ func[w] \notin finished
         /\ compilation = "kSuccess" /\ phase = "testing"
         /\ \A v \in Workers \ {w} : func[v] # func[w]
<1> USE DEF TesterIInv, PoolIInv
<1>1. func[w] \in 1..Begun /\ Begun \in 0..scheduled /\ func[w] \notin finished
  BY DEF Holding, QueueShape, Shape
<1>2. func[w] \in Tests
  BY <1>1 DEF PoolTypeOK
<1>3. \A v \in Workers \ {w} : func[v] # func[w]
  BY DEF Holding
<1>4. worker[w] # "exited" /\ worker[w] # "unborn"
  OBVIOUS
<1>5. compilation = "kSuccess"
  BY <1>4 DEF Lifecycle, Phases
<1>6. owner # "gone"
  BY <1>4 DEF Lifecycle, PoolTypeOK
<1> QED
  BY <1>1, <1>2, <1>3, <1>5, <1>6 DEF Phases, TesterTypeOK

LEMMA MayFailLimit ==
  ASSUME TesterIInv, NEW w \in Workers, stop_on_first_failure
  PROVE  Cardinality(MayFail) <= NumThreads
<1> USE DEF TesterIInv
<1>1. CASE should_stop
  BY <1>1 DEF FailureLimit
<1>2. CASE ~should_stop
  <2>1. MayFail = {t \in Tests : InFlight(t)}
    BY <1>2 DEF FailureLimit, MayFail
  <2> QED
    BY <2>1, InFlightLimit
<1> QED
  BY <1>1, <1>2

\* A step of a worker that sets should_stop.
LEMMA RecordLimit ==
  ASSUME TesterIInv, NEW w \in Workers, MayFail' \subseteq MayFail, should_stop',
         stop_on_first_failure' <=> stop_on_first_failure
  PROVE  FailureLimit'
<1>1. ASSUME stop_on_first_failure PROVE Cardinality(MayFail') <= NumThreads
  <2>1. Cardinality(MayFail) <= NumThreads
    BY <1>1, MayFailLimit
  <2>2. Cardinality(MayFail') <= Cardinality(MayFail) /\ Cardinality(MayFail') \in Nat
    BY MayFailFinite, FS_Subset, FS_CardinalityType
  <2> QED
    BY <2>1, <2>2, MayFailFinite
<1> QED
  BY <1>1 DEF FailureLimit

LEMMA BeginTestInv ==
  ASSUME TesterIInv, PoolIInv', NEW w \in Workers, BeginTest(w)
  PROVE  TesterIInv'
<1> USE DEF TesterIInv
<1> DEFINE t == func[w]
<1>1. /\ worker[w] = "holding" /\ t # nullptr
      /\ worker' = [worker EXCEPT ![w] = "calling"]
      /\ UNCHANGED <<owner, threads, scheduled, func, finished>>
  BY DEF BeginTest, CallFunc, ownerVars
<1>2. /\ t \in Tests /\ t \notin finished
      /\ compilation = "kSuccess" /\ phase = "testing"
      /\ \A v \in Workers \ {w} : func[v] # t
  BY <1>1, InFunction
<1>3. UNCHANGED <<expected, phase, attempts, compilation, test_results,
                  overall_status, test_result, answer>>
  BY DEF BeginTest, callVars, resultVars
<1>4. /\ stop_on_first_failure' <=> stop_on_first_failure
      /\ should_stop' <=> should_stop
      /\ UNCHANGED <<stop_on_first_failure, should_stop>>
  BY Zenon DEF BeginTest, callVars, resultVars
<1>5. /\ step' = [step EXCEPT ![t] = "check"]
      /\ retry' = [retry EXCEPT ![t] = 0]
  BY DEF BeginTest
<1>6. /\ step'[t] = "check" /\ retry'[t] = 0
      /\ \A u \in Tests \ {t} : step'[u] = step[u] /\ retry'[u] = retry[u]
  BY <1>2, <1>5 DEF TesterTypeOK
<1>7. \A u \in Tests : Ran(u)' <=> Ran(u)
  BY <1>3 DEF Ran
<1>8. Failed' = Failed
  BY <1>3, <1>7 DEF Failed
<1>9. MayFail' \subseteq MayFail
  BY <1>6, <1>8 DEF MayFail, InFlight
<1>10. ~Ran(t)
  <2>1. step[t] = "queued"
    BY <1>1, <1>2 DEF Steps
  <2> QED
    BY <1>2, <2>1 DEF StopCauses
<1>11. TesterTypeOK'
  <2>1. stop_on_first_failure' \in BOOLEAN /\ should_stop' \in BOOLEAN
    BY <1>4, Zenon DEF TesterTypeOK
  <2> QED
    BY <1>2, <1>3, <1>5, <2>1 DEF TesterTypeOK, PoolIInv, ExecutionResults
<1>12. Phases'
  BY <1>1, <1>2, <1>3 DEF Phases
<1>13. Steps'
  <2>1. \A v \in Workers : worker'[v] = "calling" => step'[func'[v]] # "queued"
    <3>1. \A v \in Workers : worker[v] = "calling" => func[v] \in Tests
      BY InFunction DEF PoolIInv, Holding
    <3>2. \A v \in Workers \ {w} : worker'[v] = worker[v]
      BY <1>1 DEF PoolIInv, PoolTypeOK
    <3> QED
      BY <1>1, <1>2, <1>6, <3>1, <3>2 DEF Steps
  <2>2. \A u \in Tests : step'[u] # "queued" =>
          \/ u \in finished'
          \/ \E v \in Workers : worker'[v] = "calling" /\ func'[v] = u
    <3>1. \A v \in Workers : worker[v] = "calling" => worker'[v] = "calling"
      BY <1>1 DEF PoolIInv, PoolTypeOK
    <3>2. worker'[w] = "calling"
      BY <1>1 DEF PoolIInv, PoolTypeOK
    <3> QED
      BY <1>1, <1>6, <3>1, <3>2 DEF Steps
  <2> QED
    <3>1. \A u \in finished' : step'[u] = "return"
      <4>1. finished' = finished /\ finished \subseteq Tests
        BY <1>1 DEF PoolIInv, PoolTypeOK
      <4>2. \A u \in finished : u # t /\ step[u] = "return"
        BY <1>2 DEF Steps
      <4> QED
        BY <1>6, <4>1, <4>2
    <3>2. \A u \in Tests : step'[u] = "record" =>
            test_result'[u] \in RunStatuses \cup {"Error"}
      BY <1>3, <1>6 DEF Steps
    <3>3. \A u \in Tests : step'[u] \in {"check", "run"} =>
            retry'[u] < kMaxTestAttempts
      BY <1>6 DEF Steps
    <3> QED
      BY <2>1, <2>2, <3>1, <3>2, <3>3 DEF Steps
<1>14. StopCauses'
  BY <1>2, <1>3, <1>4, <1>6, <1>7, <1>8, <1>10 DEF StopCauses
<1>15. FailureLimit'
  BY <1>4, <1>8, <1>9, KeepsFailureLimit
<1> QED
  BY <1>11, <1>12, <1>13, <1>14, <1>15

\* What a step inside a function leaves alone.
LEMMA InsideFunction ==
  ASSUME TesterIInv, NEW w \in Workers, worker[w] = "calling",
         UNCHANGED <<poolVars, callVars, phase, attempts, compilation, answer>>
  PROVE  /\ func[w] \in Tests /\ func[w] \notin finished
         /\ compilation = "kSuccess" /\ phase = "testing"
         /\ UNCHANGED <<owner, threads, scheduled, worker, func, finished, expected,
                        phase, attempts, compilation, answer>>
         /\ stop_on_first_failure' <=> stop_on_first_failure
         /\ UNCHANGED stop_on_first_failure
         /\ stop_on_first_failure' \in BOOLEAN
<1>1. func[w] # nullptr
  BY DEF TesterIInv, PoolIInv, Holding
<1>2. UNCHANGED <<owner, threads, scheduled, worker, func, finished, expected,
                  phase, attempts, compilation, answer>>
  BY DEF poolVars, callVars
<1>3. /\ stop_on_first_failure' <=> stop_on_first_failure
      /\ UNCHANGED stop_on_first_failure
      /\ stop_on_first_failure' \in BOOLEAN
  BY Zenon DEF callVars, TesterIInv, TesterTypeOK
<1> QED
  BY <1>1, <1>2, <1>3, InFunction

\* The function of a test moves to s.
LEMMA FunctionMoves ==
  ASSUME TesterIInv, NEW w \in Workers, worker[w] = "calling",
         UNCHANGED <<poolVars, callVars, phase, attempts, compilation, answer>>,
         NEW s \in {"check", "run", "record", "return"},
         step' = [step EXCEPT ![func[w]] = s],
         \A u \in Tests \ {func[w]} : retry'[u] = retry[u] /\ test_result'[u] = test_result[u],
         s = "record" => test_result'[func[w]] \in RunStatuses \cup {"Error"},
         s \in {"check", "run"} => retry'[func[w]] < kMaxTestAttempts
  PROVE  Phases' /\ Steps'
<1> USE DEF TesterIInv
<1> DEFINE t == func[w]
<1>1. /\ t \in Tests /\ t \notin finished
      /\ compilation = "kSuccess" /\ phase = "testing"
      /\ UNCHANGED <<owner, threads, scheduled, worker, func, finished, phase,
                     attempts, compilation, answer>>
  BY InsideFunction
<1>2. /\ step'[t] = s
      /\ \A u \in Tests \ {t} : step'[u] = step[u]
  BY <1>1 DEF TesterTypeOK
<1>3. Phases'
  BY <1>1 DEF Phases
<1>4. \A v \in Workers : worker'[v] = "calling" => step'[func'[v]] # "queued"
  <2>1. \A v \in Workers : worker[v] = "calling" => func[v] \in Tests
    BY InFunction DEF PoolIInv, Holding
  <2> QED
    BY <1>1, <1>2, <2>1 DEF Steps
<1>5. \A u \in Tests : step'[u] # "queued" =>
        u \in finished' \/ \E v \in Workers : worker'[v] = "calling" /\ func'[v] = u
  BY <1>1, <1>2 DEF Steps
<1>6. \A u \in finished' : step'[u] = "return"
  BY <1>1, <1>2 DEF Steps, PoolIInv, PoolTypeOK
<1>7. \A u \in Tests : step'[u] = "record" =>
        test_result'[u] \in RunStatuses \cup {"Error"}
  BY <1>2 DEF Steps
<1>8. \A u \in Tests : step'[u] \in {"check", "run"} => retry'[u] < kMaxTestAttempts
  BY <1>2 DEF Steps
<1>9. Steps'
  BY <1>4, <1>5, <1>6, <1>7, <1>8 DEF Steps
<1> QED
  BY <1>3, <1>9

\* The steps inside a function that do not write a result.
LEMMA NoRecordInv ==
  ASSUME TesterIInv, PoolIInv', NEW w \in Workers,
         CheckStop(w) \/ \E result \in RunStatuses \cup {"Error"} : RunCodeOnInput(w, result)
  PROVE  TesterIInv'
<1> USE DEF TesterIInv
<1> DEFINE t == func[w]
<1>0. /\ worker[w] = "calling"
      /\ UNCHANGED <<poolVars, callVars, phase, attempts, compilation, answer>>
      /\ UNCHANGED resultVars
  BY DEF CheckStop, RunCodeOnInput, AtStep
<1>1. /\ t \in Tests /\ t \notin finished
      /\ compilation = "kSuccess" /\ phase = "testing"
      /\ UNCHANGED <<owner, threads, scheduled, worker, func, finished, expected,
                     phase, attempts, compilation, answer>>
      /\ stop_on_first_failure' <=> stop_on_first_failure
      /\ UNCHANGED stop_on_first_failure
      /\ stop_on_first_failure' \in BOOLEAN
  BY <1>0, InsideFunction
<1>2. UNCHANGED <<test_results, overall_status>>
  BY <1>0 DEF resultVars
<1>3. (should_stop' <=> should_stop) /\ UNCHANGED should_stop /\ should_stop' \in BOOLEAN
  BY <1>0, Zenon DEF resultVars, TesterTypeOK
<1>4. \A u \in Tests : Ran(u)' <=> Ran(u)
  BY <1>1, <1>2 DEF Ran
<1>5. Failed' = Failed
  BY <1>2, <1>4 DEF Failed
<1>6. CASE CheckStop(w)
  <2> DEFINE s == IF should_stop THEN "return" ELSE "run"
  <2>1. /\ step[t] = "check" /\ retry' = retry
        /\ step' = [step EXCEPT ![t] = s]
        /\ test_result' = [test_result EXCEPT ![t] = IF should_stop THEN "Cancelled" ELSE @]
    BY <1>6 DEF CheckStop, AtStep
  <2>2. /\ step'[t] = s
        /\ \A u \in Tests \ {t} : step'[u] = step[u] /\ test_result'[u] = test_result[u]
    BY <1>1, <2>1 DEF TesterTypeOK
  <2>3. Phases' /\ Steps'
    <3>1. s \in {"check", "run", "record", "return"} /\ s # "record"
      OBVIOUS
    <3>2. retry'[t] < kMaxTestAttempts
      BY <1>1, <2>1 DEF Steps
    <3>3. \A u \in Tests \ {t} : retry'[u] = retry[u] /\ test_result'[u] = test_result[u]
      BY <2>1, <2>2
    <3> HIDE DEF s
    <3> QED
      BY <1>0, <2>1, <3>1, <3>2, <3>3, FunctionMoves
  <2>4. TesterTypeOK'
    BY <1>1, <1>2, <1>3, <2>1 DEF TesterTypeOK, PoolIInv, ExecutionResults
  <2>5. ~Ran(t)
    BY <1>1, <2>1 DEF StopCauses
  <2>6. StopCauses'
    BY <1>1, <1>2, <1>3, <1>4, <1>5, <2>2, <2>5 DEF StopCauses
  <2>7. FailureLimit'
    <3>1. CASE should_stop
      <4>1. MayFail' \subseteq MayFail
        BY <1>5, <2>1, <2>2, <3>1 DEF MayFail, InFlight
      <4> QED
        BY <1>1, <1>3, <1>5, <4>1, KeepsFailureLimit
    <3>2. CASE ~should_stop
      BY <1>1, <1>3, <1>5, <3>2 DEF FailureLimit
    <3> QED
      BY <3>1, <3>2
  <2> QED
    BY <2>3, <2>4, <2>6, <2>7
<1>7. ASSUME NEW result \in RunStatuses \cup {"Error"}, RunCodeOnInput(w, result)
      PROVE  TesterIInv'
  <2> DEFINE s == IF result = "Error" /\ retry[t] + 1 < kMaxTestAttempts
                    THEN "check" ELSE "record"
  <2>1. /\ step[t] = "run"
        /\ retry' = [retry EXCEPT ![t] = @ + 1]
        /\ step' = [step EXCEPT ![t] = s]
        /\ test_result' = [test_result EXCEPT ![t] = result]
    BY <1>7 DEF RunCodeOnInput, AtStep
  <2>2. /\ step'[t] = s /\ test_result'[t] = result /\ retry'[t] = retry[t] + 1
        /\ \A u \in Tests \ {t} : /\ step'[u] = step[u] /\ retry'[u] = retry[u]
                                  /\ test_result'[u] = test_result[u]
    BY <1>1, <2>1 DEF TesterTypeOK
  <2>3. retry[t] \in Nat /\ retry[t] < kMaxTestAttempts
    <3>1. retry[t] < kMaxTestAttempts
      BY <1>1, <2>1 DEF Steps
    <3>2. retry \in [Tests -> 0..kMaxTestAttempts]
      BY DEF TesterTypeOK
    <3> QED
      BY <1>1, <3>1, <3>2
  <2>4. Phases' /\ Steps'
    <3>1. s \in {"check", "run", "record", "return"} /\ s # "run"
      OBVIOUS
    <3>2. s = "check" => retry'[t] < kMaxTestAttempts
      BY <2>2, <2>3
    <3>3. s = "record" => test_result'[t] \in RunStatuses \cup {"Error"}
      BY <2>2
    <3>4. \A u \in Tests \ {t} : retry'[u] = retry[u] /\ test_result'[u] = test_result[u]
      BY <2>2
    <3> HIDE DEF s
    <3> QED
      BY <1>0, <2>1, <3>1, <3>2, <3>3, <3>4, FunctionMoves
  <2>5. TesterTypeOK'
    BY <1>1, <1>2, <1>3, <2>1, <2>3 DEF TesterTypeOK, PoolIInv, ExecutionResults
  <2>6. ~Ran(t)
    BY <1>1, <2>1 DEF StopCauses
  <2>7. StopCauses'
    BY <1>1, <1>2, <1>3, <1>4, <1>5, <2>2, <2>6 DEF StopCauses
  <2>8. MayFail' \subseteq MayFail
    BY <1>5, <2>1, <2>2 DEF MayFail, InFlight
  <2>9. FailureLimit'
    BY <1>1, <1>3, <1>5, <2>8, KeepsFailureLimit
  <2> QED
    BY <2>4, <2>5, <2>7, <2>9
<1> QED
  BY <1>6, <1>7

LEMMA RecordInv ==
  ASSUME TesterIInv, PoolIInv', NEW w \in Workers,
         RecordError(w) \/ \E matches \in BOOLEAN : RecordResult(w, matches)
  PROVE  TesterIInv'
<1> USE DEF TesterIInv
<1> DEFINE t == func[w]
<1>0. /\ worker[w] = "calling" /\ step[t] = "record"
      /\ UNCHANGED <<poolVars, callVars, phase, attempts, compilation, answer>>
      /\ UNCHANGED <<retry, test_result>>
      /\ step' = [step EXCEPT ![t] = "return"]
  BY DEF RecordError, RecordResult, AtStep
<1>1. /\ t \in Tests /\ t \notin finished
      /\ compilation = "kSuccess" /\ phase = "testing"
      /\ UNCHANGED <<owner, threads, scheduled, worker, func, finished, expected,
                     phase, attempts, compilation, answer>>
      /\ stop_on_first_failure' <=> stop_on_first_failure
      /\ UNCHANGED stop_on_first_failure
      /\ stop_on_first_failure' \in BOOLEAN
  BY <1>0, InsideFunction
<1>2. /\ step'[t] = "return"
      /\ \A u \in Tests \ {t} : step'[u] = step[u]
  BY <1>0, <1>1 DEF TesterTypeOK
<1>3. Phases' /\ Steps'
  BY <1>0, FunctionMoves
<1>4. ~Ran(t) /\ InFlight(t)
  BY <1>0, <1>1 DEF StopCauses, InFlight
<1>5. \A u \in Tests \ {t} : InFlight(u)' => InFlight(u)
  BY <1>0, <1>2 DEF InFlight
<1>6. test_results \in [Tests -> ExecutionResults]
  BY <1>1 DEF TesterTypeOK
<1>7. CASE RecordError(w)
  <2>1. UNCHANGED test_results
        /\ overall_status' = IF overall_status = 0 THEN t ELSE overall_status
    BY <1>7 DEF RecordError
  <2>2. should_stop' /\ should_stop' \in BOOLEAN
    BY <1>7, Zenon DEF RecordError
  <2>3. overall_status' \in 1..NumTasks
    BY <1>1, <2>1 DEF TesterTypeOK
  <2>4. \A u \in Tests : Ran(u)' <=> Ran(u)
    BY <1>1, <2>1 DEF Ran
  <2>5. Failed' = Failed
    BY <2>1, <2>4 DEF Failed
  <2>6. MayFail' \subseteq MayFail
    BY <1>4, <1>5, <2>5 DEF MayFail
  <2>7. TesterTypeOK'
    BY <1>0, <1>1, <2>1, <2>2, <2>3 DEF TesterTypeOK, PoolIInv, ExecutionResults
  <2>8. StopCauses'
    BY <1>1, <1>2, <2>2, <2>3, <2>4 DEF StopCauses
  <2>9. FailureLimit'
    BY <1>1, <2>2, <2>6, RecordLimit
  <2> QED
    BY <1>3, <2>7, <2>8, <2>9
<1>8. ASSUME NEW matches \in BOOLEAN, RecordResult(w, matches)
      PROVE  TesterIInv'
  <2> DEFINE r == [program_status |-> test_result[t],
                   passed |-> IF ~checking_outputs THEN "nullopt"
                              ELSE IF matches THEN "true" ELSE "false"]
  <2>1. /\ test_result[t] \in RunStatuses
        /\ test_results' = [test_results EXCEPT ![t] = r]
        /\ overall_status' = overall_status
    BY <1>0, <1>1, <1>8 DEF RecordResult, Steps
  <2>2. /\ should_stop' <=> (should_stop \/ (checking_outputs /\ stop_on_first_failure /\ ~matches))
        /\ should_stop' \in BOOLEAN
    BY <1>8, Zenon DEF RecordResult
  <2>3. r \in ExecutionResults /\ r.program_status # "kUnknown"
    BY <2>1 DEF ExecutionResults
  <2>4. /\ test_results'[t] = r
        /\ \A u \in Tests \ {t} : test_results'[u] = test_results[u]
    BY <1>1, <1>6, <2>1
  <2>5. /\ Ran(t)'
        /\ \A u \in Tests \ {t} : Ran(u)' <=> Ran(u)
    BY <1>1, <2>3, <2>4 DEF Ran
  <2>6. /\ Failed \subseteq Failed' /\ Failed' \subseteq Failed \cup {t}
        /\ t \in Failed' <=> checking_outputs /\ ~matches
    BY <1>1, <1>4, <2>4, <2>5 DEF Failed
  <2>7. MayFail' \subseteq MayFail
    BY <1>1, <1>4, <1>5, <2>6 DEF MayFail
  <2>8. TesterTypeOK'
    <3>1. test_results' \in [Tests -> ExecutionResults']
      BY <1>1, <1>6, <2>1, <2>3 DEF ExecutionResults
    <3> QED
      BY <1>0, <1>1, <2>1, <2>2, <3>1 DEF TesterTypeOK, PoolIInv
  <2>9. StopCauses'
    BY <1>1, <1>2, <2>1, <2>2, <2>5, <2>6 DEF StopCauses
  <2>10. FailureLimit'
    <3>1. CASE should_stop'
      BY <1>1, <2>7, <3>1, RecordLimit
    <3>2. CASE ~should_stop'
      BY <1>1, <2>2, <2>6, <3>2 DEF FailureLimit
    <3> QED
      BY <3>1, <3>2
  <2> QED
    BY <1>3, <2>8, <2>9, <2>10
<1> QED
  BY <1>7, <1>8

LEMMA TesterStutterInv ==
  ASSUME TesterIInv, PoolIInv', UNCHANGED vars
  PROVE  TesterIInv'
<1> USE DEF TesterIInv
<1>1. UNCHANGED <<poolVars, callVars, phase, attempts, compilation, resultVars,
                  funcVars, answer>>
  BY DEF vars, testVars
<1>2. UNCHANGED <<owner, threads, worker, func, scheduled, finished, expected,
                  phase, attempts, compilation, test_results, overall_status,
                  step, retry, test_result, answer>>
  BY <1>1 DEF poolVars, callVars, resultVars, funcVars
<1>3. /\ stop_on_first_failure' <=> stop_on_first_failure
      /\ should_stop' <=> should_stop
      /\ stop_on_first_failure' \in BOOLEAN /\ should_stop' \in BOOLEAN
  BY <1>1, Zenon DEF callVars, resultVars, TesterTypeOK
<1>4. TesterTypeOK'
  BY <1>2, <1>3 DEF TesterTypeOK, PoolIInv, ExecutionResults
<1>5. Phases' /\ Steps'
  BY <1>2 DEF Phases, Steps
<1>6. \A t \in Tests : (Ran(t)' <=> Ran(t)) /\ (InFlight(t)' <=> InFlight(t))
  BY <1>2 DEF Ran, InFlight
<1>7. Failed' = Failed /\ MayFail' = MayFail
  BY <1>2, <1>6 DEF Failed, MayFail
<1>8. StopCauses' /\ FailureLimit'
  BY <1>2, <1>3, <1>6, <1>7 DEF StopCauses, FailureLimit
<1> QED
  BY <1>4, <1>5, <1>8

LEMMA TesterStepInv == TesterIInv /\ [Next]_vars => TesterIInv'
<1> SUFFICES ASSUME TesterIInv, [Next]_vars PROVE TesterIInv'
  OBVIOUS
<1>1. PoolIInv'
  BY StepIsPoolStep, PoolStepInv DEF TesterIInv
<1>2. CASE Caller
  BY <1>1, <1>2, CallerOutsideInv, CompileAttemptInv, PoolOnlyInv DEF Caller
<1>3. ASSUME NEW w \in Workers, Worker(w) PROVE TesterIInv'
  <2>1. CASE (TakeWork(w) \/ LeaveLoop(w) \/ EndTest(w)) /\ UNCHANGED testVars
    BY <1>1, <2>1, PoolOnlyInv
  <2>2. CASE BeginTest(w)
    BY <1>1, <2>2, BeginTestInv
  <2>3. CASE CheckStop(w) \/ \E result \in RunStatuses \cup {"Error"} : RunCodeOnInput(w, result)
    BY <1>1, <2>3, NoRecordInv
  <2>4. CASE RecordError(w) \/ \E matches \in BOOLEAN : RecordResult(w, matches)
    BY <1>1, <2>4, RecordInv
  <2> QED
    BY <1>3, <2>1, <2>2, <2>3, <2>4 DEF Worker, EndTest
<1>4. CASE UNCHANGED vars
  BY <1>1, <1>4, TesterStutterInv
<1> QED
  BY <1>2, <1>3, <1>4 DEF Next

\* Every reachable state of a call of Test satisfies the inductive invariant.
THEOREM TesterInvariant == Spec => []TesterIInv
BY TesterInitInv, TesterStepInv, PTL DEF Spec

-----------------------------------------------------------------------------
(* The properties.                                                         *)

\* The type invariant of a call of Test.
THEOREM TesterTypeCorrect == Spec => []TesterTypeOK
<1>1. TesterIInv => TesterTypeOK
  BY DEF TesterIInv
<1> QED
  BY <1>1, TesterInvariant, PTL

\* With at least one thread, an OK answer misses no test unless one failed and
\* stop_on_first_failure was set (tester_sandboxer.cc lines 377-419).
THEOREM OkMeansEvaluatedHolds ==
  ASSUME NumThreads > 0
  PROVE  Spec => []OkMeansEvaluated
<1>1. ASSUME TesterIInv, answer = "Ok", compilation = "kSuccess",
             NEW u \in Tests, ~Ran(u)
      PROVE  stop_on_first_failure /\ Failed # {}
  <2> USE DEF TesterIInv
  <2>1. phase = "returned"
    BY <1>1 DEF Phases, TesterTypeOK
  <2>2. owner = "gone" /\ overall_status = 0
    BY <1>1, <2>1 DEF Phases
  <2>3. scheduled = NumTasks /\ joined = threads /\ threads > 0
    BY <1>1, <2>2 DEF Phases, PoolIInv, Lifecycle, PoolTypeOK
  <2>4. finished = Tests
    BY <1>1, <2>2, <2>3, AllJoinedDrained
  <2>5. step[u] = "return"
    BY <1>1, <2>4 DEF Steps
  <2>6. should_stop
    BY <1>1, <2>5 DEF StopCauses
  <2> QED
    BY <1>1, <2>2, <2>6 DEF StopCauses
<1>2. TesterIInv => OkMeansEvaluated
  BY <1>1 DEF OkMeansEvaluated
<1> QED
  BY <1>2, TesterInvariant, PTL

\* No more tests fail than there are threads (solve_example.cc 167-168).
THEOREM FailuresBoundedHolds ==
  ASSUME NumThreads >= 0
  PROVE  Spec => []FailuresBounded
<1>1. ASSUME TesterIInv, stop_on_first_failure
      PROVE  Cardinality(Failed) <= NumThreads
  <2>1. CASE should_stop
    <3>1. Cardinality(MayFail) <= NumThreads
      BY <1>1, <2>1 DEF TesterIInv, FailureLimit
    <3>2. Failed \subseteq MayFail
      BY DEF MayFail
    <3>3. Cardinality(Failed) <= Cardinality(MayFail) /\ Cardinality(Failed) \in Nat
      BY <3>2, MayFailFinite, FS_Subset, FS_CardinalityType
    <3> QED
      BY <3>1, <3>3, MayFailFinite
  <2>2. CASE ~should_stop
    BY <1>1, <2>2, FS_EmptySet DEF TesterIInv, FailureLimit
  <2> QED
    BY <2>1, <2>2
<1>2. TesterIInv => FailuresBounded
  BY <1>1 DEF FailuresBounded
<1> QED
  BY <1>2, TesterInvariant, PTL

\* When Test is not in the scope of its pool, no worker is in a function that
\* refers to its locals or may still take one (tester_sandboxer.cc 377-415).
THEOREM CapturesStayAliveHolds == Spec => []CapturesStayAlive
<1>1. ASSUME TesterIInv, phase # "testing", NEW w \in Workers
      PROVE  worker[w] \in {"unborn", "exited"} /\ queue = <<>>
  <2> USE DEF TesterIInv, PoolIInv
  <2>1. CASE compilation # "kSuccess"
    <3>1. worker[w] = "unborn" /\ owner = "built" /\ scheduled = 0
      BY <1>1, <2>1 DEF Phases, Lifecycle
    <3> QED
      BY <1>1, <3>1 DEF QueueShape, Shape, PoolTypeOK
  <2>2. CASE compilation = "kSuccess"
    <3>1. phase = "returned" /\ owner = "gone"
      BY <1>1, <2>2 DEF Phases, TesterTypeOK
    <3>2. joined = threads /\ threads > 0
      BY <1>1, <3>1 DEF Phases, Lifecycle, PoolTypeOK
    <3> QED
      BY <1>1, <3>1, <3>2, AllJoinedDrained
  <2> QED
    BY <2>1, <2>2
<1>2. TesterIInv => CapturesStayAlive
  <2>1. NumThreads > 0 => 1 \in Workers
    OBVIOUS
  <2> QED
    BY <1>1, <2>1 DEF CapturesStayAlive
<1> QED
  BY <1>2, TesterInvariant, PTL

\* A stored result is never written again (tester_sandboxer.cc 410-412).
THEOREM ResultsAreFinalHolds == Spec => ResultsAreFinal
<1>1. ASSUME TesterIInv, [Next]_vars, NEW t \in Tests, Ran(t)
      PROVE  Ran(t)' /\ test_results'[t] = test_results[t]
  <2> USE DEF TesterIInv
  <2>1. compilation = "kSuccess" /\ step[t] = "return"
    BY <1>1 DEF Ran, StopCauses
  <2>2. CASE UNCHANGED <<compilation, test_results>>
    BY <1>1, <2>2 DEF Ran
  <2>3. phase # "compiling"
    BY <1>1, <2>1 DEF Phases
  <2>4. ASSUME NEW w \in Workers, NEW matches \in BOOLEAN, RecordResult(w, matches)
        PROVE  UNCHANGED compilation /\ test_results'[t] = test_results[t]
    <3>1. func[w] # t /\ UNCHANGED compilation
      BY <2>1, <2>4 DEF RecordResult, AtStep
    <3>2. test_results \in [Tests -> ExecutionResults]
      BY <1>1, <2>1 DEF TesterTypeOK
    <3> QED
      BY <2>4, <3>1, <3>2 DEF RecordResult
  <2>5. \/ UNCHANGED <<compilation, test_results>>
        \/ \E w \in Workers, matches \in BOOLEAN : RecordResult(w, matches)
    <3>1. CASE Caller
      BY <2>3, <3>1 DEF Caller, RejectArguments, AcceptArguments, MakeTempPath, CompileThrows,
         CompileAttempt, ScopeStep, GiveAnswer, testVars, resultVars
    <3>2. ASSUME NEW w \in Workers, Worker(w) PROVE <2>5!1 \/ <2>5!2
      BY <3>2 DEF Worker, BeginTest, CheckStop, RunCodeOnInput, RecordError,
         EndTest, testVars, resultVars
    <3>3. CASE UNCHANGED vars
      BY <3>3 DEF vars, testVars, resultVars
    <3> QED
      BY <1>1, <3>1, <3>2, <3>3 DEF Next
  <2> QED
    BY <1>1, <2>2, <2>4, <2>5 DEF Ran
<1>2. TesterIInv /\ [Next]_vars =>
        [\A t \in Tests : Ran(t) => Ran(t)' /\ test_results'[t] = test_results[t]]_vars
  BY <1>1
<1> QED
  BY <1>2, TesterInvariant, PTL DEF Spec, ResultsAreFinal

-----------------------------------------------------------------------------
(* What Test answers: errors are accounted for, no more tests are missing  *)
(* in front of one that was run than other threads can hold, and a call of *)
(* Test implements RetryContract and TestContract.                         *)

\* What a call has compiled before its tests are run, and what it answers when it
\* has not compiled: the argument's error, the failure, or the last error of all
\* attempts.
NothingCompiled ==
  /\ phase \in {"arguments", "temp_path"} => compilation = "kUnknown"
  /\ phase = "compiling" => compilation \in {"kUnknown", "Error"}
  /\ phase = "returned" =>
       /\ compilation = "kUnknown" => answer = "InvalidArgument"
       /\ compilation = "kFailed" => answer = "Ok"
       /\ compilation = "Error" => answer = "Error" /\ attempts = kMaxTestAttempts

\* A test whose function has returned without a result was cancelled, or has
\* used up its attempts; overall_status is the status of one of the latter.
Exhaustion ==
  /\ \A t \in Tests : step[t] = "queued" => retry[t] = 0
  /\ \A t \in Tests : step[t] = "record" /\ test_result[t] = "Error" =>
       retry[t] = kMaxTestAttempts
  /\ \A t \in Tests : step[t] = "return" /\ ~Ran(t) =>
       IF retry[t] = kMaxTestAttempts
         THEN test_result[t] = "Error" /\ overall_status # 0
         ELSE test_result[t] = "Cancelled"
  /\ overall_status # 0 =>
       /\ retry[overall_status] = kMaxTestAttempts
       /\ step[overall_status] = "return"
       /\ ~Ran(overall_status)

\* The tests before t that have no result.
Gaps(t) == {u \in 1..(t - 1) : ~Ran(u)}

\* When the function of t passes its first look at should_stop, each test
\* before t has a result or is held by another thread.
GapsBounded ==
  \A t \in Tests : Ran(t) \/ InFlight(t) => Cardinality(Gaps(t)) < NumThreads

AnswerIInv == TesterIInv /\ NothingCompiled /\ Exhaustion /\ GapsBounded

-----------------------------------------------------------------------------
(* What the parts of the invariant depend on.                              *)

LEMMA GapsFinite ==
  ASSUME NEW t \in Tests
  PROVE  /\ Gaps(t) \subseteq Tests
         /\ IsFiniteSet(Gaps(t))
         /\ Cardinality(Gaps(t)) \in Nat
<1>1. Gaps(t) \subseteq 1..(t - 1) /\ Gaps(t) \subseteq Tests
  BY DEF Gaps
<1>2. IsFiniteSet(1..(t - 1))
  BY FS_Interval, 1 \in Int
<1> QED
  BY <1>1, <1>2, FS_Subset, FS_CardinalityType

\* Steps that take no result away and put no test in flight.
LEMMA KeepsGapsBounded ==
  ASSUME GapsBounded,
         \A u \in Tests : Ran(u) => Ran(u)',
         \A u \in Tests : Ran(u)' \/ InFlight(u)' => Ran(u) \/ InFlight(u)
  PROVE  GapsBounded'
<1>1. ASSUME NEW t \in Tests, Ran(t)' \/ InFlight(t)'
      PROVE  Cardinality(Gaps(t)') < NumThreads
  <2>1. Cardinality(Gaps(t)) < NumThreads
    BY <1>1 DEF GapsBounded
  <2>2. Gaps(t)' \subseteq Gaps(t)
    BY DEF Gaps
  <2>3. Cardinality(Gaps(t)') <= Cardinality(Gaps(t)) /\ Cardinality(Gaps(t)') \in Nat
    BY <2>2, GapsFinite, FS_Subset, FS_CardinalityType
  <2> QED
    BY <2>1, <2>3, GapsFinite
<1> QED
  BY <1>1 DEF GapsBounded

\* While no test is to be stopped, the tests before the one that a worker is
\* in have a result or are held by the other workers.
LEMMA GapsHeld ==
  ASSUME TesterIInv, NEW w \in Workers, worker[w] = "calling", ~should_stop
  PROVE  Cardinality(Gaps(func[w])) < NumThreads
<1> USE DEF TesterIInv, PoolIInv
<1> DEFINE t == func[w]
           B == Workers \ {w}
           H == {v \in B : func[v] \in Gaps(t)}
           f == [v \in H |-> func[v]]
<1>1. t \in Tests /\ t \in 1..Begun /\ Begun \in Nat /\ compilation = "kSuccess"
  <2>1. t # nullptr /\ t \in 1..Begun
    BY DEF Holding
  <2>2. Begun \in Nat
    BY DEF QueueShape, Shape, PoolTypeOK
  <2> QED
    BY <2>1, <2>2, InFunction
<1>2. \A u \in Gaps(t) : \E v \in H : func[v] = u
  <2> SUFFICES ASSUME NEW u \in Gaps(t) PROVE \E v \in H : func[v] = u
    OBVIOUS
  <2>1. u \in Tests /\ u \in 1..Begun /\ u # t /\ ~Ran(u)
    BY <1>1 DEF Gaps
  <2>2. u \notin finished
    BY <1>1, <2>1 DEF Steps, StopCauses
  <2>3. PICK v \in Workers : func[v] = u
    BY <2>1, <2>2 DEF Holding
  <2> QED
    BY <2>1, <2>3
<1>3. f \in Surjection(H, Gaps(t))
  BY <1>2 DEF Surjection
<1>4. IsFiniteSet(B) /\ Cardinality(B) = NumThreads - 1
  <2>1. NumThreads > 0 /\ Cardinality(Workers) = NumThreads /\ IsFiniteSet(Workers)
    BY WorkersFinite
  <2> QED
    BY <2>1, FS_RemoveElement
<1>5. IsFiniteSet(H) /\ Cardinality(H) <= Cardinality(B) /\ Cardinality(H) \in Nat
  BY <1>4, FS_Subset, FS_CardinalityType
<1>6. Cardinality(Gaps(t)) <= Cardinality(H)
  BY <1>3, <1>5, FS_Surjection
<1> QED
  BY <1>1, <1>4, <1>5, <1>6, GapsFinite

-----------------------------------------------------------------------------
(* AnswerIInv is inductive.                                                *)

LEMMA AnswerInitInv == Init => AnswerIInv
<1> SUFFICES ASSUME Init PROVE AnswerIInv
  OBVIOUS
<1>1. NothingCompiled
  BY DEF Init, NothingCompiled
<1>2. Exhaustion
  BY DEF Init, Exhaustion
<1>3. GapsBounded
  BY DEF Init, GapsBounded, Ran, InFlight
<1> QED
  BY <1>1, <1>2, <1>3, TesterInitInv DEF AnswerIInv

\* Steps that leave the functions of the tests and their results alone.
LEMMA OutsideFunctionsInv ==
  ASSUME AnswerIInv, TesterIInv', NothingCompiled',
         UNCHANGED <<compilation, resultVars, funcVars>>
  PROVE  AnswerIInv'
<1>1. UNCHANGED <<compilation, test_results, overall_status, step, retry, test_result>>
  BY DEF resultVars, funcVars
<1>2. \A u \in Tests : (Ran(u)' <=> Ran(u)) /\ (InFlight(u)' <=> InFlight(u))
  BY <1>1 DEF Ran, InFlight
<1>3. Exhaustion'
  <2>1. overall_status # 0 => overall_status \in Tests
    BY DEF AnswerIInv, TesterIInv, TesterTypeOK
  <2> QED
    BY <1>1, <1>2, <2>1 DEF AnswerIInv, Exhaustion
<1>4. GapsBounded'
  BY <1>2, KeepsGapsBounded DEF AnswerIInv
<1> QED
  BY <1>3, <1>4 DEF AnswerIInv

LEMMA CompileAttemptAnswerInv ==
  ASSUME AnswerIInv, TesterIInv', NEW result \in {"kSuccess", "kFailed", "Error"},
         CompileAttempt(result)
  PROVE  AnswerIInv'
<1> USE DEF AnswerIInv
<1>1. /\ phase = "compiling" /\ compilation # "kSuccess" /\ compilation' = result
      /\ UNCHANGED <<overall_status, step, retry, test_result>>
  BY DEF CompileAttempt, funcVars, TesterIInv, Phases
<1>2. \A t \in Tests : step[t] = "queued"
  BY <1>1 DEF TesterIInv, Phases
<1>3. \A t \in Tests : ~Ran(t)' /\ ~InFlight(t)'
  <2>1. \A t \in Tests : step'[t] = "queued"
    BY <1>1, <1>2
  <2> QED
    BY <2>1 DEF TesterIInv, StopCauses, InFlight
<1>4. NothingCompiled'
  <2>1. attempts \in 0..2 /\ attempts' = attempts + 1 /\ answer = "none"
    BY <1>1 DEF CompileAttempt, TesterIInv, TesterTypeOK, Phases
  <2>2. phase' = "returned" =>
          \/ result = "kFailed" /\ answer' = "Ok"
          \/ result = "Error" /\ answer' = "Error" /\ attempts' = kMaxTestAttempts
    BY <1>1, <2>1 DEF CompileAttempt, Return
  <2>3. phase' \in {"compiling", "testing", "returned"}
        /\ (phase' = "compiling" => result = "Error")
    BY <1>1 DEF CompileAttempt, Return
  <2> QED
    BY <1>1, <2>2, <2>3 DEF NothingCompiled
<1>5. Exhaustion'
  <2>1. overall_status = 0
    BY <1>1 DEF TesterIInv, StopCauses
  <2> QED
    BY <1>1, <1>2, <2>1 DEF Exhaustion
<1>6. GapsBounded'
  BY <1>3 DEF GapsBounded
<1> QED
  BY <1>4, <1>5, <1>6

LEMMA BeginTestAnswerInv ==
  ASSUME AnswerIInv, TesterIInv', NEW w \in Workers, BeginTest(w)
  PROVE  AnswerIInv'
<1> USE DEF AnswerIInv
<1> DEFINE t == func[w]
<1>1. /\ t \in Tests /\ t \notin finished
      /\ \A v \in Workers \ {w} : func[v] # t
      /\ worker[w] = "holding"
  BY InFunction DEF BeginTest, CallFunc
<1>2. /\ UNCHANGED <<phase, attempts, compilation, test_results, overall_status,
                     test_result, answer>>
      /\ step' = [step EXCEPT ![t] = "check"]
      /\ retry' = [retry EXCEPT ![t] = 0]
  BY DEF BeginTest, resultVars
<1>3. step[t] = "queued"
  BY <1>1 DEF TesterIInv, Steps
<1>4. \A u \in Tests : Ran(u)' <=> Ran(u)
  BY <1>2 DEF Ran
<1>5. /\ step'[t] = "check" /\ retry'[t] = 0
      /\ \A u \in Tests \ {t} : step'[u] = step[u] /\ retry'[u] = retry[u]
  BY <1>1, <1>2 DEF TesterIInv, TesterTypeOK
<1>6. NothingCompiled'
  BY <1>2 DEF NothingCompiled
<1>7. Exhaustion'
  <2>1. overall_status # 0 => overall_status \in Tests \ {t}
    BY <1>3 DEF Exhaustion, TesterIInv, TesterTypeOK
  <2> QED
    BY <1>2, <1>4, <1>5, <2>1 DEF Exhaustion
<1>8. GapsBounded'
  <2>1. \A u \in Tests : InFlight(u)' => InFlight(u)
    BY <1>5 DEF InFlight
  <2> QED
    BY <1>4, <2>1, KeepsGapsBounded
<1> QED
  BY <1>6, <1>7, <1>8

\* What a step inside the function of test t leaves alone.
LEMMA InsideTest ==
  ASSUME AnswerIInv, NEW w \in Workers, worker[w] = "calling",
         UNCHANGED <<poolVars, callVars, phase, attempts, compilation, answer>>
  PROVE  /\ func[w] \in Tests
         /\ compilation = "kSuccess" /\ phase = "testing" /\ answer = "none"
         /\ NothingCompiled'
         /\ overall_status # 0 => overall_status \in Tests
         /\ UNCHANGED <<worker, func, phase, compilation, answer>>
<1>1. /\ func[w] \in Tests
      /\ compilation = "kSuccess" /\ phase = "testing"
      /\ UNCHANGED <<worker, func, phase, compilation, answer>>
  BY InsideFunction DEF AnswerIInv
<1>2. overall_status # 0 => overall_status \in Tests
  BY DEF AnswerIInv, TesterIInv, TesterTypeOK
<1>3. answer = "none"
  BY <1>1 DEF AnswerIInv, TesterIInv, Phases
<1> QED
  BY <1>1, <1>2, <1>3 DEF AnswerIInv, NothingCompiled

LEMMA CheckStopAnswerInv ==
  ASSUME AnswerIInv, TesterIInv', NEW w \in Workers, CheckStop(w)
  PROVE  AnswerIInv'
<1> USE DEF AnswerIInv
<1> DEFINE t == func[w]
           s == IF should_stop THEN "return" ELSE "run"
<1>1. /\ worker[w] = "calling" /\ step[t] = "check"
      /\ UNCHANGED <<poolVars, callVars, phase, attempts, compilation, answer>>
      /\ UNCHANGED <<test_results, overall_status, retry>>
      /\ step' = [step EXCEPT ![t] = s]
      /\ test_result' = [test_result EXCEPT ![t] = IF should_stop THEN "Cancelled" ELSE @]
  BY DEF CheckStop, AtStep, resultVars
<1>2. /\ t \in Tests /\ compilation = "kSuccess" /\ NothingCompiled'
      /\ overall_status # 0 => overall_status \in Tests
  BY <1>1, InsideTest
<1>3. /\ step'[t] = s
      /\ should_stop => test_result'[t] = "Cancelled"
      /\ \A u \in Tests \ {t} : step'[u] = step[u] /\ test_result'[u] = test_result[u]
  BY <1>1, <1>2 DEF TesterIInv, TesterTypeOK
<1>4. \A u \in Tests : Ran(u)' <=> Ran(u)
  BY <1>1 DEF Ran
<1>5. Exhaustion'
  <2>1. retry[t] # kMaxTestAttempts
    BY <1>1, <1>2 DEF TesterIInv, Steps
  <2>2. overall_status # t
    BY <1>1, <1>2 DEF Exhaustion
  <2>3. \A u \in Tests : step'[u] = "queued" => retry'[u] = 0
    BY <1>1, <1>2, <1>3 DEF Exhaustion
  <2>4. \A u \in Tests : step'[u] = "record" /\ test_result'[u] = "Error" =>
          retry'[u] = kMaxTestAttempts
    BY <1>1, <1>2, <1>3 DEF Exhaustion
  <2>5. \A u \in Tests : step'[u] = "return" /\ ~Ran(u)' =>
          IF retry'[u] = kMaxTestAttempts
            THEN test_result'[u] = "Error" /\ overall_status' # 0
            ELSE test_result'[u] = "Cancelled"
    BY <1>1, <1>2, <1>3, <1>4, <2>1 DEF Exhaustion
  <2> QED
    BY <1>1, <1>2, <1>3, <1>4, <2>2, <2>3, <2>4, <2>5 DEF Exhaustion
<1>6. GapsBounded'
  <2>1. CASE should_stop
    <3>1. \A u \in Tests : InFlight(u)' => InFlight(u)
      BY <1>1, <1>3, <2>1 DEF InFlight
    <3> QED
      BY <1>4, <3>1, KeepsGapsBounded
  <2>2. CASE ~should_stop
    <3>1. Cardinality(Gaps(t)) < NumThreads
      BY <1>1, <2>2, GapsHeld
    <3>2. \A u \in Tests : Gaps(u)' = Gaps(u)
      BY <1>4 DEF Gaps
    <3>3. \A u \in Tests \ {t} : Ran(u)' \/ InFlight(u)' => Ran(u) \/ InFlight(u)
      BY <1>1, <1>3, <1>4 DEF InFlight
    <3> QED
      BY <3>1, <3>2, <3>3 DEF GapsBounded
  <2> QED
    BY <2>1, <2>2
<1> QED
  BY <1>2, <1>5, <1>6

LEMMA RunCodeOnInputAnswerInv ==
  ASSUME AnswerIInv, TesterIInv', NEW w \in Workers,
         NEW result \in RunStatuses \cup {"Error"}, RunCodeOnInput(w, result)
  PROVE  AnswerIInv'
<1> USE DEF AnswerIInv
<1> DEFINE t == func[w]
           s == IF result = "Error" /\ retry[t] + 1 < kMaxTestAttempts
                  THEN "check" ELSE "record"
<1>1. /\ worker[w] = "calling" /\ step[t] = "run"
      /\ UNCHANGED <<poolVars, callVars, phase, attempts, compilation, answer>>
      /\ UNCHANGED <<test_results, overall_status>>
      /\ step' = [step EXCEPT ![t] = s]
      /\ retry' = [retry EXCEPT ![t] = @ + 1]
      /\ test_result' = [test_result EXCEPT ![t] = result]
  BY DEF RunCodeOnInput, AtStep, resultVars
<1>2. /\ t \in Tests /\ compilation = "kSuccess" /\ NothingCompiled'
      /\ overall_status # 0 => overall_status \in Tests
  BY <1>1, InsideTest
<1>3. /\ step'[t] = s /\ retry'[t] = retry[t] + 1 /\ test_result'[t] = result
      /\ \A u \in Tests \ {t} : /\ step'[u] = step[u] /\ retry'[u] = retry[u]
                                /\ test_result'[u] = test_result[u]
  BY <1>1, <1>2 DEF TesterIInv, TesterTypeOK
<1>4. retry[t] \in 0..2
  BY <1>1, <1>2 DEF TesterIInv, TesterTypeOK, Steps
<1>5. \A u \in Tests : Ran(u)' <=> Ran(u)
  BY <1>1 DEF Ran
<1>6. Exhaustion'
  <2>1. overall_status # t
    BY <1>1, <1>2 DEF Exhaustion
  <2>2. s = "record" /\ result = "Error" => retry'[t] = kMaxTestAttempts
    BY <1>3, <1>4
  <2>3. s \in {"check", "record"}
    OBVIOUS
  <2> HIDE DEF s
  <2>4. \A u \in Tests : step'[u] = "queued" => retry'[u] = 0
    BY <1>3, <2>3 DEF Exhaustion
  <2>5. \A u \in Tests : step'[u] = "record" /\ test_result'[u] = "Error" =>
          retry'[u] = kMaxTestAttempts
    BY <1>3, <2>2 DEF Exhaustion
  <2>6. \A u \in Tests : step'[u] = "return" /\ ~Ran(u)' =>
          IF retry'[u] = kMaxTestAttempts
            THEN test_result'[u] = "Error" /\ overall_status' # 0
            ELSE test_result'[u] = "Cancelled"
    BY <1>1, <1>3, <1>5, <2>3 DEF Exhaustion
  <2> QED
    BY <1>1, <1>2, <1>3, <1>5, <2>1, <2>4, <2>5, <2>6 DEF Exhaustion
<1>7. GapsBounded'
  <2>1. \A u \in Tests : InFlight(u)' => InFlight(u)
    BY <1>1, <1>3 DEF InFlight
  <2> QED
    BY <1>5, <2>1, KeepsGapsBounded
<1> QED
  BY <1>2, <1>6, <1>7

LEMMA RecordAnswerInv ==
  ASSUME AnswerIInv, TesterIInv', NEW w \in Workers,
         RecordError(w) \/ \E matches \in BOOLEAN : RecordResult(w, matches)
  PROVE  AnswerIInv'
<1> USE DEF AnswerIInv
<1> DEFINE t == func[w]
<1>1. /\ worker[w] = "calling" /\ step[t] = "record"
      /\ UNCHANGED <<poolVars, callVars, phase, attempts, compilation, answer>>
      /\ UNCHANGED <<retry, test_result>>
      /\ step' = [step EXCEPT ![t] = "return"]
  BY DEF RecordError, RecordResult, AtStep
<1>2. /\ t \in Tests /\ compilation = "kSuccess" /\ NothingCompiled'
      /\ overall_status # 0 => overall_status \in Tests
      /\ UNCHANGED <<func, compilation>>
  BY <1>1, InsideTest
<1>3. /\ step'[t] = "return"
      /\ \A u \in Tests \ {t} : step'[u] = step[u]
  BY <1>1, <1>2 DEF TesterIInv, TesterTypeOK
<1>4. overall_status # t
  BY <1>1, <1>2 DEF Exhaustion
<1>5. ~Ran(t) /\ InFlight(t)
  BY <1>1, <1>2 DEF TesterIInv, StopCauses, InFlight
<1>6. \A u \in Tests \ {t} : Ran(u)' <=> Ran(u)
  <2>1. CASE RecordError(w)
    BY <1>1, <2>1 DEF RecordError, Ran
  <2>2. ASSUME NEW matches \in BOOLEAN, RecordResult(w, matches)
        PROVE  \A u \in Tests \ {t} : Ran(u)' <=> Ran(u)
    <3>1. test_results \in [Tests -> ExecutionResults]
      BY <1>2 DEF TesterIInv, TesterTypeOK
    <3> QED
      BY <1>1, <2>2, <3>1 DEF RecordResult, Ran
  <2> QED
    BY <2>1, <2>2
<1>7. Exhaustion'
  <2>1. CASE RecordError(w)
    <3>1. /\ test_result[t] = "Error" /\ UNCHANGED test_results
          /\ overall_status' = IF overall_status = 0 THEN t ELSE overall_status
      BY <2>1 DEF RecordError
    <3>2. ~Ran(t)' /\ retry[t] = kMaxTestAttempts /\ overall_status' # 0
      BY <1>1, <1>2, <1>5, <3>1 DEF Ran, Exhaustion
    <3>3. \A u \in Tests : step'[u] = "return" /\ ~Ran(u)' =>
            IF retry'[u] = kMaxTestAttempts
              THEN test_result'[u] = "Error" /\ overall_status' # 0
              ELSE test_result'[u] = "Cancelled"
      BY <1>1, <1>2, <1>3, <1>6, <3>1, <3>2 DEF Exhaustion
    <3>4. /\ retry'[overall_status'] = kMaxTestAttempts
          /\ step'[overall_status'] = "return"
          /\ ~Ran(overall_status)'
      <4>1. CASE overall_status = 0
        <5>1. overall_status' = t
          BY <3>1, <4>1
        <5>2. ~(test_results'[t].program_status # "kUnknown")
          BY <1>2, <1>5, <3>1 DEF Ran
        <5> QED
          BY <1>1, <1>3, <3>2, <5>1, <5>2 DEF Ran
      <4>2. CASE overall_status # 0
        BY <1>1, <1>2, <1>3, <1>4, <3>1, <4>2 DEF Exhaustion, Ran
      <4> QED
        BY <4>1, <4>2
    <3> QED
      BY <1>1, <1>3, <3>3, <3>4 DEF Exhaustion
  <2>2. ASSUME NEW matches \in BOOLEAN, RecordResult(w, matches)
        PROVE  Exhaustion'
    <3>1. UNCHANGED overall_status
      BY <2>2 DEF RecordResult
    <3>2. Ran(t)'
      <4>1. test_result[t] \in RunStatuses
        BY <1>1, <1>2, <2>2 DEF RecordResult, TesterIInv, Steps
      <4>2. test_results \in [Tests -> ExecutionResults]
        BY <1>2 DEF TesterIInv, TesterTypeOK
      <4> QED
        BY <1>1, <1>2, <2>2, <4>1, <4>2 DEF RecordResult, Ran
    <3>3. \A u \in Tests : step'[u] = "return" /\ ~Ran(u)' =>
            IF retry'[u] = kMaxTestAttempts
              THEN test_result'[u] = "Error" /\ overall_status' # 0
              ELSE test_result'[u] = "Cancelled"
      BY <1>1, <1>2, <1>3, <1>6, <3>1, <3>2 DEF Exhaustion
    <3>4. overall_status # 0 =>
            /\ retry'[overall_status'] = kMaxTestAttempts
            /\ step'[overall_status'] = "return"
            /\ ~Ran(overall_status)'
      <4>1. test_results'[overall_status] = test_results[overall_status]
              \/ overall_status = 0
        <5>1. test_results \in [Tests -> ExecutionResults]
          BY <1>2 DEF TesterIInv, TesterTypeOK
        <5> QED
          BY <1>2, <1>4, <2>2, <5>1 DEF RecordResult
      <4> QED
        BY <1>1, <1>2, <1>3, <1>4, <3>1, <4>1 DEF Exhaustion, Ran
    <3> QED
      BY <1>1, <1>3, <3>1, <3>3, <3>4 DEF Exhaustion
  <2> QED
    BY <2>1, <2>2
<1>8. GapsBounded'
  <2>1. \A u \in Tests : InFlight(u)' => InFlight(u)
    BY <1>1, <1>3 DEF InFlight
  <2> QED
    BY <1>5, <1>6, <2>1, KeepsGapsBounded
<1> QED
  BY <1>2, <1>7, <1>8

LEMMA AnswerStepInv == AnswerIInv /\ [Next]_vars => AnswerIInv'
<1> SUFFICES ASSUME AnswerIInv, [Next]_vars PROVE AnswerIInv'
  OBVIOUS
<1>1. TesterIInv'
  BY TesterStepInv DEF AnswerIInv
<1>2. CASE RejectArguments \/ AcceptArguments \/ MakeTempPath \/ CompileThrows \/ GiveAnswer
  <2>1. UNCHANGED <<compilation, resultVars, funcVars>>
    BY <1>2 DEF RejectArguments, AcceptArguments, MakeTempPath, CompileThrows, GiveAnswer
  <2>2. NothingCompiled'
    <3>1. UNCHANGED <<attempts, compilation>>
      BY <1>2 DEF RejectArguments, AcceptArguments, MakeTempPath, CompileThrows, GiveAnswer
    <3>2. GiveAnswer => compilation = "kSuccess"
      BY DEF GiveAnswer, AnswerIInv, TesterIInv, Phases
    <3>3. RejectArguments => compilation = "kUnknown" /\ answer' = "InvalidArgument"
      BY DEF RejectArguments, Return, AnswerIInv, NothingCompiled
    <3> QED
      BY <1>2, <3>1, <3>2, <3>3 DEF AcceptArguments, MakeTempPath, CompileThrows,
         RejectArguments, GiveAnswer, Return, AnswerIInv, NothingCompiled
  <2> QED
    BY <1>1, <2>1, <2>2, OutsideFunctionsInv
<1>3. ASSUME NEW result \in {"kSuccess", "kFailed", "Error"}, CompileAttempt(result)
      PROVE  AnswerIInv'
  BY <1>1, <1>3, CompileAttemptAnswerInv
<1>4. CASE UNCHANGED testVars
  <2>1. UNCHANGED <<phase, attempts, compilation, answer, resultVars, funcVars>>
    BY <1>4 DEF testVars
  <2>2. NothingCompiled'
    BY <2>1 DEF AnswerIInv, NothingCompiled
  <2> QED
    BY <1>1, <2>1, <2>2, OutsideFunctionsInv
<1>5. CASE Caller
  BY <1>2, <1>3, <1>4, <1>5 DEF Caller, ScopeStep
<1>6. ASSUME NEW w \in Workers, Worker(w) PROVE AnswerIInv'
  BY <1>1, <1>4, <1>6, BeginTestAnswerInv, CheckStopAnswerInv, RunCodeOnInputAnswerInv,
     RecordAnswerInv DEF Worker, EndTest
<1> QED
  BY <1>4, <1>5, <1>6 DEF Next, vars

\* Every reachable state of a call of Test satisfies the invariant about errors
\* and missing tests.
THEOREM AnswerInvariant == Spec => []AnswerIInv
BY AnswerInitInv, AnswerStepInv, PTL DEF Spec

-----------------------------------------------------------------------------
(* Errors and missing tests.                                               *)

\* When an answer has been given to a call whose code compiled, no function is
\* left between two of its steps.
LEMMA AnsweredWhenGone ==
  ASSUME TesterIInv, answer # "none", compilation = "kSuccess"
  PROVE  /\ owner = "gone"
         /\ answer = IF overall_status = 0 THEN "Ok" ELSE "Error"
         /\ \A t \in Tests : step[t] \in {"queued", "return"}
<1> USE DEF TesterIInv
<1>1. phase = "returned"
  BY DEF Phases, TesterTypeOK
<1>2. /\ owner = "gone" /\ threads >= NumThreads
      /\ answer = IF overall_status = 0 THEN "Ok" ELSE "Error"
  BY <1>1 DEF Phases
<1>3. \A w \in Workers : worker[w] # "calling"
  BY <1>2 DEF PoolIInv, PoolTypeOK, Lifecycle
<1>4. \A t \in Tests : step[t] # "queued" => step[t] = "return"
  BY <1>3 DEF Steps
<1> QED
  BY <1>2, <1>4

\* Test answers with an error exactly when the compilation or a test has used up its
\* attempts, for any number of threads (tester_sandboxer.cc lines 78-93, 361-368,
\* 397, 417).
THEOREM ErrorIffExhaustedHolds == Spec => []ErrorIffExhausted
<1>1. ASSUME AnswerIInv, answer # "none", compilation = "kSuccess"
      PROVE  answer = "Error" <=>
               \E t \in Tests : retry[t] = kMaxTestAttempts /\ ~Ran(t)
  <2> USE DEF AnswerIInv
  <2>1. /\ answer = IF overall_status = 0 THEN "Ok" ELSE "Error"
        /\ \A t \in Tests : step[t] \in {"queued", "return"}
    BY <1>1, AnsweredWhenGone
  <2>2. CASE overall_status = 0
    <3>1. \A t \in Tests : retry[t] = kMaxTestAttempts => Ran(t)
      BY <1>1, <2>1, <2>2 DEF Exhaustion
    <3> QED
      BY <2>1, <2>2, <3>1
  <2>3. CASE overall_status # 0
    <3>1. overall_status \in Tests
      BY <1>1, <2>3 DEF TesterIInv, TesterTypeOK
    <3> QED
      BY <1>1, <2>1, <2>3, <3>1 DEF Exhaustion
  <2> QED
    BY <2>2, <2>3
<1>2. ASSUME AnswerIInv, answer # "none", compilation # "kSuccess"
      PROVE  /\ answer = "Error" <=> compilation = "Error" /\ attempts = kMaxTestAttempts
             /\ \A t \in Tests : retry[t] # kMaxTestAttempts
  <2>1. phase = "returned" /\ compilation \in {"kUnknown", "kFailed", "Error"}
    BY <1>2 DEF AnswerIInv, TesterIInv, TesterTypeOK, Phases
  <2>2. answer = "Error" <=> compilation = "Error" /\ attempts = kMaxTestAttempts
    BY <1>2, <2>1 DEF AnswerIInv, NothingCompiled
  <2>3. \A t \in Tests : retry[t] = 0
    BY <1>2 DEF AnswerIInv, TesterIInv, Phases, Exhaustion
  <2> QED
    BY <2>2, <2>3
<1>3. AnswerIInv => ErrorIffExhausted
  BY <1>1, <1>2 DEF ErrorIffExhausted
<1> QED
  BY <1>3, AnswerInvariant, PTL

\* Fewer than NumThreads tests are missing in front of one that was run
\* (tester_sandboxer.cc lines 377-388).
THEOREM FewGapsHolds == Spec => []FewGaps
<1>1. AnswerIInv => FewGaps
  BY DEF AnswerIInv, GapsBounded, Gaps, FewGaps
<1> QED
  BY <1>1, AnswerInvariant, PTL

-----------------------------------------------------------------------------
(* The compilation and the tests are tried as RetryContract says.          *)

\* Steps that no call of RetryIfFail notices.
LEMMA RetriesStutter ==
  ASSUME \A r \in 0..NumTasks : /\ RetryOutcome(r)' = RetryOutcome(r)
                               /\ RetryErrors(r)' = RetryErrors(r)
  PROVE  UNCHANGED Retries!vars
BY DEF Retries!vars

\* Call r of RetryIfFail has its final return value, which is not its last error.
LEMMA RetriesSettle ==
  ASSUME NEW r \in 0..NumTasks, NEW o \in {"Ok", "Cancelled"},
         RetryOutcome(r) = "none", RetryOutcome(r)' = o,
         RetryErrors(r)' = RetryErrors(r),
         \A q \in 0..NumTasks \ {r} : /\ RetryOutcome(q)' = RetryOutcome(q)
                                     /\ RetryErrors(q)' = RetryErrors(q)
  PROVE  Retries!Next
<1>1. Retries!Settle(r)
  BY DEF Retries!Settle
<1> QED
  BY <1>1 DEF Retries!Next

\* Call r of RetryIfFail has seen one more error.
LEMMA RetriesErr ==
  ASSUME NEW r \in 0..NumTasks,
         RetryOutcome(r) = "none", RetryErrors(r)' = RetryErrors(r) + 1,
         RetryOutcome(r)' = IF RetryErrors(r)' = kMaxTestAttempts THEN "Error" ELSE "none",
         \A q \in 0..NumTasks \ {r} : /\ RetryOutcome(q)' = RetryOutcome(q)
                                     /\ RetryErrors(q)' = RetryErrors(q)
  PROVE  Retries!Next
<1>1. Retries!Err(r)
  BY DEF Retries!Err
<1> QED
  BY <1>1 DEF Retries!Next

\* While a step changes nothing that the functions of the tests look at, no test
\* is tried or given up.
LEMMA TestsQuiet ==
  ASSUME NEW t \in Tests,
         step'[t] = step[t], retry'[t] = retry[t], test_result'[t] = test_result[t]
  PROVE  RetryOutcome(t)' = RetryOutcome(t) /\ RetryErrors(t)' = RetryErrors(t)
BY DEF RetryOutcome, RetryErrors, TestOutcome

\* The same for the compilation.
LEMMA CompilationQuiet ==
  ASSUME UNCHANGED <<attempts, compilation>>,
         UNCHANGED phase \/ compilation \in {"kUnknown", "kSuccess"}
           \/ "returned" \notin {phase, phase'}
  PROVE  RetryOutcome(0)' = RetryOutcome(0) /\ RetryErrors(0)' = RetryErrors(0)
BY DEF RetryOutcome, RetryErrors, CompilationOutcome

LEMMA CompileAttemptRetries ==
  ASSUME AnswerIInv, NEW result \in {"kSuccess", "kFailed", "Error"}, CompileAttempt(result)
  PROVE  Retries!Next
<1> USE DEF AnswerIInv
<1>1. /\ phase = "compiling" /\ compilation \in {"kUnknown", "Error"}
      /\ compilation' = result /\ attempts' = attempts + 1
      /\ attempts \in 0..2
      /\ UNCHANGED <<step, retry, test_result>>
  BY DEF CompileAttempt, funcVars, NothingCompiled, TesterIInv, TesterTypeOK, Phases
<1>2. \A q \in 0..NumTasks \ {0} : /\ RetryOutcome(q)' = RetryOutcome(q)
                                  /\ RetryErrors(q)' = RetryErrors(q)
  BY <1>1, TestsQuiet
<1>3. RetryOutcome(0) = "none" /\ RetryErrors(0) = attempts
  BY <1>1 DEF RetryOutcome, RetryErrors, CompilationOutcome
<1>4. CASE result # "Error"
  <2>1. RetryOutcome(0)' = "Ok" /\ RetryErrors(0)' = attempts
    BY <1>1, <1>4 DEF RetryOutcome, RetryErrors, CompilationOutcome
  <2> QED
    BY <1>2, <1>3, <2>1, RetriesSettle
<1>5. CASE result = "Error"
  <2>1. phase' = "returned" <=> attempts + 1 = kMaxTestAttempts
    BY <1>1, <1>5 DEF CompileAttempt, Return
  <2>2. /\ RetryErrors(0)' = attempts + 1
        /\ RetryOutcome(0)' = IF attempts + 1 = kMaxTestAttempts THEN "Error" ELSE "none"
    BY <1>1, <1>5, <2>1 DEF RetryOutcome, RetryErrors, CompilationOutcome
  <2> QED
    BY <1>2, <1>3, <2>2, RetriesErr
<1> QED
  BY <1>4, <1>5

\* The steps of the function of a test.
LEMMA TestStepRetries ==
  ASSUME AnswerIInv, NEW w \in Workers,
         \/ BeginTest(w) \/ CheckStop(w)
         \/ \E result \in RunStatuses \cup {"Error"} : RunCodeOnInput(w, result)
         \/ RecordError(w) \/ \E matches \in BOOLEAN : RecordResult(w, matches)
  PROVE  [Retries!Next]_(Retries!vars)
<1> USE DEF AnswerIInv
<1>1. PICK t \in Tests : t = func[w]
  <2>1. worker[w] \in {"holding", "calling"} /\ func[w] # nullptr
    BY DEF BeginTest, CallFunc, CheckStop, RunCodeOnInput, RecordError, RecordResult, AtStep,
       TesterIInv, PoolIInv, Holding
  <2> QED
    BY <2>1, InFunction
<1>2. /\ step \in [Tests -> {"queued", "check", "run", "record", "return"}]
      /\ retry \in [Tests -> 0..kMaxTestAttempts]
      /\ test_result \in [Tests -> RunStatuses \cup {"none", "Error", "Cancelled"}]
  BY DEF TesterIInv, TesterTypeOK
<1>3. \A q \in Tests \ {t} : /\ step'[q] = step[q] /\ retry'[q] = retry[q]
                            /\ test_result'[q] = test_result[q]
  BY <1>1, <1>2 DEF BeginTest, CheckStop, RunCodeOnInput, RecordError, RecordResult
<1>4. \A q \in 0..NumTasks \ {t} : /\ RetryOutcome(q)' = RetryOutcome(q)
                                  /\ RetryErrors(q)' = RetryErrors(q)
  <2>1. UNCHANGED <<attempts, compilation, phase>>
    BY DEF BeginTest, CheckStop, RunCodeOnInput, RecordError, RecordResult
  <2> QED
    BY <1>3, <2>1, TestsQuiet, CompilationQuiet
<1>5. ASSUME RetryOutcome(t)' = RetryOutcome(t), RetryErrors(t)' = RetryErrors(t)
      PROVE  [Retries!Next]_(Retries!vars)
  BY <1>4, <1>5, RetriesStutter
<1> USE DEF RetryOutcome, RetryErrors, TestOutcome
<1>6. CASE BeginTest(w)
  <2>1. /\ step[t] = "queued" /\ retry[t] = 0
        /\ step'[t] = "check" /\ retry'[t] = 0
    <3>1. worker[w] = "holding" /\ t \notin finished /\ \A v \in Workers \ {w} : func[v] # t
      BY <1>1, <1>6, InFunction DEF BeginTest, CallFunc
    <3>2. step[t] = "queued"
      BY <3>1 DEF TesterIInv, Steps
    <3> QED
      BY <1>1, <1>2, <1>6, <3>2 DEF BeginTest, Exhaustion
  <2> QED
    BY <1>5, <2>1
<1>7. CASE CheckStop(w)
  <2>1. /\ step[t] = "check" /\ retry'[t] = retry[t]
        /\ step'[t] = IF should_stop THEN "return" ELSE "run"
        /\ should_stop => test_result'[t] = "Cancelled"
    BY <1>1, <1>2, <1>7 DEF CheckStop, AtStep
  <2>2. CASE should_stop
    BY <1>4, <2>1, <2>2, RetriesSettle
  <2>3. CASE ~should_stop
    BY <1>5, <2>1, <2>3
  <2> QED
    BY <2>2, <2>3
<1>8. ASSUME NEW result \in RunStatuses \cup {"Error"}, RunCodeOnInput(w, result)
      PROVE  [Retries!Next]_(Retries!vars)
  <2>1. /\ step[t] = "run" /\ retry'[t] = retry[t] + 1 /\ test_result'[t] = result
        /\ step'[t] = IF result = "Error" /\ retry[t] + 1 < kMaxTestAttempts
                        THEN "check" ELSE "record"
    BY <1>1, <1>2, <1>8 DEF RunCodeOnInput, AtStep
  <2>2. retry[t] \in 0..2
    BY <1>2, <2>1 DEF TesterIInv, Steps
  <2>3. t # 0 /\ t \in 0..NumTasks /\ RetryOutcome(t) = "none" /\ RetryErrors(t) = retry[t]
    BY <2>1
  <2>4. CASE result # "Error"
    <3>1. RetryOutcome(t)' = "Ok" /\ RetryErrors(t)' = retry[t]
      BY <2>1, <2>2, <2>3, <2>4
    <3> QED
      BY <1>4, <2>3, <3>1, RetriesSettle
  <2>5. CASE result = "Error"
    <3>1. /\ RetryErrors(t)' = retry[t] + 1
          /\ RetryOutcome(t)' = IF retry[t] + 1 = kMaxTestAttempts THEN "Error" ELSE "none"
      BY <2>1, <2>2, <2>3, <2>5
    <3> QED
      BY <1>4, <2>3, <3>1, RetriesErr
  <2> QED
    BY <2>4, <2>5
<1>9. CASE RecordError(w) \/ \E matches \in BOOLEAN : RecordResult(w, matches)
  <2>1. /\ step[t] = "record" /\ step'[t] = "return"
        /\ UNCHANGED <<retry, test_result>>
    BY <1>1, <1>2, <1>9 DEF RecordError, RecordResult, AtStep
  <2> QED
    BY <1>5, <2>1
<1> QED
  BY <1>6, <1>7, <1>8, <1>9

LEMMA StepRefinesRetryContract ==
  ASSUME AnswerIInv, [Next]_vars
  PROVE  [Retries!Next]_(Retries!vars)
<1> USE DEF AnswerIInv
<1>1. ASSUME UNCHANGED <<attempts, compilation, funcVars>>,
             UNCHANGED phase \/ compilation \in {"kUnknown", "kSuccess"}
               \/ "returned" \notin {phase, phase'}
      PROVE  UNCHANGED Retries!vars
  BY <1>1, TestsQuiet, CompilationQuiet, RetriesStutter DEF funcVars
<1>2. CASE RejectArguments \/ AcceptArguments \/ MakeTempPath \/ CompileThrows \/ GiveAnswer
  <2>1. compilation \in {"kUnknown", "kSuccess"} \/ "returned" \notin {phase, phase'}
    BY <1>2 DEF RejectArguments, AcceptArguments, MakeTempPath, CompileThrows, GiveAnswer,
       NothingCompiled,
       TesterIInv, Phases
  <2> QED
    BY <1>1, <1>2, <2>1 DEF RejectArguments, AcceptArguments, MakeTempPath, CompileThrows,
       GiveAnswer
<1>3. ASSUME NEW result \in {"kSuccess", "kFailed", "Error"}, CompileAttempt(result)
      PROVE  [Retries!Next]_(Retries!vars)
  BY <1>3, CompileAttemptRetries
<1>4. CASE UNCHANGED testVars
  BY <1>1, <1>4 DEF testVars
<1>5. CASE Caller
  BY <1>2, <1>3, <1>4, <1>5 DEF Caller, ScopeStep
<1>6. ASSUME NEW w \in Workers, Worker(w)
      PROVE  [Retries!Next]_(Retries!vars)
  BY <1>4, <1>6, TestStepRetries DEF Worker, EndTest
<1> QED
  BY <1>4, <1>5, <1>6 DEF Next, vars

\* The compilation and every test are tried up to kMaxTestAttempts times while they
\* end in errors, and an outcome stays (tester_sandboxer.cc lines 78-93).
THEOREM TestImplementsRetries == Spec => RefinesRetries
<1>1. Init => Retries!Init
  BY DEF Init, Retries!Init, RetryOutcome, RetryErrors, CompilationOutcome, TestOutcome
<1> QED
  BY <1>1, StepRefinesRetryContract, AnswerInvariant, PTL DEF Spec, RefinesRetries, Retries!Spec

-----------------------------------------------------------------------------
(* A call of Test implements TestContract.                                 *)

ContractAnswer == IF answer = "Ok" /\ compilation = "kFailed" THEN "NotCompiled" ELSE answer

\* What each verdict says of a test.
LEMMA VerdictMeaning ==
  ASSUME AnswerIInv, NEW t \in Tests
  PROVE  /\ Verdict(t) \in {"waiting", "open", "ran", "passed", "failed", "error", "dropped"}
         /\ Verdict(t) = "open" <=> ~Ran(t) /\ InFlight(t)
         /\ Verdict(t) = "waiting" <=> ~Ran(t) /\ ~InFlight(t) /\ step[t] # "return"
         /\ Verdict(t) = "failed" <=> t \in Failed
         /\ Verdict(t) = "error" <=>
              ~Ran(t) /\ step[t] = "return" /\ retry[t] = kMaxTestAttempts
<1>1. Ran(t) => test_results[t].passed \in {"nullopt", "true", "false"}
  BY DEF AnswerIInv, TesterIInv, TesterTypeOK, ExecutionResults, Ran
<1>2. Ran(t) => Verdict(t) = CASE test_results[t].passed = "nullopt" -> "ran"
                               [] test_results[t].passed = "true" -> "passed"
                               [] test_results[t].passed = "false" -> "failed"
  BY DEF Verdict
<1>3. Ran(t) => /\ Verdict(t) \in {"ran", "passed", "failed"}
                /\ Verdict(t) = "failed" <=> test_results[t].passed = "false"
  BY <1>1, <1>2
<1>4. ~Ran(t) => Verdict(t) = IF InFlight(t) THEN "open"
                              ELSE IF step[t] # "return" THEN "waiting"
                              ELSE IF test_result[t] = "Cancelled" THEN "dropped" ELSE "error"
  BY DEF Verdict
<1>5. ~Ran(t) /\ step[t] = "return" =>
        (test_result[t] # "Cancelled" <=> retry[t] = kMaxTestAttempts)
  BY DEF AnswerIInv, Exhaustion
<1>6. InFlight(t) => step[t] # "return"
  BY DEF InFlight
<1> QED
  BY <1>3, <1>4, <1>5, <1>6 DEF Failed

\* Steps that no verdict notices.
LEMMA VerdictQuiet ==
  ASSUME NEW t \in Tests, UNCHANGED compilation,
         test_results'[t] = test_results[t],
         step'[t] = step[t], retry'[t] = retry[t], test_result'[t] = test_result[t]
  PROVE  Verdict(t)' = Verdict(t)
BY DEF Verdict, Ran, InFlight

\* TestContract tells the tests halted when the code stops them.
LEMMA HaltedIsStopped ==
  ASSUME AnswerIInv, compilation = "kSuccess"
  PROVE  Contract!Halted <=> should_stop
<1> USE DEF AnswerIInv
<1>1. Contract!With("error") = {t \in Tests : Verdict(t) = "error"}
      /\ Contract!With("failed") = {t \in Tests : Verdict(t) = "failed"}
  BY DEF Contract!With, Contract!Tests
<1>2. Contract!With("failed") = Failed
  BY <1>1, VerdictMeaning DEF Failed
<1>3. ASSUME overall_status # 0 PROVE Contract!With("error") # {}
  <2>1. overall_status \in Tests
    BY <1>3 DEF TesterIInv, TesterTypeOK
  <2>2. Verdict(overall_status) = "error"
    BY <1>3, <2>1, VerdictMeaning DEF Exhaustion
  <2> QED
    BY <1>1, <2>1, <2>2
<1>4. ASSUME NEW t \in Contract!With("error") PROVE should_stop
  <2>1. t \in Tests /\ ~Ran(t) /\ step[t] = "return"
    BY <1>1, VerdictMeaning
  <2> QED
    BY <2>1 DEF TesterIInv, StopCauses
<1>5. stop_on_first_failure /\ ~should_stop => Failed = {}
  BY DEF TesterIInv, FailureLimit
<1>6. should_stop => overall_status # 0 \/ (stop_on_first_failure /\ Failed # {})
  BY DEF TesterIInv, StopCauses
<1> QED
  BY <1>2, <1>3, <1>4, <1>5, <1>6 DEF Contract!Halted

\* Steps that a caller cannot tell from a stutter.
LEMMA ContractStutter ==
  ASSUME \A t \in Tests : Verdict(t)' = Verdict(t),
         UNCHANGED <<callVars, answer>>,
         ContractAnswer' = ContractAnswer
  PROVE  UNCHANGED Contract!vars
BY DEF Contract!vars, callVars, checking_outputs, ContractAnswer

\* The verdict of test t becomes v, and nothing else a caller sees changes.
LEMMA VerdictChanges ==
  ASSUME NEW t \in Tests, NEW v, Verdict(t)' = v,
         \A u \in Tests \ {t} : Verdict(u)' = Verdict(u),
         UNCHANGED <<callVars, answer, compilation>>
  PROVE  /\ [u \in Tests |-> Verdict(u)]' = [[u \in Tests |-> Verdict(u)] EXCEPT ![t] = v]
         /\ UNCHANGED <<checking_outputs, stop_on_first_failure, ContractAnswer>>
BY DEF callVars, checking_outputs, ContractAnswer

LEMMA TestIsDropped ==
  ASSUME AnswerIInv, compilation = "kSuccess", should_stop, NEW t \in Tests,
         Verdict(t) \in {"waiting", "open"}, Verdict(t)' = "dropped",
         \A u \in Tests \ {t} : Verdict(u)' = Verdict(u),
         UNCHANGED <<callVars, answer, compilation>>
  PROVE  Contract!Next
<1>1. Contract!Halted
  BY HaltedIsStopped
<1>2. Contract!Drop(t)
  BY <1>1, VerdictChanges DEF Contract!Drop, ContractAnswer
<1> QED
  BY <1>2 DEF Contract!Next, Contract!Tests

LEMMA TestIsClosed ==
  ASSUME NEW t \in Tests, Verdict(t) = "open",
         NEW v \in {"error"} \cup IF checking_outputs THEN {"passed", "failed"} ELSE {"ran"},
         Verdict(t)' = v,
         \A u \in Tests \ {t} : Verdict(u)' = Verdict(u),
         UNCHANGED <<callVars, answer, compilation>>
  PROVE  Contract!Next
<1>1. Contract!Close(t)
  BY VerdictChanges DEF Contract!Close, ContractAnswer
<1> QED
  BY <1>1 DEF Contract!Next, Contract!Tests

\* The test of worker w is opened: fewer than NumThreads others are open.
LEMMA TestIsOpened ==
  ASSUME AnswerIInv, compilation = "kSuccess", answer = "none", ~should_stop,
         NEW w \in Workers, worker[w] = "calling", NEW t \in Tests, t = func[w],
         Verdict(t) = "waiting", Verdict(t)' = "open",
         \A u \in Tests \ {t} : Verdict(u)' = Verdict(u),
         UNCHANGED <<callVars, answer, compilation>>
  PROVE  Contract!Next
<1> USE DEF AnswerIInv
<1> DEFINE Opened == {u \in Tests : Verdict(u) = "open"}
<1>1. ~Contract!Halted
  BY HaltedIsStopped
<1>2. Opened \subseteq Running \ {t}
  <2>1. ASSUME NEW u \in Tests, InFlight(u) PROVE u \in Running
    BY <2>1 DEF InFlight, TesterIInv, Steps, Running
  <2> QED
    BY <2>1, VerdictMeaning
<1>3. /\ IsFiniteSet(Running) /\ Cardinality(Running) \in Nat
      /\ Cardinality(Running) <= NumThreads
  <2>1. NumThreads >= 0
    OBVIOUS
  <2> QED
    BY <2>1, RunningLimit DEF TesterIInv
<1>4. t \in Running
  BY DEF Running
<1>5. /\ IsFiniteSet(Running \ {t})
      /\ Cardinality(Running \ {t}) = Cardinality(Running) - 1
  BY <1>3, <1>4, FS_RemoveElement
<1>6. Cardinality(Opened) <= Cardinality(Running \ {t}) /\ Cardinality(Opened) \in Nat
  BY <1>2, <1>5, FS_Subset, FS_CardinalityType
<1>7. Contract!Cardinality(Contract!With("open")) < NumThreads
  <2>1. Contract!With("open") = Opened
    BY DEF Contract!With, Contract!Tests
  <2>2. Contract!Cardinality(Opened) = Cardinality(Opened)
    BY Zenon DEF Cardinality, Contract!Cardinality, IsFiniteSet, Contract!IsFiniteSet
  <2> QED
    BY <1>3, <1>5, <1>6, <2>1, <2>2
<1>8. Contract!Open(t)
  BY <1>1, <1>7, VerdictChanges DEF Contract!Open, ContractAnswer
<1> QED
  BY <1>8 DEF Contract!Next, Contract!Tests

\* The steps of the function of a test.
LEMMA TestStepRefinesContract ==
  ASSUME AnswerIInv, AnswerIInv', NEW w \in Workers,
         \/ BeginTest(w) \/ CheckStop(w)
         \/ \E result \in RunStatuses \cup {"Error"} : RunCodeOnInput(w, result)
         \/ RecordError(w) \/ \E matches \in BOOLEAN : RecordResult(w, matches)
  PROVE  [Contract!Next]_(Contract!vars)
<1> USE DEF AnswerIInv
<1>1. PICK t \in Tests : /\ t = func[w] /\ compilation = "kSuccess" /\ answer = "none"
                        /\ \A v \in Workers \ {w} : func[v] # t
                        /\ t \notin finished
  <2>1. worker[w] \in {"holding", "calling"} /\ func[w] # nullptr
    BY DEF BeginTest, CallFunc, CheckStop, RunCodeOnInput, RecordError, RecordResult, AtStep,
       TesterIInv, PoolIInv, Holding
  <2> QED
    BY <2>1, InFunction DEF TesterIInv, Phases
<1>2. /\ step \in [Tests -> {"queued", "check", "run", "record", "return"}]
      /\ retry \in [Tests -> 0..kMaxTestAttempts]
      /\ test_result \in [Tests -> RunStatuses \cup {"none", "Error", "Cancelled"}]
      /\ test_results \in [Tests -> ExecutionResults]
  BY <1>1 DEF TesterIInv, TesterTypeOK
<1>3. UNCHANGED <<callVars, answer, compilation, phase>>
  BY DEF BeginTest, CheckStop, RunCodeOnInput, RecordError, RecordResult
<1>4. \A u \in Tests \ {t} : Verdict(u)' = Verdict(u)
  <2>1. \A u \in Tests \ {t} : /\ step'[u] = step[u] /\ retry'[u] = retry[u]
                              /\ test_result'[u] = test_result[u]
                              /\ test_results'[u] = test_results[u]
    BY <1>1, <1>2 DEF BeginTest, CheckStop, RunCodeOnInput, RecordError, RecordResult, resultVars
  <2> QED
    BY <1>3, <2>1, VerdictQuiet
<1>5. ASSUME Verdict(t)' = Verdict(t) PROVE UNCHANGED Contract!vars
  <2>1. ContractAnswer' = ContractAnswer
    BY <1>3 DEF ContractAnswer
  <2> QED
    BY <1>3, <1>4, <1>5, <2>1, ContractStutter
<1>6. step[t] \in {"check", "run", "record"} => ~Ran(t)
  BY DEF TesterIInv, StopCauses
<1>7. CASE BeginTest(w)
  <2>1. step[t] = "queued" /\ step'[t] = "check" /\ retry'[t] = 0
    BY <1>1, <1>2, <1>7 DEF BeginTest, CallFunc, TesterIInv, Steps
  <2>2. ~Ran(t) /\ Verdict(t) = "waiting"
    BY <2>1, VerdictMeaning DEF InFlight, TesterIInv, StopCauses
  <2>3. ~Ran(t)' /\ ~InFlight(t)'
    BY <1>7, <2>1, <2>2 DEF BeginTest, Ran, resultVars, InFlight
  <2>4. Verdict(t)' = "waiting"
    BY <2>1, <2>3 DEF Verdict
  <2> QED
    BY <1>5, <2>2, <2>4
<1>8. CASE CheckStop(w)
  <2>1. /\ worker[w] = "calling" /\ step[t] = "check" /\ retry'[t] = retry[t]
        /\ step'[t] = IF should_stop THEN "return" ELSE "run"
        /\ should_stop => test_result'[t] = "Cancelled"
        /\ UNCHANGED test_results
    BY <1>1, <1>2, <1>8 DEF CheckStop, AtStep, resultVars
  <2>2. ~Ran(t) /\ ~Ran(t)'
    BY <1>3, <1>6, <2>1 DEF Ran
  <2>3. Verdict(t) = IF InFlight(t) THEN "open" ELSE "waiting"
    BY <2>1, <2>2 DEF Verdict
  <2>4. CASE should_stop
    <3>1. Verdict(t)' = "dropped"
      BY <2>1, <2>2, <2>4 DEF Verdict, InFlight
    <3> QED
      BY <1>1, <1>3, <1>4, <2>3, <2>4, <3>1, TestIsDropped
  <2>5. CASE ~should_stop
    <3>1. Verdict(t)' = "open"
      BY <2>1, <2>2, <2>5 DEF Verdict, InFlight
    <3>2. CASE InFlight(t)
      BY <1>5, <2>3, <3>1, <3>2
    <3>3. CASE ~InFlight(t)
      BY <1>1, <1>3, <1>4, <2>1, <2>3, <2>5, <3>1, <3>3, TestIsOpened
    <3> QED
      BY <3>2, <3>3
  <2> QED
    BY <2>4, <2>5
<1>9. ASSUME NEW result \in RunStatuses \cup {"Error"}, RunCodeOnInput(w, result)
      PROVE  [Contract!Next]_(Contract!vars)
  <2>1. /\ step[t] = "run" /\ retry'[t] = retry[t] + 1 /\ retry[t] \in Nat
        /\ step'[t] \in {"check", "record"}
        /\ UNCHANGED test_results
    <3>1. /\ step[t] = "run" /\ retry' = [retry EXCEPT ![t] = @ + 1]
          /\ step' = [step EXCEPT ![t] =
                        IF result = "Error" /\ retry[t] + 1 < kMaxTestAttempts
                          THEN "check" ELSE "record"]
          /\ UNCHANGED test_results
      BY <1>1, <1>9 DEF RunCodeOnInput, AtStep, resultVars
    <3>2. retry[t] \in 0..kMaxTestAttempts
      BY <1>2
    <3> QED
      BY <1>2, <3>1, <3>2
  <2>2. ~Ran(t) /\ ~Ran(t)' /\ InFlight(t) /\ InFlight(t)'
    BY <1>3, <1>6, <2>1 DEF Ran, InFlight
  <2>3. Verdict(t)' = Verdict(t)
    BY <2>2 DEF Verdict
  <2> QED
    BY <1>5, <2>3
<1>10. CASE RecordError(w) \/ \E matches \in BOOLEAN : RecordResult(w, matches)
  <2>1. step[t] = "record" /\ step'[t] = "return" /\ UNCHANGED test_result
    BY <1>1, <1>2, <1>10 DEF RecordError, RecordResult, AtStep
  <2>2. ~Ran(t) /\ InFlight(t) /\ ~InFlight(t)' /\ Verdict(t) = "open"
    BY <1>6, <2>1 DEF InFlight, Verdict
  <2>3. CASE RecordError(w)
    <3>1. test_result[t] = "Error" /\ UNCHANGED test_results
      BY <1>1, <2>3 DEF RecordError
    <3>2. ~Ran(t)'
      BY <1>3, <2>2, <3>1 DEF Ran
    <3>3. Verdict(t)' = "error"
      BY <2>1, <2>2, <3>1, <3>2 DEF Verdict
    <3> QED
      BY <1>3, <1>4, <2>2, <3>3, TestIsClosed
  <2>4. ASSUME NEW matches \in BOOLEAN, RecordResult(w, matches)
        PROVE  Contract!Next
    <3> DEFINE p == IF ~checking_outputs THEN "nullopt" ELSE IF matches THEN "true" ELSE "false"
    <3>1. /\ test_result[t] \in RunStatuses
          /\ test_results'[t] = [program_status |-> test_result[t], passed |-> p]
      BY <1>1, <1>2, <2>1, <2>4 DEF RecordResult, TesterIInv, Steps
    <3>2. Ran(t)' /\ test_results'[t].passed = p
      BY <1>1, <1>3, <3>1 DEF Ran
    <3>3. Verdict(t)' = IF ~checking_outputs THEN "ran" ELSE IF matches THEN "passed" ELSE "failed"
      BY <3>2 DEF Verdict
    <3> QED
      BY <1>3, <1>4, <2>2, <3>3, TestIsClosed
  <2> QED
    BY <1>10, <2>3, <2>4
<1> QED
  BY <1>7, <1>8, <1>9, <1>10

\* Before the code has compiled every test waits.
LEMMA NotCompiledWaits ==
  ASSUME AnswerIInv, compilation # "kSuccess", NEW t \in Tests
  PROVE  Verdict(t) = "waiting"
BY DEF AnswerIInv, TesterIInv, Phases, Verdict, Ran, InFlight

\* The steps of the calling thread before the scope of the pool.
LEMMA FirstStepsRefineContract ==
  ASSUME AnswerIInv, AnswerIInv',
         \/ RejectArguments \/ AcceptArguments \/ MakeTempPath \/ CompileThrows
         \/ \E result \in {"kSuccess", "kFailed", "Error"} : CompileAttempt(result)
  PROVE  [Contract!Next]_(Contract!vars)
<1>1. /\ UNCHANGED <<callVars, step, retry, test_result>>
      /\ compilation # "kSuccess" /\ answer = "none"
  BY DEF RejectArguments, AcceptArguments, MakeTempPath, CompileThrows, CompileAttempt,
     funcVars,
     AnswerIInv, TesterIInv, Phases
<1>2. ASSUME NEW t \in Tests PROVE Verdict(t) = "waiting" /\ Verdict(t)' = "waiting"
  <2>1. step[t] = "queued" /\ step'[t] = "queued"
    BY <1>1 DEF AnswerIInv, TesterIInv, Phases
  <2>2. ~Ran(t)' /\ ~InFlight(t)'
    BY <2>1 DEF AnswerIInv, TesterIInv, StopCauses, InFlight
  <2> QED
    BY <1>1, <2>1, <2>2, NotCompiledWaits DEF Verdict
<1>3. UNCHANGED <<checking_outputs, stop_on_first_failure, [t \in Tests |-> Verdict(t)]>>
  BY <1>1, <1>2 DEF callVars, checking_outputs
<1>4. ContractAnswer = "none"
  BY <1>1 DEF ContractAnswer
<1>5. CASE ContractAnswer' = "none"
  BY <1>3, <1>4, <1>5 DEF Contract!vars, ContractAnswer
<1>6. CASE ContractAnswer' \in {"InvalidArgument", "NotCompiled", "Error"}
  <2>1. Contract!Decline
    BY <1>2, <1>3, <1>4, <1>6 DEF Contract!Decline, Contract!Tests, ContractAnswer
  <2> QED
    BY <2>1 DEF Contract!Next
<1>7. ContractAnswer' \in {"none", "InvalidArgument", "NotCompiled", "Error"}
  BY <1>1 DEF RejectArguments, AcceptArguments, MakeTempPath, CompileThrows, CompileAttempt,
     Return, ContractAnswer
<1> QED
  BY <1>5, <1>6, <1>7

\* The answer is given when every test has been closed or dropped: with at least
\* one thread, nothing is left in the queue.
LEMMA GiveAnswerRefinesContract ==
  ASSUME NumThreads > 0, AnswerIInv, GiveAnswer
  PROVE  Contract!Next
<1> USE DEF AnswerIInv
<1>1. /\ compilation = "kSuccess" /\ answer = "none" /\ owner = "gone"
      /\ answer' = IF overall_status = 0 THEN "Ok" ELSE "Error"
      /\ UNCHANGED <<callVars, compilation, test_results, step, retry, test_result>>
  BY DEF GiveAnswer, Return, resultVars, funcVars, TesterIInv, Phases
<1>2. \A t \in Tests : step[t] = "return"
  <2>1. scheduled = NumTasks /\ joined = threads /\ threads > 0
    BY <1>1 DEF TesterIInv, Phases, PoolIInv, Lifecycle, PoolTypeOK
  <2>2. finished = Tests
    BY <1>1, <2>1, AllJoinedDrained DEF TesterIInv
  <2> QED
    BY <2>2 DEF TesterIInv, Steps
<1>3. \A t \in Tests : Verdict(t)' = Verdict(t)
  BY <1>1, VerdictQuiet
<1>4. UNCHANGED <<checking_outputs, stop_on_first_failure, [t \in Tests |-> Verdict(t)]>>
  BY <1>1, <1>3 DEF callVars, checking_outputs
<1>5. Contract!With("waiting") \cup Contract!With("open") = {}
  BY <1>2, VerdictMeaning DEF Contract!With, Contract!Tests, InFlight
<1>6. Contract!With("error") = {} <=> overall_status = 0
  <2>1. Contract!With("error") = {t \in Tests : Verdict(t) = "error"}
    BY DEF Contract!With, Contract!Tests
  <2>2. ASSUME overall_status = 0, NEW t \in Tests PROVE Verdict(t) # "error"
    BY <2>2, VerdictMeaning DEF Exhaustion
  <2>3. ASSUME overall_status # 0
        PROVE  overall_status \in Tests /\ Verdict(overall_status) = "error"
    <3>1. overall_status \in Tests
      BY <2>3 DEF TesterIInv, TesterTypeOK
    <3> QED
      BY <2>3, <3>1, VerdictMeaning DEF Exhaustion
  <2> QED
    BY <2>1, <2>2, <2>3
<1>7. /\ ContractAnswer = "none"
      /\ ContractAnswer' = IF overall_status = 0 THEN "Ok" ELSE "Error"
  BY <1>1 DEF ContractAnswer
<1>8. Contract!Answer
  BY <1>4, <1>5, <1>6, <1>7 DEF Contract!Answer, ContractAnswer
<1> QED
  BY <1>8 DEF Contract!Next

LEMMA StepRefinesContract ==
  ASSUME NumThreads > 0, AnswerIInv, AnswerIInv', [Next]_vars
  PROVE  [Contract!Next]_(Contract!vars)
<1>1. CASE UNCHANGED testVars
  <2>1. UNCHANGED <<callVars, answer, compilation, test_results, step, retry, test_result>>
    BY <1>1 DEF testVars, resultVars, funcVars
  <2>2. \A t \in Tests : Verdict(t)' = Verdict(t)
    BY <2>1, VerdictQuiet
  <2> QED
    BY <2>1, <2>2, ContractStutter DEF ContractAnswer
<1>2. CASE Caller
  BY <1>1, <1>2, FirstStepsRefineContract, GiveAnswerRefinesContract DEF Caller, ScopeStep
<1>3. ASSUME NEW w \in Workers, Worker(w)
      PROVE  [Contract!Next]_(Contract!vars)
  BY <1>1, <1>3, TestStepRefinesContract DEF Worker, EndTest
<1> QED
  BY <1>1, <1>2, <1>3 DEF Next, vars

\* With at least one thread, a call of Test implements TestContract: tests are
\* opened, closed and dropped as a caller may rely on, at most NumThreads at a
\* time, and the answer is given when none is left (tester_sandboxer.cc lines
\* 336-419).
THEOREM TestImplementsContract ==
  ASSUME NumThreads > 0
  PROVE  Spec => RefinesContract
<1>1. Init => Contract!Init
  <2> SUFFICES ASSUME Init PROVE Contract!Init
    OBVIOUS
  <2>1. AnswerIInv /\ compilation # "kSuccess" /\ answer = "none"
    BY AnswerInitInv DEF Init
  <2>2. \A t \in Tests : Verdict(t) = "waiting"
    BY <2>1, NotCompiledWaits
  <2>3. stop_on_first_failure \in BOOLEAN
    BY Zenon DEF Init
  <2>4. checking_outputs \in BOOLEAN
    BY DEF checking_outputs
  <2> QED
    BY <2>1, <2>2, <2>3, <2>4 DEF Contract!Init, Contract!Tests
<1>2. AnswerIInv /\ AnswerIInv' /\ [Next]_vars => [Contract!Next]_(Contract!vars)
  BY StepRefinesContract
<1> QED
  BY <1>1, <1>2, AnswerInvariant, PTL DEF Spec, RefinesContract, Contract!Spec
=============================================================================
