--------------------------- MODULE TesterSandboxer ---------------------------
(***************************************************************************)
(* One call of TesterSandboxer::Test (execution/tester_sandboxer.cc): the  *)
(* calling thread checks the arguments, makes a temporary directory,       *)
(* compiles the code and then hands one function per test input to a       *)
(* ThreadPool.  The functions run concurrently; each retries its test and  *)
(* writes its result under output_mutex.  The scope of the pool is left    *)
(* before the answer is given.                                             *)
(*                                                                         *)
(* Test input i is written i + 1, the number of its function in the pool,  *)
(* so NumTasks is test_inputs.size() and NumThreads is num_threads.        *)
(*                                                                         *)
(* CompileCode and RunCodeOnInput are left to choice: either may return    *)
(* any of its results, or an error, every time it is called.               *)
(***************************************************************************)
EXTENDS ThreadPool

CONSTANT RunStatuses     (* the program_status a sandboxed test may end with *)

ProgramStatus == {"kUnknown", "kSuccess", "kFailed", "kTimeout"}

ASSUME RunStatusesAssumption == RunStatuses \subseteq ProgramStatus \ {"kUnknown"}

kMaxTestAttempts == 3

Tests == 1..NumTasks

VARIABLES
  expected,        (* expected_test_outputs.size()                          *)
  stop_on_first_failure,
  phase,           (* where the calling thread is in Test                   *)
  attempts,        (* the attempts at CompileCode so far                    *)
  compilation,     (* compilation_result.program_status, or "Error"         *)
  test_results,    (* multi_test_result.test_results                        *)
  overall_status,  (* 0 for OK, else the test whose status it is            *)
  should_stop,
  step,            (* where the function of each test is                    *)
  retry,           (* the loop variable of RetryIfFail in that function     *)
  test_result,     (* the test_result local of that function                *)
  answer           (* what Test returned                                    *)

callVars == <<expected, stop_on_first_failure>>
resultVars == <<test_results, overall_status, should_stop>>
funcVars == <<step, retry, test_result>>
testVars == <<callVars, phase, attempts, compilation, resultVars, funcVars, answer>>
vars == <<poolVars, testVars>>

checking_outputs == expected > 0

\* A default-constructed ExecutionResult.
NotRun == [program_status |-> "kUnknown", passed |-> "nullopt"]

Init ==
  /\ PoolInit
  /\ expected \in {0, NumTasks, NumTasks + 1}
  /\ stop_on_first_failure \in BOOLEAN
  /\ phase = "arguments"
  /\ attempts = 0
  /\ compilation = "kUnknown"
  /\ test_results = <<>>
  /\ overall_status = 0
  /\ should_stop = FALSE
  /\ step = [t \in Tests |-> "queued"]
  /\ retry = [t \in Tests |-> 0]
  /\ test_result = [t \in Tests |-> "none"]
  /\ answer = "none"

-----------------------------------------------------------------------------
(* The calling thread.                                                     *)

BadArguments == \/ checking_outputs /\ expected # NumTasks
                \/ stop_on_first_failure /\ ~checking_outputs

\* Test gives its answer a.
Return(a) ==
  /\ phase' = "returned"
  /\ answer' = a

RejectArguments ==
  /\ phase = "arguments"
  /\ BadArguments
  /\ Return("InvalidArgument")
  /\ UNCHANGED <<poolVars, callVars, attempts, compilation, resultVars, funcVars>>

AcceptArguments ==
  /\ phase = "arguments"
  /\ ~BadArguments
  /\ phase' = "temp_path"
  /\ UNCHANGED <<poolVars, callVars, attempts, compilation, resultVars, funcVars, answer>>

\* TempPath either creates its directory or aborts the process, as it does
\* when the directory already exists; the caller's check for null never fires.
MakeTempPath ==
  /\ phase = "temp_path"
  /\ phase' \in {"compiling", "aborted"}
  /\ UNCHANGED <<poolVars, callVars, attempts, compilation, resultVars, funcVars, answer>>

\* As CompileAttempt, with a kFailed that is tried again like an error.
CompileAttemptRetryingFailures(result) ==
  /\ phase = "compiling"
  /\ attempts' = attempts + 1
  /\ compilation' = result
  /\ \/ /\ result = "kSuccess"
        /\ phase' = "testing"
        /\ test_results' = [t \in Tests |-> NotRun]
        /\ UNCHANGED answer
     \/ /\ result # "kSuccess"
        /\ UNCHANGED test_results
        /\ IF attempts + 1 < kMaxTestAttempts THEN UNCHANGED <<phase, answer>>
           ELSE Return(IF result = "Error" THEN "Error" ELSE "Ok")
  /\ UNCHANGED <<poolVars, callVars, overall_status, should_stop, funcVars>>

\* One turn of RetryIfFail around CompileCode, which returns result.
CompileAttempt(result) ==
  /\ phase = "compiling"
  /\ attempts' = attempts + 1
  /\ compilation' = result
  /\ \/ /\ result = "kSuccess"
        /\ phase' = "testing"
        /\ test_results' = [t \in Tests |-> NotRun]
        /\ UNCHANGED answer
     \/ /\ result = "kFailed"
        /\ Return("Ok")
        /\ UNCHANGED test_results
     \/ /\ result = "Error"
        /\ attempts + 1 < kMaxTestAttempts
        /\ UNCHANGED <<phase, answer, test_results>>
     \/ /\ result = "Error"
        /\ attempts + 1 >= kMaxTestAttempts
        /\ Return("Error")
        /\ UNCHANGED test_results
  /\ UNCHANGED <<poolVars, callVars, overall_status, should_stop, funcVars>>

\* An exception leaves CompileCode, which nothing catches: the process ends.
CompileThrows ==
  /\ phase = "compiling"
  /\ phase' = "aborted"
  /\ UNCHANGED <<poolVars, callVars, attempts, compilation, resultVars, funcVars, answer>>

\* The scope of the pool: every test is scheduled before the scope is left.
ScopeStep ==
  /\ phase = "testing"
  /\ \/ SpawnWorker \/ MarkStarted \/ Schedule
     \/ scheduled = NumTasks /\ SignalShutdown
     \/ Join \/ DestructorReturns
  /\ UNCHANGED testVars

\* As GiveAnswer, without RETURN_IF_ERROR.
GiveAnswerUnchecked ==
  /\ phase = "testing"
  /\ owner = "gone"
  /\ Return("Ok")
  /\ UNCHANGED <<poolVars, callVars, attempts, compilation, resultVars, funcVars>>

\* Behind the scope: RETURN_IF_ERROR(overall_status), then the results.
GiveAnswer ==
  /\ phase = "testing"
  /\ owner = "gone"
  /\ Return(IF overall_status = 0 THEN "Ok" ELSE "Error")
  /\ UNCHANGED <<poolVars, callVars, attempts, compilation, resultVars, funcVars>>

Caller ==
  \/ RejectArguments \/ AcceptArguments \/ MakeTempPath
  \/ \E result \in {"kSuccess", "kFailed", "Error"} : CompileAttempt(result)
  \/ CompileThrows \/ ScopeStep \/ GiveAnswer

-----------------------------------------------------------------------------
(* The function of a test, on the worker w that called it.                 *)

BeginTest(w) ==
  /\ CallFunc(w)
  /\ step' = [step EXCEPT ![func[w]] = "check"]
  /\ retry' = [retry EXCEPT ![func[w]] = 0]
  /\ UNCHANGED <<callVars, phase, attempts, compilation, resultVars, test_result, answer>>

\* Where worker w is in the function it has called.
AtStep(w, s) == worker[w] = "calling" /\ step[func[w]] = s

\* As CheckStop, without a look at should_stop.
CheckStopUnread(w) ==
  /\ AtStep(w, "check")
  /\ step' = [step EXCEPT ![func[w]] = "run"]
  /\ UNCHANGED <<poolVars, callVars, phase, attempts, compilation, resultVars,
                 retry, test_result, answer>>

\* The reader lock: a stopped test is cancelled, which neither RetryIfFail
\* nor the caller of it goes on with.
CheckStop(w) ==
  /\ AtStep(w, "check")
  /\ step' = [step EXCEPT ![func[w]] = IF should_stop THEN "return" ELSE "run"]
  /\ test_result' = [test_result EXCEPT
                       ![func[w]] = IF should_stop THEN "Cancelled" ELSE @]
  /\ UNCHANGED <<poolVars, callVars, phase, attempts, compilation, resultVars,
                 retry, answer>>

\* As RunCodeOnInput, with one retry more.
RunCodeOnInputOnceMore(w, result) ==
  /\ AtStep(w, "run")
  /\ retry' = [retry EXCEPT ![func[w]] = @ + 1]
  /\ test_result' = [test_result EXCEPT ![func[w]] = result]
  /\ step' = [step EXCEPT ![func[w]] =
                IF result = "Error" /\ retry[func[w]] < kMaxTestAttempts
                  THEN "check" ELSE "record"]
  /\ UNCHANGED <<poolVars, callVars, phase, attempts, compilation, resultVars, answer>>

\* RunCodeOnInput returns result; RetryIfFail tries an error again.
RunCodeOnInput(w, result) ==
  /\ AtStep(w, "run")
  /\ retry' = [retry EXCEPT ![func[w]] = @ + 1]
  /\ test_result' = [test_result EXCEPT ![func[w]] = result]
  /\ step' = [step EXCEPT ![func[w]] =
                IF result = "Error" /\ retry[func[w]] + 1 < kMaxTestAttempts
                  THEN "check" ELSE "record"]
  /\ UNCHANGED <<poolVars, callVars, phase, attempts, compilation, resultVars, answer>>

\* As RecordError, without setting should_stop.
RecordErrorWithoutStop(w) ==
  /\ AtStep(w, "record")
  /\ test_result[func[w]] = "Error"
  /\ overall_status' = IF overall_status = 0 THEN func[w] ELSE overall_status
  /\ step' = [step EXCEPT ![func[w]] = "return"]
  /\ UNCHANGED <<poolVars, callVars, phase, attempts, compilation, test_results,
                 should_stop, retry, test_result, answer>>

\* The writer lock, for a test that could not be run: Update keeps the first
\* status that is not OK.
RecordError(w) ==
  /\ AtStep(w, "record")
  /\ test_result[func[w]] = "Error"
  /\ overall_status' = IF overall_status = 0 THEN func[w] ELSE overall_status
  /\ should_stop' = TRUE
  /\ step' = [step EXCEPT ![func[w]] = "return"]
  /\ UNCHANGED <<poolVars, callVars, phase, attempts, compilation, test_results,
                 retry, test_result, answer>>

\* As RecordResult, with a stop on every failure whatever the options say.
RecordResultAlwaysStopping(w, matches) ==
  /\ AtStep(w, "record")
  /\ test_result[func[w]] # "Error"
  /\ should_stop' = (should_stop \/ (checking_outputs /\ ~matches))
  /\ test_results' =
       [test_results EXCEPT ![func[w]] =
          [program_status |-> test_result[func[w]],
           passed |-> IF ~checking_outputs THEN "nullopt"
                      ELSE IF matches THEN "true" ELSE "false"]]
  /\ step' = [step EXCEPT ![func[w]] = "return"]
  /\ UNCHANGED <<poolVars, callVars, phase, attempts, compilation, overall_status,
                 retry, test_result, answer>>

\* The writer lock, for a test that ran: matches is what compare_outputs says.
RecordResult(w, matches) ==
  /\ AtStep(w, "record")
  /\ test_result[func[w]] # "Error"
  /\ should_stop' = (should_stop \/ (checking_outputs /\ stop_on_first_failure /\ ~matches))
  /\ test_results' =
       [test_results EXCEPT ![func[w]] =
          [program_status |-> test_result[func[w]],
           passed |-> IF ~checking_outputs THEN "nullopt"
                      ELSE IF matches THEN "true" ELSE "false"]]
  /\ step' = [step EXCEPT ![func[w]] = "return"]
  /\ UNCHANGED <<poolVars, callVars, phase, attempts, compilation, overall_status,
                 retry, test_result, answer>>

EndTest(w) ==
  /\ AtStep(w, "return")
  /\ FuncReturns(w)
  /\ UNCHANGED testVars

Worker(w) ==
  \/ (TakeWork(w) \/ LeaveLoop(w)) /\ UNCHANGED testVars
  \/ BeginTest(w)
  \/ CheckStop(w)
  \/ \E result \in RunStatuses \cup {"Error"} : RunCodeOnInput(w, result)
  \/ RecordError(w)
  \/ \E matches \in BOOLEAN : RecordResult(w, matches)
  \/ EndTest(w)

-----------------------------------------------------------------------------
Next == Caller \/ \E w \in Workers : Worker(w)

Spec == Init /\ [][Next]_vars

\* Test has returned or the process has been aborted.
Idle == phase \in {"returned", "aborted"} /\ UNCHANGED vars

\* Every thread goes on, and CompileCode and RunCodeOnInput return.
Fairness == WF_vars(Caller) /\ \A w \in Workers : WF_vars(Worker(w))

FairSpec == Init /\ [][Next \/ Idle]_vars /\ Fairness

-----------------------------------------------------------------------------
(* The abstract state of the call, for TestContract.                       *)

\* Whether test t has been run and its result stored.
Ran(t) == compilation = "kSuccess" /\ test_results[t].program_status # "kUnknown"

Failed == {t \in Tests : Ran(t) /\ test_results[t].passed = "false"}

\* Whether the function of test t is past its first look at should_stop and
\* has neither stored a result nor given up.
InFlight(t) == \/ step[t] \in {"run", "record"}
               \/ step[t] = "check" /\ retry[t] > 0

Verdict(t) ==
  IF Ran(t) THEN CASE test_results[t].passed = "nullopt" -> "ran"
                   [] test_results[t].passed = "true" -> "passed"
                   [] test_results[t].passed = "false" -> "failed"
  ELSE IF InFlight(t) THEN "open"
  ELSE IF step[t] # "return" THEN "waiting"
  ELSE IF test_result[t] = "Cancelled" THEN "dropped" ELSE "error"

Contract == INSTANCE TestContract WITH
              checking <- checking_outputs,
              stop <- stop_on_first_failure,
              verdict <- [t \in Tests |-> Verdict(t)],
              answer <- IF answer = "Ok" /\ compilation = "kFailed"
                          THEN "NotCompiled" ELSE answer

(* The calls of RetryIfFail, for RetryContract: 0 is the one around CompileCode, *)
(* and t the one in the function of test t.                                     *)

CompilationOutcome ==
  IF compilation = "kUnknown" \/ (compilation = "Error" /\ phase # "returned") THEN "none"
  ELSE IF compilation = "Error" THEN "Error" ELSE "Ok"

TestOutcome(t) ==
  IF step[t] \notin {"record", "return"} THEN "none"
  ELSE IF test_result[t] \in {"Error", "Cancelled"} THEN test_result[t] ELSE "Ok"

RetryOutcome(r) == IF r = 0 THEN CompilationOutcome ELSE TestOutcome(r)

RetryErrors(r) ==
  LET tried == IF r = 0 THEN attempts ELSE retry[r]
  IN IF RetryOutcome(r) = "Ok" THEN tried - 1 ELSE tried

Retries == INSTANCE RetryContract WITH
             Retried <- 0..NumTasks,
             MaxAttempts <- kMaxTestAttempts,
             errors <- [r \in 0..NumTasks |-> RetryErrors(r)],
             outcome <- [r \in 0..NumTasks |-> RetryOutcome(r)]

ExecutionResults == [program_status : RunStatuses \cup {"kUnknown"},
                     passed : {"nullopt", "true", "false"}]

\* The type invariant of a call of Test.
TesterTypeOK ==
  /\ PoolTypeOK
  /\ expected \in Nat
  /\ stop_on_first_failure \in BOOLEAN
  /\ phase \in {"arguments", "temp_path", "compiling", "testing", "returned", "aborted"}
  /\ attempts \in 0..kMaxTestAttempts
  /\ compilation \in {"kUnknown", "kSuccess", "kFailed", "Error"}
  /\ test_results \in IF compilation = "kSuccess" THEN [Tests -> ExecutionResults]
                      ELSE {<<>>}
  /\ overall_status \in 0..NumTasks
  /\ should_stop \in BOOLEAN
  /\ step \in [Tests -> {"queued", "check", "run", "record", "return"}]
  /\ retry \in [Tests -> 0..kMaxTestAttempts]
  /\ test_result \in [Tests -> RunStatuses \cup {"none", "Error", "Cancelled"}]
  /\ answer \in {"none", "InvalidArgument", "Ok", "Error"}

-----------------------------------------------------------------------------
(* The inductive invariant of a call of Test, beside that of the pool.     *)

\* The pool lives in the testing phase, and all tests are scheduled before
\* its scope is left.
Phases ==
  /\ phase \in {"arguments", "temp_path", "compiling", "aborted"} =>
       compilation # "kSuccess" /\ answer = "none"
  /\ phase \in {"arguments", "temp_path"} => attempts = 0
  /\ phase = "compiling" => attempts < kMaxTestAttempts
  /\ compilation # "kSuccess" =>
       /\ owner = "built" /\ threads = 0 /\ scheduled = 0
       /\ \A t \in Tests : step[t] = "queued"
  /\ phase = "testing" => compilation = "kSuccess" /\ answer = "none"
  /\ owner \in {"joining", "gone"} => scheduled = NumTasks
  /\ owner = "gone" => threads >= NumThreads
  /\ phase = "returned" /\ compilation = "kSuccess" =>
       /\ owner = "gone"
       /\ answer = IF overall_status = 0 THEN "Ok" ELSE "Error"

\* A function that was entered and has not returned is held by a worker.
Steps ==
  /\ \A w \in Workers : worker[w] = "calling" => step[func[w]] # "queued"
  /\ \A t \in Tests : step[t] # "queued" =>
       t \in finished \/ \E w \in Workers : worker[w] = "calling" /\ func[w] = t
  /\ \A t \in finished : step[t] = "return"
  /\ \A t \in Tests : step[t] = "record" =>
       test_result[t] \in RunStatuses \cup {"Error"}
  /\ \A t \in Tests : step[t] \in {"check", "run"} => retry[t] < kMaxTestAttempts

\* Why tests are stopped, and which of them have or lack a result.
StopCauses ==
  /\ compilation # "kSuccess" => overall_status = 0 /\ ~should_stop
  /\ overall_status # 0 => should_stop
  /\ should_stop => overall_status # 0 \/ (stop_on_first_failure /\ Failed # {})
  /\ compilation = "kSuccess" =>
       \A t \in Tests : step[t] = "return" /\ ~Ran(t) => should_stop
  /\ \A t \in Tests : Ran(t) => step[t] = "return"

\* Only the tests in flight when the first failure was recorded may fail too.
MayFail == Failed \cup {t \in Tests : InFlight(t)}

FailureLimit ==
  /\ stop_on_first_failure /\ should_stop => Cardinality(MayFail) <= NumThreads
  /\ stop_on_first_failure /\ ~should_stop => Failed = {}

TesterIInv == PoolIInv /\ TesterTypeOK /\ Phases /\ Steps /\ StopCauses /\ FailureLimit

-----------------------------------------------------------------------------
(* Properties.                                                             *)

\* An OK answer to a call whose code compiled misses no test unless a test
\* failed and stop_on_first_failure was set: a cancelled test leaves a
\* default-constructed result behind, which must not be passed on for any other
\* reason (tester_sandboxer.cc lines 384-417).
OkMeansEvaluated ==
  answer = "Ok" /\ compilation = "kSuccess" =>
    \/ \A t \in Tests : Ran(t)
    \/ stop_on_first_failure /\ Failed # {}

\* With stop_on_first_failure no more tests fail than there are threads: a
\* failure stops all tests but those that were already past their look at
\* should_stop (tester_sandboxer.cc lines 384-406; "it's possible that more than
\* one failure occurs before all threads stop", solve_example.cc lines 167-168).
FailuresBounded ==
  stop_on_first_failure => Cardinality(Failed) <= NumThreads

\* A test that was not run although a later one was is one that another thread
\* held at the time, so at most NumThreads - 1 tests are missing in front of
\* one that was run: the functions are taken in order, but they look at
\* should_stop in any order.
FewGaps ==
  answer = "Ok" /\ compilation = "kSuccess" =>
    \A t \in Tests : Ran(t) =>
      Cardinality({u \in 1..(t - 1) : ~Ran(u)}) < NumThreads

\* Test answers with an error exactly when the compilation or some test has used up
\* its attempts; an error that a retry repaired, or whose retry was cancelled, is not
\* passed on, and no final error is lost (tester_sandboxer.cc lines 78-93, 361-368,
\* 397, 417).
ErrorIffExhausted ==
  answer # "none" =>
    (answer = "Error" <=>
       \/ compilation = "Error" /\ attempts = kMaxTestAttempts
       \/ \E t \in Tests : retry[t] = kMaxTestAttempts /\ ~Ran(t))

\* The functions refer to locals of Test by reference, temp_path, the inputs
\* and output_mutex among them: no worker is in a function, nor may still
\* enter one, when Test returns (tester_sandboxer.cc lines 377-415).
CapturesStayAlive ==
  phase # "testing" =>
    /\ \A w \in Workers : worker[w] \in {"unborn", "exited"}
    /\ NumThreads > 0 => queue = <<>>

\* A result that was stored is never written again: every test is evaluated
\* at most once, and a late retry cannot replace a verdict.
ResultsAreFinal ==
  [][\A t \in Tests : Ran(t) => Ran(t)' /\ test_results'[t] = test_results[t]]_vars

\* Every call comes to an end: no thread waits for another one forever.
TestReturns == <>(phase \in {"returned", "aborted"})

\* Test implements TestContract.
RefinesContract == Contract!Spec

\* The compilation and every test are tried as RetryContract says: an error is tried
\* again up to kMaxTestAttempts times, a result or a cancellation never, and the
\* outcome is not given up for another one (tester_sandboxer.cc lines 78-93).
RefinesRetries == Retries!Spec
=============================================================================
