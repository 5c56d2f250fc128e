# A verification of the CodeContests test executor

This directory holds TLA+ models of the part of this repository that runs
programs: `execution/`, which compiles a submission, runs it on many test inputs
in sandboxes and threads, and reports a result for each. The models are checked
with TLC on small instances; the theorems about them are proved with TLAPS for
all values of the constants.

## 1. The system

| component | state | operations | interacts with |
|---|---|---|---|
| `ThreadPool` (`simple_threadpool.h`) | `queue_` under `mu_`, `threads_`, `started_` | constructor, `StartWorkers`, `Schedule`, destructor; `WorkLoop` on each thread | whoever schedules functions; used twice, by `Test` and by `RunCodeOnInput` |
| `TesterSandboxer::Test` (`tester_sandboxer.cc`) | locals shared by reference with the functions it schedules: `should_stop`, `overall_status`, `test_results` under `output_mutex` | check arguments, make a `TempPath`, compile with retries, run each test with retries, record, answer | `ThreadPool`, `TempPath`, `CompileCode`, `RunCodeOnInput`, the `compare_outputs` callback |
| `RunCodeOnInput`, result classification (`tester_sandboxer.cc`) | one sandbox, two outputs being read | create, `RunAsync`, limit, two concurrent reads, await, classify | sandbox library, `ThreadPool`, `SandboxWithOutputFds` |
| `SandboxWithOutputFds`, `CreateSandboxWithFds` | two descriptors and two caches; the process's descriptor table | create (with error paths), move, `Stdout`, `Stderr`, destroy | every other thread, through the descriptor table |
| `PyTesterSandboxer` (`py_tester_sandboxer.cc`) | files in the temporary directory | `CompileCode`, `CreateTestSandbox`, `CreatePolicy` | sandbox library, file system |
| `OutputsMatch` (`tester_sandboxer.cc`) | none, a pure function | split, lower-case, compare word by word | called by `Test` under `output_mutex` |
| `TempPath` (`temp_path.h`) | a directory in `/tmp` | constructor; the destructor does nothing | concurrent calls, other processes |
| `solve_example` (`solve_example.cc`) | none | find a problem, pair inputs with outputs, three calls of `Test`, report | `Test` |
| policies (`CreateBasePolicy`, `CreatePolicy`) | none, built anew for each sandbox | put system calls and mappings together | sandbox library, which enforces them |
| `py_locations`, status macros and matchers, dataset readers, schema, build files | none worth a model | | |

What is hard here is concurrency and its end: a pool that is destroyed while
work is queued, tests that are stopped while others are in flight, retries that
race the stop, two readers and a writer on bounded channels, and descriptors that
belong to the process and not to a thread. `PROJECT.json` lists these hazards at
their lines, with the properties that would show them going wrong.

What makes each part correct:

- *pool*: every function is executed exactly once, in order, by at most
  `num_threads` at a time, and leaving the scope of the pool means all are done;
- *Test*: an OK answer has a verdict for every test, except for those that
  `stop_on_first_failure` skipped; an error is reported exactly when the compilation
  or a test used up its attempts; a failure stops all tests but those in flight; the results and
  the locals captured by reference are not touched outside the scope;
- *descriptors*: each is closed once, by its owner; reads can be repeated;
- *run*: the outputs are complete, the call returns, and the limits are those the
  options ask for;
- *files*: all tests of a call run the program that was compiled, whatever the
  programs beside them write; calls do not meet each other's files;
- *example*: each input meets its own output, and the reports say of each test what
  the program did on it.

## 2. Modules

| module | models | builds on |
|---|---|---|
| `TaskService` | the promise of a pool, without queue, threads or signals | |
| `ThreadPool` | `simple_threadpool.h` | `TaskService` by `INSTANCE` with a refinement mapping |
| `ThreadPoolProofs` | theorems about the pool | `ThreadPool`, `TLAPS` |
| `TestContract` | the promise of `Test`, without pool, retries or locks | |
| `RetryContract` | the promise of `RetryIfFail`, whatever it retries | |
| `TesterSandboxer` | one call of `Test` | extends `ThreadPool`; `TestContract` and `RetryContract` by `INSTANCE` |
| `TesterSandboxerProofs` | theorems about `Test`, what it answers, and its refinements | `TesterSandboxer`, `ThreadPoolProofs` |
| `SandboxFds` | descriptors of `SandboxWithOutputFds` and `CreateSandboxWithFds` | |
| `SandboxFdsProofs` | theorems about it | `SandboxFds`, `TLAPS` |
| `SandboxRun` | `RunCodeOnInput`, and `CompileCode` up to its reads | extends `Limits`; the promise of `TaskService`, as an assumption |
| `SandboxRunProofs` | theorems about it and about `Limits` | `SandboxRun`, `TLAPS` |
| `Limits` | the arithmetic of the limits that are derived from the options | |
| `Compilation` | the compilation phase of concurrent calls: `TempPath`, the retries and the files of `CompileCode` | `RetryContract` by `INSTANCE` |
| `TestFiles` | the test phase of the same calls: policies, the byte code that tests run, the files they write and read | extends `Compilation` |
| `TestFilesProofs` | theorems about it | `TestFiles`, `CompilationProofs` |
| `CompilationProofs` | theorems about it | `Compilation`, `TLAPS` |
| `OutputComparison` | `OutputsMatch` | |
| `OutputComparisonProofs` | theorems about it | `OutputComparison`, `TLAPS` and its library of theorems |
| `SolveExample` | `solve_example.cc` | `TestContract` by `INSTANCE` |
| `SolveExampleProofs` | theorems about it | `SolveExample`, `TLAPS` and its library of theorems |
| `MC...` | the modules TLC is run on | |

Names are those of the code wherever TLA+ allows it; `"map"` in `PROJECT.json`
gives the lines of every definition. Definitions whose name says how they depart
from the code (`SignalShutdownOneShort`, `ReadUnclosed`, ...) stand in front of the
definition they vary. They are not part of any specification: each is a plausible
bug, and putting it in place of the definition makes TLC report a property violated.

### ThreadPool

One owner and `NumThreads` workers. `owner` is the owner's control state (built,
serving, joining, gone). Every access to `queue_` happens in one critical section
of `mu_`, so it is one action: `Schedule`, `SignalShutdown` (the destructor pushes
all its signals under one lock), `TakeWork` (`Await`, `front` and `pop`).
`SpawnWorker` and `Join` are single iterations of their loops, so a worker runs
while later ones are not yet started, and exits while others are joined.
`LeaveLoop`, `CallFunc` and `FuncReturns` are what a worker does without the lock.
The k-th function scheduled is the number k; `nullptr` is 0. `scheduled` and
`finished` are history variables. The owner of the model may call `Schedule` any
number of times up to `NumTasks` and destroy the pool at any time; that
`StartWorkers` and `Schedule` are called in this order is asserted by the code.

The refinement mapping to `TaskService` reads the begun functions off the queue:
functions leave it in order, so the begun ones are those before its head.

### TesterSandboxer

The calling thread (`phase`) checks the arguments, makes the directory, compiles
and owns the pool; a worker that has called function t is inside the lambda of
test t, whose position is `step[t]`. The pool's own actions are conjoined with the
lambda's: `BeginTest` is `CallFunc`, `EndTest` is `FuncReturns`. The lambda takes
`output_mutex` twice and each critical section is one action: `CheckStop` (reader
lock), and `RecordError` or `RecordResult` (writer lock). `RunCodeOnInput` stands
between them, without a lock, with any result or an error; `retry[t]` is the loop
variable of `RetryIfFail`. The pause between attempts is left out: it changes no
state. A call of `compare_outputs` may say match or mismatch.

The state keeps a default-constructed `ExecutionResult` (`NotRun`) in
`test_results` until a result is stored, as the code does; whether a test was
evaluated is read off it (`Ran`).

Two abstract specifications are implemented. `TestContract` says what a caller sees.
`RetryContract` says what `RetryIfFail` does with the errors of one retried call; the
compilation and each test are such calls (`RetryErrors`, `RetryOutcome`).
`Compilation` implements it as well, where `CompileCode` is modelled in full, so the
outcomes that `TesterSandboxer` takes of `CompileCode` are those it may have.

### SandboxFds

`table` is the descriptor table of the process: any free number may be the next
one, since other threads take theirs too. The file behind an open descriptor is
known by the sandbox and the output it belongs to, so a descriptor that was
closed and reused is told apart from the one that was meant. An object has its
sandbox, two descriptors and two caches; creation has its three outcomes (an
object; an error before anything was received; an error of `CreatePolicy` after
the outputs were received). The history variable `regular` says that no policy
has failed and no object was move-assigned: both leave descriptors open, the first
as the run `fds_policy_error` shows, the second because `operator=` overwrites the
descriptors of its target (no code in this repository assigns such an object).
`NoLeak` is about all other behaviours; every other property holds in all.

### SandboxRun

The program writes units to two outputs of limited `Capacity`, closes them, sleeps
and ends as it likes; a write is two steps, so that it may wait for space. The
monitor ends it for a limit. The variable `call` says which call it is:
`RunCodeOnInput`, which reads on two threads and then awaits, or `CompileCode`,
which awaits and then reads. The pool of `RunCodeOnInput` is represented by what
`PoolImplementsService` proves of it: functions are begun in order, two at a time,
and the scope is left when both returned.

The program and the monitor are external: they are modelled by what the code
expects of them. For a compilation the sandbox library may have a wall time limit
of its own, which it need not enforce; nothing under `execution/` sets one.

`Limits` computes how large the limits are, apart from their effect: the sum of a
signed and an unsigned number, truncation to seconds with a least value of one, and
the wall time limit. Its constants stand for the widths and sizes of the code
(`Word` for 2^64, `Interpreter` for 32 MiB, `Second` in ticks), in the same order.
Memory limits below zero are left unconstrained: the code does not reject them and
nothing says what they are to mean.

### Compilation

Any number of calls of `Test` make their directories and compile at the same time.
A directory has the file of the code, the byte code file and `__pycache__`; files
are known by the text that they are, or are the byte code of. `RetryIfFail` counts
the failed attempts in `retry`, and what an attempt leaves in the directory stays
for the next one. The interpreter is external: Python 2 writes the byte code in
place, so that a limit may leave part of it there; Python 3 writes to a file of
another name in `__pycache__` and renames it. `WriteCode` may write a part of the
text only, since the code does not look at the state of the stream. A name that is
taken aborts the process. So do the exceptions of the search for the byte code
(`Throws`; `CompileThrows` in `TesterSandboxer`), which nothing in the code catches:
those of the file system library, and the `std::out_of_range` of `replace` and `substr`
when the byte code could not be read, does not have the path, or is too short. What
`FindByteCode` finds has been read and is as long as it should be.

### TestFiles

A policy is a record: the access to each path, and the system calls that matter (those
by which files are read, written, renamed and made). `CreateBasePolicy` and
`CreatePolicy` build it from the mappings that `TestPolicy` hands over. That the sandbox library enforces it, and that a file
mapped read-only stays so within a directory mapped read-write, is external. The tests
of a call start in any order on `code.pyc` and then write and read wherever their
policy lets them, beside the tests and the compilations of other calls; `loaded` is
the byte code each test runs, `data` and `seen` say whose files lie where and who has
read them. Tests of one call do share their directory, and `ReadFile` lets them meet
each other's files: the code promises isolation between calls only.

### SolveExample

`main` and `SolveGregorAndCryptography`. A problem is three lists of tests; a test is
its list and its place, and stands for its input and its output, so that a pair which
does not belong together is told apart from one that does. `Resize` pads with empty
strings. `Test` is `TestContract`, whose verdicts are those that the solution's output
gives when it meets the expected one; the tests the bad solution gets wrong are any
set. Both programs raise on an empty input, print nothing, and so match an empty
output. No solution is taken to reach a limit. A report has the lines that
`ReportResults` prints, without the wording.

### OutputComparison

A word has a form (letters, a special number, a number without or with a decimal
point) and its letters or value. Two texts, "YES" and "NaN", stand for all words with
capital letters: `AsciiStrToLower` lowers these, every other text is in lower case. Values are counted on the grid that doubles have
around zero. Below `Exact` steps every value is a double; beyond, doubles are apart
by one of `Spacings`, the least that leaves a value as many bits, and a value is
rounded to the nearest one, or to even, up to `MaxDouble`. A part of an output is
given by its place: the n-th one is the word with n words up to it. So the boundaries of the real types (`int`, the
tolerance, 2^53, the largest double) are all within reach of a handful of values,
in the same order. Decimal fractions that no double has are left out.

## 3. Runs

| run | instance | shows |
|---|---|---|
| `pool` | 4 functions, 3 threads | `TaskService` is implemented; the shutdown drains the queue, strands no worker and ends |
| `tester` | 3 tests, 2 threads, all options | the properties of `Test`, `TestContract` is implemented, the call ends |
| `fds` | 2 sandboxes, 2 places, 5 descriptors | descriptors have one owner, reads agree; nothing leaks in regular use |
| `run` | outputs of up to 4 units on channels of 2, both calls | complete outputs; limits that fit the options; `RunCodeOnInput` returns under its limit, and without one if the program goes on |
| `compilation` | 2 calls of 2 tests, 2 names, both versions | a call runs the byte code of its own file, in all its tests; attempts are given up for a reason and follow `RetryContract`; policies keep calls apart |
| `solve` | 3 tests on 2 threads, problems with 0 to 6 tests | the good solution passes; gaps in a report are explained by a failure; each line is about its test |
| `outputs` | all pairs of outputs of up to 2 of 20 words | the comparison is exact where doubles are, and accepts equal values |
| `tester_no_threads` | 1 test, 0 threads | *violation*: OK without evaluation |
| `fds_policy_error` | as `fds` | *violation*: an error that leaks two descriptors |
| `run_compile_stuck` | as `run` | *violation*: compiler and `CompileCode` wait for each other |
| `run_signal` | as `run` | *violation*: a crash reported as a timeout |
| `outputs_integers` | as `outputs` | *violation*: different large integers match |

The violations are listed under `"findings"` with the lines of the code and of the
comment, doc or test that says otherwise.

**Bounds.** The pool's control distinguishes a queue that is empty, shorter and longer
than the number of workers; four functions on three threads have all of these, with
workers that never get any. For `Test`, two threads and three tests suffice for a test
in flight while another stops the run and a third is still queued, with retries on
both sides of the stop; `RunStatuses` has one element because no property looks at
which status a test ended with. Two sandboxes on five descriptors let every number be
closed and reused while the other sandbox is alive. An output of twice the capacity of
its channel blocks a program at least once if nobody reads. Two calls on two names can
collide and can also go side by side with all three attempts of each, and two tests of
each meet tests of their own call and of the other. Three tests are more than, as many
as, and fewer than problems of up to six have, in all ways of sharing them among the
lists. `Limits` has a word of eight bits with an interpreter of half of it, the
largest for which the sum still fits, and durations from minus five seconds to five,
tick by tick. The
doubles of `outputs` have four bits (`Exact` is 16), and its words integers within and
beyond int, two integers that one double
stands for, numbers that differ by less than, exactly and more than the tolerance, and
one beyond the largest double; two words are the least in which a match and a mismatch
meet. The theorems below have no bounds.

**Fairness.** Each thread is weakly fair: the operating system schedules it, and
a mutex is eventually granted (in the model a critical section is one action, and
no action stays enabled forever without being taken). The owner of the pool is
weakly fair as one process, so it may schedule as much as it likes but goes on.
`CompileCode` and `RunCodeOnInput` return in `TesterSandboxer`; that they do, and
when, is the subject of `RunReturns`, `RunNeedsNoLimit` and `CompileReturns` in
`SandboxRun`. There only the threads of the call are fair (`CallFairness`); what is
assumed of the monitor and of the program is an antecedent of each property:
`RunReturns` assumes that the monitor enforces a limit that was set and nothing of
the program, `RunNeedsNoLimit` that the program goes on and nothing of the monitor.
No fairness is assumed of errors: a read is never forced to fail.

Deadlock is checked in `pool`, `tester` and `solve`; a finished behaviour stutters
(`PoolIdle`, `Idle`). It is not checked in `run`, where a program that holds up
`CompileCode` is a deadlock that `run_compile_stuck` reports; `RunReturns` and
`RunNeedsNoLimit` say the same of `RunCodeOnInput`, and more. `SandboxFds`,
`TestFiles` and `OutputComparison` stop when everything is done.

## 4. Proofs

A theorem holds for every value of the constants, unless it says otherwise. What is
assumed of the constants is named in the module that declares them, and is evaluated
by TLC in the runs of that module:

| assumptions | say |
|---|---|
| `NumTasksAssumption`, `NumThreadsAssumption`, `RunStatusesAssumption` | the types of the constants; `NumThreads` may be any integer |
| `NamesAssumption` | `NoPath` is not a name |
| `FdsAssumption`, `MaxSandboxesAssumption` | descriptors are not negative; a number of sandboxes |
| `CapacityAssumption`, `MaxOutputAssumption` | a channel has space for a unit; a number of units |
| `GridAssumption`, `SpacingsAssumption`, `MaxDoubleAssumption` | the order of tolerance, one, the largest int, `Exact` and the largest double; spacings are powers of two, enough of them for sums of doubles; the largest double is one |
| `WordsAssumption`, `MaxLengthAssumption` | integers are multiples of one; a length |
| `LimitsAssumption` | at most half of the address space is for the interpreter, so that the sum of two limits fits a word |
| `SizesAssumption` | at least one test and one thread, as in the example |

The inductive invariants were model-checked on the instances of section 3 before they
were proved.

**The pool.** `PoolIInv` is inductive. Its parts: `QueueShape` (the queue is the
functions not yet begun, in order, and then only signals), `Lifecycle` (threads
exist from `StartWorkers` on; joined ones have exited), `Holding` (a begun
function has returned or is held by exactly one worker; a signal is taken only
when no function is queued) and `SignalCount` (signals queued and taken are as
many as threads). `QueueShape` gives `LeavesOnlyWhenDrained`; `SignalCount` is what
`NoStrandedWorker` and `GoneMeansDrained` need: a counting argument over the
workers that have taken a signal. `PoolImplementsService` maps every step of the
pool to a step of `TaskService` or to a stutter; it needs `NumThreads > 0`, because
a pool without threads closes with its work undone (run `tester_no_threads`).

**Test.** `TestDrivesPool` shows that every step of `Test` is a step of the pool
or leaves it alone, so `PoolIInv` is an invariant of `Test` as well. `TesterIInv`
adds `Phases`, `Steps` (a function that was entered and has not returned is held by
a worker), `StopCauses` (why `should_stop` is set, and that a test without a result
was stopped) and `FailureLimit`: once a failure has been recorded, the tests that
failed and the tests in flight are together no more than the threads. The last
one is the reason why `FailuresBounded` is inductive at all: before the first
failure the tests in flight are held by distinct workers, and after it no test is
put in flight any more. `OkMeansEvaluatedHolds` needs `NumThreads > 0`,
`FailuresBoundedHolds` `NumThreads >= 0`.

**Test's answer.** `AnswerIInv` stands beside `TesterIInv`. `Exhaustion` ties the
answer to the attempts: a test whose function has returned without a result was
either cancelled or has failed `kMaxTestAttempts` times, and only in the second case
is there an `overall_status`, which keeps the error of the first such test.
`NothingCompiled` says the same of a call that has not compiled: its error is that of
the last attempt. The two give `ErrorIffExhausted`. `GapsBounded` gives `FewGaps`; the
argument is in `GapsHeld`: as long as nothing has stopped the run, each test in front
of the one a worker is in has a result or is held by another worker, and there are
only `NumThreads - 1` of these. A test that was in flight when the run was stopped
still gets its result, but the tests in front of it were counted when its function
looked at `should_stop`, and no result is taken back. None of this needs a condition
on `NumThreads`.

`TestImplementsRetries` maps every step of `Test` to a step of `RetryContract`, of the
compilation or of one test, or to a stutter. `TestImplementsContract` does so for
`TestContract`: `CheckStop` opens or drops a test, the writer's section closes it,
and `HaltedIsStopped` shows that whenever the code drops a test the contract may.
It needs `NumThreads > 0`, for the answer alone: `GiveAnswer` answers when the pool is
gone, and without threads a pool goes with its work undone (run `tester_no_threads`).

**Compilation.** For any set of calls and of names (`NamesAssumption`: `NoPath` is
not a name). `CompilationIInv` rests on `PathsOwned`: a directory belongs to one
call from its making on, so that files are only met by the attempts of one call.
`ByteCodeInPlace` says where the byte code of an interpreter that succeeded is,
and `AttemptsCounted` pairs every failed attempt with a fault or with a file that
was not renamed. The step that needs an argument is `FindByteCode`: for Python 2
the byte code file is there; for Python 3 it is not, and the search finds either
the one file, which is the byte code of the call's text, or more than one.
`CompilationImplementsRetries` maps every step of an attempt to a step of
`RetryContract` or to a stutter.

**Tests' files.** For any set of calls, names and tests. `TestPolicyIsOwnDirectory` is
the lemma about policies: what `CreatePolicy` makes of the mappings of
`CreateTestSandbox` lets a program write only the other files of its own directory,
and read those of no other one. So the steps of the tests leave the compilations
alone, `CompilationIInv` stays an invariant beside them, and `TestFilesIInv` adds
`TestsStarted` (a test runs the byte code that was hashed) and `FilesOwned` (files of
a call lie in its directory). With `PathsOwned`, two calls never meet.

**Descriptors.** For any set of descriptors, and any numbers of objects and sandboxes.
`FdsIInv` is `OwnDescriptors`, `NoLeak` and `SameAnswer`, which are not inductive one by
one, with `MadeSoFar` (what was not made yet has left no trace) and `ReadsRecorded`
(what was answered in the past is what is cached now, and nothing was answered
while the descriptor is open and nothing is cached). Most proofs rest on two
lemmas: an open descriptor that an object holds is of the file of its own sandbox
(`HeldIsOwn`), hence of no other object (`HeldByOne`); a number that is closed and
reused does not disturb either. `ObjectMoved` covers both the move construction and
the move assignment, which differ only in what becomes of the target.

**One run.** For any capacity of the channels and any amount of output. `RunIInv`
accounts for every unit (`OutputAccounted`: read and still in the channel is what was
written, unless a read has failed; a read that is `ok` met the end of a closed
channel) and places the call (`ReadBeforeResult`: no step that leads to a result is
reached before both reads were `ok`). The reads of `CompileCode`, one after the other,
and those of `RunCodeOnInput`, on two threads, share this argument. `LimitsFitOptions`
is arithmetic on words: `MemoryFits` needs `LimitsAssumption`, since the sum of the
size of the interpreter and of the option must not wrap around; `RlimitCpu` and
`WallTimeFits` are about rounding to whole seconds, for any length of a second. Nothing
is said of a memory limit below zero, nor of the wall time limit of a program that may
run for less than the 30th part of a second. These theorems
hold for `Spec` and for `FairSpec`; none needs fairness.

**The example.** For any number of tests and of threads above zero, and any lengths of the
three lists. The example sees `Test` only as `TestContract`, so `CallOfTest` is about
the contract: tests that are open or have failed are no more than the threads, and a
test was dropped only after another failed or could not be run. `PairsMatch` says that
inputs and outputs were taken from the same tests in the same order and cut or
padded alike. `GapsExplained` and `LinesAreAboutTheirTests` are kept by the report, and
`GoodPassesAll` follows from the two: a line that says "failed" would be about a test
the good solution gets wrong, there is none, and without one no test is missing.
With `TestImplementsContract` what the example relies on is what `Test` does.

**Comparison.** For any tolerance, any sizes of int and of doubles, any words and any
length of the outputs. Three lemmas are about doubles: a value below `Exact` is one
(`DoubleIsExact`); a difference of two such values is less than `2 * Exact`, so it is
rounded to a multiple of two at most, and one that is not exact stays above the
tolerance (`DifferenceStaysLarge`); and no value up to the largest double is rounded
beyond it, because the largest double is a multiple of every smaller spacing
(`DoubleIsFinite`). `PartsOfOutput` says that the parts of an output are its words: the
places of the words are counted without a gap (`PlaceExists`, a counting argument in
place of an induction over the output). The comparison of two words is then exact
(`SmallValuesMatch`, where `WholesDiffer` makes integers equal that differ by less
than one) and accepts equal values (`SameValuesMatch`), and `MatchIsByPairs` carries
both to the outputs.

**Only model-checked.** Every safety property and every refinement that a passing run
checks is a theorem. The liveness properties `EveryTaskReturns`, `DestructionCompletes`,
`TestReturns`, `RunReturns` and `RunNeedsNoLimit` are not: they need fairness and
`ENABLED`, which this prover does not handle, and stay with TLC. So do, by their
nature, the runs that report a violation.

## 5. Plan

The modules of section 2 are written, and what they check is proved except for
liveness. What is left is to make the proofs easier to maintain and to connect them:

1. The counting arguments over workers in `ThreadPoolProofs` and
   `TesterSandboxerProofs` have the same form and can share their lemmas.
2. The example relies on `TestContract`, and `SandboxRun` on the promise of
   `TaskService`: the theorems on both sides are proved, and each pair could be stated
   as one theorem about the composed system.
3. Steps towards the liveness properties that need no fairness, such as a measure that
   every step of a run of the pool decreases.

## 6. Not modelled

- `py_locations` are flags and their defaults.
- The status macros appear as the early returns they expand to; the status matchers
  are used by the tests only.
- `print_names`, `load_data_test`, the Python reader and the schema read records and
  print them; the library that reads them is not part of this repository.
- `operator<<` for results and `SandboxResultStatus` turn a result into text or a
  status and change nothing. (`operator<<` prints `passed: true` for any result that
  was compared, also a failed one; see `tester_sandboxer.cc` line 191.)
- Build files and `third_party/` are left out.
- Durations, hashes and the wording of messages are abstracted everywhere. That the
  stream of the code file is not checked is modelled (`WriteCode`) but no property
  forbids it: the call then compiles and tests the text that was written, and
  `ByteCodeIsOwn` is about the file of the call, whole or cut.
- That a move assignment drops the descriptors of its target is modelled
  (`MoveAssign`) and no property forbids it either: nothing in the repository assigns
  such an object, and `NoLeak` is about operations without an assignment.
