----------------------------- MODULE SandboxRun -----------------------------
(***************************************************************************)
(* One sandboxed program and the call that waits for it: RunCodeOnInput    *)
(* (execution/tester_sandboxer.cc), which reads stdout and stderr on the   *)
(* threads of a ThreadPool and awaits the result after that, or            *)
(* CompileCode (execution/py_tester_sandboxer.cc), which awaits the result *)
(* and reads after that.  An output is a channel of limited capacity: a    *)
(* program that writes to a full one waits for a reader.                   *)
(*                                                                         *)
(* The program and the monitor of the sandbox library are external: the    *)
(* program writes, closes its outputs, sleeps and ends as it likes, and    *)
(* the monitor ends it when it exceeds a limit.  The pool is taken to be   *)
(* what TaskService says: its functions are begun in order, a thread each, *)
(* and its scope is left when they have returned.  How large the limits    *)
(* are is computed in Limits; what they do to a program is modelled here.  *)
(***************************************************************************)
EXTENDS Limits, FiniteSets

CONSTANTS
  Capacity,         (* how much an output holds that was not read          *)
  MaxOutput         (* bound on what the program writes to an output       *)

ASSUME CapacityAssumption == Capacity \in Nat \ {0}
ASSUME MaxOutputAssumption == MaxOutput \in Nat

Ends == {"stdout", "stderr"}

VARIABLES
  call,      (* which of the two calls it is                                *)
  pc,        (* where the call is                                           *)
  wall,      (* whether the call has set the wall time limit                *)
  reader,    (* the read of each output: idle, reading, ok, error           *)
  contents,  (* how much of each output was read                            *)
  status,    (* the program_status the call returned, or "Error"            *)
  program,   (* unborn, running, or how it ended                            *)
  writing,   (* the output that the program is in a write to, or "none"     *)
  written,   (* how much the program wrote, or failed to write, to each     *)
  channel,   (* how much of it was not read                                 *)
  closed     (* the outputs that the program has closed                     *)

callVars == <<call, pc, wall, reader, contents, status>>
programVars == <<program, writing, written, channel, closed>>
vars == <<callVars, programVars>>

\* How a program ends: by itself, with its final_status and exit code, or by a
\* limit, as TIMEOUT or SIGNALED, or with the Sandbox2 that ran it.
ByLimit == {"timeout", "rlimit"}
BySelf == {"exit 0", "exit 1", "signal", "violation"}

Init ==
  /\ call \in {"RunCodeOnInput", "CompileCode"}
  /\ pc = "create"
  /\ wall = FALSE
  /\ reader = [e \in Ends |-> "idle"]
  /\ contents = [e \in Ends |-> 0]
  /\ status = "none"
  /\ program = "unborn"
  /\ writing = "none"
  /\ written = [e \in Ends |-> 0]
  /\ channel = [e \in Ends |-> 0]
  /\ closed = {}

-----------------------------------------------------------------------------
(* The program and the monitor.                                            *)

\* Whether someone may still read output e.
Readable(e) == pc # "returned" /\ reader[e] \in {"idle", "reading"}

StartWrite(e) ==
  /\ program = "running"
  /\ writing = "none"
  /\ e \notin closed
  /\ written[e] < MaxOutput
  /\ writing' = e
  /\ UNCHANGED <<callVars, program, written, channel, closed>>

\* The write waits for space, and fails when nobody can read any more.
FinishWrite(e) ==
  /\ program = "running"
  /\ writing = e
  /\ writing' = "none"
  /\ written' = [written EXCEPT ![e] = @ + 1]
  /\ \/ /\ Readable(e)
        /\ channel[e] < Capacity
        /\ channel' = [channel EXCEPT ![e] = @ + 1]
     \/ ~Readable(e) /\ UNCHANGED channel
  /\ UNCHANGED <<callVars, program, closed>>

CloseOutput(e) ==
  /\ program = "running"
  /\ writing = "none"
  /\ e \notin closed
  /\ closed' = closed \cup {e}
  /\ UNCHANGED <<callVars, program, writing, written, channel>>

\* The end of the program closes its outputs; what they hold can be read.
End(how) ==
  /\ program = "running"
  /\ program' = how
  /\ writing' = "none"
  /\ closed' = Ends
  /\ UNCHANGED <<callVars, written, channel>>

\* The program exits, or is ended by a signal of its own doing or by the policy.
EndItself == writing = "none" /\ \E how \in BySelf : End(how)

\* A program that waits uses no processor time.
ExceedRlimit == writing = "none" /\ End("rlimit")

\* CompileCode sets no wall time limit; the library may have one of its own.
ExceedWallTime == (wall \/ call = "CompileCode") /\ End("timeout")

Program ==
  \/ \E e \in Ends : StartWrite(e) \/ FinishWrite(e) \/ CloseOutput(e)
  \/ EndItself

-----------------------------------------------------------------------------
(* Reading.                                                                *)

\* As ReadEnd, for a reader that does not wait for the other side to close.
ReadEndOnEmpty(e) ==
  /\ reader[e] = "reading"
  /\ channel[e] = 0
  /\ reader' = [reader EXCEPT ![e] = "ok"]
  /\ UNCHANGED <<call, pc, wall, contents, status, programVars>>

\* As ReadSome, appending the whole buffer and not the n that were read.
ReadSomeWholeBuffer(e) ==
  /\ reader[e] = "reading"
  /\ \E n \in 1..channel[e] :
       /\ channel' = [channel EXCEPT ![e] = @ - n]
       /\ contents' = [contents EXCEPT ![e] = @ + Capacity]
  /\ UNCHANGED <<call, pc, wall, reader, status, program, writing, written, closed>>

ReadSome(e) ==
  /\ reader[e] = "reading"
  /\ \E n \in 1..channel[e] :
       /\ channel' = [channel EXCEPT ![e] = @ - n]
       /\ contents' = [contents EXCEPT ![e] = @ + n]
  /\ UNCHANGED <<call, pc, wall, reader, status, program, writing, written, closed>>

ReadEnd(e) ==
  /\ reader[e] = "reading"
  /\ channel[e] = 0
  /\ e \in closed
  /\ reader' = [reader EXCEPT ![e] = "ok"]
  /\ UNCHANGED <<call, pc, wall, contents, status, programVars>>

ReadError(e) ==
  /\ reader[e] = "reading"
  /\ reader' = [reader EXCEPT ![e] = "error"]
  /\ UNCHANGED <<call, pc, wall, contents, status, programVars>>

-----------------------------------------------------------------------------
(* The call.                                                               *)

\* The call returns a; the program does not outlive its Sandbox2.
Return(a) ==
  /\ pc' = "returned"
  /\ status' = a
  /\ program' = IF program = "running" THEN "killed" ELSE program
  /\ UNCHANGED <<call, wall, reader, contents, writing, written, channel, closed>>

GoTo(p) ==
  /\ pc' = p
  /\ UNCHANGED <<call, wall, reader, contents, status, programVars>>

BeginRead(e) ==
  /\ reader[e] = "idle"
  /\ reader' = [reader EXCEPT ![e] = "reading"]
  /\ UNCHANGED <<call, pc, wall, contents, status, programVars>>

Create == pc = "create" /\ (GoTo("run") \/ Return("Error"))

RunAsync ==
  /\ pc = "run"
  /\ \/ Return("Error")
     \/ /\ program' = "running"
        /\ pc' = IF call = "RunCodeOnInput" THEN "limit" ELSE "await"
        /\ UNCHANGED <<call, wall, reader, contents, status, writing, written, channel, closed>>

\* As SetWallTimeLimit, when no limit is set.
SetNoWallTimeLimit == pc = "limit" /\ GoTo("scope")

SetWallTimeLimit ==
  /\ pc = "limit"
  /\ wall' = TRUE
  /\ pc' = "scope"
  /\ UNCHANGED <<call, reader, contents, status, programVars>>

Reading == {e \in Ends : reader[e] = "reading"}

\* As PoolBegins, with one thread in the pool.
PoolOfOneBegins(e) ==
  /\ pc = "scope"
  /\ Reading = {}
  /\ e = "stderr" => reader["stdout"] # "idle"
  /\ BeginRead(e)

\* A thread of ThreadPool pool(2) begins the read of e.
PoolBegins(e) ==
  /\ pc = "scope"
  /\ Cardinality(Reading) < 2
  /\ e = "stderr" => reader["stdout"] # "idle"
  /\ BeginRead(e)

LeaveScope ==
  /\ pc = "scope"
  /\ \A e \in Ends : reader[e] \in {"ok", "error"}
  /\ IF \E e \in Ends : reader[e] = "error" THEN Return("Error") ELSE GoTo("await")

\* ExecutionResultFromTestSandboxResult
TestStatus ==
  CASE program \in {"timeout", "rlimit", "signal"} -> "kTimeout"
    [] program = "exit 0" -> "kSuccess"
    [] OTHER -> "kFailed"

\* ExecutionResultFromCompilationSandboxResult
CompilationStatus == IF program = "exit 0" THEN "kSuccess" ELSE "kFailed"

AwaitResult ==
  /\ pc = "await"
  /\ program # "running"
  /\ IF call = "RunCodeOnInput" THEN Return(TestStatus) ELSE GoTo("stdout")

\* CompileCode reads on its own thread, one output after the other.
CompileReads(e) ==
  /\ pc = e
  /\ \/ BeginRead(e)
     \/ reader[e] = "error" /\ Return("Error")
     \/ reader[e] = "ok" /\ IF e = "stdout" THEN GoTo("stderr") ELSE Return(CompilationStatus)

Caller ==
  \/ Create \/ RunAsync \/ SetWallTimeLimit \/ LeaveScope \/ AwaitResult
  \/ \E e \in Ends : PoolBegins(e) \/ CompileReads(e)

Next ==
  \/ Program \/ ExceedRlimit \/ ExceedWallTime \/ Caller
  \/ \E e \in Ends : ReadSome(e) \/ ReadEnd(e) \/ ReadError(e)

Spec == Init /\ [][Next]_vars

Idle == pc = "returned" /\ UNCHANGED vars

\* The threads of the call go on, and a read returns when there is something to
\* read or nothing more to come.
CallFairness ==
  /\ WF_vars(Caller)
  /\ \A e \in Ends : WF_vars(ReadSome(e) \/ ReadEnd(e))

FairSpec == Init /\ [][Next \/ Idle]_vars /\ CallFairness

\* The monitor enforces a wall time limit that was set.
MonitorFairness == WF_vars(wall /\ ExceedWallTime)

\* The program goes on when it can.
ProgramFairness == WF_vars(Program)

-----------------------------------------------------------------------------
(* Properties.                                                             *)

\* The type invariant of a run.
RunTypeOK ==
  /\ call \in {"RunCodeOnInput", "CompileCode"}
  /\ pc \in {"create", "run", "limit", "scope", "await", "returned"} \cup Ends
  /\ wall \in BOOLEAN
  /\ reader \in [Ends -> {"idle", "reading", "ok", "error"}]
  /\ contents \in [Ends -> 0..MaxOutput]
  /\ status \in {"none", "Error", "kSuccess", "kFailed", "kTimeout"}
  /\ program \in {"unborn", "running", "killed"} \cup BySelf \cup ByLimit
  /\ writing \in Ends \cup {"none"}
  /\ written \in [Ends -> 0..MaxOutput]
  /\ channel \in [Ends -> 0..Capacity]
  /\ closed \subseteq Ends

\* A result that is not an error is the result of a program that has ended, by
\* itself or by a limit, kSuccess only after exit 0, and the outputs in it are
\* everything the program wrote, also when it was ended in the middle and what it
\* wrote was still in the channel (tester_sandboxer.cc lines 103-119 and 434-446,
\* py_tester_sandboxer.cc lines 90-94).
OutputComplete ==
  status \notin {"none", "Error"} =>
    /\ program \in BySelf \cup ByLimit
    /\ status = "kSuccess" => program = "exit 0"
    /\ \A e \in Ends : contents[e] = written[e]

Returns(c) == call = c => <>(pc = "returned")

\* RunCodeOnInput returns, whatever the program does: one that sleeps forever, or
\* keeps its outputs open, is ended by the wall time limit (tester_sandboxer.cc
\* lines 431-433).
RunReturns == MonitorFairness => Returns("RunCodeOnInput")

\* RunCodeOnInput needs no limit to return: a program that goes on is never held
\* up by an output that nobody reads, however much it writes and to which one
\* first (tester_sandboxer.cc lines 435-440).
RunNeedsNoLimit == ProgramFairness => Returns("RunCodeOnInput")

\* CompileCode returns a result for a compiler that goes on, also for "compilation
\* errors due to invalid code" with many diagnostics (tester_sandboxer.h lines
\* 154-157), under the limits that it sets (kMaxCompilationDuration,
\* tester_sandboxer.cc lines 70-72).
CompileReturns == MonitorFairness /\ ProgramFairness => Returns("CompileCode")

\* The limits on a program are those its options ask for, for every duration and every
\* memory limit that is not negative: those that are set before it starts, and the wall
\* time limit, which RunCodeOnInput sets when the program already runs and which must
\* not take the place of the one of processor time, for durations from the 30th part of
\* a second on (tester_sandboxer.cc lines 288-302 and 427-433).
LimitsFitOptions ==
  /\ program # "unborn" => MemoryIsGranted /\ TimeIsGranted
  /\ wall => call = "RunCodeOnInput" /\ WallTimeIsLater

\* A result of kTimeout is that of a program that exceeded a limit: "Sandboxee was
\* killed because it violated one of the rlimits" (tester_sandboxer.cc lines
\* 663-664).
TimeoutMeansLimit == status = "kTimeout" => program \in ByLimit
=============================================================================
