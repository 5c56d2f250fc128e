--------------------------- MODULE SandboxRunProofs ---------------------------
(***************************************************************************)
(* Proofs about SandboxRun, for every capacity of the outputs, every bound *)
(* on what a program writes, and every width and size of the limits.  What *)
(* was read of an output and what is still in its channel is what the      *)
(* program wrote, and a read that succeeded has seen the end: RunIInv says *)
(* so, and where the call and the program are when.                        *)
(***************************************************************************)
EXTENDS SandboxRun, TLAPS

USE LimitsAssumption, CapacityAssumption, MaxOutputAssumption DEF Ends

Ended == BySelf \cup ByLimit

\* The program lives as long as its Sandbox2, from RunAsync to the return.
ProgramFollowsCall ==
  /\ pc \in {"create", "run"} => program = "unborn"
  /\ pc \in {"limit", "scope", "await"} => program \in {"running"} \cup Ended
  /\ pc \in Ends => program \in Ended
  /\ pc = "returned" => program # "running"
  /\ pc \in {"limit", "scope"} \/ wall => call = "RunCodeOnInput"
  /\ pc \in Ends => call = "CompileCode"

\* Nothing is read but what was written, and unless a read has failed nothing is lost.
\* A program in a write has space in its bound, and writes to no closed output.
OutputAccounted ==
  \A e \in Ends :
    /\ contents[e] + channel[e] <= written[e]
    /\ reader[e] # "error" => contents[e] + channel[e] = written[e]
    /\ reader[e] = "ok" => e \in closed /\ channel[e] = 0
    /\ writing = e => e \notin closed /\ written[e] < MaxOutput

\* The call goes on, and returns no error, only with outputs that were read to the end.
ReadBeforeResult ==
  /\ pc = "await" /\ call = "RunCodeOnInput" => \A e \in Ends : reader[e] = "ok"
  /\ pc = "stderr" => reader["stdout"] = "ok"
  /\ pc # "returned" => status = "none"
  /\ status \notin {"none", "Error"} =>
       /\ \A e \in Ends : reader[e] = "ok"
       /\ program \in Ended
       /\ status = "kSuccess" => program = "exit 0"

RunIInv == RunTypeOK /\ ProgramFollowsCall /\ OutputAccounted /\ ReadBeforeResult

-----------------------------------------------------------------------------
(* The invariant holds initially, and every step preserves it.             *)

LEMMA RunInit == Init => RunIInv
<1> SUFFICES ASSUME Init PROVE RunIInv
  OBVIOUS
<1> USE DEF Init
<1>1. RunTypeOK
  <2>1. wall \in BOOLEAN
    OBVIOUS
  <2> QED
    BY <2>1 DEF RunTypeOK
<1>2. ProgramFollowsCall
  <2>1. pc = "create" /\ program = "unborn" /\ ~wall
    OBVIOUS
  <2> QED
    BY <2>1 DEF ProgramFollowsCall
<1>3. ReadBeforeResult
  BY DEF ReadBeforeResult
<1>4. OutputAccounted
  BY DEF OutputAccounted
<1> QED
  BY <1>1, <1>2, <1>3, <1>4 DEF RunIInv

LEMMA RunStutter == RunIInv /\ UNCHANGED vars => RunIInv'
<1> SUFFICES ASSUME RunIInv, UNCHANGED vars PROVE RunIInv'
  OBVIOUS
<1> USE DEF RunIInv, vars, callVars, programVars
<1>1. RunTypeOK'
  BY DEF RunTypeOK
<1>2. ProgramFollowsCall' /\ ReadBeforeResult'
  BY DEF ProgramFollowsCall, ReadBeforeResult
<1>3. OutputAccounted'
  BY DEF OutputAccounted
<1> QED
  BY <1>1, <1>2, <1>3

\* The program writes, or closes an output.
LEMMA ProgramPreserves ==
  ASSUME RunIInv, NEW e \in Ends, StartWrite(e) \/ FinishWrite(e) \/ CloseOutput(e)
  PROVE  RunIInv'
<1> USE DEF RunIInv, callVars
<1>1. CASE StartWrite(e)
  <2> USE <1>1 DEF StartWrite
  <2>1. RunTypeOK'
    BY DEF RunTypeOK
  <2>2. ProgramFollowsCall' /\ ReadBeforeResult'
    BY DEF ProgramFollowsCall, ReadBeforeResult
  <2>3. OutputAccounted'
    BY DEF OutputAccounted
  <2> QED
    BY <2>1, <2>2, <2>3
<1>2. CASE FinishWrite(e)
  <2>1. /\ program = "running" /\ writing = e /\ writing' = "none"
        /\ written' = [written EXCEPT ![e] = @ + 1]
        /\ UNCHANGED <<callVars, program, closed>>
        /\ \/ Readable(e) /\ channel[e] < Capacity /\ channel' = [channel EXCEPT ![e] = @ + 1]
           \/ ~Readable(e) /\ channel' = channel
    BY <1>2 DEF FinishWrite
  <2>2. e \notin closed /\ written[e] < MaxOutput
    BY <2>1 DEF OutputAccounted
  <2>3. RunTypeOK'
    BY <2>1, <2>2 DEF RunTypeOK
  <2>4. ProgramFollowsCall' /\ ReadBeforeResult'
    BY <2>1 DEF ProgramFollowsCall, ReadBeforeResult
  <2>5. reader[e] # "ok" /\ pc # "returned"
    BY <2>1, <2>2 DEF OutputAccounted, ProgramFollowsCall
  <2>6. reader[e] # "error" => Readable(e)
    BY <2>5 DEF Readable, RunTypeOK
  <2>7. OutputAccounted'
    BY <2>1, <2>2, <2>5, <2>6 DEF OutputAccounted, RunTypeOK
  <2> QED
    BY <2>3, <2>4, <2>7
<1>3. CASE CloseOutput(e)
  <2> USE <1>3 DEF CloseOutput
  <2>1. RunTypeOK'
    BY DEF RunTypeOK
  <2>2. ProgramFollowsCall' /\ ReadBeforeResult'
    BY DEF ProgramFollowsCall, ReadBeforeResult
  <2>3. OutputAccounted'
    BY DEF OutputAccounted
  <2> QED
    BY <2>1, <2>2, <2>3
<1> QED
  BY <1>1, <1>2, <1>3

\* The program ends, in whatever way; its outputs are closed.
LEMMA EndPreserves ==
  ASSUME RunIInv, NEW how \in Ended, End(how)
  PROVE  RunIInv'
<1> USE DEF RunIInv, callVars, End
<1>1. RunTypeOK'
  BY DEF RunTypeOK, Ended
<1>2. ProgramFollowsCall' /\ ReadBeforeResult'
  BY DEF ProgramFollowsCall, ReadBeforeResult, Ended, BySelf, ByLimit
<1>3. OutputAccounted'
  BY DEF OutputAccounted
<1> QED
  BY <1>1, <1>2, <1>3

LEMMA ReadPreserves ==
  ASSUME RunIInv, NEW e \in Ends, ReadSome(e) \/ ReadEnd(e) \/ ReadError(e)
  PROVE  RunIInv'
<1> USE DEF RunIInv, programVars
<1>0. reader[e] = "reading"
  BY DEF ReadSome, ReadEnd, ReadError
<1>1. CASE ReadSome(e)
  <2>1. PICK n \in 1..channel[e] :
          /\ channel' = [channel EXCEPT ![e] = @ - n]
          /\ contents' = [contents EXCEPT ![e] = @ + n]
    BY <1>1 DEF ReadSome
  <2>2. UNCHANGED <<call, pc, wall, reader, status, program, writing, written, closed>>
    BY <1>1 DEF ReadSome
  <2>3. /\ channel[e] \in Nat /\ contents[e] \in Nat /\ written[e] \in 0..MaxOutput
        /\ contents[e] + channel[e] = written[e] /\ channel[e] <= Capacity
    BY <1>0 DEF OutputAccounted, RunTypeOK
  <2>4. channel[e] - n \in 0..Capacity /\ contents[e] + n \in 0..MaxOutput
    BY <2>3
  <2>5. RunTypeOK'
    BY <2>1, <2>2, <2>4 DEF RunTypeOK
  <2>6. ProgramFollowsCall' /\ ReadBeforeResult'
    BY <2>2 DEF ProgramFollowsCall, ReadBeforeResult
  <2>7. OutputAccounted'
    BY <1>0, <2>1, <2>2, <2>3 DEF OutputAccounted, RunTypeOK
  <2> QED
    BY <2>5, <2>6, <2>7
<1>2. CASE ReadEnd(e)
  <2>1. /\ reader' = [reader EXCEPT ![e] = "ok"] /\ channel[e] = 0 /\ e \in closed
        /\ UNCHANGED <<call, pc, wall, contents, status, programVars>>
    BY <1>2 DEF ReadEnd
  <2>2. RunTypeOK'
    BY <2>1 DEF RunTypeOK
  <2>3. ProgramFollowsCall' /\ ReadBeforeResult'
    BY <2>1 DEF ProgramFollowsCall, ReadBeforeResult, RunTypeOK
  <2>4. OutputAccounted'
    BY <1>0, <2>1 DEF OutputAccounted, RunTypeOK
  <2> QED
    BY <2>2, <2>3, <2>4
<1>3. CASE ReadError(e)
  <2>1. /\ reader' = [reader EXCEPT ![e] = "error"]
        /\ UNCHANGED <<call, pc, wall, contents, status, programVars>>
    BY <1>3 DEF ReadError
  <2>2. RunTypeOK'
    BY <2>1 DEF RunTypeOK
  <2>3. ProgramFollowsCall' /\ ReadBeforeResult'
    BY <1>0, <2>1 DEF ProgramFollowsCall, ReadBeforeResult, RunTypeOK
  <2>4. OutputAccounted'
    BY <1>0, <2>1 DEF OutputAccounted, RunTypeOK
  <2> QED
    BY <2>2, <2>3, <2>4
<1> QED
  BY <1>1, <1>2, <1>3

\* The call returns an error, or a result when everything was read and the program
\* has ended.
LEMMA ReturnPreserves ==
  ASSUME RunIInv, NEW a \in {"Error", "kSuccess", "kFailed", "kTimeout"}, Return(a),
         pc # "returned",
         a # "Error" => /\ \A e \in Ends : reader[e] = "ok"
                        /\ program \in Ended
                        /\ a = "kSuccess" => program = "exit 0"
  PROVE  RunIInv'
<1> USE DEF RunIInv, Return
<1>1. RunTypeOK'
  BY DEF RunTypeOK
<1>2. ProgramFollowsCall'
  BY DEF ProgramFollowsCall
<1>3. ReadBeforeResult'
  BY DEF ReadBeforeResult, Ended, BySelf, ByLimit
<1>4. OutputAccounted'
  BY DEF OutputAccounted
<1> QED
  BY <1>1, <1>2, <1>3, <1>4

LEMMA BeginReadPreserves ==
  ASSUME RunIInv, NEW e \in Ends, BeginRead(e)
  PROVE  RunIInv'
<1>1. /\ reader[e] = "idle" /\ reader' = [reader EXCEPT ![e] = "reading"]
      /\ UNCHANGED <<call, pc, wall, contents, status, programVars>>
  BY DEF BeginRead
<1> USE DEF RunIInv, programVars
<1>2. RunTypeOK'
  BY <1>1 DEF RunTypeOK
<1>3. ProgramFollowsCall' /\ ReadBeforeResult'
  BY <1>1 DEF ProgramFollowsCall, ReadBeforeResult, RunTypeOK
<1>4. OutputAccounted'
  BY <1>1 DEF OutputAccounted, RunTypeOK
<1> QED
  BY <1>2, <1>3, <1>4

LEMMA GoToPreserves ==
  ASSUME RunIInv, NEW p \in {"scope", "await", "run", "stdout", "stderr"}, GoTo(p),
         p = "run" => pc = "create",
         p = "scope" => pc = "limit",
         p = "await" => pc = "scope" /\ \A e \in Ends : reader[e] = "ok",
         p = "stdout" => pc = "await" /\ call = "CompileCode" /\ program # "running",
         p = "stderr" => pc = "stdout" /\ reader["stdout"] = "ok"
  PROVE  RunIInv'
<1> USE DEF RunIInv, GoTo, programVars
<1>1. RunTypeOK'
  BY DEF RunTypeOK
<1>2. ProgramFollowsCall'
  BY DEF ProgramFollowsCall
<1>3. ReadBeforeResult'
  BY DEF ReadBeforeResult
<1>4. OutputAccounted'
  BY DEF OutputAccounted
<1> QED
  BY <1>1, <1>2, <1>3, <1>4

LEMMA CallerPreserves ==
  ASSUME RunIInv, Caller
  PROVE  RunIInv'
<1>1. CASE Create
  <2>1. pc = "create"
    BY <1>1 DEF Create
  <2>2. CASE GoTo("run")
    BY <2>1, <2>2, GoToPreserves
  <2>3. CASE Return("Error")
    BY <2>1, <2>3, ReturnPreserves
  <2> QED
    BY <1>1, <2>2, <2>3 DEF Create
<1>2. CASE RunAsync
  <2>1. pc = "run"
    BY <1>2 DEF RunAsync
  <2>2. CASE Return("Error")
    BY <2>1, <2>2, ReturnPreserves
  <2>3. CASE /\ program' = "running"
             /\ pc' = IF call = "RunCodeOnInput" THEN "limit" ELSE "await"
             /\ UNCHANGED <<call, wall, reader, contents, status, writing, written,
                            channel, closed>>
    <3> USE <2>1, <2>3 DEF RunIInv
    <3>1. RunTypeOK'
      BY DEF RunTypeOK
    <3>2. ProgramFollowsCall'
      BY DEF ProgramFollowsCall
    <3>3. ReadBeforeResult'
      BY DEF ReadBeforeResult
    <3>4. OutputAccounted'
      BY DEF OutputAccounted
    <3> QED
      BY <3>1, <3>2, <3>3, <3>4
  <2> QED
    BY <1>2, <2>2, <2>3 DEF RunAsync
<1>3. CASE SetWallTimeLimit
  <2>1. /\ pc = "limit" /\ pc' = "scope" /\ wall' = TRUE
        /\ UNCHANGED <<call, reader, contents, status, programVars>>
    BY <1>3 DEF SetWallTimeLimit
  <2> USE <2>1 DEF RunIInv, programVars
  <2>2. RunTypeOK'
    BY DEF RunTypeOK
  <2>3. ProgramFollowsCall'
    BY DEF ProgramFollowsCall
  <2>4. ReadBeforeResult'
    BY DEF ReadBeforeResult
  <2>5. OutputAccounted'
    BY DEF OutputAccounted
  <2> QED
    BY <2>2, <2>3, <2>4, <2>5
<1>4. CASE LeaveScope
  <2>1. /\ pc = "scope" /\ \A e \in Ends : reader[e] \in {"ok", "error"}
        /\ IF \E e \in Ends : reader[e] = "error" THEN Return("Error") ELSE GoTo("await")
    BY <1>4 DEF LeaveScope
  <2>2. CASE \E e \in Ends : reader[e] = "error"
    BY <2>1, <2>2, ReturnPreserves
  <2>3. CASE \A e \in Ends : reader[e] = "ok"
    BY <2>1, <2>3, GoToPreserves
  <2> QED
    BY <2>1, <2>2, <2>3
<1>5. CASE AwaitResult
  <2>1. /\ pc = "await" /\ program # "running"
        /\ IF call = "RunCodeOnInput" THEN Return(TestStatus) ELSE GoTo("stdout")
    BY <1>5 DEF AwaitResult
  <2>2. CASE call = "RunCodeOnInput"
    <3>1. program \in Ended /\ \A e \in Ends : reader[e] = "ok"
      BY <2>1, <2>2 DEF RunIInv, ProgramFollowsCall, ReadBeforeResult
    <3>2. /\ TestStatus \in {"kSuccess", "kFailed", "kTimeout"}
          /\ TestStatus = "kSuccess" => program = "exit 0"
      BY DEF TestStatus
    <3> QED
      BY <2>1, <2>2, <3>1, <3>2, ReturnPreserves
  <2>3. CASE call # "RunCodeOnInput"
    <3>1. call = "CompileCode"
      BY <2>3 DEF RunIInv, RunTypeOK
    <3> QED
      BY <2>1, <2>3, <3>1, GoToPreserves
  <2> QED
    BY <2>2, <2>3
<1>6. ASSUME NEW e \in Ends, PoolBegins(e) PROVE RunIInv'
  BY <1>6, BeginReadPreserves DEF PoolBegins
<1>7. ASSUME NEW e \in Ends, CompileReads(e) PROVE RunIInv'
  <2>1. pc = e
    BY <1>7 DEF CompileReads
  <2>2. CASE BeginRead(e)
    BY <2>2, BeginReadPreserves
  <2>3. CASE Return("Error")
    BY <2>1, <2>3, ReturnPreserves
  <2>4. CASE reader[e] = "ok" /\ e = "stdout" /\ GoTo("stderr")
    BY <2>1, <2>4, GoToPreserves
  <2>5. CASE reader[e] = "ok" /\ e = "stderr" /\ Return(CompilationStatus)
    <3>1. program \in Ended /\ \A x \in Ends : reader[x] = "ok"
      BY <2>1, <2>5 DEF RunIInv, ProgramFollowsCall, ReadBeforeResult
    <3>2. /\ CompilationStatus \in {"kSuccess", "kFailed"}
          /\ CompilationStatus = "kSuccess" => program = "exit 0"
      BY DEF CompilationStatus
    <3> QED
      BY <2>1, <2>5, <3>1, <3>2, ReturnPreserves
  <2> QED
    BY <1>7, <2>2, <2>3, <2>4, <2>5 DEF CompileReads
<1> QED
  BY <1>1, <1>2, <1>3, <1>4, <1>5, <1>6, <1>7 DEF Caller

LEMMA RunStep == RunIInv /\ [Next \/ Idle]_vars => RunIInv'
<1> SUFFICES ASSUME RunIInv, [Next \/ Idle]_vars PROVE RunIInv'
  OBVIOUS
<1>1. CASE Program
  <2>1. ASSUME NEW e \in Ends, StartWrite(e) \/ FinishWrite(e) \/ CloseOutput(e)
        PROVE  RunIInv'
    BY <2>1, ProgramPreserves
  <2>2. CASE EndItself
    BY <2>2, EndPreserves DEF EndItself, Ended
  <2> QED
    BY <1>1, <2>1, <2>2 DEF Program
<1>2. CASE ExceedRlimit
  BY <1>2, EndPreserves DEF ExceedRlimit, Ended, ByLimit
<1>3. CASE ExceedWallTime
  BY <1>3, EndPreserves DEF ExceedWallTime, Ended, ByLimit
<1>4. CASE Caller
  BY <1>4, CallerPreserves
<1>5. ASSUME NEW e \in Ends, ReadSome(e) \/ ReadEnd(e) \/ ReadError(e)
      PROVE  RunIInv'
  BY <1>5, ReadPreserves
<1>6. CASE Idle \/ UNCHANGED vars
  BY <1>6, RunStutter DEF Idle
<1> QED
  BY <1>1, <1>2, <1>3, <1>4, <1>5, <1>6 DEF Next

-----------------------------------------------------------------------------
(* The limits, for all options.                                            *)

\* Dividing and multiplying again loses less than the divisor.
LEMMA DivFacts ==
  ASSUME NEW d \in Nat, NEW s \in Nat \ {0}
  PROVE  /\ d \div s \in Nat
         /\ (d \div s) * s <= d /\ (d \div s) * s > d - s
OBVIOUS

LEMMA ModFacts ==
  ASSUME NEW d \in Nat, NEW s \in Nat, d < s
  PROVE  d % s = d
OBVIOUS

\* The sum of the memory and of what the interpreter needs is below Word.
LEMMA MemoryFits == MemoryIsGranted
<1>1. ASSUME NEW m \in Int64, m >= 0
      PROVE  rlimit_as(m, TRUE) >= m
  BY <1>1 DEF Int64, rlimit_as, RLIM64_INFINITY
<1>2. ASSUME NEW m \in Int64, m >= 0
      PROVE  rlimit_as(m, FALSE) >= m /\ rlimit_as(m, FALSE) - Interpreter >= m
  <2>1. m \in Nat /\ m + Interpreter \in Nat /\ m + Interpreter < Word
    BY <1>2 DEF Int64
  <2>2. (m + Interpreter) % Word = m + Interpreter
    BY <2>1, ModFacts
  <2> QED
    BY <2>1, <2>2 DEF rlimit_as
<1>3. ASSUME NEW m \in Int64, NEW sanitizers \in BOOLEAN, m >= 0
      PROVE  /\ rlimit_as(m, sanitizers) >= m
             /\ ~sanitizers => rlimit_as(m, sanitizers) - Interpreter >= m
  <2>1. CASE sanitizers = TRUE
    BY <1>1, <1>3, <2>1, Zenon
  <2>2. CASE sanitizers = FALSE
    BY <1>2, <1>3, <2>2, Zenon
  <2> QED
    BY <2>1, <2>2, Zenon
<1> QED
  BY <1>3, Zenon DEF MemoryIsGranted

\* The processor time in whole seconds is at least 1 and the quotient.
LEMMA RlimitCpu ==
  ASSUME NEW d \in Durations, d >= 0
  PROVE  \E q \in Nat : /\ q * Second <= d /\ q * Second > d - Second
                        /\ rlimit_cpu(d) = IF q < 1 THEN 1 ELSE q
<1>1. d \in Nat /\ d >= 0
  BY LimitsAssumption DEF Durations
<1> DEFINE q == d \div Second
<1>2. q \in Nat /\ q * Second <= d /\ q * Second > d - Second
  BY <1>1, DivFacts
<1>3. rlimit_cpu(d) = IF q < 1 THEN 1 ELSE q
  BY <1>1 DEF rlimit_cpu, ToInt64Seconds
<1> HIDE DEF q
<1> QED
  BY <1>2, <1>3

\* No duration is too short, or too long, for the limit of processor time.
LEMMA TimeFits == TimeIsGranted
<1> SUFFICES ASSUME NEW d \in Durations
             PROVE  rlimit_cpu(d) >= 1 /\ rlimit_cpu(d) * Second > d - Second
  BY DEF TimeIsGranted
<1>1. d \in Int /\ Second \in Nat \ {0}
  BY LimitsAssumption DEF Durations
<1>2. CASE d >= 0
  <2>1. PICK q \in Nat : /\ q * Second <= d /\ q * Second > d - Second
                         /\ rlimit_cpu(d) = IF q < 1 THEN 1 ELSE q
    BY <1>2, RlimitCpu
  <2>2. CASE q = 0
    BY <1>1, <2>1, <2>2
  <2>3. CASE q >= 1
    BY <1>1, <2>1, <2>3
  <2> QED
    BY <2>2, <2>3
<1>3. CASE d < 0
  <2>1. -d \in Nat /\ (-d) \div Second \in Nat
    BY <1>1, <1>3, DivFacts
  <2>2. ToInt64Seconds(d) <= 0
    BY <1>1, <1>3, <2>1 DEF ToInt64Seconds
  <2>3. rlimit_cpu(d) = 1
    BY <1>1, <1>3, <2>1, <2>2 DEF rlimit_cpu, ToInt64Seconds
  <2> QED
    BY <1>1, <1>3, <2>3
<1> QED
  BY <1>1, <1>2, <1>3

LEMMA WallTimeFits == WallTimeIsLater
<1> SUFFICES ASSUME NEW d \in Durations, 30 * d >= Second
             PROVE  rlimit_cpu(d) * Second <= walltime_limit(d)
  BY DEF WallTimeIsLater
<1>0. d \in Nat /\ d > 0 /\ Second \in Nat \ {0}
  BY LimitsAssumption DEF Durations
<1>1. PICK q \in Nat : /\ q * Second <= d /\ q * Second > d - Second
                       /\ rlimit_cpu(d) = IF q < 1 THEN 1 ELSE q
  BY <1>0, RlimitCpu
<1>2. CASE q = 0
  BY <1>0, <1>1, <1>2 DEF walltime_limit
<1>3. CASE q >= 1
  BY <1>0, <1>1, <1>3 DEF walltime_limit
<1> QED
  BY <1>2, <1>3

-----------------------------------------------------------------------------
(* The theorems.  None needs the fairness of FairSpec.                     *)

\* Whatever the program does and whichever call runs it, the inductive invariant holds.
THEOREM RunInvariant == Spec \/ FairSpec => []RunIInv
<1>1. [Next]_vars => [Next \/ Idle]_vars
  OBVIOUS
<1> QED
  BY <1>1, RunInit, RunStep, PTL DEF Spec, FairSpec

\* A run keeps its type; in particular no more is read than was written.
THEOREM RunTypes == Spec \/ FairSpec => []RunTypeOK
<1>1. RunIInv => RunTypeOK
  BY DEF RunIInv
<1> QED
  BY <1>1, RunInvariant, PTL

\* A result that is not an error has everything the program wrote, and kSuccess is that
\* of a program that exited with 0 (tester_sandboxer.cc lines 103-119 and 434-446,
\* py_tester_sandboxer.cc lines 90-94).
THEOREM OutputCompleteHolds == Spec \/ FairSpec => []OutputComplete
<1>1. RunIInv => OutputComplete
  <2> SUFFICES ASSUME RunIInv, status \notin {"none", "Error"}
               PROVE  /\ program \in BySelf \cup ByLimit
                      /\ status = "kSuccess" => program = "exit 0"
                      /\ \A e \in Ends : contents[e] = written[e]
    BY DEF OutputComplete
  <2>1. /\ program \in BySelf \cup ByLimit
        /\ status = "kSuccess" => program = "exit 0"
        /\ \A e \in Ends : reader[e] = "ok"
    BY DEF RunIInv, ReadBeforeResult, Ended
  <2>2. \A e \in Ends : contents[e] = written[e]
    <3> SUFFICES ASSUME NEW e \in Ends PROVE contents[e] = written[e]
      OBVIOUS
    <3>1. reader[e] = "ok"
      BY <2>1
    <3>2. channel[e] = 0 /\ contents[e] + channel[e] = written[e]
      BY <3>1 DEF RunIInv, OutputAccounted
    <3>3. contents[e] \in 0..MaxOutput
      BY DEF RunIInv, RunTypeOK
    <3> QED
      BY <3>2, <3>3
  <2> QED
    BY <2>1, <2>2
<1> QED
  BY <1>1, RunInvariant, PTL

\* The limits on a program are those that its options ask for, whatever the widths of
\* the integers, the size of the interpreter and the length of a second are
\* (tester_sandboxer.cc lines 288-302 and 427-433).
THEOREM LimitsFitOptionsHolds == Spec \/ FairSpec => []LimitsFitOptions
<1>1. RunIInv => LimitsFitOptions
  BY MemoryFits, TimeFits, WallTimeFits DEF LimitsFitOptions, RunIInv, ProgramFollowsCall
<1> QED
  BY <1>1, RunInvariant, PTL
=============================================================================
