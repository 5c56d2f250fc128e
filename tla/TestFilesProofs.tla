--------------------------- MODULE TestFilesProofs ----------------------------
(***************************************************************************)
(* Proofs about TestFiles, for every set of calls, of names and of tests:  *)
(* what the tests may write are the other files of the directory of their  *)
(* own call, so the invariant of the compilations holds beside them.       *)
(***************************************************************************)
EXTENDS TestFiles, CompilationProofs

-----------------------------------------------------------------------------
(* The inductive invariant.                                                *)

\* A test that has started is one of a compilation that succeeded, and runs the byte
\* code that was hashed.
TestsStarted ==
  \A c \in Calls : \A t \in Tests :
    loaded[c][t] # Missing => /\ pc[c] = "done" /\ result[c] = "kSuccess"
                              /\ loaded[c][t] = hash[c]

\* Other files are written to the directory of their call only.
FilesOwned == \A n \in Names : \A c \in data[n] : pc[c] = "done" /\ path[c] = n

TestFilesIInv ==
  /\ CompilationIInv
  /\ TestFilesTypeOK
  /\ TestsStarted
  /\ FilesOwned
  /\ NothingPersistsBetweenCalls

-----------------------------------------------------------------------------
(* What a policy permits.                                                  *)

\* With TestPolicy a test may write the other files in the directory of its call, and
\* read those of no other one.
LEMMA TestPolicyIsOwnDirectory ==
  ASSUME NEW c, NEW n \in Names, NEW f \in {kCodeFile, kBinaryFile, "other"}
  PROVE  /\ MayWrite(TestPolicy(c), <<n, f>>) => n = path[c] /\ f = "other"
         /\ MayRead(TestPolicy(c), <<n, f>>) => n = path[c]
<1> DEFINE p == <<n, f>>
<1>1. p \in Paths /\ p \notin System
  BY DEF Paths, System, kCodeFile, kBinaryFile
<1>2. p[1] = n /\ p[2] = f
  OBVIOUS
<1>3. p # <<"/dev", "urandom">> /\ p # <<"/dev", "fd/1022">> /\ p # <<"/usr/lib", "python">>
      /\ p # <<"/proc", "version">>
  BY <1>1 DEF System
<1> DEFINE m == [NoMappings EXCEPT
                   !.ro_files = {<<path[c], kCodeFile>>, <<path[c], kBinaryFile>>},
                   !.rw_dirs = {path[c]}]
<1>4. /\ m.ro_files = {<<path[c], kCodeFile>>, <<path[c], kBinaryFile>>}
      /\ m.rw_files = {} /\ m.ro_dirs = {} /\ m.rw_dirs = {path[c]}
  BY DEF NoMappings
<1> HIDE DEF m
<1>5. CreateBasePolicy(m).access \in [Paths -> {"ro", "rw", "none"}]
  BY <1>4 DEF CreateBasePolicy
<1>6. CreatePolicy(m).access[p] = CreateBasePolicy(m).access[p]
  BY <1>1, <1>3, <1>5 DEF CreatePolicy
<1>7. CreateBasePolicy(m).access[p] =
        IF p \in m.ro_files THEN "ro" ELSE IF n = path[c] THEN "rw" ELSE "none"
  <2>1. CreateBasePolicy(m).access[p] =
          IF p \in m.ro_files \cup {<<"/proc", "version">>} THEN "ro"
          ELSE IF p \in m.rw_files \/ p[1] \in m.rw_dirs THEN "rw"
          ELSE IF p[1] \in m.ro_dirs THEN "ro"
          ELSE "none"
    BY <1>1 DEF CreateBasePolicy
  <2>2. QED
    BY <2>1, <1>2, <1>3, <1>4
<1>8. TestPolicy(c) = CreatePolicy(m)
  BY DEF TestPolicy, m
<1>9. CASE n # path[c]
  BY <1>2, <1>4, <1>6, <1>7, <1>8, <1>9 DEF MayWrite, MayRead
<1>10. CASE n = path[c]
  <2>1. f # "other" => p \in m.ro_files
    BY <1>4, <1>10
  <2>2. QED
    BY <2>1, <1>6, <1>7, <1>8, <1>10 DEF MayWrite, MayRead
<1>11. QED
  BY <1>9, <1>10

-----------------------------------------------------------------------------
(* The invariant holds initially, and every step preserves it.             *)

LEMMA TestInitEstablishesIInv == TestInit => TestFilesIInv
<1> SUFFICES ASSUME TestInit PROVE TestFilesIInv
  OBVIOUS
<1>1. CompilationIInv
  BY InitEstablishesIInv DEF TestInit
<1>2. TestFilesTypeOK
  BY DEF TestInit, TestFilesTypeOK
<1>3. TestsStarted /\ FilesOwned /\ NothingPersistsBetweenCalls
  BY DEF TestInit, TestsStarted, FilesOwned, NothingPersistsBetweenCalls
<1>4. QED
  BY <1>1, <1>2, <1>3 DEF TestFilesIInv

\* The compilation of a call that has returned is over: nothing changes what it found.
LEMMA DoneIsFinal ==
  ASSUME CompilationIInv, [Next]_vars, NEW c \in Calls, pc[c] = "done"
  PROVE  /\ pc'[c] = "done" /\ path'[c] = path[c]
         /\ result'[c] = result[c] /\ hash'[c] = hash[c]
<1> USE DEF CompilationIInv, CompilationTypeOK
<1>1. CASE UNCHANGED vars
  BY <1>1 DEF vars, callVars
<1>2. ASSUME NEW d \in Calls, MakeTempPath(d)
      PROVE  /\ pc'[c] = "done" /\ path'[c] = path[c]
             /\ result'[c] = result[c] /\ hash'[c] = hash[c]
  BY <1>2 DEF MakeTempPath
<1>3. ASSUME NEW d \in Calls, CompileCode(d)
      PROVE  /\ pc'[c] = "done" /\ path'[c] = path[c]
             /\ result'[c] = result[c] /\ hash'[c] = hash[c]
  <2>1. CASE WriteCode(d) \/ Compiles(d) \/ DoesNotCompile(d)
    BY <2>1 DEF WriteCode, Compiles, DoesNotCompile, GoTo
  <2>2. CASE RunFails(d) \/ ReadFails(d)
    BY <2>2 DEF RunFails, ReadFails, Fault, Fail
  <2>3. CASE ReadOutputs(d)
    BY <2>3 DEF ReadOutputs, GoTo, Finish
  <2>4. CASE FindByteCode(d)
    BY <2>4 DEF FindByteCode, Hash, Finish, Fail
  <2>5. CASE Throws(d)
    BY <2>5 DEF Throws, callVars
  <2>6. QED
    BY <1>3, <2>1, <2>2, <2>3, <2>4, <2>5 DEF CompileCode
<1>4. QED
  BY <1>1, <1>2, <1>3 DEF Next

LEMMA CompilationStepPreservesIInv ==
  ASSUME TestFilesIInv, [Next]_vars, UNCHANGED testVars
  PROVE  TestFilesIInv'
<1> USE DEF TestFilesIInv, testVars
<1>1. CompilationIInv'
  BY NextPreservesIInv
<1>2. TestFilesTypeOK' /\ NothingPersistsBetweenCalls'
  BY DEF TestFilesTypeOK, NothingPersistsBetweenCalls
<1>3. TestsStarted'
  BY DoneIsFinal DEF TestsStarted
<1>4. FilesOwned'
  BY DoneIsFinal DEF FilesOwned, TestFilesTypeOK
<1>5. QED
  BY <1>1, <1>2, <1>3, <1>4

\* A step of the tests leaves the compilations alone.
LEMMA TestStepPreservesIInv ==
  ASSUME TestFilesIInv, NEW c \in Calls,
         WriteFile(c) \/ ReadFile(c) \/ (\E t \in Tests : StartTest(c, t))
  PROVE  TestFilesIInv' /\ UNCHANGED vars
<1> USE DEF TestFilesIInv
<1>0. CASE UNCHANGED vars /\ TestFilesTypeOK' /\ TestsStarted' /\ FilesOwned'
           /\ NothingPersistsBetweenCalls'
  <2>1. [Next]_vars
    BY <1>0
  <2>2. CompilationIInv'
    BY <2>1, NextPreservesIInv
  <2>3. QED
    BY <1>0, <2>2
<1>1. CASE WriteFile(c)
  <2>1. PICK n \in Names, f \in {kCodeFile, kBinaryFile, "other"} :
          /\ MayWrite(TestPolicy(c), <<n, f>>)
          /\ code' = IF f = kCodeFile THEN [code EXCEPT ![n] = Partial] ELSE code
          /\ binary' = IF f = kBinaryFile THEN [binary EXCEPT ![n] = Partial] ELSE binary
          /\ data' = IF f = "other" THEN [data EXCEPT ![n] = @ \cup {c}] ELSE data
    BY <1>1 DEF WriteFile
  <2>2. n = path[c] /\ f = "other"
    BY <2>1, TestPolicyIsOwnDirectory
  <2>3. UNCHANGED vars /\ data' = [data EXCEPT ![n] = @ \cup {c}] /\ UNCHANGED <<loaded, seen>>
    BY <1>1, <2>1, <2>2 DEF WriteFile, kCodeFile, kBinaryFile, vars, fileVars
  <2>4. pc[c] = "done"
    BY <1>1 DEF WriteFile, Running, TestsStarted
  <2>5. TestFilesTypeOK' /\ TestsStarted' /\ NothingPersistsBetweenCalls'
    BY <2>3 DEF TestFilesTypeOK, TestsStarted, NothingPersistsBetweenCalls, vars, callVars
  <2>6. FilesOwned'
    BY <2>2, <2>3, <2>4 DEF FilesOwned, TestFilesTypeOK, vars, callVars
  <2>7. QED
    BY <1>0, <2>3, <2>5, <2>6
<1>2. CASE ReadFile(c)
  <2>1. PICK n \in Names : /\ MayRead(TestPolicy(c), <<n, "other">>)
                           /\ seen' = [seen EXCEPT ![c] = @ \cup data[n]]
    BY <1>2 DEF ReadFile
  <2>2. n = path[c]
    BY <2>1, TestPolicyIsOwnDirectory
  <2>3. data[n] \subseteq {c}
    <3> SUFFICES ASSUME NEW d \in data[n] PROVE d = c
      OBVIOUS
    <3>1. d \in Calls /\ path[d] = path[c]
      BY <2>2 DEF FilesOwned, TestFilesTypeOK
    <3>2. path[c] # NoPath
      BY <2>2, NamesAssumption
    <3>3. QED
      BY <3>1, <3>2 DEF CompilationIInv, PathsOwned
  <2>4. UNCHANGED vars /\ UNCHANGED <<loaded, data>>
    BY <1>2 DEF ReadFile
  <2>5. TestFilesTypeOK' /\ NothingPersistsBetweenCalls'
    BY <2>1, <2>3, <2>4 DEF TestFilesTypeOK, NothingPersistsBetweenCalls
  <2>6. TestsStarted' /\ FilesOwned'
    BY <2>4 DEF TestsStarted, FilesOwned, vars, callVars
  <2>7. QED
    BY <1>0, <2>4, <2>5, <2>6
<1>3. ASSUME NEW t \in Tests, StartTest(c, t)
      PROVE  TestFilesIInv' /\ UNCHANGED vars
  <2>1. UNCHANGED vars /\ UNCHANGED <<data, seen>>
    BY <1>3 DEF StartTest
  <2>2. pc[c] = "done" /\ result[c] = "kSuccess" /\ binary[path[c]] = hash[c]
    BY <1>3 DEF StartTest, CompilationIInv, Results
  <2>3. hash[c] \in Texts
    BY <2>2 DEF CompilationIInv, CompilationTypeOK, Results, OwnCode, Texts
  <2>4. TestFilesTypeOK' /\ NothingPersistsBetweenCalls' /\ FilesOwned'
    BY <1>3, <2>1, <2>2, <2>3 DEF StartTest, TestFilesTypeOK, NothingPersistsBetweenCalls,
       FilesOwned, vars, callVars
  <2>5. TestsStarted'
    BY <1>3, <2>1, <2>2 DEF StartTest, TestFilesTypeOK, TestsStarted, vars, callVars
  <2>6. QED
    BY <1>0, <2>1, <2>4, <2>5
<1>4. QED
  BY <1>1, <1>2, <1>3

LEMMA TestNextPreservesIInv == TestFilesIInv /\ [TestNext]_allVars => TestFilesIInv'
<1> SUFFICES ASSUME TestFilesIInv, [TestNext]_allVars PROVE TestFilesIInv'
  OBVIOUS
<1>1. CASE (Next \/ UNCHANGED vars) /\ UNCHANGED testVars
  BY <1>1, CompilationStepPreservesIInv
<1>2. ASSUME NEW c \in Calls,
             WriteFile(c) \/ ReadFile(c) \/ (\E t \in Tests : StartTest(c, t))
      PROVE  TestFilesIInv'
  BY <1>2, TestStepPreservesIInv
<1>3. QED
  BY <1>1, <1>2 DEF TestNext, allVars

-----------------------------------------------------------------------------
(* The theorems.                                                           *)

\* The inductive invariant holds of calls that compile and test side by side.
THEOREM TestFilesInvariant == TestSpec => []TestFilesIInv
<1>1. TestInit => TestFilesIInv
  BY TestInitEstablishesIInv
<1>2. TestFilesIInv /\ [TestNext]_allVars => TestFilesIInv'
  BY TestNextPreservesIInv
<1>3. QED
  BY <1>1, <1>2, PTL DEF TestSpec

\* The variables of the tests' files have their types.
THEOREM TestFilesTypeCorrect == TestSpec => []TestFilesTypeOK
<1>1. TestFilesIInv => TestFilesTypeOK
  BY DEF TestFilesIInv
<1>2. QED
  BY TestFilesInvariant, <1>1, PTL

\* CreateTestSandbox maps the byte code read-only into a directory that the programs may
\* write to: whatever they write, every test runs what CompileCode has hashed.
THEOREM TestsRunWhatWasCompiledHolds == TestSpec => []TestsRunWhatWasCompiled
<1>1. TestFilesIInv => TestsRunWhatWasCompiled
  BY DEF TestFilesIInv, TestsStarted, TestsRunWhatWasCompiled, CompilationIInv, Results
<1>2. QED
  BY TestFilesInvariant, <1>1, PTL

\* No test reads a file that a test of another call of Test wrote, although TempPath
\* never removes a directory.
THEOREM NothingPersistsHolds == TestSpec => []NothingPersistsBetweenCalls
<1>1. TestFilesIInv => NothingPersistsBetweenCalls
  BY DEF TestFilesIInv
<1>2. QED
  BY TestFilesInvariant, <1>1, PTL

\* The tests are not in the way of the compilations beside them (CompileCode, TempPath).
THEOREM ByteCodeIsOwnBesideTests == TestSpec => []ByteCodeIsOwn
<1>1. TestFilesIInv => ByteCodeIsOwn
  BY DEF TestFilesIInv, CompilationIInv, Results, OwnCode, ByteCodeIsOwn
<1>2. QED
  BY TestFilesInvariant, <1>1, PTL

\* Nor of their retries (RetryIfFail).
THEOREM RetriesBesideTests == TestSpec => RefinesRetries
<1>1. TestInit => Retries!Init
  BY DEF TestInit, Init, Retries!Init, RetryOutcome
<1>2. TestFilesIInv /\ [TestNext]_allVars => [Retries!Next]_Retries!vars
  <2> SUFFICES ASSUME TestFilesIInv, [TestNext]_allVars PROVE [Retries!Next]_Retries!vars
    OBVIOUS
  <2>1. [Next]_vars
    BY TestStepPreservesIInv DEF TestNext, allVars
  <2>2. QED
    BY <2>1, StepRefinesRetries DEF TestFilesIInv
<1>3. QED
  BY <1>1, <1>2, TestFilesInvariant, PTL DEF TestSpec, RefinesRetries, Retries!Spec
=============================================================================
