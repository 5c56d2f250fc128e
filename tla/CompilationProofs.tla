------------------------- MODULE CompilationProofs --------------------------
(***************************************************************************)
(* Proofs about Compilation, for every set of calls and of names.          *)
(*                                                                         *)
(* The directory of a call is its own from the moment it is made, so that  *)
(* only the attempts of one call meet in it: what an attempt may leave     *)
(* there is what the inductive invariant is about.                         *)
(***************************************************************************)
EXTENDS Compilation, TLAPS

-----------------------------------------------------------------------------
(* The inductive invariant.                                                *)

\* A call has a path when it has one that exists, and no other call has it.
PathsOwned ==
  /\ \A c \in Calls : IF pc[c] = "path" THEN path[c] = NoPath ELSE path[c] \in paths
  /\ \A c, d \in Calls : path[c] = path[d] => c = d \/ path[c] = NoPath

\* Where no directory was made there is no file.
FreshNames ==
  \A n \in Names \ paths : binary[n] = Missing /\ pycache[n] = Missing /\ temps[n] = 0

\* Past the write, the code file has the text of its call.
OwnCode ==
  \A c \in Calls :
    pc[c] \notin {"path", "write"} => code[path[c]] \in {<<c, "whole">>, <<c, "cut">>}

\* The byte code of an interpreter that succeeded is in its place, and Python 3
\* leaves the other place to the search.
ByteCodeInPlace ==
  \A c \in Calls :
    /\ pc[c] = "search" => succeeded[c]
    /\ pc[c] \in {"read", "search"} /\ succeeded[c] =>
         IF python[c] = 2 THEN binary[path[c]] = code[path[c]]
                          ELSE pycache[path[c]] = code[path[c]]
    /\ python[c] = 3 /\ pc[c] \notin {"path", "done"} => binary[path[c]] = Missing

\* Every failed attempt has its fault, or a file that was not renamed; there are no
\* more of these than attempts.
AttemptsCounted ==
  \A c \in Calls :
    /\ pc[c] = "path" => retry[c] = 0
    /\ pc[c] # "done" => retry[c] < kMaxTestAttempts
    /\ faults[c] <= retry[c]
    /\ faults[c] = retry[c] \/ (python[c] = 3 /\ temps[path[c]] > 0)
    /\ pc[c] \in {"write", "compile"} => temps[path[c]] <= retry[c]
    /\ pc[c] \in {"read", "search"} => temps[path[c]] <= retry[c] + 1

Results ==
  \A c \in Calls :
    /\ pc[c] = "done" /\ result[c] = "Error" => retry[c] = kMaxTestAttempts
    /\ pc[c] # "done" => result[c] \in {"none", "Error"}
    /\ result[c] = "kSuccess" => hash[c] = binary[path[c]] /\ hash[c] = code[path[c]]

CompilationIInv ==
  /\ CompilationTypeOK
  /\ PathsOwned
  /\ FreshNames
  /\ OwnCode
  /\ ByteCodeInPlace
  /\ AttemptsCounted
  /\ Results

-----------------------------------------------------------------------------
(* The invariant holds initially.                                          *)

LEMMA InitEstablishesIInv == Init => CompilationIInv
<1> SUFFICES ASSUME Init PROVE CompilationIInv
  OBVIOUS
<1> USE DEF Init
<1>1. CompilationTypeOK
  <2>1. aborted \in BOOLEAN
    OBVIOUS
  <2>2. paths \subseteq Names /\ path \in [Calls -> Names \cup {NoPath}]
    OBVIOUS
  <2>3. /\ code \in [Names -> Texts \cup {Missing}]
        /\ binary \in [Names -> Texts \cup {Missing, Partial}]
        /\ pycache \in [Names -> Texts \cup {Missing}]
        /\ hash \in [Calls -> Texts \cup {Missing, Partial}]
    OBVIOUS
  <2>4. /\ temps \in [Names -> 0..kMaxTestAttempts]
        /\ retry \in [Calls -> 0..kMaxTestAttempts] /\ faults \in [Calls -> 0..kMaxTestAttempts]
    BY DEF kMaxTestAttempts
  <2>5. /\ python \in [Calls -> {2, 3}] /\ succeeded \in [Calls -> BOOLEAN]
        /\ pc \in [Calls -> {"path", "write", "compile", "read", "search", "done"}]
        /\ result \in [Calls -> {"none", "Error", "kSuccess", "kFailed"}]
    OBVIOUS
  <2>6. QED
    BY <2>1, <2>2, <2>3, <2>4, <2>5 DEF CompilationTypeOK
<1>2. PathsOwned /\ FreshNames /\ OwnCode
  BY DEF PathsOwned, FreshNames, OwnCode
<1>3. ByteCodeInPlace /\ AttemptsCounted /\ Results
  BY DEF ByteCodeInPlace, AttemptsCounted, Results, kMaxTestAttempts
<1>4. QED
  BY <1>1, <1>2, <1>3 DEF CompilationIInv

-----------------------------------------------------------------------------
(* Every step of a call preserves it.                                      *)

\* A call that has a path has one in Names; past the write, the text in its code
\* file is neither Missing nor Partial.
LEMMA OwnText ==
  ASSUME CompilationIInv, NEW c \in Calls, pc[c] # "path"
  PROVE  /\ path[c] \in Names
         /\ pc[c] # "write" =>
              /\ code[path[c]] \in Texts
              /\ code[path[c]] \notin {Missing, Partial}
  BY DEF CompilationIInv, CompilationTypeOK, PathsOwned, OwnCode, Texts, Missing, Partial

LEMMA MakeTempPathPreservesIInv ==
  ASSUME CompilationIInv, NEW c \in Calls, MakeTempPath(c)
  PROVE  CompilationIInv'
<1> USE NamesAssumption DEF CompilationIInv, MakeTempPath, fileVars, kMaxTestAttempts
<1>1. CompilationTypeOK'
  <2>1. aborted' \in BOOLEAN
    BY DEF CompilationTypeOK
  <2>2. paths' \subseteq Names
    BY DEF CompilationTypeOK
  <2>3. path' \in [Calls -> Names \cup {NoPath}] /\ python' \in [Calls -> {2, 3}]
    BY DEF CompilationTypeOK
  <2>4. /\ code' \in [Names -> Texts \cup {Missing}]
        /\ binary' \in [Names -> Texts \cup {Missing, Partial}]
        /\ pycache' \in [Names -> Texts \cup {Missing}]
    BY DEF CompilationTypeOK
  <2>5. temps' \in [Names -> 0..kMaxTestAttempts]
    BY OwnText DEF CompilationTypeOK, AttemptsCounted
  <2>6. retry' \in [Calls -> 0..kMaxTestAttempts] /\ faults' \in [Calls -> 0..kMaxTestAttempts]
    BY DEF CompilationTypeOK, AttemptsCounted
  <2>7. /\ pc' \in [Calls -> {"path", "write", "compile", "read", "search", "done"}]
        /\ succeeded' \in [Calls -> BOOLEAN]
        /\ result' \in [Calls -> {"none", "Error", "kSuccess", "kFailed"}]
        /\ hash' \in [Calls -> Texts \cup {Missing, Partial}]
    BY DEF CompilationTypeOK
  <2>8. QED
    BY <2>1, <2>2, <2>3, <2>4, <2>5, <2>6, <2>7 DEF CompilationTypeOK
<1>2. PathsOwned'
  BY DEF CompilationTypeOK, PathsOwned
<1>3. FreshNames'
  BY DEF CompilationTypeOK, PathsOwned, FreshNames
<1>4. OwnCode'
  BY DEF CompilationTypeOK, PathsOwned, OwnCode
<1>5. ByteCodeInPlace'
  BY DEF CompilationTypeOK, PathsOwned, FreshNames, OwnCode, ByteCodeInPlace
<1>6. AttemptsCounted'
  BY DEF CompilationTypeOK, PathsOwned, FreshNames, AttemptsCounted
<1>7. Results'
  BY DEF CompilationTypeOK, PathsOwned, AttemptsCounted, Results
<1>8. QED
  BY <1>1, <1>2, <1>3, <1>4, <1>5, <1>6, <1>7

LEMMA WriteCodePreservesIInv ==
  ASSUME CompilationIInv, NEW c \in Calls, WriteCode(c)
  PROVE  CompilationIInv'
<1> USE NamesAssumption DEF CompilationIInv, WriteCode, GoTo, fileVars, kMaxTestAttempts
<1>1. CompilationTypeOK'
  BY OwnText DEF CompilationTypeOK, AttemptsCounted, Texts
<1>2. PathsOwned'
  BY DEF CompilationTypeOK, PathsOwned
<1>3. FreshNames'
  BY DEF CompilationTypeOK, PathsOwned, FreshNames
<1>4. OwnCode'
  BY DEF CompilationTypeOK, PathsOwned, OwnCode
<1>5. ByteCodeInPlace'
  BY DEF CompilationTypeOK, PathsOwned, FreshNames, OwnCode, ByteCodeInPlace
<1>6. AttemptsCounted'
  BY DEF CompilationTypeOK, PathsOwned, FreshNames, AttemptsCounted
<1>7. Results'
  BY DEF CompilationTypeOK, PathsOwned, AttemptsCounted, Results
<1>8. QED
  BY <1>1, <1>2, <1>3, <1>4, <1>5, <1>6, <1>7

LEMMA RunFailsPreservesIInv ==
  ASSUME CompilationIInv, NEW c \in Calls, RunFails(c)
  PROVE  CompilationIInv'
<1> USE NamesAssumption DEF CompilationIInv, RunFails, Fault, Fail, fileVars, kMaxTestAttempts
<1>1. CompilationTypeOK'
  BY OwnText DEF CompilationTypeOK, AttemptsCounted, Texts
<1>2. PathsOwned'
  BY DEF CompilationTypeOK, PathsOwned
<1>3. FreshNames'
  BY DEF CompilationTypeOK, PathsOwned, FreshNames
<1>4. OwnCode'
  BY DEF CompilationTypeOK, PathsOwned, OwnCode
<1>5. ByteCodeInPlace'
  BY DEF CompilationTypeOK, PathsOwned, FreshNames, OwnCode, ByteCodeInPlace
<1>6. AttemptsCounted'
  BY DEF CompilationTypeOK, PathsOwned, FreshNames, AttemptsCounted
<1>7. Results'
  BY DEF CompilationTypeOK, PathsOwned, AttemptsCounted, Results
<1>8. QED
  BY <1>1, <1>2, <1>3, <1>4, <1>5, <1>6, <1>7

LEMMA CompilesPreservesIInv ==
  ASSUME CompilationIInv, NEW c \in Calls, Compiles(c)
  PROVE  CompilationIInv'
<1> USE NamesAssumption DEF CompilationIInv, Compiles, GoTo, fileVars, kMaxTestAttempts
<1>1. CompilationTypeOK'
  BY OwnText DEF CompilationTypeOK, AttemptsCounted, Texts
<1>2. PathsOwned'
  BY DEF CompilationTypeOK, PathsOwned
<1>3. FreshNames'
  BY DEF CompilationTypeOK, PathsOwned, FreshNames
<1>4. OwnCode'
  BY DEF CompilationTypeOK, PathsOwned, OwnCode
<1>5. ByteCodeInPlace'
  BY DEF CompilationTypeOK, PathsOwned, FreshNames, OwnCode, ByteCodeInPlace
<1>6. AttemptsCounted'
  BY DEF CompilationTypeOK, PathsOwned, FreshNames, AttemptsCounted
<1>7. Results'
  BY DEF CompilationTypeOK, PathsOwned, AttemptsCounted, Results
<1>8. QED
  BY <1>1, <1>2, <1>3, <1>4, <1>5, <1>6, <1>7

LEMMA DoesNotCompilePreservesIInv ==
  ASSUME CompilationIInv, NEW c \in Calls, DoesNotCompile(c)
  PROVE  CompilationIInv'
<1> USE NamesAssumption DEF CompilationIInv, DoesNotCompile, GoTo, fileVars, kMaxTestAttempts
<1>1. CompilationTypeOK'
  <2>1. aborted' \in BOOLEAN
    BY DEF CompilationTypeOK
  <2>2. paths' \subseteq Names
    BY DEF CompilationTypeOK
  <2>3. path' \in [Calls -> Names \cup {NoPath}] /\ python' \in [Calls -> {2, 3}]
    BY DEF CompilationTypeOK
  <2>4. /\ code' \in [Names -> Texts \cup {Missing}]
        /\ binary' \in [Names -> Texts \cup {Missing, Partial}]
        /\ pycache' \in [Names -> Texts \cup {Missing}]
    BY OwnText DEF CompilationTypeOK
  <2>5. temps' \in [Names -> 0..kMaxTestAttempts]
    BY OwnText DEF CompilationTypeOK, AttemptsCounted
  <2>6. retry' \in [Calls -> 0..kMaxTestAttempts] /\ faults' \in [Calls -> 0..kMaxTestAttempts]
    BY DEF CompilationTypeOK, AttemptsCounted
  <2>7. /\ pc' \in [Calls -> {"path", "write", "compile", "read", "search", "done"}]
        /\ succeeded' \in [Calls -> BOOLEAN]
        /\ result' \in [Calls -> {"none", "Error", "kSuccess", "kFailed"}]
        /\ hash' \in [Calls -> Texts \cup {Missing, Partial}]
    BY OwnText DEF CompilationTypeOK
  <2>8. QED
    BY <2>1, <2>2, <2>3, <2>4, <2>5, <2>6, <2>7 DEF CompilationTypeOK
<1>2. PathsOwned'
  BY DEF CompilationTypeOK, PathsOwned
<1>3. FreshNames'
  BY DEF CompilationTypeOK, PathsOwned, FreshNames
<1>4. OwnCode'
  BY DEF CompilationTypeOK, PathsOwned, OwnCode
<1>5. ByteCodeInPlace'
  BY DEF CompilationTypeOK, PathsOwned, FreshNames, OwnCode, ByteCodeInPlace
<1>6. AttemptsCounted'
  BY DEF CompilationTypeOK, PathsOwned, FreshNames, AttemptsCounted
<1>7. Results'
  BY DEF CompilationTypeOK, PathsOwned, AttemptsCounted, Results
<1>8. QED
  BY <1>1, <1>2, <1>3, <1>4, <1>5, <1>6, <1>7

LEMMA ReadFailsPreservesIInv ==
  ASSUME CompilationIInv, NEW c \in Calls, ReadFails(c)
  PROVE  CompilationIInv'
<1> USE NamesAssumption DEF CompilationIInv, ReadFails, Fault, Fail, fileVars, kMaxTestAttempts
<1>1. CompilationTypeOK'
  BY OwnText DEF CompilationTypeOK, AttemptsCounted, Texts
<1>2. PathsOwned'
  BY DEF CompilationTypeOK, PathsOwned
<1>3. FreshNames'
  BY DEF CompilationTypeOK, PathsOwned, FreshNames
<1>4. OwnCode'
  BY DEF CompilationTypeOK, PathsOwned, OwnCode
<1>5. ByteCodeInPlace'
  BY DEF CompilationTypeOK, PathsOwned, FreshNames, OwnCode, ByteCodeInPlace
<1>6. AttemptsCounted'
  BY DEF CompilationTypeOK, PathsOwned, FreshNames, AttemptsCounted
<1>7. Results'
  BY DEF CompilationTypeOK, PathsOwned, AttemptsCounted, Results
<1>8. QED
  BY <1>1, <1>2, <1>3, <1>4, <1>5, <1>6, <1>7

LEMMA ReadOutputsPreservesIInv ==
  ASSUME CompilationIInv, NEW c \in Calls, ReadOutputs(c)
  PROVE  CompilationIInv'
<1> USE NamesAssumption DEF CompilationIInv, ReadOutputs, GoTo, Finish, fileVars, kMaxTestAttempts
<1>1. CompilationTypeOK'
  <2>1. aborted' \in BOOLEAN
    BY DEF CompilationTypeOK
  <2>2. paths' \subseteq Names
    BY DEF CompilationTypeOK
  <2>3. path' \in [Calls -> Names \cup {NoPath}] /\ python' \in [Calls -> {2, 3}]
    BY DEF CompilationTypeOK
  <2>4. /\ code' \in [Names -> Texts \cup {Missing}]
        /\ binary' \in [Names -> Texts \cup {Missing, Partial}]
        /\ pycache' \in [Names -> Texts \cup {Missing}]
    BY DEF CompilationTypeOK
  <2>5. temps' \in [Names -> 0..kMaxTestAttempts]
    BY OwnText DEF CompilationTypeOK, AttemptsCounted
  <2>6. retry' \in [Calls -> 0..kMaxTestAttempts] /\ faults' \in [Calls -> 0..kMaxTestAttempts]
    BY DEF CompilationTypeOK, AttemptsCounted
  <2>7. /\ pc' \in [Calls -> {"path", "write", "compile", "read", "search", "done"}]
        /\ succeeded' \in [Calls -> BOOLEAN]
        /\ result' \in [Calls -> {"none", "Error", "kSuccess", "kFailed"}]
        /\ hash' \in [Calls -> Texts \cup {Missing, Partial}]
    BY DEF CompilationTypeOK
  <2>8. QED
    BY <2>1, <2>2, <2>3, <2>4, <2>5, <2>6, <2>7 DEF CompilationTypeOK
<1>2. PathsOwned'
  BY DEF CompilationTypeOK, PathsOwned
<1>3. FreshNames'
  BY DEF CompilationTypeOK, PathsOwned, FreshNames
<1>4. OwnCode'
  BY DEF CompilationTypeOK, PathsOwned, OwnCode
<1>5. ByteCodeInPlace'
  BY DEF CompilationTypeOK, PathsOwned, FreshNames, OwnCode, ByteCodeInPlace
<1>6. AttemptsCounted'
  BY DEF CompilationTypeOK, PathsOwned, FreshNames, AttemptsCounted
<1>7. Results'
  BY DEF CompilationTypeOK, PathsOwned, AttemptsCounted, Results
<1>8. QED
  BY <1>1, <1>2, <1>3, <1>4, <1>5, <1>6, <1>7

LEMMA FindByteCodePreservesIInv ==
  ASSUME CompilationIInv, NEW c \in Calls, FindByteCode(c)
  PROVE  CompilationIInv'
\* Either kBinaryFile is there and the byte code of the call's text, or the search
\* in __pycache__ finds that byte code and nothing else, or it fails on what an
\* earlier attempt of Python 3 left there.
<1>0. /\ path[c] \in Names /\ pc[c] = "search" /\ code[path[c]] \in Texts
      /\ UNCHANGED <<aborted, paths, code, pycache, temps, python, path, succeeded>>
      /\ \/ Hash(c, code[path[c]]) /\ binary' = [binary EXCEPT ![path[c]] = code[path[c]]]
         \/ Fail(c) /\ python[c] = 3 /\ temps[path[c]] > 0 /\ UNCHANGED <<binary, hash, faults>>
  <2> DEFINE n == path[c]
  <2>1. /\ n \in Names /\ code[n] \in Texts /\ code[n] \notin {Missing, Partial}
        /\ pc[c] = "search" /\ succeeded[c]
    BY OwnText DEF FindByteCode, CompilationIInv, ByteCodeInPlace
  <2>2. CASE python[c] = 2
    <3>1. binary[n] = code[n] /\ binary[n] # Missing
      BY <2>1, <2>2 DEF CompilationIInv, ByteCodeInPlace
    <3>2. binary = [binary EXCEPT ![n] = code[n]]
      BY <3>1 DEF CompilationIInv, CompilationTypeOK
    <3>3. QED
      BY <2>1, <3>1, <3>2 DEF FindByteCode
  <2>3. CASE python[c] = 3
    <3>1. pycache[n] = code[n] /\ binary[n] = Missing /\ temps[n] \in Nat
      BY <2>1, <2>3 DEF CompilationIInv, CompilationTypeOK, ByteCodeInPlace
    <3>2. Matches(n) = temps[n] + 1
      BY <2>1, <3>1 DEF Matches
    <3>3. Matches(n) = 1 => MatchContents(n) = {code[n]}
      BY <2>1, <3>1, <3>2 DEF MatchContents
    <3>4. QED
      BY <2>1, <2>3, <3>1, <3>2, <3>3 DEF FindByteCode
  <2>4. QED
    BY <2>2, <2>3 DEF CompilationIInv, CompilationTypeOK
<1> USE NamesAssumption DEF CompilationIInv, Hash, Finish, Fail, kMaxTestAttempts
<1>1. CompilationTypeOK'
  <2>1. aborted' \in BOOLEAN
    BY <1>0 DEF CompilationTypeOK
  <2>2. paths' \subseteq Names
    BY <1>0 DEF CompilationTypeOK
  <2>3. path' \in [Calls -> Names \cup {NoPath}] /\ python' \in [Calls -> {2, 3}]
    BY <1>0 DEF CompilationTypeOK
  <2>4. /\ code' \in [Names -> Texts \cup {Missing}]
        /\ binary' \in [Names -> Texts \cup {Missing, Partial}]
        /\ pycache' \in [Names -> Texts \cup {Missing}]
    BY <1>0 DEF CompilationTypeOK
  <2>5. temps' \in [Names -> 0..kMaxTestAttempts]
    BY <1>0 DEF CompilationTypeOK, AttemptsCounted
  <2>6. retry' \in [Calls -> 0..kMaxTestAttempts] /\ faults' \in [Calls -> 0..kMaxTestAttempts]
    BY <1>0 DEF CompilationTypeOK, AttemptsCounted
  <2>7. /\ pc' \in [Calls -> {"path", "write", "compile", "read", "search", "done"}]
        /\ succeeded' \in [Calls -> BOOLEAN]
        /\ result' \in [Calls -> {"none", "Error", "kSuccess", "kFailed"}]
        /\ hash' \in [Calls -> Texts \cup {Missing, Partial}]
    BY <1>0 DEF CompilationTypeOK
  <2>8. QED
    BY <2>1, <2>2, <2>3, <2>4, <2>5, <2>6, <2>7 DEF CompilationTypeOK
<1>2. PathsOwned'
  BY <1>0 DEF CompilationTypeOK, PathsOwned
<1>3. FreshNames'
  BY <1>0 DEF CompilationTypeOK, PathsOwned, FreshNames
<1>4. OwnCode'
  BY <1>0 DEF CompilationTypeOK, PathsOwned, OwnCode
<1>5. ByteCodeInPlace'
  BY <1>0 DEF CompilationTypeOK, PathsOwned, FreshNames, OwnCode, ByteCodeInPlace
<1>6. AttemptsCounted'
  BY <1>0 DEF CompilationTypeOK, PathsOwned, FreshNames, AttemptsCounted
<1>7. Results'
  BY <1>0 DEF CompilationTypeOK, PathsOwned, AttemptsCounted, Results
<1>8. QED
  BY <1>1, <1>2, <1>3, <1>4, <1>5, <1>6, <1>7

LEMMA ThrowsPreservesIInv ==
  ASSUME CompilationIInv, NEW c \in Calls, Throws(c)
  PROVE  CompilationIInv'
<1>1. UNCHANGED <<paths, code, binary, pycache, temps, python, path, callVars>>
      /\ aborted' \in BOOLEAN
  BY DEF Throws, fileVars
<1>2. QED
  BY <1>1 DEF callVars, CompilationIInv, CompilationTypeOK, PathsOwned, FreshNames,
              OwnCode, ByteCodeInPlace, AttemptsCounted, Results

LEMMA NextPreservesIInv == CompilationIInv /\ [Next]_vars => CompilationIInv'
<1> SUFFICES ASSUME CompilationIInv, [Next]_vars PROVE CompilationIInv'
  OBVIOUS
<1>1. CASE UNCHANGED vars
  BY <1>1 DEF vars, fileVars, callVars, CompilationIInv, CompilationTypeOK, PathsOwned,
              FreshNames, OwnCode, ByteCodeInPlace, AttemptsCounted, Results
<1>2. ASSUME NEW c \in Calls, MakeTempPath(c) \/ CompileCode(c)
      PROVE  CompilationIInv'
  BY <1>2, MakeTempPathPreservesIInv, WriteCodePreservesIInv, RunFailsPreservesIInv,
     CompilesPreservesIInv, DoesNotCompilePreservesIInv, ReadFailsPreservesIInv,
     ReadOutputsPreservesIInv, FindByteCodePreservesIInv, ThrowsPreservesIInv
  DEF CompileCode
<1>3. QED
  BY <1>1, <1>2 DEF Next

-----------------------------------------------------------------------------
(* The theorems.                                                           *)

\* The inductive invariant holds of concurrent compilations.
THEOREM CompilationInvariant == Spec => []CompilationIInv
<1>1. Init => CompilationIInv
  BY InitEstablishesIInv
<1>2. CompilationIInv /\ [Next]_vars => CompilationIInv'
  BY NextPreservesIInv
<1>3. QED
  BY <1>1, <1>2, PTL DEF Spec

\* The variables of the compilations have their types.
THEOREM CompilationTypeCorrect == Spec => []CompilationTypeOK
<1>1. CompilationIInv => CompilationTypeOK
  BY DEF CompilationIInv
<1>2. QED
  BY CompilationInvariant, <1>1, PTL

\* However many calls compile at once, and whatever their earlier attempts left,
\* a call that succeeds has hashed and will run the byte code of the file that
\* it wrote (CompileCode, TempPath).
THEOREM ByteCodeIsOwnHolds == Spec => []ByteCodeIsOwn
<1>1. CompilationIInv => ByteCodeIsOwn
  <2> SUFFICES ASSUME CompilationIInv, NEW c \in Calls, result[c] = "kSuccess"
               PROVE  /\ hash[c] \in {<<c, "whole">>, <<c, "cut">>}
                      /\ hash[c] = binary[path[c]] /\ hash[c] = code[path[c]]
    BY DEF ByteCodeIsOwn
  <2>1. pc[c] = "done" /\ hash[c] = binary[path[c]] /\ hash[c] = code[path[c]]
    BY DEF CompilationIInv, Results
  <2>2. code[path[c]] \in {<<c, "whole">>, <<c, "cut">>}
    BY <2>1 DEF CompilationIInv, OwnCode
  <2>3. QED
    BY <2>1, <2>2
<1>2. QED
  BY CompilationInvariant, <1>1, PTL

\* RetryIfFail gives a compilation up only after a fault in every attempt, or on
\* what a Python 3 interpreter left in __pycache__.
THEOREM GivenUpForAReasonHolds == Spec => []GivenUpForAReason
<1>1. CompilationIInv => GivenUpForAReason
  BY DEF CompilationIInv, GivenUpForAReason, AttemptsCounted, Results
<1>2. QED
  BY CompilationInvariant, <1>1, PTL

-----------------------------------------------------------------------------
(* The attempts of every call follow RetryContract.                        *)

\* A step of CompileCode that neither fails nor finishes is not seen there.
LEMMA QuietStep ==
  ASSUME CompilationIInv, NEW c \in Calls, pc[c] # "done",
         NEW p \in {"write", "compile", "read", "search"},
         pc' = [pc EXCEPT ![c] = p], UNCHANGED <<retry, result>>
  PROVE  UNCHANGED Retries!vars
<1>1. \A d \in Calls : RetryOutcome(d)' = RetryOutcome(d)
  BY DEF RetryOutcome, CompilationIInv, CompilationTypeOK
<1>2. QED
  BY <1>1 DEF Retries!vars

LEMMA FailIsErr ==
  ASSUME CompilationIInv, NEW c \in Calls, pc[c] # "done", Fail(c)
  PROVE  Retries!Err(c)
<1> USE DEF CompilationIInv, CompilationTypeOK
<1>1. RetryOutcome(c) = "none" /\ retry' = [retry EXCEPT ![c] = @ + 1]
  BY DEF RetryOutcome, Fail
<1>2. RetryOutcome(c)' = IF retry'[c] = kMaxTestAttempts THEN "Error" ELSE "none"
  BY DEF RetryOutcome, Fail, AttemptsCounted, kMaxTestAttempts
<1>3. \A d \in Calls \ {c} : RetryOutcome(d)' = RetryOutcome(d)
  BY DEF RetryOutcome, Fail
<1>4. QED
  BY <1>1, <1>2, <1>3 DEF Retries!Err

LEMMA FinishIsSettle ==
  ASSUME CompilationIInv, NEW c \in Calls, pc[c] # "done",
         NEW s \in {"kSuccess", "kFailed"}, Finish(c, s), UNCHANGED retry
  PROVE  Retries!Settle(c)
<1> USE DEF CompilationIInv, CompilationTypeOK
<1>1. RetryOutcome(c) = "none" /\ RetryOutcome(c)' = "Ok"
  BY DEF RetryOutcome, Finish
<1>2. \A d \in Calls \ {c} : RetryOutcome(d)' = RetryOutcome(d)
  BY DEF RetryOutcome, Finish
<1>3. QED
  BY <1>1, <1>2 DEF Retries!Settle

LEMMA StepRefinesRetries ==
  ASSUME CompilationIInv, [Next]_vars
  PROVE  [Retries!Next]_Retries!vars
<1>1. CASE UNCHANGED vars
  BY <1>1 DEF vars, callVars, Retries!vars, RetryOutcome
<1>2. ASSUME NEW c \in Calls, MakeTempPath(c)
      PROVE  UNCHANGED Retries!vars
  <2>1. CASE pc' = [pc EXCEPT ![c] = "write"]
    BY <1>2, <2>1, QuietStep DEF MakeTempPath
  <2>2. CASE UNCHANGED pc
    BY <1>2, <2>2 DEF MakeTempPath, Retries!vars, RetryOutcome
  <2>3. QED
    BY <1>2, <2>1, <2>2 DEF MakeTempPath
<1>3. ASSUME NEW c \in Calls, CompileCode(c)
      PROVE  Retries!Err(c) \/ Retries!Settle(c) \/ UNCHANGED Retries!vars
  <2>1. CASE WriteCode(c) \/ Compiles(c) \/ DoesNotCompile(c)
    BY <2>1, QuietStep DEF WriteCode, Compiles, DoesNotCompile, GoTo
  <2>2. CASE RunFails(c) \/ ReadFails(c)
    BY <2>2, FailIsErr DEF RunFails, ReadFails, Fault
  <2>3. CASE ReadOutputs(c)
    BY <2>3, QuietStep, FinishIsSettle DEF ReadOutputs, GoTo
  <2>4. CASE FindByteCode(c)
    BY <2>4, FailIsErr, FinishIsSettle DEF FindByteCode, Hash
  <2>5. CASE Throws(c)
    BY <2>5 DEF Throws, callVars, Retries!vars, RetryOutcome
  <2>6. QED
    BY <1>3, <2>1, <2>2, <2>3, <2>4, <2>5 DEF CompileCode
<1>4. QED
  BY <1>1, <1>2, <1>3 DEF Next, Retries!Next

\* RetryIfFail keeps its contract when it retries CompileCode.
THEOREM CompilationImplementsRetries == Spec => RefinesRetries
<1>1. Init => Retries!Init
  BY DEF Init, Retries!Init, RetryOutcome
<1>2. CompilationIInv /\ [Next]_vars => [Retries!Next]_Retries!vars
  BY StepRefinesRetries
<1>3. QED
  BY <1>1, <1>2, CompilationInvariant, PTL DEF Spec, RefinesRetries, Retries!Spec
=============================================================================
