---------------------------- MODULE Compilation -----------------------------
(***************************************************************************)
(* The compilation phase of concurrent calls of TesterSandboxer::Test      *)
(* (execution/tester_sandboxer.cc) on a PyTesterSandboxer: each call makes *)
(* a directory (execution/temp_path.h) and tries CompileCode up to         *)
(* kMaxTestAttempts times in it (execution/py_tester_sandboxer.cc).        *)
(* Nothing removes the files of an attempt before the next one.            *)
(*                                                                         *)
(* The interpreter is external.  Python 2 writes the byte code file next   *)
(* to the source, in place.  Python 3 writes it to __pycache__, to a file  *)
(* of another name that it renames at the end.  How the sandbox runs it is *)
(* in SandboxRun; here it ends, with success or not.                       *)
(***************************************************************************)
EXTENDS Integers, FiniteSets

CONSTANTS
  Calls,   (* the calls of Test                                            *)
  Names    (* the names that TempPath may draw: time, process and number   *)

kMaxTestAttempts == 3

VARIABLES
  aborted,   (* the process has ended, by std::abort or an exception        *)
  paths,     (* the directories that exist                                  *)
  code,      (* kCodeFile in each directory: the text it has, or Missing    *)
  binary,    (* kBinaryFile, by the text that it is the byte code of        *)
  pycache,   (* the byte code file in __pycache__, likewise                 *)
  temps,     (* the files in __pycache__ that were not renamed              *)
  python,    (* the version that each call uses                             *)
  pc,        (* where each call is                                          *)
  path,      (* its temp_path, or NoPath                                    *)
  retry,     (* the failed attempts of RetryIfFail                          *)
  succeeded, (* whether its interpreter ended with success                  *)
  result,    (* what CompileCode returned last: a status, or "Error"        *)
  hash,      (* its program_hash, by the text that was hashed               *)
  faults     (* history: the attempts in which something of their own failed *)

fileVars == <<code, binary, pycache, temps>>
callVars == <<pc, retry, succeeded, result, hash, faults>>
vars == <<aborted, paths, fileVars, python, path, callVars>>

NoPath == "no path"

ASSUME NamesAssumption == NoPath \notin Names

Missing == <<"nobody", "nothing">>

\* What a file has: a text, whole or cut short.  Partial is part of a byte code
\* file.
Texts == Calls \X {"whole", "cut"}
Partial == <<"nobody", "partial">>

Init ==
  /\ aborted = FALSE
  /\ paths = {}
  /\ code = [n \in Names |-> Missing]
  /\ binary = [n \in Names |-> Missing]
  /\ pycache = [n \in Names |-> Missing]
  /\ temps = [n \in Names |-> 0]
  /\ python \in [Calls -> {2, 3}]
  /\ pc = [c \in Calls |-> "path"]
  /\ path = [c \in Calls |-> NoPath]
  /\ retry = [c \in Calls |-> 0]
  /\ succeeded = [c \in Calls |-> FALSE]
  /\ result = [c \in Calls |-> "none"]
  /\ hash = [c \in Calls |-> Missing]
  /\ faults = [c \in Calls |-> 0]

-----------------------------------------------------------------------------
(* TempPath.                                                               *)

\* As MakeTempPath, when a directory that exists is as good as a new one.
MakeTempPathAnyway(c) ==
  /\ pc[c] = "path"
  /\ \E n \in Names :
       /\ paths' = paths \cup {n}
       /\ path' = [path EXCEPT ![c] = n]
  /\ pc' = [pc EXCEPT ![c] = "write"]
  /\ UNCHANGED <<aborted, fileVars, python, retry, succeeded, result, hash, faults>>

\* A name that exists ends the process, and all calls with it.
MakeTempPath(c) ==
  /\ pc[c] = "path"
  /\ \E n \in Names :
       IF n \in paths
         THEN aborted' = TRUE /\ UNCHANGED <<paths, path, pc>>
         ELSE /\ paths' = paths \cup {n}
              /\ path' = [path EXCEPT ![c] = n]
              /\ pc' = [pc EXCEPT ![c] = "write"]
              /\ UNCHANGED aborted
  /\ UNCHANGED <<fileVars, python, retry, succeeded, result, hash, faults>>

-----------------------------------------------------------------------------
(* The end of an attempt: RetryIfFail tries again after an error.          *)

\* As Fail, with an attempt too many.
FailOnceMore(c) ==
  /\ retry' = [retry EXCEPT ![c] = @ + 1]
  /\ pc' = [pc EXCEPT ![c] = IF retry[c] < kMaxTestAttempts THEN "write" ELSE "done"]
  /\ result' = [result EXCEPT ![c] = "Error"]

Fail(c) ==
  /\ retry' = [retry EXCEPT ![c] = @ + 1]
  /\ pc' = [pc EXCEPT ![c] = IF retry[c] + 1 < kMaxTestAttempts THEN "write" ELSE "done"]
  /\ result' = [result EXCEPT ![c] = "Error"]

Fault(c) == Fail(c) /\ faults' = [faults EXCEPT ![c] = @ + 1]

Finish(c, status) ==
  /\ pc' = [pc EXCEPT ![c] = "done"]
  /\ result' = [result EXCEPT ![c] = status]

GoTo(c, p) == pc' = [pc EXCEPT ![c] = p]

-----------------------------------------------------------------------------
(* CompileCode.                                                            *)

\* The text goes to kCodeFile; a write that fails leaves a part of it, and
\* nobody looks at the state of the stream.
WriteCode(c) ==
  /\ pc[c] = "write"
  /\ \E w \in {"whole", "cut"} : code' = [code EXCEPT ![path[c]] = <<c, w>>]
  /\ GoTo(c, "compile")
  /\ UNCHANGED <<aborted, paths, binary, pycache, temps, python, path>>
  /\ UNCHANGED <<retry, succeeded, result, hash, faults>>

\* CreateSandboxWithFds or RunAsync fails.
RunFails(c) ==
  /\ pc[c] = "compile"
  /\ Fault(c)
  /\ UNCHANGED <<aborted, paths, fileVars, python, path, succeeded, hash>>

\* The interpreter ends with success: the byte code is in its place.
Compiles(c) ==
  /\ pc[c] = "compile"
  /\ IF python[c] = 2
       THEN binary' = [binary EXCEPT ![path[c]] = code[path[c]]] /\ UNCHANGED pycache
       ELSE pycache' = [pycache EXCEPT ![path[c]] = code[path[c]]] /\ UNCHANGED binary
  /\ succeeded' = [succeeded EXCEPT ![c] = TRUE]
  /\ GoTo(c, "read")
  /\ UNCHANGED <<aborted, paths, code, temps, python, path, retry, result, hash, faults>>

\* It finds an error in the text, or a limit ends it, perhaps as it writes.
DoesNotCompile(c) ==
  /\ pc[c] = "compile"
  /\ \/ UNCHANGED <<binary, temps>>
     \/ python[c] = 2 /\ binary' = [binary EXCEPT ![path[c]] = Partial] /\ UNCHANGED temps
     \/ python[c] = 3 /\ temps' = [temps EXCEPT ![path[c]] = @ + 1] /\ UNCHANGED binary
  /\ succeeded' = [succeeded EXCEPT ![c] = FALSE]
  /\ GoTo(c, "read")
  /\ UNCHANGED <<aborted, paths, code, pycache, python, path, retry, result, hash, faults>>

\* Stdout or Stderr returns an error.
ReadFails(c) ==
  /\ pc[c] = "read"
  /\ Fault(c)
  /\ UNCHANGED <<aborted, paths, fileVars, python, path, succeeded, hash>>

ReadOutputs(c) ==
  /\ pc[c] = "read"
  /\ IF succeeded[c] THEN GoTo(c, "search") /\ UNCHANGED result ELSE Finish(c, "kFailed")
  /\ UNCHANGED <<aborted, paths, fileVars, python, path, retry, succeeded, hash, faults>>

\* The contents of the files in the __pycache__ of n, and how many these are.
MatchContents(n) ==
  ({pycache[n]} \ {Missing}) \cup (IF temps[n] > 0 THEN {Partial} ELSE {})
Matches(n) == temps[n] + (IF pycache[n] = Missing THEN 0 ELSE 1)

\* The byte code b is hashed, and the result returned.
Hash(c, b) ==
  /\ hash' = [hash EXCEPT ![c] = b]
  /\ Finish(c, "kSuccess")
  /\ UNCHANGED <<retry, faults>>

\* As FindByteCode, looking in __pycache__ only.
FindByteCodeInCache(c) ==
  LET n == path[c] IN
  /\ pc[c] = "search"
  /\ \/ Matches(n) # 1 /\ Fail(c) /\ UNCHANGED <<binary, hash, faults>>
     \/ /\ Matches(n) = 1
        /\ \E b \in MatchContents(n) : binary' = [binary EXCEPT ![n] = b] /\ Hash(c, b)
  /\ UNCHANGED <<aborted, paths, code, pycache, temps, python, path, succeeded>>

\* kBinaryFile if it exists, and else the one file in __pycache__, which is copied.
FindByteCode(c) ==
  LET n == path[c] IN
  /\ pc[c] = "search"
  /\ \/ binary[n] # Missing /\ Hash(c, binary[n]) /\ UNCHANGED binary
     \/ /\ binary[n] = Missing /\ Matches(n) # 1
        /\ Fail(c) /\ UNCHANGED <<binary, hash, faults>>
     \/ /\ binary[n] = Missing /\ Matches(n) = 1
        /\ \E b \in MatchContents(n) : binary' = [binary EXCEPT ![n] = b] /\ Hash(c, b)
  /\ UNCHANGED <<aborted, paths, code, pycache, temps, python, path, succeeded>>

\* The directory cannot be listed, the file not copied, or the byte code not read or
\* not as long and as it should be: an exception of the standard library, which nothing
\* catches, ends the process.
Throws(c) ==
  /\ pc[c] = "search"
  /\ aborted' = TRUE
  /\ UNCHANGED <<paths, fileVars, python, path, callVars>>

CompileCode(c) ==
  \/ WriteCode(c) \/ RunFails(c) \/ Compiles(c) \/ DoesNotCompile(c)
  \/ ReadFails(c) \/ ReadOutputs(c) \/ FindByteCode(c) \/ Throws(c)

Next == ~aborted /\ \E c \in Calls : MakeTempPath(c) \/ CompileCode(c)

Spec == Init /\ [][Next]_vars

-----------------------------------------------------------------------------
(* The calls of RetryIfFail, for RetryContract.                            *)

RetryOutcome(c) ==
  IF pc[c] # "done" THEN "none" ELSE IF result[c] = "Error" THEN "Error" ELSE "Ok"

Retries == INSTANCE RetryContract WITH
             Retried <- Calls,
             MaxAttempts <- kMaxTestAttempts,
             errors <- retry,
             outcome <- [c \in Calls |-> RetryOutcome(c)]

-----------------------------------------------------------------------------
(* Properties.                                                             *)

\* The type invariant of the compilations.
CompilationTypeOK ==
  /\ aborted \in BOOLEAN
  /\ paths \subseteq Names
  /\ code \in [Names -> Texts \cup {Missing}]
  /\ binary \in [Names -> Texts \cup {Missing, Partial}]
  /\ pycache \in [Names -> Texts \cup {Missing}]
  /\ temps \in [Names -> 0..kMaxTestAttempts]
  /\ python \in [Calls -> {2, 3}]
  /\ pc \in [Calls -> {"path", "write", "compile", "read", "search", "done"}]
  /\ path \in [Calls -> Names \cup {NoPath}]
  /\ retry \in [Calls -> 0..kMaxTestAttempts]
  /\ succeeded \in [Calls -> BOOLEAN]
  /\ result \in [Calls -> {"none", "Error", "kSuccess", "kFailed"}]
  /\ hash \in [Calls -> Texts \cup {Missing, Partial}]
  /\ faults \in [Calls -> 0..kMaxTestAttempts]

\* Whatever other calls do and whatever earlier attempts left behind, a call that
\* goes on to its tests has compiled the file it wrote: kBinaryFile is the complete
\* byte code of its own kCodeFile, and the hash is that of kBinaryFile
\* (py_tester_sandboxer.cc lines 96-136, temp_path.h lines 33-43).
ByteCodeIsOwn ==
  \A c \in Calls :
    result[c] = "kSuccess" =>
      /\ hash[c] \in {<<c, "whole">>, <<c, "cut">>}
      /\ hash[c] = binary[path[c]] /\ hash[c] = code[path[c]]

\* A compilation that was given up had a fault of its own in every attempt, or an
\* interpreter that was ended before left a file in __pycache__, the only way in
\* which one attempt spoils those after it (py_tester_sandboxer.cc lines 98-114,
\* tester_sandboxer.cc lines 78-93).
GivenUpForAReason ==
  \A c \in Calls :
    pc[c] = "done" /\ result[c] = "Error" =>
      faults[c] = kMaxTestAttempts \/ (python[c] = 3 /\ temps[path[c]] > 0)

\* The attempts of a call follow RetryContract, which TesterSandboxer implements as
\* well, without the files: an error of any step of CompileCode is tried again, up to
\* kMaxTestAttempts times, and what was found in the end stays (tester_sandboxer.cc
\* lines 78-93 and 361-364, py_tester_sandboxer.cc lines 68-140).
RefinesRetries == Retries!Spec
=============================================================================
