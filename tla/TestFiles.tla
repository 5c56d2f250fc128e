------------------------------ MODULE TestFiles ------------------------------
(***************************************************************************)
(* The tests of the calls of Compilation, and the files their programs may *)
(* use: CreateTestSandbox and CreatePolicy (execution/                     *)
(* py_tester_sandboxer.cc) and CreateBasePolicy (execution/                *)
(* tester_sandboxer.cc).  The tests of a call run side by side, and beside *)
(* the tests and compilations of other calls, on directories that nothing  *)
(* cleans up.                                                              *)
(*                                                                         *)
(* A policy is what it lets a program do: the access it has to each path   *)
(* and the system calls that matter here.  The sandbox library, which      *)
(* enforces it, is external: a file that is mapped itself has the access   *)
(* it was mapped with, whatever is mapped around it.  The programs are     *)
(* external too: they read and write wherever they may.                    *)
(***************************************************************************)
EXTENDS Compilation

CONSTANT Tests     (* the tests of a call                                  *)

VARIABLES
  loaded,   (* the byte code that the interpreter of each test runs        *)
  data,     (* the calls whose tests wrote other files in each directory   *)
  seen      (* the calls whose files the tests of each call have read      *)

testVars == <<loaded, data, seen>>
allVars == <<vars, testVars>>

kCodeFile == "code.py"
kBinaryFile == "code.pyc"

\* The files of a directory, those in __pycache__ and of the tests being other,
\* and the paths that do not depend on the call.
System == {<<"/dev", "urandom">>, <<"/dev", "fd/1022">>, <<"/proc", "version">>,
           <<"/usr/lib", "python">>}
Paths == (Names \X {kCodeFile, kBinaryFile, "other"}) \cup System

-----------------------------------------------------------------------------
(* Policies.                                                               *)

NoMappings == [ro_files |-> {}, rw_files |-> {}, ro_dirs |-> {}, rw_dirs |-> {}]

\* What every program may call, by what it is for: files and processes, waiting,
\* memory and threads.
BaseSyscalls ==
  {"open", "read", "write", "close", "stat", "readlink", "readdir", "unlink", "dup",
   "getcwd", "ioctl", "exit", "getpid", "signals", "time", "prlimit64", "prctl"}
  \cup {"poll", "epoll", "eventfd", "sockets", "futex", "nanosleep", "sched_yield"}
  \cup {"mmap", "mprotect", "madvise", "munlock", "clone"}

\* Those it may call with some arguments only.
Restricted == {"prlimit64", "prctl", "mprotect", "madvise", "clone"}

\* Files are mapped by name, directories with all there is in them.
CreateBasePolicy(mappings) ==
  [access |-> [p \in Paths |->
                 IF p \in mappings.ro_files \cup {<<"/proc", "version">>} THEN "ro"
                 ELSE IF p \in mappings.rw_files \/ p[1] \in mappings.rw_dirs THEN "rw"
                 ELSE IF p[1] \in mappings.ro_dirs THEN "ro"
                 ELSE "none"],
   syscalls |-> BaseSyscalls \ Restricted]

\* Python also needs its libraries, itself and /dev/urandom, and makes and renames files.
CreatePolicy(mappings) ==
  LET base == CreateBasePolicy(mappings) IN
  [access |-> [base.access EXCEPT ![<<"/dev", "urandom">>] = "rw",
                                  ![<<"/dev", "fd/1022">>] = "ro",
                                  ![<<"/usr/lib", "python">>] = "ro"],
   syscalls |-> base.syscalls \cup {"mprotect", "mremap", "select", "mkdir", "rename"}]

MayRead(policy, p) ==
  {"open", "read"} \subseteq policy.syscalls /\ policy.access[p] # "none"
MayWrite(policy, p) ==
  {"open", "write"} \subseteq policy.syscalls /\ policy.access[p] = "rw"

\* As TestPolicy, without the files.
TestPolicyOfDirectory(c) == CreatePolicy([NoMappings EXCEPT !.rw_dirs = {path[c]}])

\* As TestPolicy, with the directory around temp_path.
TestPolicyOfParent(c) ==
  CreatePolicy([NoMappings EXCEPT
                  !.ro_files = {<<path[c], kCodeFile>>, <<path[c], kBinaryFile>>},
                  !.rw_dirs = Names])

\* CreateTestSandbox
TestPolicy(c) ==
  CreatePolicy([NoMappings EXCEPT
                  !.ro_files = {<<path[c], kCodeFile>>, <<path[c], kBinaryFile>>},
                  !.rw_dirs = {path[c]}])

-----------------------------------------------------------------------------
(* The tests.                                                              *)

TestInit ==
  /\ Init
  /\ loaded = [c \in Calls |-> [t \in Tests |-> Missing]]
  /\ data = [n \in Names |-> {}]
  /\ seen = [c \in Calls |-> {}]

\* As StartTest, as soon as there is a byte code file.
StartTestEarly(c, t) ==
  /\ pc[c] \in {"read", "search", "done"}
  /\ loaded[c][t] = Missing
  /\ MayRead(TestPolicy(c), <<path[c], kBinaryFile>>)
  /\ loaded' = [loaded EXCEPT ![c][t] = binary[path[c]]]
  /\ UNCHANGED <<vars, data, seen>>

\* The interpreter starts on kBinaryFile.
StartTest(c, t) ==
  /\ pc[c] = "done" /\ result[c] = "kSuccess"
  /\ loaded[c][t] = Missing
  /\ MayRead(TestPolicy(c), <<path[c], kBinaryFile>>)
  /\ loaded' = [loaded EXCEPT ![c][t] = binary[path[c]]]
  /\ UNCHANGED <<vars, data, seen>>

Running(c) == \E t \in Tests : loaded[c][t] # Missing

\* What a test writes to kCodeFile or kBinaryFile is not the code of a call.
WriteFile(c) ==
  /\ Running(c)
  /\ \E n \in Names, f \in {kCodeFile, kBinaryFile, "other"} :
       /\ MayWrite(TestPolicy(c), <<n, f>>)
       /\ code' = IF f = kCodeFile THEN [code EXCEPT ![n] = Partial] ELSE code
       /\ binary' = IF f = kBinaryFile THEN [binary EXCEPT ![n] = Partial] ELSE binary
       /\ data' = IF f = "other" THEN [data EXCEPT ![n] = @ \cup {c}] ELSE data
  /\ UNCHANGED <<aborted, paths, pycache, temps, python, path, callVars, loaded, seen>>

ReadFile(c) ==
  /\ Running(c)
  /\ \E n \in Names :
       /\ MayRead(TestPolicy(c), <<n, "other">>)
       /\ seen' = [seen EXCEPT ![c] = @ \cup data[n]]
  /\ UNCHANGED <<vars, loaded, data>>

TestNext ==
  \/ Next /\ UNCHANGED testVars
  \/ /\ ~aborted
     /\ \E c \in Calls : WriteFile(c) \/ ReadFile(c) \/ \E t \in Tests : StartTest(c, t)

TestSpec == TestInit /\ [][TestNext]_allVars

-----------------------------------------------------------------------------
(* Properties.                                                             *)

\* The type invariant of the tests' files.
TestFilesTypeOK ==
  /\ loaded \in [Calls -> [Tests -> Texts \cup {Missing}]]
  /\ data \in [Names -> SUBSET Calls]
  /\ seen \in [Calls -> SUBSET Calls]

\* All tests of a call run the program that was compiled and hashed, however they
\* are interleaved with programs of the same call, which have read-write access to
\* the directory, and with other calls (py_tester_sandboxer.cc lines 147-153).
TestsRunWhatWasCompiled ==
  \A c \in Calls, t \in Tests : loaded[c][t] # Missing =>
    result[c] = "kSuccess" /\ loaded[c][t] = hash[c] /\ loaded[c][t] = code[path[c]]

\* "There's no persistence between calls to `Test`" (tester_sandboxer_test.cc line
\* 478): a test reads no file that a test of another call has written, although
\* nothing is ever removed.
NothingPersistsBetweenCalls == \A c \in Calls : seen[c] \subseteq {c}
=============================================================================
