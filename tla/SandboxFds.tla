----------------------------- MODULE SandboxFds -----------------------------
(***************************************************************************)
(* The file descriptors that SandboxWithOutputFds owns                     *)
(* (execution/tester_sandboxer.h and .cc): CreateSandboxWithFds receives   *)
(* the parent's ends of stdout and stderr from the sandbox library and     *)
(* hands them to an object that is moved, read from and destroyed.         *)
(* Descriptors are a resource of the process: every thread takes its own   *)
(* from one table, and a number that was closed is soon another file.      *)
(*                                                                         *)
(* Sandboxes are numbered as they are made.  An open descriptor is known   *)
(* by the file behind it, <<k, "stdout">> for the stdout of sandbox k.     *)
(* Descriptors that never leave the sandbox library are left out, and one  *)
(* that an executor owns is taken to be open until its sandbox is gone. An *)
(* object is used by one thread, except that Stdout and Stderr of it may   *)
(* run at once; they share no member, so every operation is one action.    *)
(***************************************************************************)
EXTENDS Integers, FiniteSets

CONSTANTS
  Fds,           (* the descriptors the process may have                   *)
  Slots,         (* the places where objects live                          *)
  MaxSandboxes   (* bound on the sandboxes made                            *)

ASSUME FdsAssumption == Fds \subseteq Nat
ASSUME MaxSandboxesAssumption == MaxSandboxes \in Nat

kInvalidFd == -1
Ends == {"stdout", "stderr"}
Sandboxes == 1..MaxSandboxes

Free == <<0, "free">>         \* no file is behind the descriptor
Unset == <<0, "nullopt">>     \* nothing is cached
Failed == <<0, "unknown">>    \* the error of a read that failed
NotSet == <<0, "not set">>    \* the error of a read without a descriptor

VARIABLES
  table,    (* the file behind each descriptor of the process              *)
  stdin,    (* the descriptors that the executor of each sandbox owns      *)
  made,     (* the sandboxes made so far                                   *)
  object,   (* the object in each slot: its sandbox, descriptors, caches   *)
  answers,  (* history: what the reads of each sandbox's files returned    *)
  regular   (* history: no CreatePolicy has failed, no object was assigned *)

vars == <<table, stdin, made, object, answers, regular>>

\* A slot where no object lives; a default-constructed one looks the same.
NoObject == [sandbox |-> 0,
             fd      |-> [e \in Ends |-> kInvalidFd],
             cache   |-> [e \in Ends |-> Unset]]

Init ==
  /\ table = [f \in Fds |-> Free]
  /\ stdin = [k \in Sandboxes |-> {}]
  /\ made = 0
  /\ object = [s \in Slots |-> NoObject]
  /\ answers = [k \in Sandboxes |-> [e \in Ends |-> {}]]
  /\ regular = TRUE

FreeFds == {f \in Fds : table[f] = Free}
OwnFds(o) == {o.fd[e] : e \in Ends} \ {kInvalidFd}
StdinFds(o) == IF o.sandbox = 0 THEN {} ELSE stdin[o.sandbox]

Close(F) == table' = [f \in Fds |-> IF f \in F THEN Free ELSE table[f]]

\* The files of sandbox k are opened, on the descriptors in and those of fd.
Open(k, in, fd) ==
  table' = [f \in Fds |->
              IF f \in in THEN <<k, "stdin">>
              ELSE IF \E e \in Ends : f = fd[e]
                     THEN <<k, CHOOSE e \in Ends : f = fd[e]>>
                     ELSE table[f]]

\* Two descriptors for the outputs, both free and neither one in taken.
OutputFds(taken) ==
  {fd \in [Ends -> FreeFds \ taken] : fd["stdout"] # fd["stderr"]}

-----------------------------------------------------------------------------
(* CreateSandboxWithFds, for sandbox k and an object in slot s.            *)

\* As Build, without the dup: what the executor owns was closed by the Buffer.
BuildUnduped(s, k) ==
  \E in \in {{}} \cup {{f} : f \in FreeFds} : \E fd \in OutputFds(in) :
    /\ Open(k, {}, fd)
    /\ stdin' = [stdin EXCEPT ![k] = in]
    /\ object' = [object EXCEPT ![s] = [NoObject EXCEPT !.sandbox = k, !.fd = fd]]
    /\ UNCHANGED regular

\* With input, stdin is a Buffer, and the executor owns a dup of its
\* descriptor: the Buffer closes its own when it goes out of scope.
Build(s, k) ==
  \E in \in {{}} \cup {{f} : f \in FreeFds} : \E fd \in OutputFds(in) :
    /\ Open(k, in, fd)
    /\ stdin' = [stdin EXCEPT ![k] = in]
    /\ object' = [object EXCEPT ![s] = [NoObject EXCEPT !.sandbox = k, !.fd = fd]]
    /\ UNCHANGED regular

\* The command is empty or the Buffer cannot be made: nothing was received yet.
EarlyError == UNCHANGED <<table, stdin, object, regular>>

\* CreatePolicy returns an error when the outputs were received.  The executor
\* takes its descriptors with it; nobody closes those of the outputs.
PolicyError(k) ==
  /\ \E fd \in OutputFds({}) : Open(k, {}, fd)
  /\ regular' = FALSE
  /\ UNCHANGED <<stdin, object>>

CreateSandboxWithFds(s) ==
  /\ object[s] = NoObject
  /\ made < MaxSandboxes
  /\ made' = made + 1
  /\ Build(s, made + 1) \/ EarlyError \/ PolicyError(made + 1)
  /\ UNCHANGED answers

\* An object made around one output only.
Construct(s, e) ==
  /\ object[s] = NoObject
  /\ made < MaxSandboxes
  /\ made' = made + 1
  /\ \E f \in FreeFds :
       LET fd == [NoObject.fd EXCEPT ![e] = f] IN
       /\ Open(made + 1, {}, fd)
       /\ object' = [object EXCEPT ![s] = [NoObject EXCEPT !.sandbox = made + 1, !.fd = fd]]
  /\ UNCHANGED <<stdin, answers, regular>>

-----------------------------------------------------------------------------
(* Stdout and Stderr.  No one reads an object that was moved from.         *)

\* The read of end e by the owner of o returns a.
Answer(o, e, a) == answers' = [answers EXCEPT ![o.sandbox][e] = @ \cup {a}]

ReadCached(s, e) ==
  LET o == object[s] IN
  /\ o.sandbox # 0
  /\ o.cache[e] # Unset
  /\ Answer(o, e, o.cache[e])
  /\ UNCHANGED <<table, stdin, made, object, regular>>

\* As ReadNotSet, when the error is cached like that of a read.
ReadNotSetCached(s, e) ==
  LET o == object[s] IN
  /\ o.sandbox # 0
  /\ o.cache[e] = Unset
  /\ o.fd[e] = kInvalidFd
  /\ Answer(o, e, NotSet)
  /\ object' = [object EXCEPT ![s].cache[e] = NotSet]
  /\ UNCHANGED <<table, stdin, made, regular>>

\* An error that is not cached.
ReadNotSet(s, e) ==
  LET o == object[s] IN
  /\ o.sandbox # 0
  /\ o.cache[e] = Unset
  /\ o.fd[e] = kInvalidFd
  /\ Answer(o, e, NotSet)
  /\ UNCHANGED <<table, stdin, made, object, regular>>

\* As ReadAndClose, without the close.
ReadUnclosed(s, e) ==
  LET o == object[s] IN
  /\ o.sandbox # 0
  /\ o.cache[e] = Unset
  /\ o.fd[e] # kInvalidFd
  /\ \E a \in {table[o.fd[e]], Failed} :
       /\ Answer(o, e, a)
       /\ object' = [object EXCEPT ![s].cache[e] = a, ![s].fd[e] = kInvalidFd]
  /\ UNCHANGED <<table, stdin, made, regular>>

\* The contents of the file, or the error of reading it, go to the cache.
ReadAndClose(s, e) ==
  LET o == object[s] IN
  /\ o.sandbox # 0
  /\ o.cache[e] = Unset
  /\ o.fd[e] # kInvalidFd
  /\ \E a \in {table[o.fd[e]], Failed} :
       /\ Answer(o, e, a)
       /\ object' = [object EXCEPT ![s].cache[e] = a, ![s].fd[e] = kInvalidFd]
  /\ Close({o.fd[e]})
  /\ UNCHANGED <<stdin, made, regular>>

UseCacheOrReadAndClose(s, e) == ReadCached(s, e) \/ ReadNotSet(s, e) \/ ReadAndClose(s, e)

-----------------------------------------------------------------------------
(* Moves and the end of an object.                                         *)

\* What is left of an object that was moved from: a cache that was set stays
\* set.
MovedFrom(o) == [NoObject EXCEPT !.cache = o.cache]

\* As MoveConstruct, without the caches.
MoveConstructUncached(from, to) ==
  /\ object[from].sandbox # 0
  /\ object[to] = NoObject
  /\ object' = [object EXCEPT ![to] = [object[from] EXCEPT !.cache = NoObject.cache],
                              ![from] = MovedFrom(object[from])]
  /\ UNCHANGED <<table, stdin, made, answers, regular>>

MoveConstruct(from, to) ==
  /\ object[from].sandbox # 0
  /\ object[to] = NoObject
  /\ object' = [object EXCEPT ![to] = object[from], ![from] = MovedFrom(object[from])]
  /\ UNCHANGED <<table, stdin, made, answers, regular>>

\* The sandbox that was in to is destroyed, with its executor; the descriptors
\* that were in to are overwritten.
MoveAssign(from, to) ==
  /\ from # to
  /\ object[from].sandbox # 0
  /\ object[to] # NoObject
  /\ object' = [object EXCEPT ![to] = object[from], ![from] = MovedFrom(object[from])]
  /\ Close(StdinFds(object[to]))
  /\ regular' = FALSE
  /\ UNCHANGED <<stdin, made, answers>>

Destroy(s) ==
  /\ object[s] # NoObject
  /\ object' = [object EXCEPT ![s] = NoObject]
  /\ Close(OwnFds(object[s]) \cup StdinFds(object[s]))
  /\ UNCHANGED <<stdin, made, answers, regular>>

Next ==
  \/ \E s \in Slots :
       \/ CreateSandboxWithFds(s)
       \/ \E e \in Ends : Construct(s, e) \/ UseCacheOrReadAndClose(s, e)
       \/ Destroy(s)
  \/ \E from, to \in Slots : MoveConstruct(from, to) \/ MoveAssign(from, to)

Spec == Init /\ [][Next]_vars

-----------------------------------------------------------------------------
(* Properties.                                                             *)

Files == {<<k, e>> : k \in Sandboxes, e \in Ends}

Objects == [sandbox : 0..MaxSandboxes,
            fd      : [Ends -> Fds \cup {kInvalidFd}],
            cache   : [Ends -> Files \cup {Unset, Failed}]]

\* The type invariant of the descriptors.
FdsTypeOK ==
  /\ table \in [Fds -> Files \cup {<<k, "stdin">> : k \in Sandboxes} \cup {Free}]
  /\ stdin \in [Sandboxes -> SUBSET Fds]
  /\ made \in 0..MaxSandboxes
  /\ object \in [Slots -> Objects]
  /\ answers \in [Sandboxes -> [Ends -> SUBSET (Files \cup {Failed, NotSet})]]
  /\ regular \in BOOLEAN

\* What an object holds is open and is the file of its own sandbox, and no
\* sandbox is in two objects: no descriptor is closed twice or read for another
\* sandbox, however objects are moved and descriptors reused (the resets and
\* the dup of tester_sandboxer.cc lines 132, 220-229 and 310-313).
OwnDescriptors ==
  /\ \A s \in Slots :
       /\ \A e \in Ends : object[s].fd[e] # kInvalidFd =>
            object[s].sandbox # 0 /\ table[object[s].fd[e]] = <<object[s].sandbox, e>>
       /\ \A f \in StdinFds(object[s]) : table[f] = <<object[s].sandbox, "stdin">>
  /\ \A s, t \in Slots : object[s].sandbox = object[t].sandbox => s = t \/ object[s].sandbox = 0

Held == UNION {OwnFds(object[s]) \cup StdinFds(object[s]) : s \in Slots}

\* As long as every policy could be built and no object was assigned, every open
\* descriptor is held by a live object: whatever order objects are created,
\* moved, read and destroyed in, none is forgotten (tester_sandboxer.cc lines
\* 121-133, 213-230 and 304-328).
NoLeak == regular => {f \in Fds : table[f] # Free} \subseteq Held

\* The outputs can be read many times: every read of the same output returns the
\* same answer, its own contents or the one error, across moves and although the
\* descriptor was closed by the first read (tester_sandboxer.h lines 100-103).
SameAnswer ==
  \A k \in Sandboxes, e \in Ends :
    \/ answers[k][e] = {}
    \/ \E a \in {<<k, e>>, Failed, NotSet} : answers[k][e] = {a}

\* A call of CreateSandboxWithFds that returns an error leaves the descriptors
\* of the process as they were, so that the retry that follows finds no fewer
\* than the attempt before it: "Retrying seems to be enough" where descriptors
\* are scarce (tester_sandboxer.cc lines 330-334 and 88-90).
FailedAttemptsLeaveNothing ==
  [][made' # made /\ object' = object => table' = table]_vars
=============================================================================
