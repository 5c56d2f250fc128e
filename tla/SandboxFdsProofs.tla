--------------------------- MODULE SandboxFdsProofs ---------------------------
(***************************************************************************)
(* Proofs about SandboxFds, for every number of descriptors, of places for *)
(* objects and of sandboxes.  FdsIInv is inductive: the files behind the   *)
(* descriptors tell whose they are, and the answers of the past agree with *)
(* what the live objects have cached.                                      *)
(***************************************************************************)
EXTENDS SandboxFds, TLAPS

USE FdsAssumption, MaxSandboxesAssumption DEF kInvalidFd, Ends, Sandboxes

\* Sandboxes that were not made yet are in no object and have left no trace.
MadeSoFar ==
  /\ \A s \in Slots : object[s].sandbox <= made
  /\ \A k \in Sandboxes : k > made =>
       stdin[k] = {} /\ \A e \in Ends : answers[k][e] = {}

\* What a live object says of the reads of its outputs so far.
ReadsRecorded ==
  \A s \in Slots, e \in Ends :
    LET o == object[s]
        past == answers[o.sandbox][e]
    IN o.sandbox # 0 =>
         /\ o.cache[e] # Unset => past = {o.cache[e]} /\ o.cache[e] \in {<<o.sandbox, e>>, Failed}
         /\ o.cache[e] = Unset => past \subseteq {NotSet}
         /\ o.cache[e] = Unset /\ o.fd[e] # kInvalidFd => past = {}

FdsIInv == FdsTypeOK /\ OwnDescriptors /\ NoLeak /\ SameAnswer /\ MadeSoFar /\ ReadsRecorded

-----------------------------------------------------------------------------
(* Lemmas about the operators.                                             *)

\* Where no object lives nothing is held and nothing is cached.
LEMMA NoObjectFields ==
  /\ NoObject \in Objects
  /\ NoObject.sandbox = 0
  /\ \A e \in Ends : NoObject.fd[e] = -1 /\ NoObject.cache[e] = Unset
  /\ NoObject.fd \in [Ends -> Fds \cup {-1}]
BY DEF NoObject, Objects

\* An object stays one when its sandbox and descriptors are replaced.
LEMMA ObjectWith ==
  ASSUME NEW o \in Objects, NEW k \in 0..MaxSandboxes, NEW fd \in [Ends -> Fds \cup {-1}]
  PROVE  [o EXCEPT !.sandbox = k, !.fd = fd] \in Objects
BY DEF Objects

\* The marks for what is not a file are no files, and differ from each other.
LEMMA MarksDiffer ==
  /\ \A k \in Sandboxes : \A e \in Ends : <<k, e>> \notin {Free, Unset, Failed, NotSet}
  /\ \A k \in Sandboxes : <<k, "stdin">> \notin {Free, Unset, Failed, NotSet}
  /\ Unset # Failed /\ Unset # NotSet /\ Failed # NotSet
  /\ Unset \notin Files /\ Failed \notin Files /\ Free \notin Files
BY DEF Free, Unset, Failed, NotSet, Files

\* What Open does to the table, when the descriptors were free and are different.
LEMMA OpenFacts ==
  ASSUME FdsTypeOK, NEW k \in Sandboxes, NEW in \in SUBSET FreeFds,
         NEW fd \in [Ends -> FreeFds \cup {-1}],
         \A e \in Ends : fd[e] \notin in,
         fd["stdout"] = fd["stderr"] => fd["stdout"] = -1,
         Open(k, in, fd)
  PROVE  /\ table' \in [Fds -> Files \cup {<<j, "stdin">> : j \in Sandboxes} \cup {Free}]
         /\ \A f \in in : table'[f] = <<k, "stdin">>
         /\ \A e \in Ends : fd[e] # -1 => table'[fd[e]] = <<k, e>>
         /\ \A f \in Fds : table[f] # Free => table'[f] = table[f]
         /\ \A f \in Fds : table'[f] # Free =>
              table[f] # Free \/ f \in in \/ \E e \in Ends : f = fd[e]
<1>1. \A f \in Fds : table'[f] =
        IF f \in in THEN <<k, "stdin">>
        ELSE IF f = fd["stdout"] THEN <<k, "stdout">>
        ELSE IF f = fd["stderr"] THEN <<k, "stderr">>
        ELSE table[f]
  <2> TAKE f \in Fds
  <2>1. table'[f] = IF f \in in THEN <<k, "stdin">>
                    ELSE IF \E e \in Ends : f = fd[e]
                           THEN <<k, CHOOSE e \in Ends : f = fd[e]>>
                           ELSE table[f]
    BY DEF Open
  <2>2. f # -1
    OBVIOUS
  <2>3. CASE \E e \in Ends : f = fd[e]
    <3> DEFINE c == CHOOSE e \in Ends : f = fd[e]
    <3>1. c \in Ends /\ f = fd[c]
      BY <2>3
    <3> HIDE DEF c
    <3>2. f = fd["stdout"] => c = "stdout"
      BY <3>1, <2>2
    <3>3. f = fd["stderr"] => c = "stderr"
      BY <3>1, <2>2
    <3>4. table'[f] = IF f \in in THEN <<k, "stdin">> ELSE <<k, c>>
      BY <2>1, <2>3 DEF c
    <3> QED
      BY <3>1, <3>2, <3>3, <3>4
  <2>4. CASE ~\E e \in Ends : f = fd[e]
    BY <2>1, <2>4
  <2> QED
    BY <2>3, <2>4
<1>2. DOMAIN table' = Fds /\ table' = [f \in Fds |-> table'[f]]
  BY DEF Open
<1>3. \A f \in FreeFds : f \in Fds /\ table[f] = Free
  BY DEF FreeFds
<1>4. table' \in [Fds -> Files \cup {<<j, "stdin">> : j \in Sandboxes} \cup {Free}]
  BY <1>1, <1>2 DEF FdsTypeOK, Files
<1>5. \A f \in in : table'[f] = <<k, "stdin">>
  BY <1>1, <1>3
<1>6. \A e \in Ends : fd[e] # -1 => table'[fd[e]] = <<k, e>>
  BY <1>1, <1>3
<1>7. \A f \in Fds : table[f] # Free => table'[f] = table[f]
  <2> SUFFICES ASSUME NEW f \in Fds, table[f] # Free PROVE table'[f] = table[f]
    OBVIOUS
  <2>1. f \notin in /\ f # fd["stdout"] /\ f # fd["stderr"]
    BY <1>3
  <2> QED
    BY <1>1, <2>1
<1>8. \A f \in Fds : table'[f] # Free =>
        table[f] # Free \/ f \in in \/ \E e \in Ends : f = fd[e]
  BY <1>1
<1> QED
  BY <1>4, <1>5, <1>6, <1>7, <1>8

\* What an object holds is in use, for its own sandbox.
LEMMA HeldIsOwn ==
  ASSUME FdsTypeOK, OwnDescriptors, NEW s \in Slots,
         NEW f \in OwnFds(object[s]) \cup StdinFds(object[s])
  PROVE  /\ f \in Fds /\ table[f] # Free
         /\ object[s].sandbox \in Sandboxes /\ table[f][1] = object[s].sandbox
<1>1. /\ object[s].sandbox \in 0..MaxSandboxes
      /\ object[s].fd \in [Ends -> Fds \cup {-1}]
  BY DEF FdsTypeOK, Objects
<1>2. CASE f \in OwnFds(object[s])
  <2>1. PICK e \in Ends : f = object[s].fd[e] /\ f # -1
    BY <1>2 DEF OwnFds
  <2>2. object[s].sandbox # 0 /\ table[f] = <<object[s].sandbox, e>>
    BY <2>1 DEF OwnDescriptors
  <2> QED
    BY <1>1, <2>1, <2>2, MarksDiffer
<1>3. CASE f \in StdinFds(object[s])
  <2>1. object[s].sandbox # 0 /\ f \in stdin[object[s].sandbox]
    BY <1>3 DEF StdinFds
  <2>2. table[f] = <<object[s].sandbox, "stdin">>
    BY <1>3 DEF OwnDescriptors
  <2> QED
    BY <1>1, <2>1, <2>2, MarksDiffer DEF FdsTypeOK
<1> QED
  BY <1>2, <1>3

\* No two objects hold the same descriptor.
LEMMA HeldByOne ==
  ASSUME FdsTypeOK, OwnDescriptors, NEW s \in Slots, NEW t \in Slots, s # t,
         NEW f \in OwnFds(object[s]) \cup StdinFds(object[s])
  PROVE  f \notin OwnFds(object[t]) \cup StdinFds(object[t])
<1> SUFFICES ASSUME f \in OwnFds(object[t]) \cup StdinFds(object[t]) PROVE FALSE
  OBVIOUS
<1>1. table[f][1] = object[s].sandbox /\ object[s].sandbox \in Sandboxes
  BY HeldIsOwn
<1>2. table[f][1] = object[t].sandbox
  BY HeldIsOwn
<1>3. object[s].sandbox = object[t].sandbox /\ object[s].sandbox # 0
  BY <1>1, <1>2
<1> QED
  BY <1>3 DEF OwnDescriptors

-----------------------------------------------------------------------------
(* The invariant holds initially, and every step preserves it.             *)

LEMMA FdsInit == Init => FdsIInv
<1> SUFFICES ASSUME Init PROVE FdsIInv
  OBVIOUS
<1> USE NoObjectFields, MarksDiffer DEF Init
<1>1. FdsTypeOK
  BY DEF FdsTypeOK
<1>2. OwnDescriptors
  BY DEF OwnDescriptors, StdinFds
<1>3. NoLeak
  BY DEF NoLeak
<1>4. SameAnswer
  BY DEF SameAnswer
<1>5. MadeSoFar
  BY DEF MadeSoFar
<1>6. ReadsRecorded
  BY DEF ReadsRecorded
<1> QED
  BY <1>1, <1>2, <1>3, <1>4, <1>5, <1>6 DEF FdsIInv

LEMMA FdsStutter == FdsIInv /\ UNCHANGED vars => FdsIInv'
<1> SUFFICES ASSUME FdsIInv, UNCHANGED vars PROVE FdsIInv'
  OBVIOUS
<1>1. UNCHANGED <<table, stdin, made, object, answers, regular>>
  BY DEF vars
<1>2. FdsTypeOK' /\ MadeSoFar' /\ SameAnswer'
  BY <1>1 DEF FdsIInv, FdsTypeOK, MadeSoFar, SameAnswer
<1>3. OwnDescriptors'
  BY <1>1 DEF FdsIInv, OwnDescriptors, StdinFds
<1>4. NoLeak'
  BY <1>1 DEF FdsIInv, NoLeak, Held, OwnFds, StdinFds
<1>5. ReadsRecorded'
  BY <1>1 DEF FdsIInv, ReadsRecorded
<1> QED
  BY <1>2, <1>3, <1>4, <1>5 DEF FdsIInv

\* A sandbox is made, its files are opened on free descriptors, and it is in the
\* one object that was made with it.
LEMMA ObjectMade ==
  ASSUME FdsIInv, NEW s \in Slots, object[s] = NoObject, made < MaxSandboxes,
         NEW in \in SUBSET FreeFds, NEW fd \in [Ends -> FreeFds \cup {-1}],
         \A e \in Ends : fd[e] \notin in,
         fd["stdout"] = fd["stderr"] => fd["stdout"] = -1,
         Open(made + 1, in, fd),
         stdin' = [stdin EXCEPT ![made + 1] = in],
         object' = [object EXCEPT ![s] = [NoObject EXCEPT !.sandbox = made + 1, !.fd = fd]],
         made' = made + 1,
         UNCHANGED <<answers, regular>>
  PROVE  FdsIInv'
<1> DEFINE k == made + 1
           new == [NoObject EXCEPT !.sandbox = k, !.fd = fd]
<1>1. FdsTypeOK /\ OwnDescriptors /\ NoLeak /\ SameAnswer /\ MadeSoFar /\ ReadsRecorded
  BY DEF FdsIInv
<1>2. k \in Sandboxes /\ k # 0 /\ made \in 0..MaxSandboxes
  BY <1>1 DEF FdsTypeOK
<1>3. /\ table' \in [Fds -> Files \cup {<<j, "stdin">> : j \in Sandboxes} \cup {Free}]
      /\ \A f \in in : table'[f] = <<k, "stdin">>
      /\ \A e \in Ends : fd[e] # -1 => table'[fd[e]] = <<k, e>>
      /\ \A f \in Fds : table[f] # Free => table'[f] = table[f]
      /\ \A f \in Fds : table'[f] # Free =>
           table[f] # Free \/ f \in in \/ \E e \in Ends : f = fd[e]
  BY Zenon, <1>1, <1>2, OpenFacts
<1>4. FreeFds \subseteq Fds /\ fd \in [Ends -> Fds \cup {-1}]
  BY DEF FreeFds
<1>5. /\ new \in Objects /\ new.sandbox = k /\ new.fd = fd
      /\ \A e \in Ends : new.cache[e] = Unset
  <2>1. new.sandbox = k /\ new.fd = fd /\ \A e \in Ends : new.cache[e] = Unset
    BY DEF NoObject
  <2>2. new \in Objects
    <3>1. k \in 0..MaxSandboxes
      BY <1>2
    <3> HIDE DEF k
    <3> QED
      BY <3>1, <1>4, NoObjectFields, ObjectWith DEF new
  <2> QED
    BY <2>1, <2>2
<1> HIDE DEF new
<1>6. object'[s] = new /\ \A t \in Slots \ {s} : object'[t] = object[t]
  BY <1>1 DEF FdsTypeOK, new
<1>7. stdin'[k] = in /\ \A j \in Sandboxes \ {k} : stdin'[j] = stdin[j]
  BY <1>1, <1>2 DEF FdsTypeOK
<1>8. \A t \in Slots : object[t].sandbox \in 0..made /\ object[t].sandbox # k
  BY <1>1, <1>2 DEF MadeSoFar, FdsTypeOK, Objects
<1>9. \A t \in Slots \ {s} :
        OwnFds(object[t])' = OwnFds(object[t]) /\ StdinFds(object[t])' = StdinFds(object[t])
  BY <1>1, <1>2, <1>6, <1>7, <1>8 DEF OwnFds, StdinFds, FdsTypeOK
<1>10. OwnFds(object[s])' = {fd[e] : e \in Ends} \ {-1} /\ StdinFds(object[s])' = in
  BY <1>2, <1>5, <1>6, <1>7 DEF OwnFds, StdinFds
<1>11. FdsTypeOK'
  <2>1. object' \in [Slots -> Objects]
    BY <1>1, <1>5 DEF FdsTypeOK, new
  <2>2. stdin' \in [Sandboxes -> SUBSET Fds]
    BY <1>1, <1>4 DEF FdsTypeOK
  <2>3. made' \in 0..MaxSandboxes
    BY <1>2
  <2> QED
    BY <1>1, <1>3, <2>1, <2>2, <2>3 DEF FdsTypeOK
<1>12. OwnDescriptors'
  <2>1. ASSUME NEW t \in Slots, NEW e \in Ends, object'[t].fd[e] # -1
        PROVE  object'[t].sandbox # 0 /\ table'[object'[t].fd[e]] = <<object'[t].sandbox, e>>
    <3>1. CASE t = s
      <4>1. object'[t].sandbox = k /\ object'[t].fd[e] = fd[e]
        BY <3>1, <1>5, <1>6
      <4>2. table'[fd[e]] = <<k, e>>
        BY <4>1, <2>1, <1>3
      <4> QED
        BY <4>1, <4>2, <1>2
    <3>2. CASE t # s
      <4>1. object[t].fd[e] \in OwnFds(object[t])
        BY <3>2, <2>1, <1>6 DEF OwnFds
      <4>2. object[t].fd[e] \in Fds /\ table[object[t].fd[e]] # Free
        BY <4>1, <1>1, HeldIsOwn
      <4>3. object'[t] = object[t]
        BY <3>2, <1>6
      <4>4. object[t].sandbox # 0 /\ table[object[t].fd[e]] = <<object[t].sandbox, e>>
        BY <4>3, <2>1, <1>1 DEF OwnDescriptors
      <4>5. table'[object[t].fd[e]] = table[object[t].fd[e]]
        BY <4>2, <1>3
      <4> QED
        BY <4>3, <4>4, <4>5
    <3> QED
      BY <3>1, <3>2
  <2>2. ASSUME NEW t \in Slots, NEW f \in StdinFds(object[t])'
        PROVE  table'[f] = <<object'[t].sandbox, "stdin">>
    <3>1. CASE t = s
      BY <3>1, <2>2, <1>3, <1>5, <1>6, <1>10
    <3>2. CASE t # s
      <4>1. f \in StdinFds(object[t])
        BY <3>2, <2>2, <1>9
      <4>2. f \in Fds /\ table[f] # Free
        BY <4>1, <1>1, HeldIsOwn
      <4> QED
        BY <3>2, <4>1, <4>2, <1>1, <1>3, <1>6 DEF OwnDescriptors
    <3> QED
      BY <3>1, <3>2
  <2>3. ASSUME NEW t \in Slots, NEW u \in Slots, object'[t].sandbox = object'[u].sandbox
        PROVE  t = u \/ object'[t].sandbox = 0
    BY <2>3, <1>1, <1>5, <1>6, <1>8 DEF OwnDescriptors
  <2> QED
    BY <2>1, <2>2, <2>3 DEF OwnDescriptors
<1>13. NoLeak'
  <2> SUFFICES ASSUME regular', NEW f \in Fds, table'[f] # Free PROVE f \in Held'
    BY DEF NoLeak
  <2>1. CASE table[f] # Free
    <3>1. f \in Held
      BY <2>1, <1>1 DEF NoLeak
    <3>2. PICK t \in Slots : f \in OwnFds(object[t]) \cup StdinFds(object[t])
      BY <3>1 DEF Held
    <3>3. t # s
      BY <3>2, NoObjectFields DEF OwnFds, StdinFds
    <3> QED
      BY <3>2, <3>3, <1>9 DEF Held
  <2>2. CASE f \in in \/ \E e \in Ends : f = fd[e]
    <3>1. f \in (OwnFds(object[s]) \cup StdinFds(object[s]))'
      BY <2>2, <1>10
    <3> QED
      BY <3>1 DEF Held
  <2> QED
    BY <2>1, <2>2, <1>3
<1>14. SameAnswer'
  BY <1>1 DEF SameAnswer
<1>15. MadeSoFar'
  <2>1. \A t \in Slots : object'[t].sandbox <= made'
    BY <1>2, <1>5, <1>6, <1>8
  <2>2. ASSUME NEW j \in Sandboxes, j > made' PROVE stdin'[j] = {} /\ \A e \in Ends : answers'[j][e] = {}
    BY <2>2, <1>1, <1>2, <1>7 DEF MadeSoFar
  <2> QED
    BY <2>1, <2>2 DEF MadeSoFar
<1>16. ReadsRecorded'
  <2>1. \A e \in Ends : answers[k][e] = {}
    BY <1>1, <1>2 DEF MadeSoFar
  <2> SUFFICES ASSUME NEW t \in Slots, NEW e \in Ends, object'[t].sandbox # 0
               PROVE  LET o == object'[t]
                          past == answers'[o.sandbox][e]
                      IN /\ o.cache[e] # Unset =>
                              past = {o.cache[e]} /\ o.cache[e] \in {<<o.sandbox, e>>, Failed}
                         /\ o.cache[e] = Unset => past \subseteq {NotSet}
                         /\ o.cache[e] = Unset /\ o.fd[e] # kInvalidFd => past = {}
    BY DEF ReadsRecorded
  <2>2. CASE t = s
    BY <2>1, <2>2, <1>5, <1>6
  <2>3. CASE t # s
    <3>1. object'[t] = object[t] /\ answers' = answers
      BY <2>3, <1>6
    <3> QED
      BY <3>1, <1>1 DEF ReadsRecorded
  <2> QED
    BY <2>2, <2>3
<1> QED
  BY <1>11, <1>12, <1>13, <1>14, <1>15, <1>16 DEF FdsIInv

LEMMA CreatePreserves ==
  ASSUME FdsIInv, NEW s \in Slots, CreateSandboxWithFds(s)
  PROVE  FdsIInv'
<1>0. /\ object[s] = NoObject /\ made < MaxSandboxes /\ made' = made + 1
      /\ answers' = answers
      /\ Build(s, made + 1) \/ EarlyError \/ PolicyError(made + 1)
  BY DEF CreateSandboxWithFds
<1>1. FdsTypeOK /\ OwnDescriptors /\ NoLeak /\ SameAnswer /\ MadeSoFar /\ ReadsRecorded
  BY DEF FdsIInv
<1>2. made \in 0..MaxSandboxes /\ made + 1 \in Sandboxes
  BY <1>0, <1>1 DEF FdsTypeOK
<1>3. CASE Build(s, made + 1)
  <2>1. PICK in \in {{}} \cup {{f} : f \in FreeFds} : \E fd \in OutputFds(in) :
          /\ Open(made + 1, in, fd)
          /\ stdin' = [stdin EXCEPT ![made + 1] = in]
          /\ object' = [object EXCEPT ![s] = [NoObject EXCEPT !.sandbox = made + 1, !.fd = fd]]
          /\ UNCHANGED regular
    BY <1>3 DEF Build
  <2>2. PICK fd \in OutputFds(in) :
          /\ Open(made + 1, in, fd)
          /\ stdin' = [stdin EXCEPT ![made + 1] = in]
          /\ object' = [object EXCEPT ![s] = [NoObject EXCEPT !.sandbox = made + 1, !.fd = fd]]
          /\ UNCHANGED regular
    BY <2>1
  <2>3. in \in SUBSET FreeFds
    OBVIOUS
  <2>4. /\ fd \in [Ends -> FreeFds \cup {-1}]
        /\ \A e \in Ends : fd[e] \notin in
        /\ fd["stdout"] # fd["stderr"]
    BY DEF OutputFds
  <2> QED
    BY <1>0, <2>2, <2>3, <2>4, ObjectMade
<1>4. CASE EarlyError
  <2>1. UNCHANGED <<table, stdin, object, regular, answers>> /\ made' = made + 1
    BY <1>0, <1>4 DEF EarlyError
  <2>2. FdsTypeOK' /\ SameAnswer'
    <3>1. made' \in 0..MaxSandboxes
      BY <1>2, <2>1
    <3> QED
      BY <1>1, <2>1, <3>1 DEF FdsTypeOK, SameAnswer
  <2>3. OwnDescriptors'
    BY <1>1, <2>1 DEF OwnDescriptors, StdinFds
  <2>4. NoLeak'
    BY <1>1, <2>1 DEF NoLeak, Held, OwnFds, StdinFds
  <2>5. MadeSoFar'
    <3>1. \A t \in Slots : object[t].sandbox \in 0..MaxSandboxes /\ object[t].sandbox <= made
      BY <1>1 DEF MadeSoFar, FdsTypeOK, Objects
    <3>2. \A t \in Slots : object'[t].sandbox <= made'
      BY <3>1, <2>1, <1>2
    <3>3. ASSUME NEW j \in Sandboxes, j > made'
          PROVE  stdin'[j] = {} /\ \A x \in Ends : answers'[j][x] = {}
      <4>1. j > made
        BY <3>3, <2>1, <1>2
      <4> QED
        BY <4>1, <1>1, <2>1 DEF MadeSoFar
    <3> QED
      BY <3>2, <3>3 DEF MadeSoFar
  <2>6. ReadsRecorded'
    BY <1>1, <2>1 DEF ReadsRecorded
  <2> QED
    BY <2>2, <2>3, <2>4, <2>5, <2>6 DEF FdsIInv
<1>5. CASE PolicyError(made + 1)
  <2>1. /\ UNCHANGED <<stdin, object, answers>> /\ made' = made + 1
        /\ regular' = FALSE
    BY <1>0, <1>5 DEF PolicyError
  <2>2. PICK fd \in OutputFds({}) : Open(made + 1, {}, fd)
    BY <1>5 DEF PolicyError
  <2>3. /\ fd \in [Ends -> FreeFds \cup {-1}]
        /\ fd["stdout"] # fd["stderr"]
    BY DEF OutputFds
  <2>4. /\ table' \in [Fds -> Files \cup {<<j, "stdin">> : j \in Sandboxes} \cup {Free}]
        /\ \A f \in Fds : table[f] # Free => table'[f] = table[f]
    <3>1. {} \in SUBSET FreeFds /\ \A e \in Ends : fd[e] \notin {}
      OBVIOUS
    <3> QED
      BY <1>1, <1>2, <2>2, <2>3, <3>1, OpenFacts
  <2>5. FdsTypeOK' /\ SameAnswer'
    <3>1. made' \in 0..MaxSandboxes
      BY <1>2, <2>1
    <3>2. regular' \in BOOLEAN
      BY <2>1
    <3>3. FdsTypeOK'
      BY <1>1, <2>1, <2>4, <3>1, <3>2 DEF FdsTypeOK
    <3> QED
      BY <1>1, <2>1, <3>3 DEF SameAnswer
  <2>6. OwnDescriptors'
    <3>1. \A t \in Slots : \A f \in OwnFds(object[t]) \cup StdinFds(object[t]) :
            table'[f] = table[f]
      BY <1>1, <2>4, HeldIsOwn
    <3>2. \A t \in Slots : \A e \in Ends : object[t].fd[e] # kInvalidFd =>
            object[t].sandbox # 0 /\ table'[object[t].fd[e]] = <<object[t].sandbox, e>>
      <4> SUFFICES ASSUME NEW t \in Slots, NEW e \in Ends, object[t].fd[e] # kInvalidFd
                   PROVE  /\ object[t].sandbox # 0
                          /\ table'[object[t].fd[e]] = <<object[t].sandbox, e>>
        OBVIOUS
      <4>1. table'[object[t].fd[e]] = table[object[t].fd[e]]
        BY <3>1 DEF OwnFds
      <4>2. object[t].sandbox # 0 /\ table[object[t].fd[e]] = <<object[t].sandbox, e>>
        BY <1>1 DEF OwnDescriptors
      <4> QED
        BY <4>1, <4>2
    <3>3. \A t \in Slots : \A f \in StdinFds(object[t]) :
            table'[f] = <<object[t].sandbox, "stdin">>
      BY <1>1, <3>1 DEF OwnDescriptors
    <3>4. \A t \in Slots : StdinFds(object[t])' = StdinFds(object[t])
      BY <2>1 DEF StdinFds
    <3> QED
      BY <1>1, <2>1, <3>2, <3>3, <3>4 DEF OwnDescriptors
  <2>7. NoLeak'
    BY <2>1, Zenon DEF NoLeak
  <2>8. MadeSoFar'
    <3>1. \A t \in Slots : object[t].sandbox \in 0..MaxSandboxes /\ object[t].sandbox <= made
      BY <1>1 DEF MadeSoFar, FdsTypeOK, Objects
    <3>2. \A t \in Slots : object'[t].sandbox <= made'
      BY <3>1, <2>1, <1>2
    <3>3. ASSUME NEW j \in Sandboxes, j > made'
          PROVE  stdin'[j] = {} /\ \A x \in Ends : answers'[j][x] = {}
      <4>1. j > made
        BY <3>3, <2>1, <1>2
      <4> QED
        BY <4>1, <1>1, <2>1 DEF MadeSoFar
    <3> QED
      BY <3>2, <3>3 DEF MadeSoFar
  <2>9. ReadsRecorded'
    BY <1>1, <2>1 DEF ReadsRecorded
  <2> QED
    BY <2>5, <2>6, <2>7, <2>8, <2>9 DEF FdsIInv
<1> QED
  BY <1>0, <1>3, <1>4, <1>5

LEMMA ConstructPreserves ==
  ASSUME FdsIInv, NEW s \in Slots, NEW e \in Ends, Construct(s, e)
  PROVE  FdsIInv'
<1> USE DEF Construct
<1>1. FdsTypeOK /\ MadeSoFar
  BY DEF FdsIInv
<1>2. made \in 0..MaxSandboxes /\ made + 1 \in Sandboxes
  BY <1>1 DEF FdsTypeOK
<1>3. PICK f \in FreeFds :
        LET fd == [NoObject.fd EXCEPT ![e] = f] IN
        /\ Open(made + 1, {}, fd)
        /\ object' = [object EXCEPT ![s] = [NoObject EXCEPT !.sandbox = made + 1, !.fd = fd]]
  OBVIOUS
<1> DEFINE fd == [NoObject.fd EXCEPT ![e] = f]
<1>4. f \in Fds /\ f # -1
  BY DEF FreeFds
<1>5. /\ fd \in [Ends -> FreeFds \cup {-1}]
      /\ fd["stdout"] = fd["stderr"] => fd["stdout"] = -1
  BY <1>4 DEF NoObject
<1>6. stdin' = [stdin EXCEPT ![made + 1] = {}]
  BY <1>1, <1>2 DEF MadeSoFar, FdsTypeOK
<1>7. /\ Open(made + 1, {}, fd)
      /\ object' = [object EXCEPT ![s] = [NoObject EXCEPT !.sandbox = made + 1, !.fd = fd]]
  BY <1>3
<1> HIDE DEF fd
<1> QED
  BY <1>5, <1>6, <1>7, ObjectMade

\* An object that a step leaves alone, with what it holds, still owns that.
LEMMA OwnKept ==
  ASSUME OwnDescriptors, NEW t \in Slots, object'[t] = object[t], stdin' = stdin,
         \A f \in OwnFds(object[t]) \cup StdinFds(object[t]) : table'[f] = table[f]
  PROVE  /\ \A e \in Ends : object'[t].fd[e] # kInvalidFd =>
              object'[t].sandbox # 0 /\ table'[object'[t].fd[e]] = <<object'[t].sandbox, e>>
         /\ StdinFds(object[t])' = StdinFds(object[t])
         /\ \A f \in StdinFds(object[t])' : table'[f] = <<object'[t].sandbox, "stdin">>
<1>1. ASSUME NEW e \in Ends, object[t].fd[e] # kInvalidFd
      PROVE  object[t].sandbox # 0 /\ table'[object[t].fd[e]] = <<object[t].sandbox, e>>
  <2>1. table'[object[t].fd[e]] = table[object[t].fd[e]]
    BY <1>1 DEF OwnFds
  <2>2. object[t].sandbox # 0 /\ table[object[t].fd[e]] = <<object[t].sandbox, e>>
    BY <1>1 DEF OwnDescriptors
  <2> QED
    BY <2>1, <2>2
<1>2. StdinFds(object[t])' = StdinFds(object[t])
  BY DEF StdinFds
<1>3. \A f \in StdinFds(object[t]) : table'[f] = <<object[t].sandbox, "stdin">>
  BY DEF OwnDescriptors
<1> QED
  BY <1>1, <1>2, <1>3

\* The first read of an output closes a descriptor that nobody else holds, and its
\* answer is the first one of this output.
LEMMA ReadAndClosePreserves ==
  ASSUME FdsIInv, NEW s \in Slots, NEW e \in Ends, ReadAndClose(s, e)
  PROVE  FdsIInv'
<1> DEFINE o == object[s]
           k == o.sandbox
           f == o.fd[e]
<1>0. PICK a \in {table[f], Failed} :
        /\ answers' = [answers EXCEPT ![k][e] = @ \cup {a}]
        /\ object' = [object EXCEPT ![s].cache[e] = a, ![s].fd[e] = kInvalidFd]
  BY DEF ReadAndClose, Answer
<1>1. /\ k # 0 /\ o.cache[e] = Unset /\ f # -1
      /\ table' = [g \in Fds |-> IF g \in {f} THEN Free ELSE table[g]]
      /\ stdin' = stdin /\ made' = made /\ regular' = regular
  BY DEF ReadAndClose, Close
<1>2. FdsTypeOK /\ OwnDescriptors /\ NoLeak /\ SameAnswer /\ MadeSoFar /\ ReadsRecorded
  BY DEF FdsIInv
<1>3. o \in Objects /\ o.fd \in [Ends -> Fds \cup {-1}] /\ k \in Sandboxes
      /\ o.cache \in [Ends -> Files \cup {Unset, Failed}] /\ f \in Fds
  BY <1>1, <1>2 DEF FdsTypeOK, Objects
<1>4. f \in OwnFds(o)
  BY <1>1 DEF OwnFds
<1>5. table[f] = <<k, e>> /\ <<k, e>> \in Files /\ a \in {<<k, e>>, Failed} /\ a # Unset
  <2>1. table[f] = <<k, e>>
    BY <1>1, <1>2 DEF OwnDescriptors
  <2>2. <<k, e>> \in Files
    BY <1>3 DEF Files
  <2> QED
    BY <2>1, <2>2, <1>3, MarksDiffer
<1> DEFINE read == [o EXCEPT !.cache[e] = a, !.fd[e] = kInvalidFd]
<1>6. /\ read \in Objects /\ read.sandbox = k
      /\ read.fd = [o.fd EXCEPT ![e] = -1]
      /\ read.cache = [o.cache EXCEPT ![e] = a]
  BY <1>3, <1>5 DEF Objects
<1>7. object' = [object EXCEPT ![s] = read]
  BY <1>0, <1>2 DEF FdsTypeOK
<1> HIDE DEF read
<1>8. object'[s] = read /\ \A t \in Slots \ {s} : object'[t] = object[t]
  BY <1>2, <1>7 DEF FdsTypeOK
<1>9. \A t \in Slots : object'[t].sandbox = object[t].sandbox
  BY <1>6, <1>8
<1>10. \A t \in Slots : StdinFds(object[t])' = StdinFds(object[t])
  BY <1>1, <1>9 DEF StdinFds
<1>11. OwnFds(object[s])' = OwnFds(o) \ {f}
  <2>1. \A x, y \in Ends : o.fd[x] = o.fd[y] => x = y \/ o.fd[x] = -1
    BY <1>2 DEF OwnDescriptors
  <2>2. \A x \in Ends : read.fd[x] = IF x = e THEN -1 ELSE o.fd[x]
    BY <1>3, <1>6
  <2>3. OwnFds(object[s])' = {read.fd[x] : x \in Ends} \ {-1}
    BY <1>8 DEF OwnFds
  <2>4. OwnFds(o) = {o.fd[x] : x \in Ends} \ {-1}
    BY DEF OwnFds
  <2> QED
    BY <2>1, <2>2, <2>3, <2>4
<1>12. f \notin StdinFds(o)
  BY <1>2, <1>5 DEF OwnDescriptors
<1>13. \A t \in Slots \ {s} : f \notin OwnFds(object[t]) \cup StdinFds(object[t])
  BY <1>2, <1>4, HeldByOne
<1>14. \A g \in Fds \ {f} : table'[g] = table[g]
  BY <1>1
<1>15. FdsTypeOK'
  <2>1. object' \in [Slots -> Objects]
    BY <1>2, <1>6, <1>7 DEF FdsTypeOK
  <2>2. answers' \in [Sandboxes -> [Ends -> SUBSET (Files \cup {Failed, NotSet})]]
    BY Zenon, <1>0, <1>2, <1>3, <1>5 DEF FdsTypeOK
  <2>3. table' \in [Fds -> Files \cup {<<j, "stdin">> : j \in Sandboxes} \cup {Free}]
    BY <1>1, <1>2 DEF FdsTypeOK
  <2> QED
    BY <1>1, <1>2, <2>1, <2>2, <2>3 DEF FdsTypeOK
<1>16. OwnDescriptors'
  <2>1. ASSUME NEW t \in Slots
        PROVE  /\ \A x \in Ends : object'[t].fd[x] # kInvalidFd =>
                    object'[t].sandbox # 0
                    /\ table'[object'[t].fd[x]] = <<object'[t].sandbox, x>>
               /\ \A g \in StdinFds(object[t])' : table'[g] = <<object'[t].sandbox, "stdin">>
    <3>1. CASE t # s
      <4>1. object'[t] = object[t]
        BY <1>8, <3>1
      <4>2. \A g \in OwnFds(object[t]) \cup StdinFds(object[t]) : table'[g] = table[g]
        BY <3>1, <1>2, <1>13, <1>14, HeldIsOwn
      <4> QED
        BY <4>1, <4>2, <1>1, <1>2, OwnKept
    <3>2. CASE t = s
      <4>1. ASSUME NEW x \in Ends, read.fd[x] # -1
            PROVE  table'[read.fd[x]] = <<k, x>>
        <5>1. x # e /\ read.fd[x] = o.fd[x]
          BY <4>1, <1>3, <1>6
        <5>2. table[o.fd[x]] = <<k, x>> /\ o.fd[x] \in Fds
          BY <4>1, <5>1, <1>2, <1>3 DEF OwnDescriptors
        <5>3. o.fd[x] # f
          BY <5>1, <5>2, <1>5
        <5> QED
          BY <5>1, <5>2, <5>3, <1>14
      <4>2. ASSUME NEW g \in StdinFds(o) PROVE table'[g] = <<k, "stdin">>
        <5>1. g \in Fds /\ g # f
          BY <1>2, <1>12, HeldIsOwn
        <5> QED
          BY <5>1, <1>2, <1>14 DEF OwnDescriptors
      <4> QED
        BY Zenon, <3>2, <4>1, <4>2, <1>1, <1>6, <1>8, <1>10
    <3> QED
      BY <3>1, <3>2
  <2>2. \A t, u \in Slots : object'[t].sandbox = object'[u].sandbox =>
          t = u \/ object'[t].sandbox = 0
    BY <1>2, <1>9 DEF OwnDescriptors
  <2> QED
    BY <2>1, <2>2 DEF OwnDescriptors
<1>17. NoLeak'
  <2> SUFFICES ASSUME regular', NEW g \in Fds, table'[g] # Free PROVE g \in Held'
    BY DEF NoLeak
  <2>1. g # f /\ table[g] # Free
    BY <1>1
  <2>2. g \in Held
    BY <1>1, <1>2, <2>1 DEF NoLeak
  <2>3. PICK t \in Slots : g \in OwnFds(object[t]) \cup StdinFds(object[t])
    BY <2>2 DEF Held
  <2>4. g \in (OwnFds(object[t]) \cup StdinFds(object[t]))'
    <3>1. CASE t = s
      BY <3>1, <2>1, <2>3, <1>10, <1>11
    <3>2. CASE t # s
      BY <3>2, <2>3, <1>8, <1>10 DEF OwnFds
    <3> QED
      BY <3>1, <3>2
  <2> QED
    BY <2>4 DEF Held
<1>18. answers[k][e] = {} /\ answers'[k][e] = {a}
       /\ \A j \in Sandboxes, x \in Ends :
            j # k \/ x # e => answers'[j][x] = answers[j][x]
  <2>1. answers[k][e] = {}
    BY <1>1, <1>2, <1>3 DEF ReadsRecorded
  <2> QED
    BY <2>1, <1>0, <1>2, <1>3 DEF FdsTypeOK
<1>19. SameAnswer'
  BY <1>2, <1>5, <1>18 DEF SameAnswer
<1>20. MadeSoFar'
  <2>1. k <= made
    BY <1>2 DEF MadeSoFar
  <2>2. made \in 0..MaxSandboxes
    BY <1>2 DEF FdsTypeOK
  <2>3. \A t \in Slots : object'[t].sandbox <= made'
    BY <1>1, <1>2, <1>9 DEF MadeSoFar
  <2>4. ASSUME NEW j \in Sandboxes, j > made
        PROVE  stdin'[j] = {} /\ \A x \in Ends : answers'[j][x] = {}
    <3>1. j # k
      BY <1>3, <2>1, <2>2, <2>4
    <3> QED
      BY <3>1, <2>4, <1>1, <1>2, <1>18 DEF MadeSoFar
  <2> QED
    BY <1>1, <2>3, <2>4 DEF MadeSoFar
<1>21. ReadsRecorded'
  <2> SUFFICES ASSUME NEW t \in Slots, NEW x \in Ends, object'[t].sandbox # 0
               PROVE  LET p == object'[t]
                          past == answers'[p.sandbox][x]
                      IN /\ p.cache[x] # Unset =>
                              past = {p.cache[x]} /\ p.cache[x] \in {<<p.sandbox, x>>, Failed}
                         /\ p.cache[x] = Unset => past \subseteq {NotSet}
                         /\ p.cache[x] = Unset /\ p.fd[x] # kInvalidFd => past = {}
    BY DEF ReadsRecorded
  <2>1. CASE t = s /\ x = e
    BY <2>1, <1>3, <1>5, <1>6, <1>8, <1>18
  <2>2. CASE t = s /\ x # e
    <3>1. read.cache[x] = o.cache[x] /\ read.fd[x] = o.fd[x]
      BY <2>2, <1>3, <1>6
    <3>2. answers'[k][x] = answers[k][x]
      BY <2>2, <1>3, <1>18
    <3>3. /\ o.cache[x] # Unset =>
              answers[k][x] = {o.cache[x]} /\ o.cache[x] \in {<<k, x>>, Failed}
          /\ o.cache[x] = Unset => answers[k][x] \subseteq {NotSet}
          /\ o.cache[x] = Unset /\ o.fd[x] # kInvalidFd => answers[k][x] = {}
      BY <1>1, <1>2 DEF ReadsRecorded
    <3> QED
      BY <3>1, <3>2, <3>3, <2>2, <1>6, <1>8
  <2>3. CASE t # s
    <3>1. object'[t] = object[t] /\ object[t].sandbox \in Sandboxes /\ object[t].sandbox # k
      BY <2>3, <1>1, <1>2, <1>8 DEF OwnDescriptors, FdsTypeOK, Objects
    <3>2. answers'[object[t].sandbox][x] = answers[object[t].sandbox][x]
      BY <3>1, <1>18
    <3> QED
      BY <3>1, <3>2, <1>2 DEF ReadsRecorded
  <2> QED
    BY <2>1, <2>2, <2>3
<1> QED
  BY <1>15, <1>16, <1>17, <1>19, <1>20, <1>21 DEF FdsIInv

\* A later read returns what was returned before.
LEMMA ReadCachedPreserves ==
  ASSUME FdsIInv, NEW s \in Slots, NEW e \in Ends, ReadCached(s, e)
  PROVE  FdsIInv'
<1> DEFINE o == object[s]
<1>1. /\ o.sandbox # 0 /\ o.cache[e] # Unset
      /\ answers' = [answers EXCEPT ![o.sandbox][e] = @ \cup {o.cache[e]}]
      /\ UNCHANGED <<table, stdin, made, object, regular>>
  BY DEF ReadCached, Answer
<1>2. answers[o.sandbox][e] = {o.cache[e]}
  BY <1>1 DEF FdsIInv, ReadsRecorded
<1>3. answers' = answers
  <2>1. answers \in [Sandboxes -> [Ends -> SUBSET (Files \cup {Failed, NotSet})]]
    BY DEF FdsIInv, FdsTypeOK
  <2>2. o.sandbox \in Sandboxes
    BY <1>1 DEF FdsIInv, FdsTypeOK, Objects
  <2>3. [answers[o.sandbox] EXCEPT ![e] = answers[o.sandbox][e]] = answers[o.sandbox]
    BY <2>1, <2>2
  <2>4. answers' = [answers EXCEPT ![o.sandbox] =
                      [answers[o.sandbox] EXCEPT ![e] = answers[o.sandbox][e]]]
    BY <1>1, <1>2
  <2> QED
    BY <2>1, <2>3, <2>4
<1> QED
  BY <1>1, <1>3, FdsStutter DEF vars

\* Without a descriptor every read returns the same error.
LEMMA ReadNotSetPreserves ==
  ASSUME FdsIInv, NEW s \in Slots, NEW e \in Ends, ReadNotSet(s, e)
  PROVE  FdsIInv'
<1> DEFINE o == object[s]
           k == o.sandbox
<1>1. /\ k # 0 /\ o.cache[e] = Unset /\ o.fd[e] = -1
      /\ answers' = [answers EXCEPT ![k][e] = @ \cup {NotSet}]
      /\ UNCHANGED <<table, stdin, made, object, regular>>
  BY DEF ReadNotSet, Answer
<1>2. FdsTypeOK /\ OwnDescriptors /\ NoLeak /\ SameAnswer /\ MadeSoFar /\ ReadsRecorded
  BY DEF FdsIInv
<1>3. k \in Sandboxes
  BY <1>1, <1>2 DEF FdsTypeOK, Objects
<1>4. /\ answers'[k][e] = {NotSet}
      /\ \A j \in Sandboxes, x \in Ends :
           j # k \/ x # e => answers'[j][x] = answers[j][x]
  <2>1. answers[k][e] \subseteq {NotSet}
    BY <1>1, <1>2 DEF ReadsRecorded
  <2> QED
    BY <2>1, <1>1, <1>2, <1>3 DEF FdsTypeOK
<1>5. FdsTypeOK'
  <2>1. answers' \in [Sandboxes -> [Ends -> SUBSET (Files \cup {Failed, NotSet})]]
    BY <1>1, <1>2, <1>3 DEF FdsTypeOK
  <2> QED
    BY <1>1, <1>2, <2>1 DEF FdsTypeOK
<1>6. OwnDescriptors'
  BY <1>1, <1>2 DEF OwnDescriptors, StdinFds
<1>7. NoLeak'
  BY <1>1, <1>2 DEF NoLeak, Held, OwnFds, StdinFds
<1>8. SameAnswer'
  BY <1>2, <1>4 DEF SameAnswer
<1>9. MadeSoFar'
  <2>1. k <= made /\ made \in 0..MaxSandboxes
    BY <1>2 DEF MadeSoFar, FdsTypeOK
  <2>2. ASSUME NEW j \in Sandboxes, j > made
        PROVE  stdin[j] = {} /\ \A x \in Ends : answers'[j][x] = {}
    <3>1. j # k
      BY <1>3, <2>1, <2>2
    <3> QED
      BY <3>1, <2>2, <1>2, <1>4 DEF MadeSoFar
  <2> QED
    BY <1>1, <1>2, <2>2 DEF MadeSoFar
<1>10. ReadsRecorded'
  <2> SUFFICES ASSUME NEW t \in Slots, NEW x \in Ends, object[t].sandbox # 0
               PROVE  LET p == object[t]
                          past == answers'[p.sandbox][x]
                      IN /\ p.cache[x] # Unset =>
                              past = {p.cache[x]} /\ p.cache[x] \in {<<p.sandbox, x>>, Failed}
                         /\ p.cache[x] = Unset => past \subseteq {NotSet}
                         /\ p.cache[x] = Unset /\ p.fd[x] # kInvalidFd => past = {}
    BY Zenon, <1>1 DEF ReadsRecorded
  <2>1. CASE t = s /\ x = e
    BY <2>1, <1>1, <1>4
  <2>2. CASE t # s \/ x # e
    <3>1. object[t].sandbox \in Sandboxes /\ (t # s => object[t].sandbox # k)
      BY <1>1, <1>2 DEF OwnDescriptors, FdsTypeOK, Objects
    <3>2. answers'[object[t].sandbox][x] = answers[object[t].sandbox][x]
      BY <2>2, <3>1, <1>3, <1>4
    <3> QED
      BY <3>2, <1>2 DEF ReadsRecorded
  <2> QED
    BY <2>1, <2>2
<1> QED
  BY <1>5, <1>6, <1>7, <1>8, <1>9, <1>10 DEF FdsIInv

LEMMA DestroyPreserves ==
  ASSUME FdsIInv, NEW s \in Slots, Destroy(s)
  PROVE  FdsIInv'
<1> DEFINE gone == OwnFds(object[s]) \cup StdinFds(object[s])
<1>1. /\ object' = [object EXCEPT ![s] = NoObject]
      /\ table' = [f \in Fds |-> IF f \in gone THEN Free ELSE table[f]]
      /\ stdin' = stdin /\ made' = made /\ answers' = answers /\ regular' = regular
  BY DEF Destroy, Close
<1>2. FdsTypeOK /\ OwnDescriptors /\ NoLeak /\ SameAnswer /\ MadeSoFar /\ ReadsRecorded
  BY DEF FdsIInv
<1>3. object'[s] = NoObject /\ \A t \in Slots \ {s} : object'[t] = object[t]
  BY <1>1, <1>2 DEF FdsTypeOK
<1>4. ASSUME NEW t \in Slots \ {s}, NEW f \in OwnFds(object[t]) \cup StdinFds(object[t])
      PROVE  table'[f] = table[f]
  <2>1. f \notin gone
    BY <1>2, HeldByOne
  <2>2. f \in Fds
    BY <1>2, HeldIsOwn
  <2> QED
    BY <2>1, <2>2, <1>1
<1>5. FdsTypeOK'
  <2>1. object' \in [Slots -> Objects]
    BY <1>1, <1>2, NoObjectFields DEF FdsTypeOK
  <2>2. table' \in [Fds -> Files \cup {<<j, "stdin">> : j \in Sandboxes} \cup {Free}]
    BY <1>1, <1>2 DEF FdsTypeOK
  <2> QED
    BY <1>1, <1>2, <2>1, <2>2 DEF FdsTypeOK
<1>6. OwnDescriptors'
  <2>1. ASSUME NEW t \in Slots
        PROVE  /\ \A x \in Ends : object'[t].fd[x] # kInvalidFd =>
                    object'[t].sandbox # 0
                    /\ table'[object'[t].fd[x]] = <<object'[t].sandbox, x>>
               /\ \A g \in StdinFds(object[t])' : table'[g] = <<object'[t].sandbox, "stdin">>
    <3>1. CASE t # s
      <4>1. object'[t] = object[t]
        BY <1>3, <3>1
      <4>2. \A f \in OwnFds(object[t]) \cup StdinFds(object[t]) : table'[f] = table[f]
        BY <3>1, <1>4
      <4> QED
        BY <4>1, <4>2, <1>1, <1>2, OwnKept
    <3>2. CASE t = s
      BY <3>2, <1>3, NoObjectFields DEF StdinFds
    <3> QED
      BY <3>1, <3>2
  <2>2. ASSUME NEW t \in Slots, NEW u \in Slots, object'[t].sandbox = object'[u].sandbox
        PROVE  t = u \/ object'[t].sandbox = 0
    BY <2>2, <1>2, <1>3, NoObjectFields DEF OwnDescriptors
  <2> QED
    BY <2>1, <2>2 DEF OwnDescriptors
<1>7. NoLeak'
  <2> SUFFICES ASSUME regular', NEW f \in Fds, table'[f] # Free PROVE f \in Held'
    BY DEF NoLeak
  <2>1. f \notin gone /\ table[f] # Free
    BY <1>1
  <2>2. f \in Held
    BY <1>1, <1>2, <2>1 DEF NoLeak
  <2>3. PICK t \in Slots : f \in OwnFds(object[t]) \cup StdinFds(object[t])
    BY <2>2 DEF Held
  <2>4. object'[t] = object[t]
    BY <2>1, <2>3, <1>3
  <2>5. f \in (OwnFds(object[t]) \cup StdinFds(object[t]))'
    BY <2>3, <2>4, <1>1 DEF OwnFds, StdinFds
  <2> QED
    BY <2>5 DEF Held
<1>8. SameAnswer'
  BY <1>1, <1>2 DEF SameAnswer
<1>9. MadeSoFar'
  <2>1. \A t \in Slots : object'[t].sandbox <= made
    BY <1>2, <1>3, NoObjectFields DEF MadeSoFar, FdsTypeOK
  <2> QED
    BY <2>1, <1>1, <1>2 DEF MadeSoFar
<1>10. ReadsRecorded'
  <2>1. \A t \in Slots : object'[t].sandbox # 0 => object'[t] = object[t]
    BY <1>3, NoObjectFields
  <2> QED
    BY Zenon, <2>1, <1>1, <1>2 DEF ReadsRecorded
<1> QED
  BY <1>5, <1>6, <1>7, <1>8, <1>9, <1>10 DEF FdsIInv

\* The object in from is moved to to, where the sandbox that was there is destroyed.
LEMMA ObjectMoved ==
  ASSUME FdsIInv, NEW from \in Slots, NEW to \in Slots, from # to,
         object[from].sandbox # 0,
         object' = [object EXCEPT ![to] = object[from], ![from] = MovedFrom(object[from])],
         table' = [f \in Fds |-> IF f \in StdinFds(object[to]) THEN Free ELSE table[f]],
         regular' \in BOOLEAN,
         regular' => regular /\ object[to] = NoObject,
         UNCHANGED <<stdin, made, answers>>
  PROVE  FdsIInv'
<1>1. FdsTypeOK /\ OwnDescriptors /\ NoLeak /\ SameAnswer /\ MadeSoFar /\ ReadsRecorded
  BY DEF FdsIInv
<1> DEFINE left == MovedFrom(object[from])
<1>2. left \in Objects /\ left.sandbox = 0 /\ \A e \in Ends : left.fd[e] = -1
  <2>1. object[from].cache \in [Ends -> Files \cup {Unset, Failed}]
    BY <1>1 DEF FdsTypeOK, Objects
  <2>2. ASSUME NEW o \in Objects, NEW c \in [Ends -> Files \cup {Unset, Failed}]
        PROVE  /\ [o EXCEPT !.cache = c] \in Objects
               /\ [o EXCEPT !.cache = c].sandbox = o.sandbox
               /\ [o EXCEPT !.cache = c].fd = o.fd
    BY DEF Objects
  <2> QED
    BY <2>1, <2>2, NoObjectFields DEF MovedFrom
<1> HIDE DEF left
<1>3. object' = [object EXCEPT ![to] = object[from], ![from] = left]
  BY DEF left
<1>4. /\ object'[to] = object[from] /\ object'[from] = left
      /\ \A t \in Slots \ {from, to} : object'[t] = object[t]
  BY <1>1, <1>3 DEF FdsTypeOK
\* Where the object in each slot was before the step.
<1> DEFINE was(t) == IF t = to THEN from ELSE t
<1>5. \A t \in Slots \ {from} : was(t) \in Slots \ {to} /\ object'[t] = object[was(t)]
  BY <1>4
<1>6. \A t, u \in Slots \ {from} : was(t) = was(u) => t = u
  OBVIOUS
<1> HIDE DEF was
<1>7. ASSUME NEW t \in Slots \ {to}, NEW f \in OwnFds(object[t]) \cup StdinFds(object[t])
      PROVE  table'[f] = table[f]
  <2>1. f \notin StdinFds(object[to])
    BY <1>1, HeldByOne
  <2>2. f \in Fds
    BY <1>1, HeldIsOwn
  <2> QED
    BY <2>1, <2>2
<1>8. FdsTypeOK'
  <2>1. object' \in [Slots -> Objects]
    BY <1>1, <1>2, <1>3 DEF FdsTypeOK
  <2>2. table' \in [Fds -> Files \cup {<<j, "stdin">> : j \in Sandboxes} \cup {Free}]
    BY <1>1 DEF FdsTypeOK
  <2> QED
    BY <1>1, <2>1, <2>2 DEF FdsTypeOK
<1>9. OwnDescriptors'
  <2>1. ASSUME NEW t \in Slots
        PROVE  /\ \A x \in Ends : object'[t].fd[x] # kInvalidFd =>
                    object'[t].sandbox # 0
                    /\ table'[object'[t].fd[x]] = <<object'[t].sandbox, x>>
               /\ \A g \in StdinFds(object[t])' : table'[g] = <<object'[t].sandbox, "stdin">>
    <3>1. CASE t = from
      BY <3>1, <1>2, <1>4 DEF StdinFds
    <3>2. CASE t # from
      <4> DEFINE o == object[was(t)]
      <4>1. was(t) \in Slots \ {to} /\ object'[t] = o
        BY <3>2, <1>5
      <4>2. ASSUME NEW x \in Ends, o.fd[x] # kInvalidFd
            PROVE  o.sandbox # 0 /\ table'[o.fd[x]] = <<o.sandbox, x>>
        <5>1. o.fd[x] \in OwnFds(o)
          BY <4>2 DEF OwnFds
        <5>2. table'[o.fd[x]] = table[o.fd[x]]
          BY <4>1, <5>1, <1>7
        <5> QED
          BY <4>1, <4>2, <5>2, <1>1 DEF OwnDescriptors
      <4>3. ASSUME NEW g \in StdinFds(o)
            PROVE  table'[g] = <<o.sandbox, "stdin">>
        <5>1. table'[g] = table[g]
          BY <4>1, <1>7
        <5> QED
          BY <4>1, <5>1, <1>1 DEF OwnDescriptors
      <4>4. StdinFds(object[t])' = StdinFds(o)
        BY <4>1 DEF StdinFds
      <4> QED
        BY <4>1, <4>2, <4>3, <4>4
    <3> QED
      BY <3>1, <3>2
  <2>2. ASSUME NEW t \in Slots, NEW u \in Slots, object'[t].sandbox = object'[u].sandbox
        PROVE  t = u \/ object'[t].sandbox = 0
    <3>1. CASE t = from \/ u = from
      BY <3>1, <2>2, <1>2, <1>4
    <3>2. CASE t # from /\ u # from
      <4>1. was(t) = was(u) \/ object[was(t)].sandbox = 0
        <5> DEFINE p == was(t)
                   q == was(u)
        <5>1. p \in Slots /\ q \in Slots /\ object'[t] = object[p] /\ object'[u] = object[q]
          BY <3>2, <1>5
        <5> HIDE DEF p, q
        <5>2. object[p].sandbox = object[q].sandbox
          BY <5>1, <2>2
        <5>3. p = q \/ object[p].sandbox = 0
          BY <5>1, <5>2, <1>1 DEF OwnDescriptors
        <5> QED
          BY <5>3 DEF p, q
      <4> QED
        BY <4>1, <3>2, <1>5, <1>6
    <3> QED
      BY <3>1, <3>2
  <2> QED
    BY <2>1, <2>2 DEF OwnDescriptors
<1>10. NoLeak'
  <2> SUFFICES ASSUME regular', NEW f \in Fds, table'[f] # Free PROVE f \in Held'
    BY DEF NoLeak
  <2>1. table[f] # Free /\ object[to] = NoObject
    OBVIOUS
  <2>2. f \in Held
    BY <1>1, <2>1 DEF NoLeak
  <2>3. PICK u \in Slots : f \in OwnFds(object[u]) \cup StdinFds(object[u])
    BY <2>2 DEF Held
  <2>4. u # to
    BY <2>1, <2>3, NoObjectFields DEF OwnFds, StdinFds
  <2>5. PICK t \in Slots : object'[t] = object[u]
    BY <2>4, <1>4
  <2>6. f \in (OwnFds(object[t]) \cup StdinFds(object[t]))'
    BY <2>3, <2>5 DEF OwnFds, StdinFds
  <2> QED
    BY <2>6 DEF Held
<1>11. SameAnswer'
  BY <1>1 DEF SameAnswer
<1>12. MadeSoFar'
  <2>1. \A t \in Slots : object'[t].sandbox <= made
    BY <1>1, <1>2, <1>4 DEF MadeSoFar, FdsTypeOK
  <2> QED
    BY <2>1, <1>1 DEF MadeSoFar
<1>13. ReadsRecorded'
  <2> SUFFICES ASSUME NEW t \in Slots, NEW x \in Ends, object'[t].sandbox # 0
               PROVE  LET p == object'[t]
                          past == answers[p.sandbox][x]
                      IN /\ p.cache[x] # Unset =>
                              past = {p.cache[x]} /\ p.cache[x] \in {<<p.sandbox, x>>, Failed}
                         /\ p.cache[x] = Unset => past \subseteq {NotSet}
                         /\ p.cache[x] = Unset /\ p.fd[x] # kInvalidFd => past = {}
    BY Zenon DEF ReadsRecorded
  <2>1. was(t) \in Slots /\ object'[t] = object[was(t)]
    BY <1>2, <1>4, <1>5
  <2> QED
    BY Zenon, <2>1, <1>1 DEF ReadsRecorded
<1> QED
  BY <1>8, <1>9, <1>10, <1>11, <1>12, <1>13 DEF FdsIInv

LEMMA MoveConstructPreserves ==
  ASSUME FdsIInv, NEW from \in Slots, NEW to \in Slots, MoveConstruct(from, to)
  PROVE  FdsIInv'
<1>1. /\ object[from].sandbox # 0 /\ object[to] = NoObject
      /\ object' = [object EXCEPT ![to] = object[from], ![from] = MovedFrom(object[from])]
      /\ UNCHANGED <<stdin, made, answers>> /\ table' = table /\ regular' = regular
  BY DEF MoveConstruct
<1>2. from # to
  BY <1>1, NoObjectFields
<1>3. table' = [f \in Fds |-> IF f \in StdinFds(object[to]) THEN Free ELSE table[f]]
  BY <1>1, NoObjectFields DEF StdinFds, FdsIInv, FdsTypeOK
<1>4. regular' \in BOOLEAN
  BY <1>1 DEF FdsIInv, FdsTypeOK
<1>5. regular' => regular /\ object[to] = NoObject
  BY <1>1
<1> QED
  BY <1>1, <1>2, <1>3, <1>4, <1>5, ObjectMoved

LEMMA MoveAssignPreserves ==
  ASSUME FdsIInv, NEW from \in Slots, NEW to \in Slots, MoveAssign(from, to)
  PROVE  FdsIInv'
<1>1. /\ from # to /\ object[from].sandbox # 0
      /\ object' = [object EXCEPT ![to] = object[from], ![from] = MovedFrom(object[from])]
      /\ table' = [f \in Fds |-> IF f \in StdinFds(object[to]) THEN Free ELSE table[f]]
      /\ UNCHANGED <<stdin, made, answers>> /\ regular' = FALSE
  BY DEF MoveAssign, Close
<1>2. regular' \in BOOLEAN
  BY <1>1
<1>3. regular' => regular /\ object[to] = NoObject
  BY <1>1
<1> QED
  BY <1>1, <1>2, <1>3, ObjectMoved

LEMMA FdsStep == FdsIInv /\ [Next]_vars => FdsIInv'
<1> SUFFICES ASSUME FdsIInv, [Next]_vars PROVE FdsIInv'
  OBVIOUS
<1>1. ASSUME NEW s \in Slots, CreateSandboxWithFds(s) PROVE FdsIInv'
  BY <1>1, CreatePreserves
<1>2. ASSUME NEW s \in Slots, NEW e \in Ends, Construct(s, e) PROVE FdsIInv'
  BY <1>2, ConstructPreserves
<1>3. ASSUME NEW s \in Slots, NEW e \in Ends, UseCacheOrReadAndClose(s, e) PROVE FdsIInv'
  BY <1>3, ReadCachedPreserves, ReadNotSetPreserves, ReadAndClosePreserves
     DEF UseCacheOrReadAndClose
<1>4. ASSUME NEW s \in Slots, Destroy(s) PROVE FdsIInv'
  BY <1>4, DestroyPreserves
<1>5. ASSUME NEW from \in Slots, NEW to \in Slots, MoveConstruct(from, to) PROVE FdsIInv'
  BY <1>5, MoveConstructPreserves
<1>6. ASSUME NEW from \in Slots, NEW to \in Slots, MoveAssign(from, to) PROVE FdsIInv'
  BY <1>6, MoveAssignPreserves
<1>7. CASE UNCHANGED vars
  BY <1>7, FdsStutter
<1> QED
  BY <1>1, <1>2, <1>3, <1>4, <1>5, <1>6, <1>7 DEF Next

-----------------------------------------------------------------------------
(* The theorems.                                                           *)

\* However objects are made, moved, read and destroyed, and whichever descriptors are
\* reused, the inductive invariant holds.
THEOREM FdsInvariant == Spec => []FdsIInv
<1> QED
  BY FdsInit, FdsStep, PTL DEF Spec

\* The descriptors keep their type.
THEOREM FdsTypes == Spec => []FdsTypeOK
<1>1. FdsIInv => FdsTypeOK
  BY DEF FdsIInv
<1> QED
  BY <1>1, FdsInvariant, PTL

\* No descriptor is closed twice or read for another sandbox: what an object holds is
\* open and is the file of its own sandbox (the resets of the move operations and the
\* dup of tester_sandboxer.cc lines 220-229 and 310-313).
THEOREM OwnDescriptorsHolds == Spec => []OwnDescriptors
<1>1. FdsIInv => OwnDescriptors
  BY DEF FdsIInv
<1> QED
  BY <1>1, FdsInvariant, PTL

\* While every policy could be built and no object was assigned, no open descriptor is
\* forgotten (tester_sandboxer.cc lines 121-133, 213-230 and 304-328).
THEOREM NoLeakHolds == Spec => []NoLeak
<1>1. FdsIInv => NoLeak
  BY DEF FdsIInv
<1> QED
  BY <1>1, FdsInvariant, PTL

\* All reads of an output return the same, also when the descriptor was closed by the
\* first and the object was moved since (tester_sandboxer.h lines 100-103).
THEOREM SameAnswerHolds == Spec => []SameAnswer
<1>1. FdsIInv => SameAnswer
  BY DEF FdsIInv
<1> QED
  BY <1>1, FdsInvariant, PTL
=============================================================================
