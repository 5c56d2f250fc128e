-------------------------- MODULE SolveExampleProofs --------------------------
(***************************************************************************)
(* Proofs about SolveExample, for every number of tests and of threads and *)
(* every length of the lists in the problem.  What the reports say follows *)
(* from two facts about the call of Test: the tests that are open or have  *)
(* failed are no more than the threads, and a test was dropped only after  *)
(* another one had failed or could not be run.                             *)
(***************************************************************************)
EXTENDS SolveExample, FiniteSetTheorems, SequenceTheorems, TLAPS

USE SizesAssumption

Listed == problem["public_tests"] \o problem["private_tests"] \o problem["generated_tests"]

ListedTests == Lists \X (1..MaxListed)

Lines == {"passed", "failed", "did not run"}

Reports == [compilation : {"succeeded", "failed"},
            tests       : {<<>>} \cup [1..max_size -> Lines]]

\* Inputs and outputs are the tests of the problem in the same order, and a problem is
\* reported about only after it was found.
PairsMatch ==
  /\ \A kind \in Lists : problem[kind] \in Seq(ListedTests)
  /\ pc \in {"call", "testing"} =>
       inputs = Resize(Listed, max_size) /\ outputs = Resize(Listed, max_size)
  /\ pc \in {"main", "find"} => reports = <<>>
  /\ pc \in {"call", "testing"} => Len(reports) < 3

\* A report of a solution that compiled has a line for each test.
TestsReported ==
  /\ reports \in Seq(Reports)
  /\ \A k \in DOMAIN reports :
       reports[k].compilation = "succeeded" => reports[k].tests \in [1..max_size -> Lines]

\* The tests that have failed, or still may.
MayFail == {t \in Test!Tests : verdict[t] \in {"open", "failed"}}

CallOfTest ==
  pc = "testing" =>
    /\ checking = TRUE /\ stop = TRUE
    /\ verdict \in [Test!Tests -> {"waiting", "open", "passed", "failed", "error", "dropped"}]
    /\ \A t \in Test!Tests : /\ verdict[t] = "passed" => Passes(t)
                             /\ verdict[t] = "failed" => ~Passes(t)
    /\ Cardinality(MayFail) <= num_threads
    /\ (\E t \in Test!Tests : verdict[t] = "dropped") =>
         \E t \in Test!Tests : verdict[t] \in {"error", "failed"}
    /\ answer = "Ok" => \A t \in Test!Tests : verdict[t] \in {"passed", "failed", "dropped"}

SolveIInv ==
  /\ SolveTypeOK
  /\ PairsMatch
  /\ TestsReported
  /\ CallOfTest
  /\ GapsExplained
  /\ LinesAreAboutTheirTests

-----------------------------------------------------------------------------
(* The lists of tests and the pairs.                                       *)

LEMMA ListIsSeq ==
  ASSUME NEW kind \in Lists, NEW n \in 0..MaxListed
  PROVE  List(kind, n) \in Seq(ListedTests)
<1>1. \A i \in 1..n : <<kind, i>> \in ListedTests
  BY DEF ListedTests
<1> QED
  BY <1>1 DEF List

LEMMA ProblemLists ==
  ASSUME NEW p \in Problems, NEW kind \in Lists
  PROVE  p[kind] \in Seq(ListedTests)
<1>1. PICK size \in [Lists -> 0..MaxListed] : p = [k \in Lists |-> List(k, size[k])]
  BY DEF Problems
<1> QED
  BY <1>1, ListIsSeq

LEMMA NoProblemIsOne == NoProblem \in Problems
<1> DEFINE size == [kind \in Lists |-> 0]
<1>1. size \in [Lists -> 0..MaxListed]
  OBVIOUS
<1>2. \A kind : List(kind, 0) = <<>>
  BY DEF List
<1>3. NoProblem = [kind \in Lists |-> List(kind, size[kind])]
  BY <1>2 DEF NoProblem
<1> HIDE DEF size
<1> QED
  BY <1>1, <1>3 DEF Problems

LEMMA ListedIsSeq ==
  ASSUME \A kind \in Lists : problem[kind] \in Seq(ListedTests)
  PROVE  /\ Listed \in Seq(ListedTests)
         /\ Len(Listed) \in Nat
         /\ \A i \in 1..Len(Listed) : Listed[i] \in ListedTests
<1>1. /\ problem["public_tests"] \in Seq(ListedTests)
      /\ problem["private_tests"] \in Seq(ListedTests)
      /\ problem["generated_tests"] \in Seq(ListedTests)
  BY DEF Lists
<1>2. Listed \in Seq(ListedTests)
  BY <1>1 DEF Listed
<1> QED
  BY <1>2

\* Resize cuts or pads to the size that was asked for.
LEMMA ResizeFacts ==
  ASSUME NEW s \in Seq(ListedTests)
  PROVE  /\ Resize(s, max_size) \in [1..max_size -> Pair]
         /\ \A i \in 1..max_size :
              Resize(s, max_size)[i] = IF i <= Len(s) THEN s[i] ELSE Empty
         /\ Len(Resize(s, max_size)) = max_size
         /\ Resize(s, max_size) # <<>>
<1>1. Len(s) \in Nat /\ \A i \in 1..Len(s) : s[i] \in ListedTests
  OBVIOUS
<1>2. \A i \in 1..max_size :
        Resize(s, max_size)[i] = IF i <= Len(s) THEN s[i] ELSE Empty
  BY DEF Resize
<1>3. \A i \in 1..max_size : i <= Len(s) => s[i] \in Pair
  BY <1>1 DEF Pair, ListedTests
<1>4. Empty \in Pair
  BY DEF Pair
<1>5. Resize(s, max_size) \in [1..max_size -> Pair]
  BY <1>3, <1>4 DEF Resize
<1>6. Resize(s, max_size) \in Seq(Pair) /\ Len(Resize(s, max_size)) = max_size
  BY <1>5
<1> QED
  BY <1>2, <1>5, <1>6

\* What Passes says of a test, by the number it has among those of the problem.
IsWrong(k, t) == Solutions[k] = "bad" /\ t <= Len(Listed) /\ Listed[t] \in wrong

LEMMA PassesMeaning ==
  ASSUME PairsMatch, wrong \subseteq ListedTests, pc = "testing", NEW t \in 1..max_size
  PROVE  Passes(t) <=> ~IsWrong(Len(reports) + 1, t)
<1>1. Listed \in Seq(ListedTests) /\ Len(Listed) \in Nat
  BY ListedIsSeq DEF PairsMatch
<1>2. inputs[t] = outputs[t] /\ inputs[t] = IF t <= Len(Listed) THEN Listed[t] ELSE Empty
  BY <1>1, ResizeFacts DEF PairsMatch
<1>3. Empty \notin ListedTests /\ Other \notin ListedTests
  BY DEF Empty, Other, ListedTests, Lists
<1>4. solution = Solutions[Len(reports) + 1]
  BY DEF solution
<1>5. inputs[t] \in wrong <=> t <= Len(Listed) /\ Listed[t] \in wrong
  BY <1>2, <1>3
<1>6. CASE solution = "bad" /\ inputs[t] \in wrong
  <2>1. Other # inputs[t]
    BY <1>3, <1>6
  <2> QED
    BY <1>2, <1>4, <1>5, <1>6, <2>1 DEF Passes, Stdout, IsWrong
<1>7. CASE ~(solution = "bad" /\ inputs[t] \in wrong)
  BY <1>2, <1>4, <1>5, <1>7 DEF Passes, Stdout, IsWrong
<1> QED
  BY <1>6, <1>7

-----------------------------------------------------------------------------
(* The call of Test.                                                       *)

LEMMA MayFailFinite ==
  /\ IsFiniteSet(Test!Tests) /\ IsFiniteSet(MayFail) /\ Cardinality(MayFail) \in Nat
  /\ Test!Cardinality(MayFail) = Cardinality(MayFail)
<1>1. IsFiniteSet(Test!Tests)
  BY FS_Interval, 1 \in Int DEF Test!Tests
<1>2. IsFiniteSet(MayFail) /\ Cardinality(MayFail) \in Nat
  BY <1>1, FS_Subset, FS_CardinalityType DEF MayFail
<1>3. Test!Cardinality(MayFail) = Cardinality(MayFail)
  BY Zenon DEF Cardinality, Test!Cardinality, IsFiniteSet, Test!IsFiniteSet
<1> QED
  BY <1>1, <1>2, <1>3

\* A step after which no more tests may fail keeps the bound.
LEMMA KeepsBound ==
  ASSUME Cardinality(MayFail) <= num_threads, MayFail' \subseteq MayFail
  PROVE  Cardinality(MayFail') <= num_threads
<1>1. Cardinality(MayFail') <= Cardinality(MayFail) /\ Cardinality(MayFail') \in Nat
  BY MayFailFinite, FS_Subset, FS_CardinalityType
<1> QED
  BY <1>1, MayFailFinite

\* Nothing but the call of Test is changed by a step of it.
LEMMA OutsideOfCall ==
  ASSUME SolveIInv, UNCHANGED <<pc, problemVars, reports>>
  PROVE  SolveTypeOK' /\ PairsMatch' /\ TestsReported' /\ GapsExplained'
         /\ LinesAreAboutTheirTests'
<1> USE DEF SolveIInv, problemVars
<1>1. SolveTypeOK' /\ PairsMatch'
  BY DEF SolveTypeOK, PairsMatch, Listed
<1>2. TestsReported' /\ GapsExplained'
  BY DEF TestsReported, GapsExplained
<1>3. LinesAreAboutTheirTests'
  BY DEF LinesAreAboutTheirTests
<1> QED
  BY <1>1, <1>2, <1>3

LEMMA TestDeclinesPreserves ==
  ASSUME SolveIInv, TestDeclines
  PROVE  SolveIInv'
<1>1. /\ answer' \in {"InvalidArgument", "NotCompiled", "Error"}
      /\ UNCHANGED <<checking, stop, verdict>>
      /\ UNCHANGED <<pc, problemVars, reports>>
  BY DEF TestDeclines, Test!Decline
<1>2. CallOfTest'
  BY <1>1 DEF SolveIInv, CallOfTest, Passes, Stdout, solution, problemVars, MayFail
<1> QED
  BY <1>1, <1>2, OutsideOfCall DEF SolveIInv

LEMMA TestGoesOnPreserves ==
  ASSUME SolveIInv, TestGoesOn
  PROVE  SolveIInv'
<1>0. /\ pc = "testing" /\ UNCHANGED <<pc, problemVars, reports>>
      /\ \/ \E t \in Test!Tests :
              \/ Test!Open(t)
              \/ Test!Close(t) /\ verdict'[t] \in {"error", IF Passes(t) THEN "passed" ELSE "failed"}
              \/ Test!Drop(t)
         \/ Test!Answer
  BY DEF TestGoesOn
<1>1. \A t : Passes(t)' <=> Passes(t)
  BY <1>0 DEF Passes, Stdout, solution, problemVars
<1>2. /\ checking = TRUE /\ stop = TRUE
      /\ verdict \in [Test!Tests -> {"waiting", "open", "passed", "failed", "error", "dropped"}]
      /\ \A t \in Test!Tests : /\ verdict[t] = "passed" => Passes(t)
                               /\ verdict[t] = "failed" => ~Passes(t)
      /\ Cardinality(MayFail) <= num_threads
      /\ (\E t \in Test!Tests : verdict[t] = "dropped") =>
           \E t \in Test!Tests : verdict[t] \in {"error", "failed"}
      /\ answer = "Ok" => \A t \in Test!Tests : verdict[t] \in {"passed", "failed", "dropped"}
  BY <1>0 DEF SolveIInv, CallOfTest
<1>3. Test!Halted <=> \E t \in Test!Tests : verdict[t] \in {"error", "failed"}
  BY <1>2 DEF Test!Halted, Test!With
<1>4. ASSUME NEW t \in Test!Tests, Test!Open(t) PROVE CallOfTest'
  <2>1. /\ answer = "none" /\ verdict[t] = "waiting" /\ ~Test!Halted
        /\ Test!Cardinality(Test!With("open")) < num_threads
        /\ verdict' = [verdict EXCEPT ![t] = "open"]
        /\ UNCHANGED <<checking, stop, answer>>
    BY <1>4 DEF Test!Open
  <2>2. MayFail = Test!With("open")
    BY <1>3, <2>1 DEF MayFail, Test!With
  <2>3. Cardinality(MayFail) < num_threads
    BY <2>1, <2>2, MayFailFinite
  <2>4. MayFail' = MayFail \cup {t} /\ t \notin MayFail
    BY <1>2, <2>1 DEF MayFail
  <2>5. Cardinality(MayFail') = Cardinality(MayFail) + 1
    BY <2>4, MayFailFinite, FS_AddElement
  <2>6. Cardinality(MayFail') <= num_threads
    BY <2>3, <2>5, MayFailFinite
  <2>7. \A u \in Test!Tests : verdict'[u] = IF u = t THEN "open" ELSE verdict[u]
    BY <1>2, <2>1
  <2>8. verdict' \in [Test!Tests -> {"waiting", "open", "passed", "failed", "error", "dropped"}]
    BY <1>2, <2>1
  <2>9. ~\E u \in Test!Tests : verdict'[u] = "dropped"
    BY <1>2, <1>3, <2>1, <2>7
  <2> QED
    BY <1>1, <1>2, <2>1, <2>6, <2>7, <2>8, <2>9 DEF CallOfTest
<1>5. ASSUME NEW t \in Test!Tests, Test!Close(t),
             verdict'[t] \in {"error", IF Passes(t) THEN "passed" ELSE "failed"}
      PROVE  CallOfTest'
  <2>1. PICK v \in {"error", "passed", "failed"} : verdict' = [verdict EXCEPT ![t] = v]
    BY <1>2, <1>5 DEF Test!Close
  <2>2. verdict[t] = "open" /\ UNCHANGED <<checking, stop, answer>>
    BY <1>5 DEF Test!Close
  <2>3. \A u \in Test!Tests : verdict'[u] = IF u = t THEN v ELSE verdict[u]
    BY <1>2, <2>1
  <2>4. v \in {"error", IF Passes(t) THEN "passed" ELSE "failed"}
    BY <1>5, <2>3
  <2>5. MayFail' \subseteq MayFail
    BY <2>2, <2>3 DEF MayFail
  <2>6. Cardinality(MayFail') <= num_threads
    BY <1>2, <2>5, KeepsBound
  <2>7. verdict' \in [Test!Tests -> {"waiting", "open", "passed", "failed", "error", "dropped"}]
    BY <1>2, <2>1
  <2>8. \A u \in Test!Tests : /\ verdict'[u] = "passed" => Passes(u)
                              /\ verdict'[u] = "failed" => ~Passes(u)
    BY <1>2, <2>3, <2>4
  <2>9. (\E u \in Test!Tests : verdict'[u] = "dropped") =>
          \E u \in Test!Tests : verdict'[u] \in {"error", "failed"}
    BY <1>2, <2>2, <2>3
  <2>10. answer' # "Ok"
    BY <1>2, <2>2
  <2> QED
    BY <1>1, <1>2, <2>2, <2>6, <2>7, <2>8, <2>9, <2>10 DEF CallOfTest
<1>6. ASSUME NEW t \in Test!Tests, Test!Drop(t) PROVE CallOfTest'
  <2>1. /\ verdict[t] \in {"waiting", "open"} /\ Test!Halted
        /\ verdict' = [verdict EXCEPT ![t] = "dropped"]
        /\ UNCHANGED <<checking, stop, answer>>
    BY <1>6 DEF Test!Drop
  <2>2. \A u \in Test!Tests : verdict'[u] = IF u = t THEN "dropped" ELSE verdict[u]
    BY <1>2, <2>1
  <2>3. MayFail' \subseteq MayFail
    BY <2>2 DEF MayFail
  <2>4. Cardinality(MayFail') <= num_threads
    BY <1>2, <2>3, KeepsBound
  <2>5. verdict' \in [Test!Tests -> {"waiting", "open", "passed", "failed", "error", "dropped"}]
    BY <1>2, <2>1
  <2>6. \E u \in Test!Tests : verdict'[u] \in {"error", "failed"}
    BY <1>3, <2>1, <2>2
  <2>7. answer' # "Ok"
    BY <1>2, <2>1
  <2> QED
    BY <1>1, <1>2, <2>1, <2>2, <2>4, <2>5, <2>6, <2>7 DEF CallOfTest
<1>7. ASSUME Test!Answer PROVE CallOfTest'
  <2>1. /\ Test!With("waiting") \cup Test!With("open") = {}
        /\ answer' = IF Test!With("error") = {} THEN "Ok" ELSE "Error"
        /\ UNCHANGED <<checking, stop, verdict>>
    BY <1>7 DEF Test!Answer
  <2>2. answer' = "Ok" => \A t \in Test!Tests : verdict[t] \in {"passed", "failed", "dropped"}
    BY <1>2, <2>1 DEF Test!With
  <2>3. MayFail' = MayFail
    BY <2>1 DEF MayFail
  <2> QED
    BY <1>1, <1>2, <2>1, <2>2, <2>3 DEF CallOfTest
<1>8. CallOfTest'
  BY <1>0, <1>4, <1>5, <1>6, <1>7
<1> QED
  BY <1>0, <1>8, OutsideOfCall DEF SolveIInv

-----------------------------------------------------------------------------
(* The reports.                                                            *)

\* What is reported of the call that has just returned.
LEMMA ReportFacts ==
  ASSUME SolveIInv, pc = "testing", answer \in {"Ok", "NotCompiled"}
  PROVE  LET r == ReportResults IN
         /\ r \in Reports
         /\ r.compilation = "succeeded" => r.tests \in [1..max_size -> Lines]
         /\ {t \in DOMAIN r.tests : r.tests[t] = "did not run"} # {} =>
              {t \in DOMAIN r.tests : r.tests[t] = "failed"} # {}
         /\ Cardinality({t \in DOMAIN r.tests : r.tests[t] = "failed"}) <= num_threads
         /\ \A t \in DOMAIN r.tests :
              /\ r.tests[t] = "failed" => IsWrong(Len(reports) + 1, t)
              /\ r.tests[t] = "passed" => ~IsWrong(Len(reports) + 1, t)
<1> DEFINE r == ReportResults
           Shown(line) == {t \in DOMAIN r.tests : r.tests[t] = line}
<1>1. CASE answer = "NotCompiled"
  <2>1. r.compilation = "failed" /\ r.tests = <<>> /\ r \in Reports
    BY <1>1 DEF ReportResults, Reports
  <2>2. DOMAIN r.tests = {}
    BY <2>1
  <2> HIDE DEF r
  <2>3. Shown("failed") = {} /\ Shown("did not run") = {}
    BY <2>2
  <2>4. Cardinality(Shown("failed")) <= num_threads
    <3>1. Cardinality({}) = 0
      BY FS_EmptySet
    <3>2. Cardinality(Shown("failed")) = 0
      BY <2>3, <3>1, Zenon
    <3> QED
      BY <3>2
  <2> QED
    BY <2>1, <2>2, <2>3, <2>4 DEF r
<1>2. CASE answer = "Ok"
  <2>1. /\ \A t \in Test!Tests : /\ verdict[t] = "passed" => Passes(t)
                                 /\ verdict[t] = "failed" => ~Passes(t)
        /\ Cardinality(MayFail) <= num_threads
        /\ (\E t \in Test!Tests : verdict[t] = "dropped") =>
             \E t \in Test!Tests : verdict[t] \in {"error", "failed"}
        /\ \A t \in Test!Tests : verdict[t] \in {"passed", "failed", "dropped"}
    BY <1>2 DEF SolveIInv, CallOfTest
  <2>2. Test!Tests = 1..max_size
    BY DEF Test!Tests
  <2>3. /\ r.compilation = "succeeded"
        /\ r.tests = [t \in 1..max_size |-> IF verdict[t] \in {"passed", "failed"}
                                              THEN verdict[t] ELSE "did not run"]
    BY <1>2, <2>2 DEF ReportResults
  <2>4. r = [compilation |-> r.compilation, tests |-> r.tests]
    BY DEF ReportResults
  <2> HIDE DEF r
  <2>5. r.tests \in [1..max_size -> Lines]
    BY <2>3 DEF Lines
  <2>6. r \in Reports
    BY <2>3, <2>4, <2>5 DEF Reports
  <2>7. ASSUME NEW t \in 1..max_size
        PROVE  r.tests[t] = IF verdict[t] = "dropped" THEN "did not run" ELSE verdict[t]
    BY <2>1, <2>2, <2>3
  <2>8. Shown("did not run") # {} => Shown("failed") # {}
    <3> SUFFICES ASSUME NEW t \in 1..max_size, r.tests[t] = "did not run"
                 PROVE  \E u \in 1..max_size : r.tests[u] = "failed"
      BY <2>5
    <3>1. verdict[t] = "dropped"
      BY <2>1, <2>2, <2>7
    <3>2. PICK u \in Test!Tests : verdict[u] = "failed"
      BY <2>1, <2>2, <3>1
    <3> QED
      BY <2>2, <2>7, <3>2
  <2>9. Cardinality(Shown("failed")) <= num_threads
    <3>1. Shown("failed") \subseteq MayFail
      BY <2>1, <2>2, <2>5, <2>7 DEF MayFail
    <3>2. /\ Cardinality(Shown("failed")) <= Cardinality(MayFail)
          /\ IsFiniteSet(Shown("failed"))
      BY <3>1, MayFailFinite, FS_Subset
    <3>3. Cardinality(Shown("failed")) \in Nat
      BY <3>2, FS_CardinalityType
    <3> QED
      BY <2>1, <3>2, <3>3, MayFailFinite
  <2>10. ASSUME NEW t \in 1..max_size
         PROVE  /\ r.tests[t] = "failed" => IsWrong(Len(reports) + 1, t)
                /\ r.tests[t] = "passed" => ~IsWrong(Len(reports) + 1, t)
    <3>1. Passes(t) <=> ~IsWrong(Len(reports) + 1, t)
      BY PassesMeaning DEF SolveIInv, SolveTypeOK, ListedTests
    <3> QED
      BY <2>1, <2>2, <2>7, <3>1
  <2>11. DOMAIN r.tests = 1..max_size
    BY <2>5
  <2> QED
    BY <2>5, <2>6, <2>8, <2>9, <2>10, <2>11 DEF r
<1> QED
  BY <1>1, <1>2

LEMMA ReportPreserves ==
  ASSUME SolveIInv, Report
  PROVE  SolveIInv'
<1>0. /\ pc = "testing" /\ UNCHANGED <<problemVars, testVars>>
      /\ SolveTypeOK /\ PairsMatch /\ TestsReported /\ GapsExplained
      /\ LinesAreAboutTheirTests
      /\ pc' \in {"call", "end"}
  BY DEF Report, SolveIInv
<1>1. CallOfTest'
  BY <1>0 DEF CallOfTest
<1>2. CASE answer \notin {"Ok", "NotCompiled"}
  <2>1. pc' = "end" /\ UNCHANGED <<reports, problem, wrong>>
    BY <1>0, <1>2 DEF Report, problemVars
  <2>2. SolveTypeOK' /\ PairsMatch' /\ TestsReported'
    BY <1>0, <2>1 DEF SolveTypeOK, PairsMatch, TestsReported
  <2>3. GapsExplained' /\ LinesAreAboutTheirTests'
    BY <1>0, <2>1 DEF GapsExplained, LinesAreAboutTheirTests
  <2> QED
    BY <1>1, <2>2, <2>3 DEF SolveIInv
<1>3. CASE answer \in {"Ok", "NotCompiled"}
  <2> DEFINE n == Len(reports) + 1
             r == ReportResults
             Shown(k, line) == {t \in DOMAIN reports[k].tests : reports[k].tests[t] = line}
  <2>1. /\ reports' = Append(reports, r)
        /\ pc' = IF Len(reports') < Len(Solutions) THEN "call" ELSE "end"
        /\ UNCHANGED <<problem, wrong, inputs, outputs>>
    BY <1>0, <1>3 DEF Report, problemVars
  <2>2. /\ r \in Reports
        /\ r.compilation = "succeeded" => r.tests \in [1..max_size -> Lines]
        /\ {t \in DOMAIN r.tests : r.tests[t] = "did not run"} # {} =>
             {t \in DOMAIN r.tests : r.tests[t] = "failed"} # {}
        /\ Cardinality({t \in DOMAIN r.tests : r.tests[t] = "failed"}) <= num_threads
        /\ \A t \in DOMAIN r.tests : /\ r.tests[t] = "failed" => IsWrong(n, t)
                                     /\ r.tests[t] = "passed" => ~IsWrong(n, t)
    BY <1>0, <1>3, ReportFacts
  <2> HIDE DEF r
  <2>3. reports \in Seq(Reports) /\ Len(reports) \in Nat /\ Len(reports) < 3
    BY <1>0 DEF TestsReported, PairsMatch
  <2>4. /\ reports' \in Seq(Reports) /\ Len(reports') = n /\ DOMAIN reports' = 1..n
        /\ reports'[n] = r /\ DOMAIN reports = 1..Len(reports)
        /\ \A k \in 1..Len(reports) : reports'[k] = reports[k]
    <3>1. /\ reports' \in Seq(Reports) /\ Len(reports') = n
          /\ \A k \in 1..Len(reports) : reports'[k] = reports[k]
          /\ reports'[n] = r
      <4>1. /\ Append(reports, r) \in Seq(Reports)
            /\ Len(Append(reports, r)) = Len(reports) + 1
            /\ \A k \in 1..Len(reports) : Append(reports, r)[k] = reports[k]
            /\ Append(reports, r)[Len(reports) + 1] = r
        <5>1. r \in Reports /\ reports \in Seq(Reports)
          BY <2>2, <2>3
        <5> QED
          BY ONLY <5>1, AppendProperties
      <4> QED
        BY <2>1, <4>1, Zenon
    <3>2. DOMAIN reports' = 1..n /\ DOMAIN reports = 1..Len(reports)
      <4>1. \A q \in Seq(Reports) : DOMAIN q = 1..Len(q)
        BY LenProperties
      <4> QED
        BY <2>3, <3>1, <4>1
    <3> QED
      BY <3>1, <3>2
  <2>5. Len(Solutions) = 3
    BY DEF Solutions
  <2>6. \A k \in DOMAIN reports' : reports'[k] \in Reports
    BY <2>4
  <2>7. SolveTypeOK'
    <3>1. \A k \in DOMAIN reports' :
            /\ reports'[k].compilation \in {"succeeded", "failed"}
            /\ reports'[k].tests \in
                 {<<>>} \cup [1..max_size -> {"passed", "failed", "did not run"}]
      BY <2>6 DEF Reports, Lines
    <3>2. Len(reports') <= 3
      BY <2>3, <2>4
    <3> QED
      BY <1>0, <2>1, <3>1, <3>2 DEF SolveTypeOK
  <2>8. PairsMatch'
    <3>1. Listed' = Listed
      BY <2>1 DEF Listed
    <3>2. pc' = "call" => Len(reports') < 3
      BY <2>1, <2>5
    <3> QED
      BY <1>0, <2>1, <3>1, <3>2 DEF PairsMatch
  <2>9. TestsReported'
    <3> SUFFICES ASSUME NEW k \in 1..n, reports'[k].compilation = "succeeded"
                 PROVE  reports'[k].tests \in [1..max_size -> Lines]
      BY <2>4 DEF TestsReported
    <3>1. CASE k = n
      BY <2>2, <2>4, <3>1
    <3>2. CASE k # n
      <4>1. k \in DOMAIN reports /\ reports'[k] = reports[k]
        BY <2>3, <2>4, <3>2
      <4> QED
        BY <1>0, <4>1 DEF TestsReported
    <3> QED
      BY <3>1, <3>2
  <2>10. GapsExplained'
    <3> SUFFICES ASSUME NEW k \in 1..n
                 PROVE  /\ Shown(k, "did not run")' # {} => Shown(k, "failed")' # {}
                        /\ Cardinality(Shown(k, "failed")') <= num_threads
      BY <2>4 DEF GapsExplained
    <3>1. CASE k = n
      BY <2>2, <2>4, <3>1
    <3>2. CASE k # n
      <4>1. k \in DOMAIN reports /\ reports'[k] = reports[k]
        BY <2>3, <2>4, <3>2
      <4> QED
        BY <1>0, <4>1 DEF GapsExplained
    <3> QED
      BY <3>1, <3>2
  <2>11. LinesAreAboutTheirTests'
    <3>1. ASSUME NEW k \in 1..n, NEW t \in DOMAIN reports'[k].tests
          PROVE  /\ reports'[k].tests[t] = "failed" => IsWrong(k, t)
                 /\ reports'[k].tests[t] = "passed" => ~IsWrong(k, t)
      <4>1. CASE k = n
        BY <2>2, <2>4, <3>1, <4>1
      <4>2. CASE k # n
        <5>1. k \in DOMAIN reports /\ reports'[k] = reports[k]
          BY <2>3, <2>4, <4>2
        <5> QED
          BY <1>0, <3>1, <5>1 DEF LinesAreAboutTheirTests, IsWrong, Listed
      <4> QED
        BY <4>1, <4>2
    <3>2. problem' = problem /\ wrong' = wrong /\ DOMAIN reports' = 1..n
      BY <2>1, <2>4
    <3> HIDE DEF n
    <3> QED
      BY <3>1, <3>2 DEF LinesAreAboutTheirTests, IsWrong, Listed
  <2> QED
    BY <1>1, <2>7, <2>8, <2>9, <2>10, <2>11 DEF SolveIInv
<1> QED
  BY <1>2, <1>3

-----------------------------------------------------------------------------
(* The invariant holds initially, and every step preserves it.             *)

LEMMA SolveInitInv == Init => SolveIInv
<1> SUFFICES ASSUME Init PROVE SolveIInv
  OBVIOUS
<1>1. /\ pc = "main" /\ problem = NoProblem /\ wrong = {} /\ reports = <<>>
  BY DEF Init
<1>2. Len(reports) = 0 /\ DOMAIN reports = {} /\ reports \in Seq(Reports)
  BY <1>1
<1>3. SolveTypeOK
  BY <1>1, <1>2, NoProblemIsOne DEF SolveTypeOK
<1>4. PairsMatch
  BY <1>1, NoProblemIsOne, ProblemLists DEF PairsMatch
<1>5. TestsReported
  BY <1>2 DEF TestsReported
<1>6. CallOfTest
  BY <1>1 DEF CallOfTest
<1>7. GapsExplained
  BY <1>2 DEF GapsExplained
<1>8. LinesAreAboutTheirTests
  BY <1>2 DEF LinesAreAboutTheirTests
<1> QED
  BY <1>3, <1>4, <1>5, <1>6, <1>7, <1>8 DEF SolveIInv

LEMMA SolveStutter == SolveIInv /\ UNCHANGED vars => SolveIInv'
<1> SUFFICES ASSUME SolveIInv, UNCHANGED vars PROVE SolveIInv'
  OBVIOUS
<1>1. UNCHANGED <<pc, problemVars, reports>> /\ UNCHANGED testVars
  BY DEF vars
<1>2. CallOfTest'
  BY <1>1 DEF SolveIInv, CallOfTest, Passes, Stdout, solution, problemVars, testVars, MayFail
<1> QED
  BY <1>1, <1>2, OutsideOfCall DEF SolveIInv

LEMMA MainPreserves ==
  ASSUME SolveIInv, Main
  PROVE  SolveIInv'
<1>1. /\ pc = "main" /\ pc' \in {"find", "end"} /\ reports = <<>>
      /\ UNCHANGED <<problem, wrong, inputs, outputs, reports>>
  BY DEF Main, problemVars, SolveIInv, PairsMatch
<1> USE DEF SolveIInv
<1>2. SolveTypeOK' /\ PairsMatch' /\ TestsReported'
  BY <1>1 DEF SolveTypeOK, PairsMatch, TestsReported
<1>3. GapsExplained' /\ LinesAreAboutTheirTests' /\ CallOfTest'
  BY <1>1 DEF GapsExplained, LinesAreAboutTheirTests, CallOfTest
<1> QED
  BY <1>2, <1>3

\* Nothing was reported yet when the problem is found.
LEMMA FindPreserves ==
  ASSUME SolveIInv, FindGregorAndCryptography
  PROVE  SolveIInv'
<1>1. pc = "find" /\ reports' = reports /\ reports = <<>>
  BY DEF FindGregorAndCryptography, SolveIInv, PairsMatch
<1>2. DOMAIN reports' = {} /\ Len(reports') = 0
  BY <1>1
<1>3. pc' \in {"call", "end"}
  BY DEF FindGregorAndCryptography
<1>4. TestsReported' /\ GapsExplained' /\ LinesAreAboutTheirTests' /\ CallOfTest'
  BY <1>1, <1>2, <1>3
     DEF SolveIInv, TestsReported, GapsExplained, LinesAreAboutTheirTests, CallOfTest
<1>5. CASE pc' = "end" /\ UNCHANGED problemVars
  <2>1. SolveTypeOK' /\ PairsMatch'
    BY <1>1, <1>5 DEF SolveIInv, SolveTypeOK, PairsMatch, problemVars
  <2> QED
    BY <1>4, <2>1 DEF SolveIInv
<1>6. CASE /\ problem' \in Problems
           /\ wrong' \in SUBSET UNION {{problem'[kind][i] : i \in DOMAIN problem'[kind]} :
                                          kind \in Lists}
           /\ inputs' = GetInputs(problem')
           /\ outputs' = GetOutputs(problem')
           /\ pc' = "call"
  <2>1. \A kind \in Lists : problem'[kind] \in Seq(ListedTests)
    BY <1>6, ProblemLists
  <2>2. \A kind \in Lists : \A i \in DOMAIN problem'[kind] : problem'[kind][i] \in ListedTests
    BY <2>1, LenProperties, ElementOfSeq
  <2>3. wrong' \subseteq ListedTests
    BY <1>6, <2>2
  <2>4. inputs' = Resize(Listed', max_size) /\ outputs' = Resize(Listed', max_size)
    BY <1>6 DEF GetInputs, GetOutputs, Listed
  <2>5. Listed' \in Seq(ListedTests)
    BY <2>1 DEF Listed, Lists
  <2>6. Resize(Listed', max_size) \in [1..max_size -> Pair]
    BY <2>5, ResizeFacts
  <2>7. SolveTypeOK'
    BY <1>2, <1>6, <2>3, <2>4, <2>6 DEF SolveTypeOK, ListedTests
  <2>8. PairsMatch'
    <3>1. Resize(Listed, max_size)' = Resize(Listed', max_size)
      BY DEF Resize
    <3> QED
      BY <1>2, <1>6, <2>1, <2>4, <3>1 DEF PairsMatch
  <2> QED
    BY <1>4, <2>7, <2>8 DEF SolveIInv
<1> QED
  BY <1>5, <1>6 DEF FindGregorAndCryptography

LEMMA CallTestPreserves ==
  ASSUME SolveIInv, CallTest
  PROVE  SolveIInv'
<1>1. /\ pc = "call" /\ pc' = "testing"
      /\ checking' = (outputs # <<>>) /\ stop' = TRUE /\ answer' = "none"
      /\ verdict' = [t \in Test!Tests |-> "waiting"]
      /\ UNCHANGED <<problem, wrong, inputs, outputs, reports>>
  BY DEF CallTest, problemVars
<1>2. outputs # <<>>
  <2>1. Listed \in Seq(ListedTests)
    BY ListedIsSeq DEF SolveIInv, PairsMatch
  <2> QED
    BY <1>1, <2>1, ResizeFacts DEF SolveIInv, PairsMatch
<1>3. checking' = TRUE
  BY <1>1, <1>2
<1>4. SolveTypeOK' /\ PairsMatch' /\ TestsReported'
  BY <1>1 DEF SolveIInv, SolveTypeOK, PairsMatch, TestsReported, Listed
<1>5. GapsExplained' /\ LinesAreAboutTheirTests'
  BY <1>1 DEF SolveIInv, GapsExplained, LinesAreAboutTheirTests
<1>6. CallOfTest'
  <2>1. MayFail' = {}
    BY <1>1 DEF MayFail
  <2>2. Cardinality(MayFail') = 0
    BY <2>1, FS_EmptySet, Zenon
  <2>3. \A t \in Test!Tests : verdict'[t] = "waiting"
    BY <1>1
  <2> QED
    BY <1>1, <1>3, <2>2, <2>3 DEF CallOfTest
<1> QED
  BY <1>4, <1>5, <1>6 DEF SolveIInv

LEMMA SolveStep == SolveIInv /\ [Next \/ Idle]_vars => SolveIInv'
<1> SUFFICES ASSUME SolveIInv, [Next \/ Idle]_vars PROVE SolveIInv'
  OBVIOUS
<1> QED
  BY MainPreserves, FindPreserves, CallTestPreserves, TestDeclinesPreserves,
     TestGoesOnPreserves, ReportPreserves, SolveStutter DEF Next, Idle

-----------------------------------------------------------------------------
(* The theorems.                                                           *)

\* Whatever the problem and the verdicts are, the inductive invariant holds.
THEOREM SolveInvariant == Spec => []SolveIInv
<1> QED
  BY SolveInitInv, SolveStep, PTL DEF Spec

\* The example keeps its type.
THEOREM SolveTypes == Spec => []SolveTypeOK
<1>1. SolveIInv => SolveTypeOK
  BY DEF SolveIInv
<1> QED
  BY <1>1, SolveInvariant, PTL

\* A report in which a test did not run shows a failure, and no report shows more
\* failures than there are threads (solve_example.cc lines 166-168).
THEOREM GapsExplainedHolds == Spec => []GapsExplained
<1>1. SolveIInv => GapsExplained
  BY DEF SolveIInv
<1> QED
  BY <1>1, SolveInvariant, PTL

\* The line of a test is about the test of the problem that has this number
\* (solve_example.cc lines 79-129).
THEOREM LinesAreAboutTheirTestsHolds == Spec => []LinesAreAboutTheirTests
<1>1. SolveIInv => LinesAreAboutTheirTests
  BY DEF SolveIInv
<1> QED
  BY <1>1, SolveInvariant, PTL

\* "The good solution passes all tests" when it was tested to the end
\* (solve_example.cc line 177): a line of it that says "failed" would be about a test
\* that it gets wrong, and without one no line says that its test did not run.
THEOREM GoodPassesAllHolds == Spec => []GoodPassesAll
<1>1. SolveIInv => GoodPassesAll
  <2> SUFFICES ASSUME SolveIInv, Len(reports) = 3, reports[3].compilation = "succeeded"
               PROVE  \A t \in 1..max_size : reports[3].tests[t] = "passed"
    BY DEF GoodPassesAll
  <2> DEFINE lines == reports[3].tests
  <2>1. 3 \in DOMAIN reports
    BY LenProperties DEF SolveIInv, TestsReported
  <2>2. lines \in [1..max_size -> Lines]
    BY <2>1 DEF SolveIInv, TestsReported
  <2>3. Solutions[3] # "bad"
    BY DEF Solutions
  <2>4. \A t \in 1..max_size : lines[t] # "failed"
    BY <2>1, <2>2, <2>3 DEF SolveIInv, LinesAreAboutTheirTests
  <2>5. \A t \in 1..max_size : lines[t] # "did not run"
    BY <2>1, <2>2, <2>4 DEF SolveIInv, GapsExplained
  <2> QED
    BY <2>2, <2>4, <2>5 DEF Lines
<1> QED
  BY <1>1, SolveInvariant, PTL
=============================================================================
