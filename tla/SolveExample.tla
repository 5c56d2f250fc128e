---------------------------- MODULE SolveExample ----------------------------
(***************************************************************************)
(* The caller of TesterSandboxer::Test in execution/solve_example.cc: it   *)
(* finds a problem, pairs the inputs of its tests with their outputs, has  *)
(* three solutions tested one after the other, and reports each result.    *)
(* Test is represented by what it promises, TestContract; which tests pass *)
(* follows from the pairs and from what the solutions print.               *)
(*                                                                         *)
(* A test of the problem is its list and its place there; its input and    *)
(* its output are known by the test they belong to.                        *)
(***************************************************************************)
EXTENDS Integers, FiniteSets, Sequences

CONSTANTS
  max_size,      (* how many tests GetInputs and GetOutputs return         *)
  num_threads,   (* options.num_threads                                    *)
  MaxListed      (* bound on the length of a list of tests in the problem  *)

ASSUME SizesAssumption ==
  max_size \in Nat \ {0} /\ num_threads \in Nat \ {0} /\ MaxListed \in Nat

VARIABLES
  pc,        (* main, find, call, testing, end                             *)
  problem,   (* gregor_and_cryptography: its three lists of tests          *)
  wrong,     (* the tests that the bad solution gets wrong                 *)
  inputs,
  outputs,
  reports,   (* what ReportResults printed, a report for each call         *)
  checking, stop, verdict, answer    (* the call of Test, as TestContract  *)

problemVars == <<problem, wrong, inputs, outputs>>
testVars == <<checking, stop, verdict, answer>>
vars == <<pc, problemVars, reports, testVars>>

Test == INSTANCE TestContract WITH NumTasks <- max_size, NumThreads <- num_threads

\* An empty string, as an input or an output, and an output of no test.
Empty == <<"empty", 0>>
Other == <<"other", 0>>

Lists == {"public_tests", "private_tests", "generated_tests"}
List(kind, n) == [i \in 1..n |-> <<kind, i>>]
Problems == {[kind \in Lists |-> List(kind, size[kind])] : size \in [Lists -> 0..MaxListed]}
NoProblem == [kind \in Lists |-> <<>>]

-----------------------------------------------------------------------------
(* The pairs.                                                              *)

Resize(s, n) == [i \in 1..n |-> IF i <= Len(s) THEN s[i] ELSE Empty]

\* As GetInputs, without resize.
GetInputsNotResized(p) == p["public_tests"] \o p["private_tests"] \o p["generated_tests"]

\* As GetInputs, without the private tests.
GetInputsWithoutPrivate(p) == Resize(p["public_tests"] \o p["generated_tests"], max_size)

GetInputs(p) ==
  Resize(p["public_tests"] \o p["private_tests"] \o p["generated_tests"], max_size)

\* As GetOutputs, with the lists in another order.
GetOutputsReordered(p) ==
  Resize(p["public_tests"] \o p["generated_tests"] \o p["private_tests"], max_size)

GetOutputs(p) ==
  Resize(p["public_tests"] \o p["private_tests"] \o p["generated_tests"], max_size)

-----------------------------------------------------------------------------
(* The solutions.                                                          *)

Solutions == <<"invalid", "bad", "good">>
solution == Solutions[Len(reports) + 1]

\* Both programs raise on an empty input before they print anything.
Stdout(input) == IF solution = "bad" /\ input \in wrong THEN Other ELSE input

Passes(t) == Stdout(inputs[t]) = outputs[t]

-----------------------------------------------------------------------------
(* main and SolveGregorAndCryptography.                                    *)

Init ==
  /\ pc = "main"
  /\ problem = NoProblem
  /\ wrong = {}
  /\ inputs = <<>>
  /\ outputs = <<>>
  /\ reports = <<>>
  /\ checking = TRUE
  /\ stop = TRUE
  /\ verdict = [t \in Test!Tests |-> "waiting"]
  /\ answer = "none"

\* Without a path there is nothing to solve.
Main ==
  /\ pc = "main"
  /\ pc' \in {"find", "end"}
  /\ UNCHANGED <<problemVars, reports, testVars>>

\* The records are read up to the problem; there may be none of this name.
FindGregorAndCryptography ==
  /\ pc = "find"
  /\ \/ /\ problem' \in Problems
        /\ wrong' \in SUBSET UNION {{problem'[kind][i] : i \in DOMAIN problem'[kind]} :
                                      kind \in Lists}
        /\ inputs' = GetInputs(problem')
        /\ outputs' = GetOutputs(problem')
        /\ pc' = "call"
     \/ pc' = "end" /\ UNCHANGED problemVars
  /\ UNCHANGED <<reports, testVars>>

CallTest ==
  /\ pc = "call"
  /\ pc' = "testing"
  /\ checking' = (outputs # <<>>)
  /\ stop' = TRUE
  /\ verdict' = [t \in Test!Tests |-> "waiting"]
  /\ answer' = "none"
  /\ UNCHANGED <<problemVars, reports>>

BadArguments == Len(inputs) # Len(outputs) \/ ~checking

\* Test ends before it opens a test.
TestDeclines ==
  /\ pc = "testing"
  /\ Test!Decline
  /\ (answer' = "InvalidArgument") <=> BadArguments
  /\ UNCHANGED <<pc, problemVars, reports>>

\* Test goes on, with a solution that compiles.
TestGoesOn ==
  /\ pc = "testing"
  /\ ~BadArguments
  /\ solution # "invalid"
  /\ \/ \E t \in Test!Tests :
          \/ Test!Open(t)
          \/ Test!Close(t) /\ verdict'[t] \in {"error", IF Passes(t) THEN "passed" ELSE "failed"}
          \/ Test!Drop(t)
     \/ Test!Answer
  /\ UNCHANGED <<pc, problemVars, reports>>

\* As ReportResults, for a failure whenever a test did not pass.
ReportResultsTwoWays ==
  [compilation |-> IF answer = "Ok" THEN "succeeded" ELSE "failed",
   tests |-> IF answer # "Ok" THEN <<>>
             ELSE [t \in Test!Tests |-> IF verdict[t] = "passed" THEN "passed" ELSE "failed"]]

\* Without a verdict the result of a test is a default-constructed one.
ReportResults ==
  [compilation |-> IF answer = "Ok" THEN "succeeded" ELSE "failed",
   tests |-> IF answer # "Ok" THEN <<>>
             ELSE [t \in Test!Tests |-> IF verdict[t] \in {"passed", "failed"}
                                          THEN verdict[t] ELSE "did not run"]]

\* ASSIGN_OR_RETURN: after an error nothing more is tested or reported.
Report ==
  /\ pc = "testing"
  /\ answer # "none"
  /\ IF answer \in {"Ok", "NotCompiled"}
       THEN /\ reports' = Append(reports, ReportResults)
            /\ pc' = IF Len(reports') < Len(Solutions) THEN "call" ELSE "end"
       ELSE pc' = "end" /\ UNCHANGED reports
  /\ UNCHANGED <<problemVars, testVars>>

Next ==
  \/ Main \/ FindGregorAndCryptography \/ CallTest
  \/ TestDeclines \/ TestGoesOn \/ Report

\* main has returned.
Idle == pc = "end" /\ UNCHANGED vars

Spec == Init /\ [][Next \/ Idle]_vars

-----------------------------------------------------------------------------
(* Properties.                                                             *)

Pair == {Empty} \cup (Lists \X (1..MaxListed))

\* The type invariant of the example.
SolveTypeOK ==
  /\ pc \in {"main", "find", "call", "testing", "end"}
  /\ problem \in Problems
  /\ wrong \subseteq Lists \X (1..MaxListed)
  /\ pc \in {"call", "testing"} =>
       inputs \in [1..max_size -> Pair] /\ outputs \in [1..max_size -> Pair]
  /\ \A k \in DOMAIN reports :
       /\ reports[k].compilation \in {"succeeded", "failed"}
       /\ reports[k].tests \in
            {<<>>} \cup [1..max_size -> {"passed", "failed", "did not run"}]
  /\ Len(reports) <= 3

\* "The good solution passes all tests" (solve_example.cc line 177): also when the
\* problem has fewer tests than are asked for and the lists are padded with empty
\* strings, or has more and they are cut, an input meets its own output, and a good
\* program that was tested to the end has passed.
GoodPassesAll ==
  Len(reports) = 3 /\ reports[3].compilation = "succeeded" =>
    \A t \in 1..max_size : reports[3].tests[t] = "passed"

\* "We stop once we see a failure ... it's possible that more than one failure
\* occurs before all threads stop" (solve_example.cc lines 166-168): a report in which
\* a test did not run shows a failure, and no report shows more failures than
\* there are threads.
GapsExplained ==
  \A k \in DOMAIN reports :
    LET Shown(line) == {t \in DOMAIN reports[k].tests : reports[k].tests[t] = line} IN
    /\ Shown("did not run") # {} => Shown("failed") # {}
    /\ Cardinality(Shown("failed")) <= num_threads

\* The line of a test says what the program did on that test of the problem, by
\* its number: a failure is one of the tests that the bad solution gets wrong, and
\* never one that was added by resize (solve_example.cc lines 79-129).
LinesAreAboutTheirTests ==
  \A k \in DOMAIN reports : \A t \in DOMAIN reports[k].tests :
    LET listed == problem["public_tests"] \o problem["private_tests"]
                    \o problem["generated_tests"]
        isWrong == Solutions[k] = "bad" /\ t <= Len(listed) /\ listed[t] \in wrong
    IN /\ reports[k].tests[t] = "failed" => isWrong
       /\ reports[k].tests[t] = "passed" => ~isWrong
=============================================================================
