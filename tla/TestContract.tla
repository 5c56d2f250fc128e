---------------------------- MODULE TestContract ----------------------------
(***************************************************************************)
(* What a caller of TesterSandboxer::Test relies on.  Every test is opened *)
(* at most once and closed with a verdict; no more than NumThreads tests   *)
(* are open at a time; as soon as a test could not be run, or failed while *)
(* stop_on_first_failure is set, no further test is opened; and the answer *)
(* is given when no test is open, with an error exactly when some test     *)
(* could not be run.  No pool, retry or lock appears here.                 *)
(***************************************************************************)
EXTENDS Integers, FiniteSets

CONSTANTS NumTasks, NumThreads

VARIABLES checking,   (* whether outputs are compared                       *)
          stop,       (* whether to stop on the first failure               *)
          verdict,    (* what is known of each test                         *)
          answer      (* what the caller was told                           *)

vars == <<checking, stop, verdict, answer>>

Tests == 1..NumTasks
With(v) == {t \in Tests : verdict[t] = v}

Halted == With("error") # {} \/ (stop /\ With("failed") # {})

Init ==
  /\ checking \in BOOLEAN
  /\ stop \in BOOLEAN
  /\ verdict = [t \in Tests |-> "waiting"]
  /\ answer = "none"

\* The call ends before any test is opened.
Decline ==
  /\ answer = "none"
  /\ \A t \in Tests : verdict[t] = "waiting"
  /\ answer' \in {"InvalidArgument", "NotCompiled", "Error"}
  /\ UNCHANGED <<checking, stop, verdict>>

Open(t) ==
  /\ answer = "none"
  /\ verdict[t] = "waiting"
  /\ ~Halted
  /\ Cardinality(With("open")) < NumThreads
  /\ verdict' = [verdict EXCEPT ![t] = "open"]
  /\ UNCHANGED <<checking, stop, answer>>

Close(t) ==
  /\ verdict[t] = "open"
  /\ \E v \in {"error"} \cup (IF checking THEN {"passed", "failed"} ELSE {"ran"}) :
       verdict' = [verdict EXCEPT ![t] = v]
  /\ UNCHANGED <<checking, stop, answer>>

\* A test that was not started, or would have to be run again, is given up.
Drop(t) ==
  /\ verdict[t] \in {"waiting", "open"}
  /\ Halted
  /\ verdict' = [verdict EXCEPT ![t] = "dropped"]
  /\ UNCHANGED <<checking, stop, answer>>

Answer ==
  /\ answer = "none"
  /\ With("waiting") \cup With("open") = {}
  /\ answer' = IF With("error") = {} THEN "Ok" ELSE "Error"
  /\ UNCHANGED <<checking, stop, verdict>>

Next == Decline \/ Answer \/ \E t \in Tests : Open(t) \/ Close(t) \/ Drop(t)

Spec == Init /\ [][Next]_vars
=============================================================================
