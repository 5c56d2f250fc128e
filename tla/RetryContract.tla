--------------------------- MODULE RetryContract ----------------------------
(***************************************************************************)
(* What the callers of RetryIfFail rely on: a function is called until it  *)
(* returns a result, is cancelled, or has returned an error MaxAttempts    *)
(* times; then its last return value is the outcome, for good.  What the   *)
(* function does, how long it takes and what else goes on is not said.     *)
(***************************************************************************)
EXTENDS Integers

CONSTANTS Retried,       (* the calls of RetryIfFail                        *)
          MaxAttempts

VARIABLES errors,        (* the errors that each call has seen              *)
          outcome        (* what it has returned, or "none"                 *)

vars == <<errors, outcome>>

Init ==
  /\ errors = [r \in Retried |-> 0]
  /\ outcome = [r \in Retried |-> "none"]

Settle(r) ==
  /\ outcome[r] = "none"
  /\ \E o \in {"Ok", "Cancelled"} : outcome' = [outcome EXCEPT ![r] = o]
  /\ UNCHANGED errors

Err(r) ==
  /\ outcome[r] = "none"
  /\ errors' = [errors EXCEPT ![r] = @ + 1]
  /\ outcome' = [outcome EXCEPT ![r] = IF errors'[r] = MaxAttempts THEN "Error" ELSE "none"]

Next == \E r \in Retried : Settle(r) \/ Err(r)

Spec == Init /\ [][Next]_vars
=============================================================================
