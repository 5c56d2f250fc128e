---------------------------- MODULE TaskService ----------------------------
(***************************************************************************)
(* What a client of ThreadPool relies on: functions handed to the pool are *)
(* begun in the order they were handed over, each is executed exactly     *)
(* once, no more than NumThreads of them at a time, and the scope that     *)
(* holds the pool is left only when every one of them has returned.        *)
(* There is no queue, no thread and no shutdown signal here.               *)
(***************************************************************************)
EXTENDS Integers, FiniteSets

CONSTANTS NumTasks,    (* how many functions may be handed over           *)
          NumThreads   (* the num_threads of the pool                     *)

VARIABLES scheduled,   (* functions 1..scheduled have been handed over    *)
          begun,       (* functions 1..begun have been begun              *)
          running,     (* the functions that have not returned yet        *)
          done,        (* the functions that have returned                *)
          closed       (* the scope that holds the pool has been left     *)

vars == <<scheduled, begun, running, done, closed>>

Init ==
  /\ scheduled = 0
  /\ begun = 0
  /\ running = {}
  /\ done = {}
  /\ closed = FALSE

Accept ==
  /\ ~closed
  /\ scheduled < NumTasks
  /\ scheduled' = scheduled + 1
  /\ UNCHANGED <<begun, running, done, closed>>

Begin ==
  /\ ~closed
  /\ begun < scheduled
  /\ Cardinality(running) < NumThreads
  /\ begun' = begun + 1
  /\ running' = running \cup {begun + 1}
  /\ UNCHANGED <<scheduled, done, closed>>

End(t) ==
  /\ t \in running
  /\ running' = running \ {t}
  /\ done' = done \cup {t}
  /\ UNCHANGED <<scheduled, begun, closed>>

Close ==
  /\ ~closed
  /\ begun = scheduled
  /\ running = {}
  /\ closed' = TRUE
  /\ UNCHANGED <<scheduled, begun, running, done>>

Next == Accept \/ Begin \/ (\E t \in 1..NumTasks : End(t)) \/ Close

Spec == Init /\ [][Next]_vars
=============================================================================
