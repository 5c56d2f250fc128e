--------------------------- MODULE MCSolveExample ---------------------------
(* Model checking of SolveExample; the cfg gives the constants their values. *)
EXTENDS SolveExample
=============================================================================
