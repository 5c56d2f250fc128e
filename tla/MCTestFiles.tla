----------------------------- MODULE MCTestFiles -----------------------------
(* Model checking of Compilation and TestFiles together.                   *)
EXTENDS TestFiles

CONSTANTS c1, c2    (* the calls                                            *)
=============================================================================
