---------------------------- MODULE MCThreadPool ----------------------------
(* Model checking of ThreadPool; the cfg gives the constants their values. *)
EXTENDS ThreadPool
=============================================================================
