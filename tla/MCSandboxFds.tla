---------------------------- MODULE MCSandboxFds ----------------------------
(* Model checking of SandboxFds; the cfgs give the constants their values. *)
EXTENDS SandboxFds
=============================================================================
