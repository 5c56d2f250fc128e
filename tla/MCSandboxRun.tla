---------------------------- MODULE MCSandboxRun ----------------------------
(* Model checking of SandboxRun; the cfgs give the constants their values.  *)
EXTENDS SandboxRun
=============================================================================
