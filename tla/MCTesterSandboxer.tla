-------------------------- MODULE MCTesterSandboxer --------------------------
(* Model checking of TesterSandboxer; the cfgs give the constants values.  *)
EXTENDS TesterSandboxer
=============================================================================
