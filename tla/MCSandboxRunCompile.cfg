\* The instance of MCSandboxRun.cfg.
CONSTANTS
  Capacity = 2
  MaxOutput = 4
  Word = 256
  Interpreter = 128
  Second = 40
  MaxDuration = 200
SPECIFICATION FairSpec
PROPERTIES
  CompileReturns
CHECK_DEADLOCK FALSE
