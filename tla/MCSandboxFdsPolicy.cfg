\* The instance of MCSandboxFds.cfg.
CONSTANTS
  s1 = s1
  s2 = s2
  Fds = {0, 1, 2, 3, 4}
  Slots = {s1, s2}
  MaxSandboxes = 2
SPECIFICATION Spec
PROPERTIES
  FailedAttemptsLeaveNothing
CHECK_DEADLOCK FALSE
