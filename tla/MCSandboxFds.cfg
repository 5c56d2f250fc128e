\* Two sandboxes, two slots and five descriptors, every operation and error.
\* The system stops when both sandboxes were made and all objects are gone.
CONSTANTS
  s1 = s1
  s2 = s2
  Fds = {0, 1, 2, 3, 4}
  Slots = {s1, s2}
  MaxSandboxes = 2
SPECIFICATION Spec
INVARIANTS
  FdsTypeOK
  OwnDescriptors
  NoLeak
  SameAnswer
CHECK_DEADLOCK FALSE
