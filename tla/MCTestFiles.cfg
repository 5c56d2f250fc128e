\* Two calls that may draw the same name, with two tests each.  A call stops when
\* its tests have run, and all do when the process is aborted.
CONSTANTS
  c1 = c1
  c2 = c2
  Calls = {c1, c2}
  Names = {"n1", "n2"}
  Tests = {1, 2}
SPECIFICATION TestSpec
INVARIANTS
  CompilationTypeOK
  ByteCodeIsOwn
  GivenUpForAReason
  TestFilesTypeOK
  TestsRunWhatWasCompiled
  NothingPersistsBetweenCalls
PROPERTIES
  RefinesRetries
CHECK_DEADLOCK FALSE
