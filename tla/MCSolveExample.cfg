\* Three tests on two threads, of a problem with none to six.
CONSTANTS
  max_size = 3
  num_threads = 2
  MaxListed = 2
SPECIFICATION Spec
INVARIANTS
  SolveTypeOK
  GoodPassesAll
  GapsExplained
  LinesAreAboutTheirTests
