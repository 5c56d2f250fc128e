\* Three tests on two threads, all errors, retries and stops.
CONSTANTS
  NumTasks = 3
  NumThreads = 2
  RunStatuses = {"kSuccess"}
SPECIFICATION FairSpec
INVARIANTS
  TesterTypeOK
  OkMeansEvaluated
  FailuresBounded
  FewGaps
  ErrorIffExhausted
  CapturesStayAlive
PROPERTIES
  ResultsAreFinal
  RefinesContract
  TestReturns
  RefinesRetries
