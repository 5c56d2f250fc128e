\* A call of Test with num_threads = 0.
CONSTANTS
  NumTasks = 1
  NumThreads = 0
  RunStatuses = {"kSuccess"}
SPECIFICATION FairSpec
INVARIANTS
  OkMeansEvaluated
