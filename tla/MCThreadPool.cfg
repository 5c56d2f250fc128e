\* Three workers and four functions: more functions than workers, and a
\* destructor that is entered while work is still queued.
CONSTANTS
  NumTasks = 4
  NumThreads = 3
SPECIFICATION FairPool
INVARIANTS
  PoolTypeOK
  LeavesOnlyWhenDrained
  NoStrandedWorker
  GoneMeansDrained
PROPERTIES
  RefinesService
  EveryTaskReturns
  DestructionCompletes
