\* Two simulations, a crash and a failing Machines API, with and without a later visitor.
CONSTANTS
  t1 = t1
  t2 = t2
  Tasks <- TwoTasks
  IdleLimit = 2
  Visibility = 3
  Prefetch = 1
  MaxCrashes = 1
  ApiMayFail = TRUE
  Later = {TRUE, FALSE}
SPECIFICATION WorkerFairSpec
INVARIANTS WorkerTypeOK RunsAgainOnlyAfterCrash
PROPERTIES IdleWorkerStops QueuedTaskRuns
CHECK_DEADLOCK FALSE
