\* A task function that outlives the shutdown.
SPECIFICATION Spec
CONSTANTS
  Tasks = {t1, t2}
  MaxRetries <- OneRetry
  MaxParallelTasks = 1
  MayLoseTasks = FALSE
  Callers = {c1, c2}
  InitIsAwaited = TRUE
  UserOptions <- EverythingOn
  RunOptionsOf <- NothingPassed
  StepsMayFail = FALSE
  Listeners <- Quietly
PROPERTY SilentAfterEnd
CHECK_DEADLOCK FALSE
