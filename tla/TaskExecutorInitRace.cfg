\* shutdown() is called while init() is under way.
SPECIFICATION Spec
CONSTANTS
  Tasks = {t1, t2}
  MaxRetries <- OneRetry
  MaxParallelTasks = 1
  MayLoseTasks = FALSE
  Callers = {c1, c2}
  InitIsAwaited = FALSE
  UserOptions <- EverythingOn
  RunOptionsOf <- NothingPassed
  StepsMayFail = FALSE
  Listeners <- Quietly
PROPERTY StaysDown
CHECK_DEADLOCK FALSE
