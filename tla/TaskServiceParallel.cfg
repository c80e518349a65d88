\* One slot: the function of a task that timed out goes on beside the next task.
SPECIFICATION Spec
CONSTANTS
  t1 = t1
  t2 = t2
  Tasks = {t1, t2}
  NoRental = NoRental
  MaxRetries <- One
  RetryOnTimeout <- No
  HasTimeout <- Yes
  HasStartupTimeout <- Yes
  MaxPoolSize = 1
  MaxParallelTasks = 1
  AcquireErrors <- NoErrors
  DeployErrors <- NoErrors
  FunctionErrors <- NoErrors
  ThrowingListeners <- NobodyThrows
  PoolRejects = FALSE
INVARIANT RunningIsBounded
CHECK_DEADLOCK FALSE
