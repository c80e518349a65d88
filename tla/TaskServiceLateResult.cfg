\* Timeouts are retried: two attempts of one task run at the same time.
SPECIFICATION Spec
CONSTANTS
  t1 = t1
  t2 = t2
  Tasks = {t1, t2}
  NoRental = NoRental
  MaxRetries <- One
  RetryOnTimeout <- Yes
  HasTimeout <- Yes
  HasStartupTimeout <- Yes
  MaxPoolSize = 1
  MaxParallelTasks = 1
  AcquireErrors <- NoErrors
  DeployErrors <- NoErrors
  FunctionErrors <- NoErrors
  ThrowingListeners <- NobodyThrows
  PoolRejects = FALSE
INVARIANT CompletedWhereItRan
CHECK_DEADLOCK FALSE
