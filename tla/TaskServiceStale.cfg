\* Two tasks, two slots, timeouts are retried (stale attempts) and the pool may
\* refuse to take a rental back.
\* The system may stop: every task is done, or the service has ended.
SPECIFICATION Spec
CONSTANTS
  t1 = t1
  t2 = t2
  Tasks = {t1, t2}
  NoRental = NoRental
  MaxRetries <- One
  RetryOnTimeout <- Yes
  HasTimeout <- Yes
  HasStartupTimeout <- Yes
  MaxPoolSize = 2
  MaxParallelTasks = 2
  AcquireErrors <- NoErrors
  DeployErrors <- WorkErrors
  FunctionErrors <- UserErrors
  ThrowingListeners <- BothThrow
  PoolRejects = TRUE
INVARIANTS
  ActiveCountIsExact
  QueueIsSound
  TimersFollowState
PROPERTIES
  FinishedIsFinal
  ImplementsScheduler
CHECK_DEADLOCK FALSE
