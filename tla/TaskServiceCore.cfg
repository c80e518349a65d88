\* Three tasks on one slot, startup timeouts, one task with a timeout as well;
\* timeouts are final, and two of the tasks are retried when they fail.
\* The system may stop: every task is done, or the service has ended.
SPECIFICATION Spec
CONSTANTS
  t1 = t1
  t2 = t2
  Tasks = {t1, t2, t3}
  NoRental = NoRental
  MaxRetries <- OneForTwo
  RetryOnTimeout <- No
  HasTimeout <- Mixed
  HasStartupTimeout <- Yes
  MaxPoolSize = 2
  MaxParallelTasks = 1
  AcquireErrors <- WorkErrors
  DeployErrors <- WorkErrors
  FunctionErrors <- UserErrors
  ThrowingListeners <- StartedThrows
  PoolRejects = FALSE
INVARIANTS
  TypeOK
  NoTaskIsLost
  NoStaleAttempt
  RentalIsExclusive
  CompletedMeansReturned
  UncutRunningIsBounded
CHECK_DEADLOCK FALSE
