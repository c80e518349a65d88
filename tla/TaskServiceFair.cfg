\* Two tasks, one slot, both timeouts, retried for t1 only, functions that throw
\* anything: the service tells its story, makes progress and implements the
\* scheduler.
\* The system may stop: every task is done, or the service has ended.
SPECIFICATION FairSpec
CONSTANTS
  t1 = t1
  t2 = t2
  Tasks = {t1, t2}
  NoRental = NoRental
  MaxRetries <- One
  RetryOnTimeout <- Mixed
  HasTimeout <- Yes
  HasStartupTimeout <- Yes
  MaxPoolSize = 1
  MaxParallelTasks = 1
  AcquireErrors <- NoErrors
  DeployErrors <- WorkErrors
  FunctionErrors <- AnyError
  ThrowingListeners <- StartedThrows
  PoolRejects = FALSE
INVARIANTS
  RetriesAgree
  EventsTellTheStory
  FinalTimeoutsCreditTruly
  OnlyUnstartedAttemptsLeak
  NoTaskIsStuck
PROPERTIES
  EveryTaskIsReported
  ImplementsFairScheduler
CHECK_DEADLOCK FALSE
