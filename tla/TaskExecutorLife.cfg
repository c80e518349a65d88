\* Two tasks, two callers of shutdown(), signals, critical errors and failures;
\* listeners of "executorEnd" may throw.
\* The system may stop: the executor is down, or init has failed.
SPECIFICATION FairSpec
CONSTANTS
  Tasks = {t1, t2}
  MaxRetries <- OneRetry
  MaxParallelTasks = 1
  MayLoseTasks = TRUE
  Callers = {c1, c2}
  InitIsAwaited = TRUE
  UserOptions <- TwoConfigs
  RunOptionsOf <- NothingPassed
  StepsMayFail = TRUE
  Listeners <- ThrowingLast
INVARIANTS
  TypeOK
  CleanTermination
  GoesDownOnce
  ShutdownMeansDown
PROPERTIES
  NoTaskBegunOnDrainedPool
  CriticalErrorStopsAll
CHECK_DEADLOCK FALSE
