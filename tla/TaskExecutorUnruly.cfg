\* Nobody waits for init(), listeners of every event throw, and those of
\* "executorBeforeEnd" call shutdown() themselves.
\* The system may stop: the executor is down, or init has failed.
SPECIFICATION FairSpec
CONSTANTS
  Tasks = {t1, t2}
  MaxRetries <- OneRetry
  MaxParallelTasks = 1
  MayLoseTasks = TRUE
  Callers = {c1, c2}
  InitIsAwaited = FALSE
  UserOptions <- NoVpn
  RunOptionsOf <- OneIsRefused
  StepsMayFail = TRUE
  Listeners <- Anything
INVARIANTS
  RunIsFaithful
  NobodyWaitsInVain
PROPERTY
  EveryCallSettles
CHECK_DEADLOCK FALSE
