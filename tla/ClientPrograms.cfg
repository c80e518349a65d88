\* Every example, with at most three tasks and two at a time; any step of the
\* executor may fail, and signals come at any time.
\* The system may stop: the program is over.
SPECIFICATION FairClientSpec
CONSTANTS
  Programs <- Examples
  Tasks = {1, 2, 3}
  MaxRetries <- NoRetry
  MaxParallelTasks = 2
  MayLoseTasks = TRUE
  Callers <- OnlyMain
  InitIsAwaited = FALSE
  UserOptions <- OptionsOfPrograms
  RunOptionsOf <- NothingPassed
  StepsMayFail = TRUE
  Listeners <- Quietly
INVARIANTS
  ClientTypeOK
  LeavesNothingBehind
  FailsOnlyOutsideTasks
  EndsWithResults
PROPERTIES
  AwaitsTheExecutor
  SignalEndsProgram
CHECK_DEADLOCK FALSE
