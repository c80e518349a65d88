--------------------------- MODULE MCTaskExecutor ---------------------------
(***************************************************************************)
(* Instances of TaskExecutor for TLC.  The constants of the scheduler are  *)
(* what the options of the user yield.                                     *)
(***************************************************************************)
EXTENDS TaskExecutorProperties

OneRetry == [t \in Tasks |-> 1]

(* One task at a time, and one retry.                                      *)
OneOfEach == [NoOptions EXCEPT !.maxParallelTasks = {1}, !.maxTaskRetries = {1}]

AllOn == [OneOfEach EXCEPT !.vpn = {TRUE}, !.startupTimeout = {60}]
SignalsSkipped == [OneOfEach EXCEPT !.skipProcessSignals = {TRUE},
                                    !.startupTimeout = {0}]

EverythingOn == {AllOn}
TwoConfigs == {AllOn, SignalsSkipped}
NoVpn == {[AllOn EXCEPT !.vpn = {}]}

NothingPassed == [t \in Tasks |-> NoRunOptions]

(* One task overrides the number of retries with one that is refused.      *)
OneIsRefused ==
  [t \in Tasks |-> IF t = CHOOSE u \in Tasks : TRUE
                     THEN [NoRunOptions EXCEPT !.maxRetries = {-1}]
                     ELSE NoRunOptions]

Quietly == {}
ThrowingLast == {"throwEnd"}
Reentrant == {"shutdown"}
Anything == {"shutdown", "throw", "throwReady", "throwQueued", "throwCritical",
             "throwEnd"}

ASSUME OptionsYieldConstants ==
  \A o \in UserOptions :
    /\ Config(o).maxParallelTasks = MaxParallelTasks
    /\ \A t \in Tasks :
         LET task == TaskOptions(Config(o), RunOptionsOf[t]) IN
           TaskIsRefused(task) \/ task.maxRetries = MaxRetries[t]
=============================================================================
