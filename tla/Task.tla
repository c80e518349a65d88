-------------------------------- MODULE Task --------------------------------
(***************************************************************************)
(* The Task class (src/src/task.ts): the state machine of one computation  *)
(* unit, its two timers, its retry counter and its listeners.              *)
(*                                                                         *)
(* A task is executed by attempts.  The attempt <<t, k>> is the k-th run   *)
(* of TaskService.startTask for task t: a coroutine of its own, which may  *)
(* outlive the moment the task gives up on it (a timeout settles the task, *)
(* nothing stops the coroutine).                                           *)
(*                                                                         *)
(* The operators below are the methods of the class.  TaskService conjoins *)
(* them with what its own listeners do, so one TLA+ step is one            *)
(* synchronous run of the event loop, listeners included.                  *)
(***************************************************************************)
EXTENDS Integers

CONSTANTS
  Tasks,              \* the tasks a program may submit
  MaxRetries,         \* TaskOptions.maxRetries of each task
  RetryOnTimeout,     \* TaskOptions.retryOnTimeout of each task
  HasTimeout,         \* is TaskOptions.timeout a non-zero number?
  HasStartupTimeout,  \* is TaskOptions.startupTimeout a non-zero number?
  NoRental            \* an undefined ResourceRental

(* The retry bound is checked by the constructor of Task (task.ts:82).     *)
ASSUME TaskOptionsAssumption ==
  /\ MaxRetries \in [Tasks -> Nat]
  /\ RetryOnTimeout \in [Tasks -> BOOLEAN]
  /\ HasTimeout \in [Tasks -> BOOLEAN]
  /\ HasStartupTimeout \in [Tasks -> BOOLEAN]

(* Attempt numbers run from 1, one more than retriesCount when it begins.  *)
Attempts == UNION {{t} \X (1 .. MaxRetries[t] + 1) : t \in Tasks}

ASSUME NoRentalAssumption == NoRental \notin Attempts

(* A rental is named after the attempt it was first signed for.            *)
Rentals == Attempts

VARIABLES
  state,              \* Task.state, or "absent" before `new Task`
  retriesCount,       \* Task.retriesCount
  results,            \* the attempt whose value Task.results holds, or 0
  startupTimeoutId,   \* is the timer Task.startupTimeoutId armed?
  timeoutId,          \* is the timer Task.timeoutId armed?
  resourceRental,     \* Task.resourceRental
  listeners           \* Task.listeners: the attempts whose pair of closures
                      \* (the one of run(), then the one of startTask) is set

TaskState == {"new", "queued", "pending", "done", "retry", "rejected"}

(* What a rejected promise carries.  "undefined" is a rejection without a  *)
(* reason: Task.stop tests the error for truth (task.ts:132).              *)
Errors == {"GolemWorkError", "GolemTimeoutError", "other", "undefined"}

taskVars == <<state, retriesCount, results, startupTimeoutId, timeoutId,
              resourceRental>>

TaskInit ==
  /\ state = [t \in Tasks |-> "absent"]
  /\ retriesCount = [t \in Tasks |-> 0]
  /\ results = [t \in Tasks |-> 0]
  /\ startupTimeoutId = [t \in Tasks |-> FALSE]
  /\ timeoutId = [t \in Tasks |-> FALSE]
  /\ resourceRental = [t \in Tasks |-> NoRental]
  /\ listeners = [t \in Tasks |-> {}]

Queueable == {"new", "retry"}
Finished == {"done", "rejected"}
Failed == {"rejected", "retry"}

IsQueueable(t) == state[t] \in Queueable
IsFinished(t) == state[t] \in Finished
IsFailed(t) == state[t] \in Failed

(* The attempt a task is on, or will be on when it is taken off the queue. *)
Current(t) == <<t, retriesCount[t] + 1>>

-----------------------------------------------------------------------------
(* new Task(...)                                                           *)
NewTask(t) ==
  /\ state[t] = "absent"
  /\ state' = [state EXCEPT ![t] = "new"]
  /\ UNCHANGED <<retriesCount, results, startupTimeoutId, timeoutId,
                 resourceRental>>

(* Mutant of InitTask: no startup timer.                                   *)
InitTaskWithoutTimer(t) ==
  /\ state' = [state EXCEPT ![t] = "queued"]
  /\ UNCHANGED <<retriesCount, results, startupTimeoutId, timeoutId,
                 resourceRental>>

(* Task.init                                                               *)
InitTask(t) ==
  /\ state' = [state EXCEPT ![t] = "queued"]
  /\ startupTimeoutId' = [startupTimeoutId EXCEPT ![t] = HasStartupTimeout[t]]
  /\ UNCHANGED <<retriesCount, results, timeoutId, resourceRental>>

(* Mutant of StartTask: the startup timer is not cleared.                  *)
StartTaskKeepingTimer(t, rental) ==
  /\ state[t] = "queued"
  /\ state' = [state EXCEPT ![t] = "pending"]
  /\ timeoutId' = [timeoutId EXCEPT ![t] = HasTimeout[t]]
  /\ resourceRental' = [resourceRental EXCEPT ![t] = rental]
  /\ UNCHANGED <<retriesCount, results, startupTimeoutId>>

(* Task.start, called in the state it accepts.                             *)
StartTask(t, rental) ==
  /\ state[t] = "queued"
  /\ state' = [state EXCEPT ![t] = "pending"]
  /\ startupTimeoutId' = [startupTimeoutId EXCEPT ![t] = FALSE]
  /\ timeoutId' = [timeoutId EXCEPT ![t] = HasTimeout[t]]
  /\ resourceRental' = [resourceRental EXCEPT ![t] = rental]
  /\ UNCHANGED <<retriesCount, results>>

(* Mutant of StopIsIgnored: only a retry is ignored.                       *)
StopIgnoresRetriesOnly(t) == state[t] = "retry"

(* The early return of Task.stop.                                          *)
StopIsIgnored(t) == state[t] \in Finished \cup {"retry"}

(* Mutant of StopState: one retry too many.                                *)
StopStateOffByOne(t, error, retry) ==
  IF error = "undefined" THEN "done"
  ELSE IF retry /\ retriesCount[t] <= MaxRetries[t] THEN "retry"
  ELSE "rejected"

(* The state Task.stop moves to: an error retries while retries are left.  *)
StopState(t, error, retry) ==
  IF error = "undefined" THEN "done"
  ELSE IF retry /\ retriesCount[t] < MaxRetries[t] THEN "retry"
  ELSE "rejected"

(* Mutant of StopTask: the startup timer is not cleared.                   *)
StopTaskKeepingTimer(t, newState, value) ==
  /\ state' = [state EXCEPT ![t] = newState]
  /\ retriesCount' = [retriesCount EXCEPT
                        ![t] = IF newState = "retry" THEN @ + 1 ELSE @]
  /\ results' = [results EXCEPT ![t] = IF newState = "done" THEN value ELSE @]
  /\ timeoutId' = [timeoutId EXCEPT ![t] = FALSE]
  /\ UNCHANGED startupTimeoutId

(* The rest of Task.stop, which leaves resourceRental alone; `value` is    *)
(* the attempt that produced the results argument, 0 when it is undefined. *)
StopTask(t, newState, value) ==
  /\ state' = [state EXCEPT ![t] = newState]
  /\ retriesCount' = [retriesCount EXCEPT
                        ![t] = IF newState = "retry" THEN @ + 1 ELSE @]
  /\ results' = [results EXCEPT ![t] = IF newState = "done" THEN value ELSE @]
  /\ startupTimeoutId' = [startupTimeoutId EXCEPT ![t] = FALSE]
  /\ timeoutId' = [timeoutId EXCEPT ![t] = FALSE]

(* Task.onStateChange, for the pair of closures of attempt a.              *)
OnStateChange(a) ==
  listeners' = [listeners EXCEPT ![a[1]] = @ \cup {a}]

(* Mutant of Cleanup: the listeners stay.                                  *)
CleanupOfNothing(t) == UNCHANGED listeners /\ t \in Tasks

(* Task.cleanup                                                            *)
Cleanup(t) == listeners' = [listeners EXCEPT ![t] = {}]
=============================================================================
