----------------------------- MODULE TaskService -----------------------------
(***************************************************************************)
(* The TaskService class (src/src/service.ts) with the tasks, the queue    *)
(* and the rental pool it drives: the run loop that takes tasks off the    *)
(* queue, one coroutine startTask per attempt, the timers of the tasks and *)
(* the listeners that retry or stop a task.                                *)
(*                                                                         *)
(* The program is single-threaded.  A step of this module is one run of    *)
(* the event loop between two suspension points (an await, a timer, a      *)
(* listener of a promise); what a listener does synchronously belongs to   *)
(* the step that calls it.                                                 *)
(***************************************************************************)
EXTENDS TaskQueue, RentalPool

CONSTANTS
  MaxParallelTasks,   \* TaskServiceOptions.maxParallelTasks
  AcquireErrors,      \* what pool.acquire may reject with of its own accord
  DeployErrors,       \* what rental.getExeUnit may reject with
  FunctionErrors,     \* what a task function or a listener may throw
  ThrowingListeners,  \* the events a listener of which may throw
  PoolRejects         \* may pool.release and pool.destroy reject?

(* Every rejection of golem-js is an Error; only a task function can reject *)
(* with nothing.  A listener of taskCompleted or taskFailed that throws     *)
(* changes nothing: the event is the last thing stopTask does.              *)
ASSUME ServiceAssumption ==
  /\ MaxParallelTasks \in Nat
  /\ AcquireErrors \subseteq Errors \ {"undefined"}
  /\ DeployErrors \subseteq Errors \ {"undefined"}
  /\ FunctionErrors \subseteq Errors
  /\ ThrowingListeners \subseteq {"taskStarted", "taskRetried"}
  /\ PoolRejects \in BOOLEAN

VARIABLES
  loop,               \* where run() is
  aborted,            \* is the service's abortController aborted?
  activeTasksCount,   \* TaskService.activeTasksCount
  retryCountTotal,    \* TaskService.retryCountTotal
  pc,                 \* where each attempt's startTask is
  rental,             \* the local variable `rental` of each startTask
  handler,            \* where retryTask or stopTask is, called by the
                      \* closure of this attempt
  signalled,          \* the attempts whose own abortController is aborted
  invoked,            \* the attempts that have called the task function
  emitted             \* the events emitted for each task, in their order

serviceVars == <<loop, aborted, retryCountTotal>>
attemptVars == <<pc, rental, invoked>>
dispatchVars == <<listeners, handler, signalled, activeTasksCount, pool>>

vars == <<taskVars, listeners, itemsStack, pool, serviceVars,
          activeTasksCount, attemptVars, handler, signalled, emitted>>

Events == {"taskQueued", "taskStarted", "taskRetried", "taskCompleted",
           "taskFailed"}

Emit(t, event) == emitted' = [emitted EXCEPT ![t] = Append(@, event)]

Init ==
  /\ TaskInit
  /\ QueueInit
  /\ PoolInit
  /\ loop = "starting"
  /\ aborted = FALSE
  /\ activeTasksCount = 0
  /\ retryCountTotal = 0
  /\ pc = [a \in Attempts |-> "idle"]
  /\ rental = [a \in Attempts |-> NoRental]
  /\ handler = [a \in Attempts |-> "idle"]
  /\ signalled = {}
  /\ invoked = {}
  /\ emitted = [t \in Tasks |-> << >>]

-----------------------------------------------------------------------------
(* What a change of state triggers.                                        *)

(* Mutant of ReleaseTaskResources: a failed task's rental is released.     *)
ReleaseOfEveryRental(t, newState) ==
  LET r == resourceRental'[t] IN
    \/ r = NoRental /\ UNCHANGED pool
    \/ r # NoRental /\ newState # "absent" /\ Release(r)

(* Mutant of ReleaseTaskResources: a retried task keeps its rental.        *)
ReleaseOfFinishedOnly(t, newState) ==
  LET r == resourceRental'[t] IN
    \/ (r = NoRental \/ newState = "retry") /\ UNCHANGED pool
    \/ r # NoRental /\ newState = "rejected" /\ Destroy(r)
    \/ r # NoRental /\ newState = "done" /\ Release(r)

(* releaseTaskResources, up to its await; the rental is the one the task   *)
(* has at the end of the step.  A pool that may reject may also leave the  *)
(* rental as it is.                                                        *)
ReleaseTaskResources(t, newState) ==
  LET r == resourceRental'[t] IN
    \/ r = NoRental /\ UNCHANGED pool
    \/ r # NoRental /\ newState \in Failed /\ Destroy(r)
    \/ r # NoRental /\ newState \notin Failed /\ Release(r)
    \/ r # NoRental /\ PoolRejects /\ UNCHANGED pool

(* The closures of a task run in the order they were added.  The first one *)
(* of run() clears the set they are in, so it is the only one that runs:   *)
(* the one of startTask, which would abort the attempt, is dead code ...   *)
CallHandler(t, newState) ==
  /\ \E a \in listeners[t] :
       /\ \A b \in listeners[t] : a[2] <= b[2]
       /\ handler' = [handler EXCEPT
                        ![a] = IF newState = "retry" THEN "retrying"
                                                     ELSE "stopping"]
  /\ Cleanup(t)
  /\ ReleaseTaskResources(t, newState)
  /\ UNCHANGED <<signalled, activeTasksCount>>

(* ... but if retryTask returns at once because the service has ended:     *)
(* then every closure runs, those of startTask abort their attempt.        *)
CallAllClosures(t) ==
  /\ signalled' = signalled \cup listeners[t]
  /\ activeTasksCount' = activeTasksCount - Cardinality(listeners[t])
  /\ UNCHANGED <<listeners, handler, pool>>

Dispatch(t, newState) ==
  \/ listeners[t] = {} /\ UNCHANGED dispatchVars
  \/ /\ listeners[t] # {}
     /\ IF newState = "retry" /\ aborted
        THEN CallAllClosures(t)
        ELSE CallHandler(t, newState)

(* task.stop(value, error, retry) of a task that is in service ...         *)
StopNow(t, error, retry, value) ==
  LET newState == StopState(t, error, retry) IN
    StopTask(t, newState, value) /\ Dispatch(t, newState)

(* ... and of any other.                                                   *)
Stop(t, error, retry, value) ==
  IF StopIsIgnored(t)
  THEN UNCHANGED <<taskVars, dispatchVars>>
  ELSE UNCHANGED resourceRental /\ StopNow(t, error, retry, value)

-----------------------------------------------------------------------------
(* The caller and the run loop.                                            *)

(* TaskExecutor.executeTask, up to its first await.                        *)
Submit(t) ==
  /\ NewTask(t)
  /\ AddToEnd(t)
  /\ Emit(t, "taskQueued")
  /\ UNCHANGED <<serviceVars, attemptVars, dispatchVars>>

(* run() gets past `await pool.ready()`, or rejects there.                 *)
Ready ==
  /\ loop = "starting"
  /\ loop' \in {"looping", "failed"}
  /\ UNCHANGED <<taskVars, itemsStack, aborted, retryCountTotal, attemptVars,
                 dispatchVars, emitted>>

(* Mutant of Take: the count is not raised.                                *)
TakeUncounted(t) ==
  /\ loop = "looping"
  /\ ~aborted
  /\ activeTasksCount < MaxParallelTasks
  /\ Get(t)
  /\ OnStateChange(Current(t))
  /\ InitTask(t)
  /\ pc' = [pc EXCEPT ![Current(t)] = "acquiring"]
  /\ UNCHANGED <<serviceVars, rental, invoked, handler, signalled, pool,
                 activeTasksCount, emitted>>

(* One turn of the loop that takes a task, with startTask up to the await  *)
(* of acquire.  A turn that takes none changes nothing.                    *)
Take(t) ==
  /\ loop = "looping"
  /\ ~aborted
  /\ activeTasksCount < MaxParallelTasks
  /\ Get(t)
  /\ OnStateChange(Current(t))
  /\ activeTasksCount' = activeTasksCount + 1
  /\ InitTask(t)
  /\ pc' = [pc EXCEPT ![Current(t)] = "acquiring"]
  /\ UNCHANGED <<serviceVars, rental, invoked, handler, signalled, pool,
                 emitted>>

LoopExit ==
  /\ loop = "looping"
  /\ aborted
  /\ loop' = "exited"
  /\ UNCHANGED <<taskVars, itemsStack, aborted, retryCountTotal, attemptVars,
                 dispatchVars, emitted>>

(* end(); executor.ts calls it once, at any time.                          *)
End ==
  /\ ~aborted
  /\ aborted' = TRUE
  /\ UNCHANGED <<taskVars, itemsStack, loop, retryCountTotal, attemptVars,
                 dispatchVars, emitted>>

-----------------------------------------------------------------------------
(* The coroutine startTask of attempt a, from one await to the next.       *)

(* The catch clause.                                                       *)
Retryable(t, e) ==
  e = "GolemWorkError" \/ (e = "GolemTimeoutError" /\ RetryOnTimeout[t])

(* Mutant of Catch: the error is not passed on.                            *)
CatchWithoutError(a, e) ==
  /\ pc' = [pc EXCEPT ![a] = "ended"]
  /\ Stop(a[1], "undefined", Retryable(a[1], e), 0)

Catch(a, e) ==
  /\ pc' = [pc EXCEPT ![a] = "ended"]
  /\ Stop(a[1], e, Retryable(a[1], e), 0)

(* acquire resolves: a task that failed meanwhile throws, and the rental   *)
(* stays with an attempt that has ended.                                   *)
AcquireGranted(a, r) ==
  /\ pc[a] = "acquiring"
  /\ Acquire(a, r)
  /\ rental' = [rental EXCEPT ![a] = r]
  /\ pc' = [pc EXCEPT ![a] = IF IsFailed(a[1]) THEN "ended" ELSE "deploying"]
  /\ UNCHANGED <<taskVars, itemsStack, serviceVars, listeners, handler,
                 signalled, activeTasksCount, invoked, emitted>>

(* The signal an attempt gives to acquire and getExeUnit.                  *)
SignalErrors(a) == IF aborted \/ a \in signalled THEN {"other"} ELSE {}

AcquireRejected(a) ==
  /\ pc[a] = "acquiring"
  /\ \E e \in AcquireErrors \cup SignalErrors(a) : Catch(a, e)
  /\ UNCHANGED <<itemsStack, serviceVars, rental, invoked, emitted>>

(* getExeUnit resolves: the task starts and its function is called ...     *)
ExeUnitReady(a) ==
  /\ pc[a] = "deploying"
  /\ StartTask(a[1], rental[a])
  /\ Emit(a[1], "taskStarted")
  /\ pc' = [pc EXCEPT ![a] = "running"]
  /\ invoked' = invoked \cup {a}
  /\ UNCHANGED <<itemsStack, serviceVars, rental, dispatchVars>>

(* Mutant of ExeUnitTooLate: the event comes before Task.start.            *)
ExeUnitTooLateAnnounced(a) ==
  /\ pc[a] = "deploying"
  /\ state[a[1]] # "queued"
  /\ Catch(a, "other")
  /\ Emit(a[1], "taskStarted")
  /\ UNCHANGED <<itemsStack, serviceVars, rental, invoked>>

(* ... or Task.start throws, as the task is not queued any more.           *)
ExeUnitTooLate(a) ==
  /\ pc[a] = "deploying"
  /\ state[a[1]] # "queued"
  /\ Catch(a, "other")
  /\ UNCHANGED <<itemsStack, serviceVars, rental, invoked, emitted>>

(* A listener of taskStarted throws after Task.start: the catch clause     *)
(* stops the task, whose function is never called.                         *)
StartedListenerThrows(a) ==
  /\ pc[a] = "deploying"
  /\ "taskStarted" \in ThrowingListeners
  /\ state[a[1]] = "queued"
  /\ resourceRental' = [resourceRental EXCEPT ![a[1]] = rental[a]]
  /\ \E e \in FunctionErrors : StopNow(a[1], e, Retryable(a[1], e), 0)
  /\ Emit(a[1], "taskStarted")
  /\ pc' = [pc EXCEPT ![a] = "ended"]
  /\ UNCHANGED <<itemsStack, serviceVars, rental, invoked>>

ExeUnitFailed(a) ==
  /\ pc[a] = "deploying"
  /\ \E e \in DeployErrors \cup SignalErrors(a) : Catch(a, e)
  /\ UNCHANGED <<itemsStack, serviceVars, rental, invoked, emitted>>

FunctionReturns(a) ==
  /\ pc[a] = "running"
  /\ pc' = [pc EXCEPT ![a] = "ended"]
  /\ Stop(a[1], "undefined", TRUE, a[2])
  /\ UNCHANGED <<itemsStack, serviceVars, rental, invoked, emitted>>

FunctionThrows(a) ==
  /\ pc[a] = "running"
  /\ \E e \in FunctionErrors : Catch(a, e)
  /\ UNCHANGED <<itemsStack, serviceVars, rental, invoked, emitted>>

-----------------------------------------------------------------------------
(* The timers of a task; one that is cleared never fires.                  *)

(* Mutant of Timeout: the opt-in is ignored.                               *)
TimeoutAlwaysRetried(t) ==
  /\ Stop(t, "GolemTimeoutError", TRUE, 0)
  /\ UNCHANGED <<itemsStack, serviceVars, attemptVars, emitted>>

Timeout(t) ==
  /\ Stop(t, "GolemTimeoutError", RetryOnTimeout[t], 0)
  /\ UNCHANGED <<itemsStack, serviceVars, attemptVars, emitted>>

StartupTimeout(t) == startupTimeoutId[t] /\ Timeout(t)

TaskTimeout(t) == timeoutId[t] /\ Timeout(t)

-----------------------------------------------------------------------------
(* retryTask and stopTask after their await, with the finally clause that  *)
(* lowers the count (a microtask: only the run loop reads the count, and   *)
(* it runs later).                                                         *)

HandlerEnds(a) ==
  /\ handler' = [handler EXCEPT ![a] = "idle"]
  /\ activeTasksCount' = activeTasksCount - 1
  /\ UNCHANGED <<taskVars, listeners, pool, loop, aborted, attemptVars,
                 signalled>>

(* Mutant of RetryResumes: the test of the queue is the wrong way round.   *)
RetryResumesIfQueued(a) ==
  /\ handler[a] = "retrying"
  /\ Emit(a[1], "taskRetried")
  /\ \/ /\ Has(a[1])
        /\ retryCountTotal' = retryCountTotal + 1
        /\ AddToBegin(a[1])
     \/ ~Has(a[1]) /\ UNCHANGED <<retryCountTotal, itemsStack>>
  /\ HandlerEnds(a)

RetryResumes(a) ==
  /\ handler[a] = "retrying"
  /\ Emit(a[1], "taskRetried")
  /\ \/ /\ ~Has(a[1])
        /\ retryCountTotal' = retryCountTotal + 1
        /\ IF IsEligible(a[1]) THEN AddToBegin(a[1])
                              ELSE UNCHANGED itemsStack
     \/ Has(a[1]) /\ UNCHANGED <<retryCountTotal, itemsStack>>
  /\ HandlerEnds(a)

(* A listener of taskRetried throws: the task is not put back.             *)
RetriedListenerThrows(a) ==
  /\ handler[a] = "retrying"
  /\ "taskRetried" \in ThrowingListeners
  /\ Emit(a[1], "taskRetried")
  /\ UNCHANGED <<itemsStack, retryCountTotal>>
  /\ HandlerEnds(a)

StopResumes(a) ==
  /\ handler[a] = "stopping"
  /\ Emit(a[1], IF state[a[1]] = "rejected" THEN "taskFailed"
                                            ELSE "taskCompleted")
  /\ UNCHANGED <<itemsStack, retryCountTotal>>
  /\ HandlerEnds(a)

(* Mutant of ReleaseRejected: the count is lowered on success only.        *)
ReleaseRejectedKeepsSlot(a) ==
  /\ PoolRejects
  /\ handler[a] # "idle"
  /\ resourceRental[a[1]] # NoRental
  /\ handler' = [handler EXCEPT ![a] = "idle"]
  /\ UNCHANGED <<taskVars, listeners, pool, serviceVars, attemptVars,
                 signalled, activeTasksCount, itemsStack, emitted>>

(* The pool rejects: the error is logged and the rest is skipped.          *)
ReleaseRejected(a) ==
  /\ PoolRejects
  /\ handler[a] # "idle"
  /\ resourceRental[a[1]] # NoRental
  /\ UNCHANGED <<itemsStack, retryCountTotal, emitted>>
  /\ HandlerEnds(a)

-----------------------------------------------------------------------------
AttemptStep(a) ==
  \/ \E r \in Rentals : AcquireGranted(a, r)
  \/ AcquireRejected(a)
  \/ ExeUnitReady(a)
  \/ StartedListenerThrows(a)
  \/ ExeUnitTooLate(a)
  \/ ExeUnitFailed(a)
  \/ FunctionReturns(a)
  \/ FunctionThrows(a)

HandlerStep(a) ==
  \/ RetryResumes(a) \/ RetriedListenerThrows(a)
  \/ StopResumes(a)
  \/ ReleaseRejected(a)

TimerStep(t) == StartupTimeout(t) \/ TaskTimeout(t)

Next ==
  \/ Ready \/ LoopExit \/ End
  \/ \E t \in Tasks : Submit(t) \/ Take(t) \/ TimerStep(t)
  \/ \E a \in Attempts : AttemptStep(a) \/ HandlerStep(a)

Spec == Init /\ [][Next]_vars
=============================================================================
