------------------------ MODULE TaskServiceProperties ------------------------
(***************************************************************************)
(* What TaskService promises: the invariants, the action properties and    *)
(* the liveness properties of its specification.                           *)
(***************************************************************************)
EXTENDS TaskService, SequencesExt

Live(a) == pc[a] \in {"acquiring", "deploying", "running"}
Running == {a \in Attempts : pc[a] = "running"}
AttemptsOf(t) == {a \in Attempts : a[1] = t}
Handled(t) == \E a \in AttemptsOf(t) : handler[a] # "idle"

(* The tasks the service has taken and not yet let go of.                  *)
InService(t) == state[t] \in {"queued", "pending"} \/ Handled(t)

Count(t, event) ==
  Cardinality({i \in DOMAIN emitted[t] : emitted[t][i] = event})

-----------------------------------------------------------------------------
TaskTypeOK ==
  /\ state \in [Tasks -> TaskState \cup {"absent"}]
  /\ retriesCount \in [Tasks -> Nat]
  /\ results \in [Tasks -> Nat]
  /\ startupTimeoutId \in [Tasks -> BOOLEAN]
  /\ timeoutId \in [Tasks -> BOOLEAN]
  /\ resourceRental \in [Tasks -> Rentals \cup {NoRental}]

DispatchTypeOK ==
  /\ listeners \in [Tasks -> SUBSET Attempts]
  /\ handler \in [Attempts -> {"idle", "retrying", "stopping"}]
  /\ signalled \in SUBSET Attempts
  /\ activeTasksCount \in Nat
  /\ pool \in [Rentals -> RentalStatus]

AttemptTypeOK ==
  /\ pc \in [Attempts -> {"idle", "acquiring", "deploying", "running", "ended"}]
  /\ rental \in [Attempts -> Rentals \cup {NoRental}]
  /\ invoked \in SUBSET Attempts

ServiceTypeOK ==
  /\ itemsStack \in Seq(Tasks)
  /\ loop \in {"starting", "looping", "exited", "failed"}
  /\ aborted \in BOOLEAN
  /\ retryCountTotal \in Nat
  /\ emitted \in [Tasks -> Seq(Events)]

(* Every variable has a value of its type.                                 *)
TypeOK == TaskTypeOK /\ DispatchTypeOK /\ AttemptTypeOK /\ ServiceTypeOK

(* activeTasksCount, raised by the run loop and lowered by the finally     *)
(* clause of a listener, counts exactly the tasks in the service: no path  *)
(* lowers it twice or forgets to, so no slot is lost and no slot is given  *)
(* out beyond maxParallelTasks.                                            *)
ActiveCountIsExact ==
  /\ activeTasksCount = Cardinality({t \in Tasks : InService(t)})
  /\ activeTasksCount <= MaxParallelTasks

(* A task is in the queue at most once, and only while nothing of it is in *)
(* the service: no timer armed, no listener left, no handler under way.    *)
QueueIsSound ==
  /\ IsInjective(itemsStack)
  /\ \A t \in Range(itemsStack) :
       /\ IsQueueable(t)
       /\ ~Handled(t)
       /\ listeners[t] = {}
       /\ ~startupTimeoutId[t] /\ ~timeoutId[t]

(* retryTask is left before addToBegin if the pool refuses to take the     *)
(* rental back or a listener of taskRetried throws.                        *)
RetriesAreUnsafe == PoolRejects \/ "taskRetried" \in ThrowingListeners

(* A task that still has to run is in the queue or about to be put there,  *)
(* unless the service has ended or retryTask may be left half way.         *)
NoTaskIsLost ==
  \A t \in Tasks :
    IsQueueable(t) => Has(t) \/ Handled(t) \/ aborted \/ RetriesAreUnsafe

(* The tasks something was emitted about, how often each was said to be    *)
(* retried, and which is about to be.                                      *)
Told == {t \in Tasks : emitted[t] # << >>}
timesRetried == [t \in Tasks |-> Count(t, "taskRetried")]
IsRetrying(t) == \E a \in AttemptsOf(t) : handler[a] = "retrying"

(* Each retry is counted once: in the task when it fails, in the service   *)
(* and in the events when it is requeued; and no task has more than        *)
(* maxRetries of them, whoever fails it (timer or attempt, stale or not).  *)
RetriesAgree ==
  /\ \A t \in Tasks :
       /\ retriesCount[t] <= MaxRetries[t]
       /\ ~aborted /\ ~RetriesAreUnsafe =>
            retriesCount[t] = timesRetried[t] + (IF IsRetrying(t) THEN 1 ELSE 0)
  /\ "taskRetried" \notin ThrowingListeners =>
       retryCountTotal = SumFunctionOnSet(timesRetried, Told)

(* The timer that is armed is the one of the state the task is in, so no   *)
(* timer of an earlier attempt is left to fail a later one.                *)
TimersFollowState ==
  \A t \in Tasks :
    /\ startupTimeoutId[t] <=> HasStartupTimeout[t] /\ state[t] = "queued"
    /\ timeoutId[t] <=> HasTimeout[t] /\ state[t] = "pending"

(* The listeners of events see each task go through its life in order:     *)
(* queued first, started once per attempt at most, retried, and completed  *)
(* or failed last, in agreement with the state it ends in.                 *)
EventsTellTheStory ==
  \A t \in Tasks : LET log == emitted[t] IN
    /\ log # << >> => log[1] = "taskQueued"
    /\ \A i \in DOMAIN log :
         /\ log[i] = "taskQueued" => i = 1
         /\ log[i] = "taskStarted" => i > 1 /\ log[i-1] # "taskStarted"
         /\ log[i] \in {"taskCompleted", "taskFailed"} => i = Len(log)
         /\ log[i] = "taskCompleted" => state[t] = "done"
         /\ log[i] = "taskFailed" => state[t] = "rejected"
    /\ IsFinished(t) =>
         \/ Handled(t)
         \/ PoolRejects
         \/ Last(log) \in {"taskCompleted", "taskFailed"}

(* Unless it is to be retried after a timeout, a task has one coroutine at *)
(* a time: when an attempt begins, every earlier one has ended.            *)
NoStaleAttempt ==
  \A a \in Attempts :
    Live(a) /\ ~RetryOnTimeout[a[1]] => a = Current(a[1])

(* Two task functions never work on the same rental (unless timeouts are   *)
(* retried), and no other attempt is lent the rental of a running one: the *)
(* pool has it as borrowed, or as destroyed once its task has timed out.   *)
RentalIsExclusive ==
  (\A t \in Tasks : ~RetryOnTimeout[t]) =>
    \A a \in Running :
      /\ \A b \in Running : rental[a] = rental[b] => a = b
      /\ \/ pool[rental[a]] = "borrowed"
         \/ pool[rental[a]] = "destroyed" /\ IsFailed(a[1])

(* A borrowed rental is in the hands of an attempt that still uses it, or  *)
(* of one that ended before it could start the task: startTask gives a     *)
(* rental back only through a task that was started with it.  (After the   *)
(* service has ended, a failed task keeps its rental too, and so it may be *)
(* where the pool rejects.)                                                *)
OnlyUnstartedAttemptsLeak ==
  \A r \in Rentals :
    pool[r] = "borrowed" /\ ~PoolRejects =>
      \E a \in Attempts :
        /\ rental[a] = r
        /\ pc[a] \in {"deploying", "running"} \/ a \notin invoked \/ aborted

(* At most maxParallelTasks task functions run at one time (executor.ts:28 *)
(* "maximum parallel running task").  False when tasks time out: nothing   *)
(* stops the function of a task that did.                                  *)
RunningIsBounded == Cardinality(Running) <= MaxParallelTasks

(* A timer may take the slot from a function that runs: its own timeout,   *)
(* or a startup timeout that is retried, as the attempt it fails may still *)
(* get to start the task and is then failed by the next one.               *)
MayBeCutShort(t) ==
  HasTimeout[t] \/ (HasStartupTimeout[t] /\ RetryOnTimeout[t])

(* Of the functions no timer cuts short, at most maxParallelTasks run at a *)
(* time: each of them keeps its slot until it settles.                     *)
UncutRunningIsBounded ==
  Cardinality({a \in Running : ~MayBeCutShort(a[1])}) <= MaxParallelTasks

(* A completed task completed because its function returned (events.ts:49  *)
(* "successfully completed"), not because it was called in vain, timed out *)
(* or was never reached past a listener that throws.  The condition is     *)
(* needed: Task.stop takes a falsy error for a success, so a function that *)
(* rejects with nothing completes its task.                                *)
CompletedMeansReturned ==
  "undefined" \notin FunctionErrors =>
    \A t \in Tasks :
      /\ state[t] = "done" => results[t] # 0 /\ <<t, results[t]>> \in invoked
      /\ Count(t, "taskCompleted") > 0 => state[t] = "done"

CreditIsTrue(t) ==
  state[t] = "done" /\ results[t] # 0 =>
    resourceRental[t] = rental[<<t, results[t]>>]

(* A completed task is credited to, and gives back, the rental its results *)
(* were computed on (stats.ts:74 "the number of tasks performed on them"). *)
(* False when timeouts are retried: the function of an earlier attempt may *)
(* complete the task while a later attempt is running it.                  *)
CompletedWhereItRan == \A t \in Tasks : CreditIsTrue(t)

(* True of every task that does not retry its timeouts, whatever the other *)
(* tasks do.                                                               *)
FinalTimeoutsCreditTruly ==
  \A t \in Tasks : ~RetryOnTimeout[t] => CreditIsTrue(t)

-----------------------------------------------------------------------------
(* A task that is done or rejected stays so, with the same results: no     *)
(* timer, late attempt or requeueing revives it or overwrites them.        *)
FinishedIsFinal ==
  [][\A t \in Tasks : IsFinished(t) =>
       /\ state'[t] = state[t]
       /\ results'[t] = results[t]
       /\ retriesCount'[t] = retriesCount[t]]_vars

-----------------------------------------------------------------------------
(* The event loop serves the run loop, the timers that are due and the     *)
(* promises that are settled.  Nothing obliges the market to make the pool *)
(* ready or to grant a rental, a provider to deploy, a function to return. *)
Fairness ==
  /\ WF_vars(LoopExit)
  /\ \A t \in Tasks : WF_vars(Take(t)) /\ WF_vars(TimerStep(t))
  /\ \A a \in Attempts : WF_vars(HandlerStep(a))

FairSpec == Spec /\ Fairness

(* With both timeouts set, every task submitted to a service whose pool is *)
(* ready is reported as completed or failed, or the service ends: whatever *)
(* the pool, the providers and the functions do, a slot is freed and the   *)
(* next task is taken, though leaked rentals may leave it without one.     *)
EveryTaskIsReported ==
  \A t \in Tasks :
    loop = "looping" /\ state[t] # "absent" ~>
      \/ Count(t, "taskCompleted") + Count(t, "taskFailed") = 1
      \/ aborted

-----------------------------------------------------------------------------
(* What takes a task on without the market, a provider or its function.    *)
HasWayOut(t) == startupTimeoutId[t] \/ timeoutId[t] \/ Handled(t)

(* What EveryTaskIsReported rests on.  A task that is not yet reported is  *)
(* never left to the market, a provider or its function alone: a timer of it *)
(* is armed or a handler of it is under way, or it is in the queue and, if *)
(* no slot is free, a task that holds one has a timer or a handler that    *)
(* frees it.                                                               *)
NoTaskIsStuck ==
  /\ MaxParallelTasks > 0
  /\ \A t \in Tasks : HasTimeout[t] /\ HasStartupTimeout[t]
  /\ ~aborted /\ ~RetriesAreUnsafe
  => \A t \in Tasks : state[t] # "absent" =>
       \/ HasWayOut(t)
       \/ Has(t) /\ \/ activeTasksCount < MaxParallelTasks
                    \/ \E u \in Tasks : InService(u) /\ HasWayOut(u)
       \/ Last(emitted[t]) \in {"taskCompleted", "taskFailed"}

-----------------------------------------------------------------------------
(* The service implements TaskScheduler: a task is active from the moment  *)
(* the run loop takes it until the handler of its change of state ends.    *)
phaseMap == [t \in Tasks |->
  IF state[t] = "absent" THEN "absent"
  ELSE IF InService(t) THEN "active"
  ELSE IF state[t] = "done" THEN "completed"
  ELSE IF state[t] = "rejected" THEN "failed"
  ELSE IF Has(t) THEN "waiting"
  ELSE "abandoned"]

(* A retry counts for the scheduler once the task is back in the queue.    *)
triesMap == [t \in Tasks |->
  IF state[t] = "retry" /\ ~Has(t) THEN retriesCount[t] - 1
                                   ELSE retriesCount[t]]

doorMap ==
  IF aborted \/ loop = "failed" THEN "closed"
  ELSE IF loop = "starting" THEN "shut"
  ELSE "open"

Scheduler == INSTANCE TaskScheduler WITH
  phase <- phaseMap, line <- itemsStack, tries <- triesMap, door <- doorMap,
  MayLoseTasks <- RetriesAreUnsafe

(* Whatever the timers, stale attempts and leaks do, a caller sees the     *)
(* scheduler's behaviour: order, bound, retries and final outcomes.  Tasks *)
(* are lost while the service is up only where retryTask is left half way. *)
ImplementsScheduler == Scheduler!Spec

(* ... and, with both timeouts set, its progress: a free slot is used and  *)
(* every task that was taken leaves the service.                           *)
ImplementsFairScheduler == Scheduler!FairSpec
=============================================================================
