# Task Executor: models, checks and proofs

A TLA+ verification project for `@golem-sdk/task-executor`. Source references are
relative to the package: `service.ts` is `src/src/service.ts`, and the examples are
under `src/examples`.

## 1. The system

A program creates a `TaskExecutor`, calls `run(taskFunction)` any number of times
and awaits the results; the executor rents machines on the Golem market through
golem-js and runs each function on one of them. Everything is single-threaded
JavaScript: the hard part is what happens between two `await`s.

```
 program: await create() -> await run() ... -> finally await shutdown()
   |                                                        ^ signals
   v
 TaskExecutor: init / run / shutdown / cancel / signals / startup timeout
   |                   |                                    |
   | run()             | options                            v
   v                   v                            StatsService: events of golem-js
 TaskQueue <---- ExecutorConfig, Task               and of the executor, the report,
   | ^ retry           ^                            the verdict of the startup timeout
   v |                 | stop: timers, attempts
 TaskService.run ----> startTask (one coroutine per attempt)
                           | acquire / getExeUnit / release / destroy
                       ResourceRentalPool (golem-js)
```

| Component | State | Operations | What makes it hard |
|---|---|---|---|
| `Task` (`task.ts`) | state, retriesCount, results, error, two timer ids, resourceRental, exe, listeners | init, start, stop, onStateChange, cleanup | `stop` is called by two timers and by every attempt, in any order; the listeners run inside it |
| `TaskQueue` (`queue.ts`) | itemsStack | addToEnd, addToBegin, get, has | a retried task overtakes; a task may be added only in some states |
| `TaskService` (`service.ts`) | activeTasksCount, retryCountTotal, abortController; a coroutine per attempt | run, end, startTask, retryTask, stopTask, releaseTaskResources | attempts outlive timeouts; the count is lowered asynchronously; the pool may reject and listeners may throw in the middle of a handler; the set of listeners is cleared while it is iterated |
| `TaskExecutor` (`executor.ts`) | isRunning, isCanceled, shutdownPromise, startupTimeoutId, pool, service, network, signal handlers | create/init, run, shutdown, cancel, signal handler, startup timeout, critical error | shutdown races with init, signals, critical errors, listeners and other calls; one failing step leaves the rest undone; `run` polls |
| `ExecutorConfig` (`config.ts`) | options with defaults | constructor; `executeTask` and `Task` merge them a second time | what is refused where; `0`, negative and missing values |
| `StatsService` (`stats.ts`) | maps by agreement, sets of proposals, timeInfo | event listeners, getAll, getAllCosts, getAllCostsSummary, getProposalsCount | subscribes late, never unsubscribes, derives statuses by comparing lengths; a listener ahead of it may throw |
| `ResourceRentalPool`, `GolemNetwork` (golem-js, external) | rentals | acquire, release, destroy, drainAndClear, connect, disconnect | late grants, rejections |
| example programs (`examples`) | where their main function is | await create(), run() in stages, shutdown() | failing steps and signals at any point; `Promise.all`, `allSettled`, `any` |

What makes each one correct, in one line: a *task* ends once and for good; the
*queue* holds a task once and in the right state; the *service* takes tasks in
order, never more than its slots, loses none, and gives back what it borrowed; the
*executor* goes down once and completely and answers every call truthfully; the
*configuration* refuses what the rest cannot work with; the *statistics* agree with
the events; a *program* leaves nothing behind.

## 2. Modules

| Module | Models | Role |
|---|---|---|
| `Task` | class `Task` | one operator per method, conjoined by `TaskService` |
| `TaskQueue` | class `TaskQueue` | the queue as a sequence |
| `RentalPool` | golem-js pool as used by the package | external: only what `service.ts` relies on |
| `TaskService` | class `TaskService` with all of the above | the detailed specification |
| `TaskServiceProperties` | its promises | type, safety, action and liveness properties, refinement mapping |
| `TaskServiceInductive` | the inductive invariants `IndInv`, `RentalInv`, `FunctionsKeepSlots`, `FunctionsRunOnTheirRental`, `EventsFollowState`, `RetriesAreCounted`, `ResultsAreReturned` | what the proofs are about, kept apart from them so that TLC can check it |
| `TaskServiceProofs` | | count, queue, timers, final states |
| `TaskServiceRentalProofs` | | who has which rental, which functions keep their slot |
| `TaskServiceEventProofs` | | the order of events, the count of retries, the results of completed tasks, the way out of every state |
| `TaskServiceRefinementProofs` | | `TaskService` implements `TaskScheduler` |
| `TaskScheduler` | what queue and service promise together | the abstract specification |
| `SumTheorems` | | facts about `SumFunctionOnSet`, for retries and costs |
| `ExecutorConfig` | class `ExecutorConfig` and the merges in `executeTask` and `Task` | operators over records of options; the theorems about them are in `TaskExecutorProofs` |
| `TaskExecutor` | class `TaskExecutor` over `TaskScheduler`, with `ExecutorConfig` | init, shutdown, cancel, run, listeners |
| `TaskExecutorProperties`, `TaskExecutorInductive`, `TaskExecutorProofs` | | its promises, the inductive invariant, theorems |
| `StatsService`, `StatsServiceProperties`, `StatsServiceProofs` | class `StatsService`, the startup timeout, `printStats` | its figures against what has happened |
| `ClientPrograms`, `ClientProgramsProperties`, `ClientProgramsProofs` | the example programs composed with `TaskExecutor` | what programs leave behind |
| `MCTaskService`, `MCTaskExecutor`, `MCStatsService`, `MCClientPrograms` | instances for TLC | values of the constants |

Definitions whose comment starts with "Mutant of" are not part of a model: each is
a plausible bug, put in place of the definition it is named after to see that a
property notices it.

### How the models compose

`ClientPrograms` extends `TaskExecutor`: a step is one of the main function or one of
the executor. `TaskExecutor` holds the state of `TaskScheduler`, and its actions on
the queue and the service are those of `TaskScheduler`. `TaskService`, with `Task`,
`TaskQueue` and `RentalPool`, implements `TaskScheduler` (`ServiceIsAScheduler`),
whose constant `MayLoseTasks` says whether a retry may fail half way (then a task
leaves the service without an outcome), and `TaskExecutor` uses it as it is
(`ExecutorIsAScheduler`): what happens to tasks inside the executor is what the
service does. `ClientPrograms` implements `TaskExecutor` with an awaited `init()`
(`AwaitsTheExecutor`), so the theorems that assume one hold of the programs.
`StatsService` stands beside the executor: it only listens, but for the verdict of the
startup timeout, which `TaskExecutor` leaves open and `StatsService` decides.

### How the models correspond to the code

* **A step** is one run of the event loop between two suspension points. What a
  listener does synchronously is part of the step that calls it: `Stop` in
  `TaskService` is `Task.stop`, `updateState`, the closures it calls and the part of
  `retryTask` or `stopTask` before its `await`, release of the rental included.
* **An attempt** `<<t, k>>` is the k-th call of `startTask` for task `t`, a coroutine
  with its own local variables (`pc`, `rental`). A timeout moves the task on and
  leaves the attempt where it was, as in the code. `Current(t)` is the attempt the
  task is on.
* **`AcquireGranted`, `AcquireRejected`, `ExeUnitReady`, `ExeUnitTooLate`,
  `ExeUnitFailed`, `FunctionReturns`, `FunctionThrows`** are the outcomes of the three
  awaits of `startTask`. `ExeUnitTooLate` is `Task.start` throwing; note that a stale
  attempt that comes too late stops the task of the attempt after it.
* **Listeners of the user** run inside `emit`. One of `taskStarted` that throws lands
  in the catch clause of `startTask` (`StartedListenerThrows`): the function is never
  called. One of `taskRetried` skips `addToBegin` (`RetriedListenerThrows`): the task
  is lost, its slot is not. One of `taskQueued`, `executorReady` or `criticalError`
  cuts `executeTask`, `init` or `cancel` short; one of `executorBeforeEnd` may throw
  or call `shutdown()`; one of `executorEnd` makes `shutdown()` reject with everything
  done (`shutdownPc = "rejectedAfterEnd"`). Nobody catches the error of a listener of
  `criticalError`: Node ends the process unless it is told not to, so `process` may
  become `"ended"`, after which nothing happens. A listener ahead of those of the
  statistics keeps the event from them (`ListenersAheadThrow`).
* **`listeners[t]`** holds the attempts whose pair of closures is in `Task.listeners`.
  The closure of `run()` comes first and, unless the service has ended, reaches
  `task.cleanup()`, which clears the set in the middle of its own iteration: no other
  closure runs (`CallHandler`); the closure of `startTask` that would abort the
  attempt is dead code while the service is up. After `end()`, `retryTask` returns at
  once, so all of them run (`CallAllClosures`).
* **The pool** is external. With `PoolRejects`, `release` and `destroy` may reject, and
  a call that rejects may leave the rental as it was or not
  (`ReleaseTaskResources`): golem-js is not known here.
* **`handler[a]`** is `retryTask` or `stopTask` waiting for the pool. `HandlerEnds` is
  the `finally` clause; it is joined to the step that precedes it, because only the
  run loop reads the count and microtasks go first.
* **Errors** are abstracted to what the catch clause tells apart: `GolemWorkError`,
  `GolemTimeoutError`, any other, and a falsy rejection. **Results** are the number of
  the attempt that produced them.
* **Timers**: an armed timer may fire at any time; durations are left out, but for
  whether they are zero, which decides whether a timer is armed.
* **Options** are sets of at most one value (`undefined` is the empty set). A task
  whose options `new Task` refuses makes its `run()` reject.
* **`TaskExecutor`** takes the queue and the service from `TaskScheduler`. `EndService`
  closes it; the tasks in it may still finish. `SettleTask` is the moment a task is
  stopped for good, which the polling of `run` can see, and `ReportTask` the moment
  its event is emitted. Listeners of `executorBeforeEnd` run in the middle of
  `doShutdown`, so while they do (`shutdownPc = "emitting"`) nothing else may happen
  (`Quiet`) but what they do themselves. `run()` and `shutdown()` are called after
  `init()` was at least called (`InUse`); an executor made by `new` and never
  initialised is left out. `network` is the VPN network: `init()` creates it and
  nothing takes it down.
* **`StatsService`** keeps two records: variables of the market and the task service
  say what has happened, variables of the class what it has been told. The properties
  compare them. A task without an agreement is reported and not recorded
  (`TaskCompletedUncredited`). `invoicePaymentRate` is kept as its two numbers.
* **A program** is a record: its options, whether it awaits something that may reject
  before `create()`, its stages (which calls of `run()` are awaited together, and
  with which of `Promise.all`, `allSettled`, `any`, `.catch`), from which stage on its
  `try` holds, whether it catches, whether a rejection of its main function is
  caught. Two calls stand for any number. Programs of the same shape share a record;
  each has a name of its own in `ClientPrograms`.

## 3. Runs

| Run | Instance | Shows |
|---|---|---|
| `service_core` | 3 tasks, 2 of them with a retry, 1 slot, pool of 2, startup timeouts, one task with a timeout as well, timeouts final, listeners of `taskStarted` throw | types; no task is lost; attempts do not overlap; running functions never share a rental, also beside one whose task has timed out; functions that no timer cuts short keep their slot, so maxParallelTasks bounds them; a completed task has results its function returned |
| `service_stale` | 2 tasks, 1 retry each, 2 slots, pool of 2, timeouts retried, a pool that may reject and throwing listeners | the count and the queue are exact, the armed timer is that of the task's state and finished tasks are final although attempts overlap; the service implements a `TaskScheduler` that may lose tasks |
| `service_fair` | 2 tasks, 1 slot, one task retries timeouts, functions throw anything, fairness | retries and events agree with the tasks; the task that does not retry is credited to the rental it ran on; only attempts that never started leak a rental; no task is stuck; every task is reported or the service ends; the service implements `TaskScheduler` with its fairness |
| `executor_life` | 2 tasks, 2 callers, init awaited, failing steps, throwing listeners of `executorEnd`, two configurations (everything on; signals skipped and a startup timeout of 0), fairness | one shutdown however it is started, after which all that `doShutdown` takes down is down; no task begun on a drained pool; a critical error stops everything, also if `drainAndClear` or `disconnect` rejects, which leaves that one undone |
| `executor_unruly` | 2 tasks, one with options that are refused, 2 callers, init not awaited, listeners of every event that throw or call `shutdown()`, fairness | `run` is still truthful, a call of `shutdown()` waits only while a shutdown is under way, and every call settles unless the process ends |
| `stats` | 2 agreements of one provider, 3 invoices, 2 tasks, an offer that may come before the subscription, a draft, listeners ahead that throw | statuses, totals, counts and the payment rate agree with what has happened; what is printed is a lower bound of what comes later; the startup timeout and its hint are right |
| `clients` | all programs, up to 3 tasks and 2 slots, any step may fail, signals at any time, fairness | guarded programs leave nothing behind and fail only with `create()` or `shutdown()`; none exits normally with a result missing that it awaited and would not do without; a signal ends a program; all of them await `init()` |

Disagreements with what the sources say of themselves, each with a shortest
counterexample:

| Run | Property | Disagreement |
|---|---|---|
| `parallel_bound` | `RunningIsBounded` | more functions than maxParallelTasks run once one has timed out (`executor.ts:28`) |
| `late_result` | `CompletedWhereItRan` | a late result is credited to, and releases, the rental of a later attempt (`stats.ts:74`, `task.ts:141`) |
| `reentrant_shutdown` | `ShutdownMeansDown` | `shutdown()` returns undefined to a listener of `executorBeforeEnd` (`executor.ts:280`, `:288`) |
| `events_after_end` | `SilentAfterEnd` | tasks are reported after `executorEnd` (`events.ts:23`) |
| `shutdown_during_init` | `StaysDown` | an executor shut down while `init()` awaits comes up after `executorEnd`: timer, signal handlers, service (`executor.ts:284`, `:172`) |

What the code does keep of three of them is stated beside them, and proved:
`UncutRunningIsBounded` bounds the functions that no timer cuts short,
`FinalTimeoutsCreditTruly` credits every task that does not retry its timeouts,
whatever the other tasks do, and `StaysDown` holds if `init()` is awaited
(`StaysDownWhenAwaited`).

Met while modelling, without a run of their own:

* The startup timeout: `executor.ts:109-117` says that it is 90 s by default and only
  warns unless `exitOnNoProposals` is set. `config.ts` has no such default and nothing
  reads such an option; the timer, if it is armed, stops the executor, as
  `executor.ts:450-452` says. `StartupTimeoutIsJustified` follows the latter.
* `init()` creates a VPN network (`executor.ts:243`) that `doShutdown` (`:302-313`)
  never removes. `CleanTermination` says nothing of it.
* `service.ts:90-94` means to abort an attempt whose task has failed or is retried,
  but the closure of `run()` comes first and clears the set of listeners
  (`task.cleanup()`): the abort never happens while the service is up. This is why
  functions run on after a timeout (`parallel_bound`, `late_result`).
* A listener of `criticalError` that throws keeps `cancel()` from being called
  (`executor.ts:413-420`), and by default ends the process.
* A function that rejects with a falsy value completes its task: `Task.stop` tests
  the error for truth (`task.ts:132`, against `events.ts:49`). `CompletedMeansReturned`
  is stated, and proved, under the condition that functions do not.
* Startup timeouts are not retried by `maxTaskRetries` alone as `executor.ts:38-41`
  says; they need `retryOnTimeout` (`task.ts:103`).
* The defaults of the timeouts that `executor.ts:31` and `task.ts:32`, `:35` name do not
  exist (`config.ts:13-20`): without the option there is no timer. Zero is the same.
* A throwing listener of `taskRetried`, or a pool that refuses a rental, makes
  `retryTask` lose the task: its `run()` polls until the executor is shut down. This is
  the exception `RetriesAreUnsafe` of `NoTaskIsLost`.
* `map.mjs` and `max-parallel-tasks.mjs` read `result.value.reason` of a rejected call,
  which throws; `custom-price.mjs` sets an option of tasks that is not read;
  `dynamicProposalFilter` builds its filter from a list that is still empty; the
  selector of `bestProviders` takes the lowest score, contrary to its comment.
* `yacat`, `running-parallel-tasks` and `runAndStream` are not guarded: a rejection
  before their `try`, or without one, leaves the executor up. `LeavesNothingBehind` is stated for
  guarded programs.

### Bounds, and why they are enough

Nothing is cut by a state constraint: every instance is finite because a task is
submitted once and retried at most `MaxRetries` times, an invoice, offer or event of
the market comes once, and a program has a fixed number of stages. Two tasks are the
fewest that compete for a slot, a rental and the front of the queue; one retry gives
two attempts of a task, which is what overlapping attempts, late results and double
releases need; two slots let two tasks be in every pair of positions, one slot makes
the second task wait. The third task of `service_core` is needed because the one with
a timeout may be cut short, and it takes two others to overrun one slot. Two callers
of `shutdown()` beside a signal and two sources of critical errors give the races of
the flags. In `stats`, an agreement with two invoices can be partly paid, beside one
that is not; `TaskSymmetry` is sound there because no property tells tasks apart. In
`clients`, two calls awaited together and a third after them give every combination of
outcomes the joins tell apart; retries, `MaxRetries` and `MaxParallelTasks` are those
of the scheduler and not tied to the numbers the programs pass, as no property of
programs depends on them. What does not depend on these numbers is what the proofs are
for.

`CHECK_DEADLOCK FALSE` everywhere: the system may stop (all tasks are done, the
executor is down, the program is over). That it does not stop too early is what the
liveness properties say.

### Fairness

`TaskService`: weak fairness of the run loop's `Take` and `LoopExit` (the loop
yields with `sleep(0)` and is resumed by the event loop), of a timer that is armed,
and of a handler that waits for `pool.release` or `pool.destroy`. The last is an
assumption on golem-js. Nothing is assumed of the market (the pool may never get
ready, `acquire` may hang), of providers (`getExeUnit` may hang) or of task functions
(they may run for ever): both timeouts are set in `service_fair`, and without them
the liveness properties are false. `TaskExecutor`: weak fairness of the steps of
`doShutdown`, which resolve or reject, and of the polling; it is not assumed that a
task ever ends. `ClientPrograms`: besides, weak fairness of the steps of the main
function, which the event loop resumes once what it awaits has settled.

## 4. Proofs

All theorems hold for every value of the constants the modules' assumptions allow: any
number of tasks (infinitely many included), retries, slots (none included: the code
does not refuse `maxParallelTasks` 0), rentals, callers, agreements, invoices,
programs and stages, every combination of options, timeouts, errors and throwing
listeners. No other assumption is made, unless named here. `ServiceAssumption` asks for
`MaxParallelTasks` in `Nat`, which the code does not ensure: a negative number passes
the constructor. The loop then takes no task, as with 0.

### TaskService

`TaskServiceProofs`: `TypeCorrectness`, `ActiveCountCorrectness`, `QueueCorrectness`,
`NoTaskIsEverLost`, `TimerCorrectness`, `NoStaleAttempts`, and the action property
`FinishedTasksStayFinished`.

None of the invariants is inductive alone. `ActiveCountIsExact`, for one, is kept by
a handler's end only if the handler's task is in service because of that handler and
of nothing else: one handler per task, none while the task is queued or pending. That
needs the task to have exactly the closures of its current attempt when it is
stopped. `IndInv` (module `TaskServiceInductive`) says so:

* `ListenersFollowState`: a task in service has the closures of its current attempt
  and no others; any other task has none, but for one that failed after `end()`;
* `HandlersFollowState`: a handler belongs to the attempt its task has just left, and
  its task is in state retry outside the queue, or finished;
* `QueueFollowsState`, `TimersFollowState`, `RetriesAreBounded`, `NoTaskIsLost`;
* `AttemptsFollowTask`: no attempt is ahead of its task; with `NoStaleAttempt`, a task
  that does not retry timeouts has only its current attempt alive;
* `Served` is finite, though `Tasks` need not be: its size is what is counted.

`StopKeepsInvariant` is the heart of the proof: whoever stops the task (a timer, its
attempt, a stale attempt), the closures, the handler and the count move together.
Every action that may stop a task is reduced to it; `NextKeepsInvariant` puts the
actions together. For the theorems that build on it, `StepCases` sorts the steps of
timers and attempts by what they do: stop a task (`TimerStops`, `AttemptStops`,
`ListenerStops`), find it stopped (`AttemptEnds`), or go on; `StopEffect` says what a
stop does.

`TaskServiceRentalProofs` proves `RentalsAreExclusive` and `StartedAttemptsGiveBack`
from `RentalInv`, relative to `IndInv` and to a pool that takes back what it is given
(`~PoolRejects`; a rejected release may leave the rental lent, so `RentalInv` speaks
of no other pool, and `OnlyUnstartedAttemptsLeak` has this as its condition). If
timeouts are final, an attempt that holds a rental is the current one of its task
(`HoldersAreCurrent`), so a stop gives up the rental of that attempt and nobody
else's (`StopAndPool`); and a task that is not running has no rental that is still in
use (`HasNone`), so a second release or destroy is harmless. Without that condition,
`BorrowedByStarted` still says that a rental that stays borrowed was never started.

The same module proves the two forms of the refuted claims that the code does keep.
`UncutFunctionsAreBounded` rests on `FunctionsKeepSlots`: the live attempt of a task
that no timer may cut short is its current one, and the task is pending as long as
its function runs. Hence these tasks are in the service, at most one function each,
and the service has at most maxParallelTasks. A startup timer that is retried counts
as one that may cut a function short: the attempt it failed may start the task late,
and the next attempt then finds it pending and fails it. `FinalTimeoutsAreCredited`
rests on `FunctionsRunOnTheirRental`: while the function of such a task runs, and
after it has completed the task, the task's rental is that attempt's.

`TaskServiceEventProofs` proves `EventsAreOrdered` and `CompletionIsTrue` from
`EventsFollowState`: the last event of a task fits its state, and its final event
comes when its only handler ends (`OneHandler`).

Its `RetryCorrectness` proves `RetriesAgree`: the retries counted in the task when it
fails, in the service and in the events when it is queued again. Told apart from the
counter are the retries told (`timesRetried`) and the one under way (`IsRetrying`);
each step changes both sides alike (`StopIsCounted`, `HandlerCounts`, `NoRetry`). The
total of the service is the sum of `timesRetried` over the tasks something was told
of, a finite set (`EmitSum`), although the tasks may be infinitely many.

`SumTheorems` has the facts about sums these proofs need. The community modules
define a sum by recursion over subsets. Induction over it is done by way of a smallest
counterexample: a set of finite sets has a smallest element (`SmallestSubset`), which
is a first-order fact, so that no induction rule over an operator is needed. From it
follow that the recursion has a solution and only one (`IterationExists`,
`IterationIsUnique`), and then `SumAdd`, `SumRemove`, `SumOfParts`, `SumOfFamily` and
`SumIsMonotonic`.

`TasksAreNeverStuck` proves the safety part of `EveryTaskIsReported`: with both
timeouts set, a task that is not yet reported has an armed timer or a handler under
way, or it is in the queue and a slot is free or held by a task that has one of
these. In the last case the slots are full, so the service is not empty, and
`IndInv` gives each task in it a timer or a handler. It remains for fairness that
timers fire, handlers end and the loop takes.

`TaskServiceRefinementProofs` proves `ServiceIsAScheduler`: every step of the service
is a step of `TaskScheduler` or a stutter, without a condition. `MayLoseTasks` is
`RetriesAreUnsafe` (the pool refuses rentals, or listeners of `taskRetried` throw);
where it is false, the scheduler gives up no task before it is closed. The mapping
makes a task active from `Take` until its handler ends, so a stop is a stutter, and
the count the loop tests is the number of active tasks (`ActiveIsServed`).

### ExecutorConfig

`ConfigIsSound`, `TaskOptionsAreSound` (in `TaskExecutorProofs`): what the constructor
accepts has a number of retries in `Nat` and a value for every flag, as the other
modules assume of these, and the options of `run()` come before those of the executor.
Of `maxParallelTasks` no more than that it is a number is proved: the constructor
accepts a negative one, which `ServiceAssumption` excludes.

### TaskExecutor

`TaskExecutorProofs`: `TypeCorrectness` and `RunCorrectness` (run is truthful) without
a condition; `GoesDownOnceWhenAwaited`, `TerminationIsClean` (all that `doShutdown`
takes down, so not the VPN network), `StaysDownWhenAwaited` and
`TasksBeginOnALivePool` if `init()` is awaited (the run `shutdown_during_init` shows
why); `ShutdownIsComplete` if no listener calls `shutdown()` (the run
`reentrant_shutdown` shows why); `ExecutorIsAScheduler`. Two are the safety parts of
liveness properties, without a condition on `init()`: `WaitingIsJustified`, a call of
`shutdown()` waits only while `doShutdown` is under way, so whoever waits is told
when it ends or fails; `CriticalErrorsShutDown`, once a critical error is announced
the executor is not running, also if it had been cancelled before (`CanceledIsDown`),
so every poll of `run()` is to give up. The inductive invariant
(`TaskExecutorInductive`) ties isRunning, the place in `doShutdown` and the log to
one another (`LogFollowsShutdown`, `LogIsOrdered`), says that nothing that could
start a shutdown is there before `init()` (`NothingBeforeInit`), and that each step of
`doShutdown` has taken down what it is there for, for good (`TakenDown`).

### StatsService

`StatsServiceProofs`: `PaymentStatusCorrectness`, `FiguresCorrectness`,
`CostsCorrectness`, `PrintedCorrectness`, `StartupTimeoutCorrectness`,
`HintCorrectness`. The totals of `getAllCosts` are sums
over agreements of sums over invoices; each invoice belongs to one agreement, so they
are the sums over the invoices (`SumOfFamily`), and what is accepted is part of what
was received (`SumIsMonotonic`). That the printed report stays a lower bound follows
as the lists only grow (`FiguresGrow`, `CostGrows`). The lists that
are compared by length are subsets of one another, and finite.

### ClientPrograms

`ClientProgramsProofs`: `ProgramsAwaitTheExecutor` (the refinement, from which the
theorems about `TaskExecutor` with an awaited `init()` follow for programs),
`ProgramsLeaveNothingBehind`, `ProgramsFailOutsideTasks`, `ProgramsEndWithResults`.
`ProgramsLeaveNothingBehind` assumes that no listener calls `shutdown()`, and nothing
else: `InitIsAwaited` is `FALSE` in the run `clients` and free in the theorem, as
programs await `init()` by what they do and not by assumption.
`ProgramsEndWithResults` follows a result from the task to the end of the program:
the task is done when its `run()` resolves, an outcome never changes, a stage is left
only once its `Promise` has resolved, and a rejection that is not caught comes out
again after the `finally` clause.

### Only model-checked

Every invariant and action property that a passing run checks is proved. Liveness
under fairness stays with TLC, as the provers reason neither about `ENABLED` nor about
weak fairness: `EveryTaskIsReported`, the fairness of `ImplementsFairScheduler`,
`CriticalErrorStopsAll`, `EveryCallSettles` and `SignalEndsProgram`. What is proved of
the first, third and fourth is their safety part (`NoTaskIsStuck`,
`CriticalErrorIsHeeded`, `NobodyWaitsInVain`). The first and the last of these are also
invariants of runs. `CriticalErrorIsHeeded` and the inductive invariants have a theorem
and no run: TLC was used on them before they were proved, and what follows from them is
what the runs check.

## 5. Not modelled

* Durations (the 2000 ms of the polling, the lengths of timeouts), logging, message
  texts, the wrapping of errors in `GolemWorkError` by `run`, payloads of events.
* golem-js beyond what the package uses of it: signing, deployment, payments, what
  `drainAndClear` does to rentals that are lent, what `disconnect` does to a VPN
  network.
* An executor that is used without a call of `init()`, a number of parallel tasks that
  is negative or `NaN`.
* What the task functions of the examples do on a provider, their input and output;
  the examples for a browser page (no signal handlers, no process to end), the
  programs that are copies of one already modelled, and a second SIGINT, which the
  handlers of `proxy` take for themselves.
* `utils.ts` and `index.ts` (no state), the unit and end-to-end tests, the docs and
  the build: they have no behaviour of their own. The tests were read for what they
  say of the classes.

## 6. Plan

Done, in this order: `Task`, `TaskQueue`, `RentalPool`, `TaskService`, its properties
and `IndInv`; `TaskScheduler` and the refinement, checked and then proved;
`TaskExecutor` with its proofs; throwing listeners; `StatsService`; `ExecutorConfig`;
`ClientPrograms`; rentals, events and results proved; sums, and with them retries and
costs; the refinement without a condition; the parts of liveness that are safety; what
is left of the refuted claims.

What would be worth adding:
1. The statistics composed with `TaskExecutor` instead of beside it, so that the
   startup timeout of the executor is the one `StatsService` decides.
2. A proof that `TaskExecutor` makes only tasks whose options the assumptions of
   `TaskService` allow, as a refinement instead of by `TaskOptionsAreSound` alone.
3. The safety part of `SignalEndsProgram`: what a program awaits after a signal
   settles, or is being settled.
