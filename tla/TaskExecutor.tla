---------------------------- MODULE TaskExecutor ----------------------------
(***************************************************************************)
(* The TaskExecutor class (src/src/executor.ts): its initialisation, its   *)
(* shutdown, the ways into a shutdown (a call, a signal, a critical error) *)
(* and the calls of run() that wait for a task.                            *)
(*                                                                         *)
(* The queue and the task service are the ones of TaskScheduler, the       *)
(* specification TaskService is shown to implement.  A step is again one   *)
(* run of the event loop; the listeners of "executorBeforeEnd" run in the  *)
(* middle of one, so they have steps of their own and nothing else happens *)
(* until they are through.                                                 *)
(***************************************************************************)
EXTENDS ExecutorConfig, Sequences, FiniteSets

CONSTANTS
  Tasks, MaxRetries, MaxParallelTasks,   \* as in TaskScheduler
  MayLoseTasks,       \* may the service leave a retry half way?
  Callers,            \* the callers of shutdown(), one call each
  InitIsAwaited,      \* are run() and shutdown() called after init() only?
  UserOptions,        \* what may be passed to the constructor; options that
                      \* are refused make no executor
  RunOptionsOf,       \* what is passed to run() with each task
  StepsMayFail,       \* may connect, manyOf, ready, drainAndClear and
                      \* disconnect reject?
  Listeners           \* what listeners of the user may do: "shutdown" (call
                      \* shutdown() in "executorBeforeEnd"), "throw" (in
                      \* "executorBeforeEnd"), "throwReady", "throwQueued",
                      \* "throwCritical", "throwEnd" (in "executorReady",
                      \* "taskQueued", "criticalError", "executorEnd")

ASSUME ExecutorAssumption ==
  /\ {InitIsAwaited, StepsMayFail} \subseteq BOOLEAN
  /\ \A o \in UserOptions : /\ ~ConfigIsRefused(o)
                             /\ Config(o).vpn \in BOOLEAN
                             /\ Config(o).skipProcessSignals \in BOOLEAN
  /\ Listeners \subseteq {"shutdown", "throw", "throwReady", "throwQueued",
                     "throwCritical", "throwEnd"}

VARIABLES
  options,            \* the ExecutorConfig, which never changes
  process,            \* the process of Node: "up", or "ended" by an error
                      \* that nobody caught
  init,               \* where init() is
  glm,                \* GolemNetwork: "off", "connected", "disconnected"
  network,            \* the VPN network: "none", "created"
  pool,               \* resourceRentalPool: "none", "live", "drained"
  service,            \* taskService: "none", then where its run() is
  startupTimeoutId,   \* is the startup timer armed?
  signalHandlers,     \* are the handlers of the signals installed?
  isRunning, isCanceled,
  shutdownPc,         \* where doShutdown() is, and how its promise settled:
                      \* "rejectedAfterEnd" if "executorEnd" was emitted
  log,                \* the executor's own events, in order
  shutdownCall,       \* what each call of shutdown() has come to
  runCall,            \* what each call of run() has come to
  outcome,            \* the final state of each task, or "none"
  phase, line, tries, door   \* the state of TaskScheduler

Scheduler == INSTANCE TaskScheduler

schedulerVars == <<phase, line, tries, door>>
resourceVars == <<glm, network, pool, service>>
runVars == <<runCall, outcome>>
shutdownVars == <<isRunning, isCanceled, shutdownPc, log, shutdownCall>>
vars == <<options, process, init, resourceVars, startupTimeoutId,
          signalHandlers, shutdownVars, runVars, schedulerVars>>

Init ==
  /\ Scheduler!Init
  /\ options \in {Config(o) : o \in UserOptions}
  /\ process = "up"
  /\ init = "idle"
  /\ glm = "off"
  /\ network = "none"
  /\ pool = "none"
  /\ service = "none"
  /\ startupTimeoutId = FALSE
  /\ signalHandlers = FALSE
  /\ isRunning = TRUE
  /\ isCanceled = FALSE
  /\ shutdownPc = "idle"
  /\ log = << >>
  /\ shutdownCall = [c \in Callers |-> "idle"]
  /\ runCall = [t \in Tasks |-> "idle"]
  /\ outcome = [t \in Tasks |-> "none"]

(* The event loop is free: no listener is in the middle of its turn.       *)
Quiet == process = "up" /\ shutdownPc # "emitting"

(* The user has called init(), and waited for it if init() is awaited.  An *)
(* executor that is used with no call of init() is not modelled.           *)
InUse == init # "idle" /\ (init \in {"done", "failed"} \/ ~InitIsAwaited)

-----------------------------------------------------------------------------
(* init(), from one await to the next.                                     *)

InitStep(from, to) ==
  /\ Quiet
  /\ init = from
  /\ init' = to
  /\ UNCHANGED <<options, process, shutdownVars, runVars, schedulerVars>>

StartInit ==
  /\ InitStep("idle", "connecting")
  /\ UNCHANGED <<resourceVars, startupTimeoutId, signalHandlers>>

Connected ==
  /\ InitStep("connecting", IF options.vpn THEN "networking" ELSE "pooling")
  /\ glm' = "connected"
  /\ UNCHANGED <<network, pool, service, startupTimeoutId, signalHandlers>>

NetworkCreated ==
  /\ InitStep("networking", "pooling")
  /\ network' = "created"
  /\ UNCHANGED <<glm, pool, service, startupTimeoutId, signalHandlers>>

PoolCreated ==
  /\ InitStep("pooling", "subscribing")
  /\ pool' = "live"
  /\ UNCHANGED <<glm, network, service, startupTimeoutId, signalHandlers>>

(* The rest of init(), after `await statsService.run()`.  If a listener of  *)
(* "executorReady" throws, init() rejects with everything started.         *)
InitDone ==
  /\ Quiet
  /\ init = "subscribing"
  /\ init' \in {"done"} \cup (IF "throwReady" \in Listeners THEN {"failed"}
                                                         ELSE {})
  /\ startupTimeoutId' = Truthy(options.startupTimeout)
  /\ service' = "starting"
  /\ signalHandlers' = ~options.skipProcessSignals
  /\ log' = Append(log, "executorReady")
  /\ UNCHANGED <<options, process, glm, network, pool, isRunning, isCanceled,
                 shutdownPc, shutdownCall, runVars, schedulerVars>>

InitFails ==
  /\ StepsMayFail
  /\ \E from \in {"connecting", "networking", "pooling"} :
       InitStep(from, "failed")
  /\ UNCHANGED <<resourceVars, startupTimeoutId, signalHandlers>>

-----------------------------------------------------------------------------
(* shutdown() and cancel().                                                *)

(* Mutant of BeginShutdown: without the check of isRunning.                *)
BeginShutdownTwice(events) ==
  /\ isRunning' = FALSE
  /\ shutdownPc' = "emitting"
  /\ log' = log \o events \o <<"executorBeforeEnd">>

(* The start of shutdown(), of the first call: doShutdown runs up to the   *)
(* listeners of "executorBeforeEnd".  `events` were emitted just before.   *)
BeginShutdown(events) ==
  /\ isRunning
  /\ isRunning' = FALSE
  /\ shutdownPc' = "emitting"
  /\ log' = log \o events \o <<"executorBeforeEnd">>

(* Mutants of LaterCall: the state of the shutdown is returned; nothing is *)
(* waited for; a settled promise is waited for.                            *)
LaterCallGetsState == shutdownPc

LaterCallGetsUndefined == "resolved"

LaterCallWaits == IF shutdownPc = "emitting" THEN "resolved" ELSE "waiting"

(* What a call of shutdown() after the first one comes to: it gets the     *)
(* promise, which may have settled, or undefined if it is not set yet.     *)
LaterCall ==
  IF shutdownPc \in {"emitting", "resolved"} THEN "resolved"
  ELSE IF shutdownPc \in {"rejected", "rejectedAfterEnd"} THEN "rejected"
  ELSE "waiting"

Shutdown(c) ==
  /\ Quiet
  /\ InUse
  /\ shutdownCall[c] = "idle"
  /\ \/ /\ BeginShutdown(<< >>)
        /\ shutdownCall' = [shutdownCall EXCEPT ![c] = "waiting"]
     \/ /\ ~isRunning
        /\ shutdownCall' = [shutdownCall EXCEPT ![c] = LaterCall]
        /\ UNCHANGED <<isRunning, shutdownPc, log>>
  /\ UNCHANGED <<options, process, init, resourceVars, startupTimeoutId,
                 signalHandlers, isCanceled, runVars, schedulerVars>>

(* Mutant of Cancel: the shutdown is left to somebody else.                *)
CancelWithoutShutdown(events) ==
  /\ log' = log \o events
  /\ isCanceled' = TRUE
  /\ signalHandlers' = FALSE
  /\ UNCHANGED <<isRunning, shutdownPc>>

(* cancel(), up to its await, after emitting `events`.                     *)
Cancel(events) ==
  \/ /\ isCanceled
     /\ log' = log \o events
     /\ UNCHANGED <<isCanceled, signalHandlers, isRunning, shutdownPc>>
  \/ /\ ~isCanceled
     /\ isCanceled' = TRUE
     /\ signalHandlers' = FALSE
     /\ \/ BeginShutdown(events)
        \/ /\ ~isRunning
           /\ log' = log \o events
           /\ UNCHANGED <<isRunning, shutdownPc>>

Signal ==
  /\ Quiet
  /\ signalHandlers
  /\ Cancel(<< >>)
  /\ UNCHANGED <<options, process, init, resourceVars, startupTimeoutId,
                 shutdownCall, runVars, schedulerVars>>

(* A listener that throws keeps the executor from being cancelled.  Nobody *)
(* catches the error, which ends a Node process unless it is told not to.  *)
HandleCriticalError ==
  \/ /\ Cancel(<<"criticalError">>)
     /\ UNCHANGED process
  \/ /\ "throwCritical" \in Listeners
     /\ log' = Append(log, "criticalError")
     /\ process' \in {"up", "ended"}
     /\ UNCHANGED <<isCanceled, signalHandlers, isRunning, shutdownPc>>

(* The startup timer is due; a proposal may have been confirmed or not.    *)
StartupTimeout ==
  /\ Quiet
  /\ startupTimeoutId
  /\ startupTimeoutId' = FALSE
  /\ \/ HandleCriticalError
     \/ UNCHANGED <<process, isCanceled, signalHandlers, isRunning, shutdownPc,
                    log>>
  /\ UNCHANGED <<options, init, resourceVars, shutdownCall, runVars,
                 schedulerVars>>

(* taskService.run() rejects: the pool does not get ready.                 *)
ServiceFails ==
  /\ Quiet
  /\ StepsMayFail
  /\ service = "starting"
  /\ service' = "failed"
  /\ HandleCriticalError
  /\ UNCHANGED <<options, init, glm, network, pool, startupTimeoutId,
                 shutdownCall, runVars, schedulerVars>>

-----------------------------------------------------------------------------
(* doShutdown(), from one suspension to the next.                          *)

SettleCalls(result) ==
  shutdownCall' = [c \in Callers |->
    IF shutdownCall[c] = "waiting" THEN result ELSE shutdownCall[c]]

(* A listener of "executorBeforeEnd" calls shutdown() again: isRunning is  *)
(* false already, shutdownPromise is not assigned yet.                     *)
ListenerShutsDown(c) ==
  /\ "shutdown" \in Listeners
  /\ shutdownPc = "emitting"
  /\ shutdownCall[c] = "idle"
  /\ shutdownCall' = [shutdownCall EXCEPT ![c] = LaterCall]
  /\ UNCHANGED <<options, process, init, resourceVars, startupTimeoutId,
                 signalHandlers, isRunning, isCanceled, shutdownPc, log,
                 runVars, schedulerVars>>

(* A listener throws, and so does doShutdown.                              *)
ListenerThrows ==
  /\ "throw" \in Listeners
  /\ shutdownPc = "emitting"
  /\ shutdownPc' = "rejected"
  /\ SettleCalls("rejected")
  /\ UNCHANGED <<options, process, init, resourceVars, startupTimeoutId,
                 signalHandlers, isRunning, isCanceled, log, runVars,
                 schedulerVars>>

(* Mutants of EndService: the startup timer stays armed; the task service  *)
(* is not told to end.                                                     *)
EndServiceKeepingTimer ==
  /\ shutdownPc = "emitting"
  /\ shutdownPc' = "ending"
  /\ signalHandlers' = FALSE
  /\ IF service = "none" THEN UNCHANGED schedulerVars ELSE Scheduler!Close
  /\ UNCHANGED <<options, process, init, resourceVars, startupTimeoutId,
                 isRunning, isCanceled, log, shutdownCall, runVars>>

EndServiceLeftOpen ==
  /\ shutdownPc = "emitting"
  /\ shutdownPc' = "ending"
  /\ signalHandlers' = FALSE
  /\ startupTimeoutId' = FALSE
  /\ UNCHANGED <<options, process, init, resourceVars, isRunning, isCanceled,
                 log, shutdownCall, runVars, schedulerVars>>

(* The listeners are through: up to `await taskService?.end()`.            *)
EndService ==
  /\ shutdownPc = "emitting"
  /\ shutdownPc' = "ending"
  /\ signalHandlers' = FALSE
  /\ startupTimeoutId' = FALSE
  /\ IF service = "none" THEN UNCHANGED schedulerVars ELSE Scheduler!Close
  /\ UNCHANGED <<options, process, init, resourceVars, isRunning, isCanceled,
                 log, shutdownCall, runVars>>

DoShutdown(from, to) ==
  /\ process = "up"
  /\ shutdownPc = from
  /\ shutdownPc' = to
  /\ UNCHANGED <<options, process, init, network, service, startupTimeoutId,
                 signalHandlers, isRunning, isCanceled, runVars, schedulerVars>>

(* `await resourceRentalPool?.drainAndClear()`                             *)
Drain ==
  /\ DoShutdown("ending", IF pool = "none" THEN "drained" ELSE "draining")
  /\ UNCHANGED <<glm, pool, log, shutdownCall>>

Drained ==
  /\ DoShutdown("draining", "drained")
  /\ pool' = "drained"
  /\ UNCHANGED <<glm, log, shutdownCall>>

(* `await glm.disconnect()`                                                *)
Disconnected ==
  /\ DoShutdown("drained", "disconnected")
  /\ glm' = "disconnected"
  /\ UNCHANGED <<pool, log, shutdownCall>>

ShutdownFails ==
  /\ StepsMayFail
  /\ \E from \in {"draining", "drained"} : DoShutdown(from, "rejected")
  /\ SettleCalls("rejected")
  /\ UNCHANGED <<glm, pool, log>>

(* printStats, `await statsService.end()`, "executorEnd".  A listener of    *)
(* that event that throws makes doShutdown reject, with all of it done.    *)
Terminated ==
  /\ \/ /\ DoShutdown("disconnected", "resolved")
        /\ SettleCalls("resolved")
     \/ /\ "throwEnd" \in Listeners
        /\ DoShutdown("disconnected", "rejectedAfterEnd")
        /\ SettleCalls("rejected")
  /\ log' = Append(log, "executorEnd")
  /\ UNCHANGED <<glm, pool>>

-----------------------------------------------------------------------------
(* run(): the call and its polling of the task.                            *)

(* What run() comes to in the step that calls it: "stopped" or "polling",  *)
(* or "failed" if a listener of "taskQueued" throws.                       *)
FirstTurn ==
  {IF isRunning THEN "polling" ELSE "stopped"} \cup
    (IF "throwQueued" \in Listeners THEN {"failed"} ELSE {})

(* A task whose options are refused is not made; any other is queued,      *)
(* whatever becomes of the call.                                           *)
Run(t) ==
  /\ Quiet
  /\ InUse
  /\ runCall[t] = "idle"
  /\ \/ /\ TaskIsRefused(TaskOptions(options, RunOptionsOf[t]))
        /\ runCall' = [runCall EXCEPT ![t] = "failed"]
        /\ UNCHANGED schedulerVars
     \/ /\ ~TaskIsRefused(TaskOptions(options, RunOptionsOf[t]))
        /\ \E result \in FirstTurn :
             runCall' = [runCall EXCEPT ![t] = result]
        /\ Scheduler!Submit(t)
  /\ UNCHANGED <<options, process, init, resourceVars, startupTimeoutId,
                 signalHandlers, shutdownVars, outcome>>

(* Mutants of Poll: the error of a rejected task is not thrown; the loop   *)
(* does not look at isRunning.                                             *)
PollNeverRejects(t) ==
  /\ Quiet
  /\ runCall[t] = "polling"
  /\ \/ /\ ~isRunning
        /\ runCall' = [runCall EXCEPT ![t] = "stopped"]
     \/ /\ isRunning
        /\ outcome[t] # "none"
        /\ runCall' = [runCall EXCEPT ![t] = "resolved"]
  /\ UNCHANGED <<options, process, init, resourceVars, startupTimeoutId,
                 signalHandlers, shutdownVars, outcome, schedulerVars>>

PollWhileStopped(t) ==
  /\ Quiet
  /\ runCall[t] = "polling"
  /\ outcome[t] # "none"
  /\ runCall' = [runCall EXCEPT
                   ![t] = IF outcome[t] = "rejected" THEN "rejected"
                                                     ELSE "resolved"]
  /\ UNCHANGED <<options, process, init, resourceVars, startupTimeoutId,
                 signalHandlers, shutdownVars, outcome, schedulerVars>>

(* One turn of the polling loop that settles the call.                     *)
Poll(t) ==
  /\ Quiet
  /\ runCall[t] = "polling"
  /\ \/ /\ ~isRunning
        /\ runCall' = [runCall EXCEPT ![t] = "stopped"]
     \/ /\ isRunning
        /\ outcome[t] # "none"
        /\ runCall' = [runCall EXCEPT
                         ![t] = IF outcome[t] = "rejected" THEN "rejected"
                                                           ELSE "resolved"]
  /\ UNCHANGED <<options, process, init, resourceVars, startupTimeoutId,
                 signalHandlers, shutdownVars, outcome, schedulerVars>>

-----------------------------------------------------------------------------
(* The task service, as TaskScheduler has it.                              *)

ServiceStep ==
  /\ Quiet
  /\ UNCHANGED <<options, process, init, glm, network, pool, startupTimeoutId,
                 signalHandlers, shutdownVars, runCall>>

ServiceReady ==
  /\ ServiceStep
  /\ service = "starting"
  /\ service' = "looping"
  /\ IF door = "closed" THEN UNCHANGED schedulerVars ELSE Scheduler!Open
  /\ UNCHANGED outcome

ServeTask(t) ==
  /\ ServiceStep
  /\ outcome[t] = "none"
  /\ Scheduler!Begin(t) \/ Scheduler!Retry(t) \/ Scheduler!Abandon(t)
  /\ UNCHANGED <<outcome, service>>

(* A task is stopped for good; its handler has still to release the rental *)
(* and to emit the event.                                                  *)
SettleTask(t) ==
  /\ ServiceStep
  /\ phase[t] = "active"
  /\ outcome[t] = "none"
  /\ \E result \in {"done", "rejected"} :
       outcome' = [outcome EXCEPT ![t] = result]
  /\ UNCHANGED <<service, schedulerVars>>

ReportTask(t) ==
  /\ ServiceStep
  /\ \/ outcome[t] = "done" /\ phase' = [phase EXCEPT ![t] = "completed"]
     \/ outcome[t] = "rejected" /\ phase' = [phase EXCEPT ![t] = "failed"]
  /\ Scheduler!Finish(t)
  /\ UNCHANGED <<outcome, service>>

-----------------------------------------------------------------------------
InitializationStep ==
  StartInit \/ Connected \/ NetworkCreated \/ PoolCreated \/ InitDone \/ InitFails

ShutdownStep ==
  \/ ListenerThrows \/ EndService \/ Drain \/ Drained \/ Disconnected
  \/ ShutdownFails \/ Terminated

TaskStep(t) == ServeTask(t) \/ SettleTask(t) \/ ReportTask(t)

Next ==
  \/ InitializationStep \/ ShutdownStep
  \/ Signal \/ StartupTimeout \/ ServiceFails \/ ServiceReady
  \/ \E c \in Callers : Shutdown(c) \/ ListenerShutsDown(c)
  \/ \E t \in Tasks : Run(t) \/ Poll(t) \/ TaskStep(t)

Spec == Init /\ [][Next]_vars
=============================================================================
