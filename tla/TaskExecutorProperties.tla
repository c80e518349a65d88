----------------------- MODULE TaskExecutorProperties -----------------------
(***************************************************************************)
(* What TaskExecutor promises.                                             *)
(***************************************************************************)
EXTENDS TaskExecutor, SequencesExt

Ended == Contains(log, "executorEnd")

(* Every variable has a value of its type; the options are ones that the   *)
(* constructor of ExecutorConfig makes of what the user gave.              *)
TypeOK ==
  /\ Scheduler!TypeInvariant
  /\ options \in {Config(o) : o \in UserOptions}
  /\ process \in {"up", "ended"}
  /\ init \in {"idle", "connecting", "networking", "pooling", "subscribing",
               "done", "failed"}
  /\ glm \in {"off", "connected", "disconnected"}
  /\ network \in {"none", "created"}
  /\ pool \in {"none", "live", "drained"}
  /\ service \in {"none", "starting", "looping", "failed"}
  /\ {startupTimeoutId, signalHandlers, isRunning, isCanceled} \subseteq BOOLEAN
  /\ shutdownPc \in {"idle", "emitting", "ending", "draining", "drained",
                     "disconnected", "resolved", "rejected",
                     "rejectedAfterEnd"}
  /\ log \in Seq({"executorReady", "executorBeforeEnd", "criticalError",
                  "executorEnd"})
  /\ shutdownCall \in [Callers -> {"idle", "waiting", "resolved", "rejected"}]
  /\ runCall \in [Tasks -> {"idle", "polling", "resolved", "rejected", "stopped",
                        "failed"}]
  /\ outcome \in [Tasks -> {"none", "done", "rejected"}]

(* When "executorEnd" is emitted, whatever doShutdown takes down is down   *)
(* (executor.ts:302-313): no timer or signal handler that could cancel the *)
(* executor again, no open service, no live pool, no connection.  The VPN  *)
(* network is not among these: nothing in this code ever removes it.       *)
CleanTermination ==
  Ended =>
    /\ ~startupTimeoutId /\ ~signalHandlers
    /\ door # "open"
    /\ pool # "live"
    /\ glm # "connected"

(* However many calls, signals and critical errors race, the executor goes *)
(* down once: one "executorBeforeEnd", then at most one "executorEnd", and *)
(* what it announces agrees with its state.                                *)
GoesDownOnce ==
  /\ \A i, j \in DOMAIN log :
       log[i] = log[j] /\ log[i] # "criticalError" => i = j
  /\ \A i, j \in DOMAIN log :
       /\ log[i] = "executorBeforeEnd" /\ log[j] = "executorEnd" => i < j
       /\ log[i] = "executorReady" /\ log[j] = "executorBeforeEnd" => i < j
  /\ Contains(log, "executorBeforeEnd") <=> ~isRunning
  /\ Ended <=> shutdownPc \in {"resolved", "rejectedAfterEnd"}

(* Once "executorEnd" says that the executor is fully stopped              *)
(* (executor.ts:284), it stays so: nobody arms the startup timer, installs *)
(* signal handlers or makes a service any more.  False if shutdown() is    *)
(* called while init() awaits: init() goes on as if nothing had happened.  *)
StaysDown ==
  [][Ended =>
       /\ startupTimeoutId' => startupTimeoutId
       /\ signalHandlers' => signalHandlers
       /\ service = "none" => service' = "none"]_vars

(* No task is begun on a pool that has been drained: the service is told   *)
(* to end before the pool is.                                              *)
NoTaskBegunOnDrainedPool ==
  [][\A t \in Tasks :
       phase[t] = "waiting" /\ phase'[t] = "active" => pool = "live"]_vars

(* run() resolves only with the results of a task that is done, rejects    *)
(* with the error of one that is rejected, and gives up on a task only     *)
(* because the executor was stopped, a listener threw, or the task was     *)
(* never made.                                                             *)
RunIsFaithful ==
  \A t \in Tasks :
    /\ runCall[t] = "resolved" => outcome[t] = "done"
    /\ runCall[t] = "rejected" => outcome[t] = "rejected"
    /\ runCall[t] = "stopped" => ~isRunning
    /\ runCall[t] = "failed" =>
         \/ "throwQueued" \in Listeners
         \/ phase[t] = "absent"

(* A call of shutdown() resolves only when the executor is shut down       *)
(* (executor.ts:280).  False for a call made by a listener of              *)
(* "executorBeforeEnd": it is given undefined (executor.ts:288-289).       *)
ShutdownMeansDown ==
  \A c \in Callers : shutdownCall[c] = "resolved" => Ended

(* What the liveness properties below rest on.  A call of shutdown() waits *)
(* only while a shutdown is under way: nobody comes too late to be told,   *)
(* and whatever fails, everybody who waits is.                             *)
NobodyWaitsInVain ==
  \A c \in Callers :
    shutdownCall[c] = "waiting" =>
      shutdownPc \in {"emitting", "ending", "draining", "drained", "disconnected"}

(* A critical error has stopped the executor by the time its event is out, *)
(* also if it was cancelled before, or is the second one: every poll of    *)
(* run() is to give up.  Unless a listener of "criticalError" throws.      *)
CriticalErrorIsHeeded ==
  "throwCritical" \notin Listeners /\ Contains(log, "criticalError") =>
    ~isRunning

(* Once "executorEnd" is emitted the executor is completely terminated     *)
(* (events.ts:23): no task completes or fails any more.  False: nobody     *)
(* waits for the task functions that are still running.                    *)
SilentAfterEnd ==
  [][Ended => \A t \in Tasks :
       phase[t] = "active" => phase'[t] \notin {"completed", "failed"}]_vars

-----------------------------------------------------------------------------
(* The event loop serves what is ready.  That the pool drains and golem-js *)
(* disconnects, or that they reject, is assumed of golem-js; it is not     *)
(* assumed that a task ever ends.                                          *)
Fairness ==
  /\ WF_vars(ShutdownStep)
  /\ \A t \in Tasks : WF_vars(Poll(t))

FairSpec == Spec /\ Fairness

(* Every call of shutdown() settles, and every call of run() whose task is *)
(* done or rejected, or whose executor is stopped, unless the process of   *)
(* Node ends before: a listener of "criticalError" threw.                  *)
EveryCallSettles ==
  /\ \A c \in Callers :
       shutdownCall[c] = "waiting" ~>
         shutdownCall[c] # "waiting" \/ process = "ended"
  /\ \A t \in Tasks :
       runCall[t] = "polling" /\ (outcome[t] # "none" \/ ~isRunning) ~>
         runCall[t] # "polling" \/ process = "ended"

(* A critical error "will now cancel work, terminate agreements"           *)
(* (executor.ts:415): no call of run() polls on, the service is told to    *)
(* end, timer and signal handlers are gone, and the pool is drained and    *)
(* golem-js disconnected before "executorEnd" - unless draining or         *)
(* disconnecting rejects, which leaves that one or both of them as they    *)
(* are.  A listener that throws at "criticalError" or "executorBeforeEnd"  *)
(* keeps the executor up, so there must be none.                           *)
CriticalErrorStopsAll ==
  /\ {"throwCritical", "throw"} \cap Listeners = {}
  /\ Contains(log, "criticalError")
  ~> /\ \A t \in Tasks : runCall[t] # "polling"
     /\ door # "open"
     /\ ~startupTimeoutId /\ ~signalHandlers
     /\ \/ Ended /\ pool # "live" /\ glm # "connected"
        \/ shutdownPc = "rejected" /\ (pool = "live" \/ glm = "connected")
=============================================================================
