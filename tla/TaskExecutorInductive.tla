----------------------- MODULE TaskExecutorInductive -----------------------
(***************************************************************************)
(* The inductive invariant behind the theorems about TaskExecutor.         *)
(***************************************************************************)
EXTENDS TaskExecutorProperties

InitSettled == init \in {"done", "failed"}

(* doShutdown is past the listeners of "executorBeforeEnd".                *)
PastListeners ==
  shutdownPc \in {"ending", "draining", "drained", "disconnected", "resolved",
                  "rejectedAfterEnd"}

(* isRunning, the place in doShutdown and the log tell the same story.     *)
LogFollowsShutdown ==
  /\ isRunning <=> shutdownPc = "idle"
  /\ Contains(log, "executorBeforeEnd") <=> ~isRunning
  /\ Ended <=> shutdownPc \in {"resolved", "rejectedAfterEnd"}
  /\ Contains(log, "executorReady") => InitSettled

EachEventOnce(events) ==
  \A i, j \in DOMAIN events :
    events[i] = events[j] /\ events[i] # "criticalError" => i = j

InOrder(events, first, second) ==
  \A i, j \in DOMAIN events :
    events[i] = first /\ events[j] = second => i < j

LogIsOrdered ==
  /\ EachEventOnce(log)
  /\ InOrder(log, "executorBeforeEnd", "executorEnd")
  /\ InitIsAwaited => InOrder(log, "executorReady", "executorBeforeEnd")

(* Whatever may start a shutdown, but for a call, and whatever it has to   *)
(* take down, is there only after init().                                  *)
NothingBeforeInit ==
  /\ startupTimeoutId \/ signalHandlers \/ service # "none" => InitSettled
  /\ pool # "none" => init = "subscribing" \/ InitSettled
  /\ init = "subscribing" => pool # "none"
  /\ service # "none" => pool # "none"
  /\ door = "open" => service # "none"

DrainsAPool == shutdownPc = "draining" => pool # "none"

ShutdownFollowsInit == InitIsAwaited /\ ~isRunning => InitSettled

(* The steps of doShutdown take down what they are there for, for good.    *)
TakenDown ==
  /\ PastListeners => /\ ~startupTimeoutId
                      /\ ~signalHandlers
                      /\ service # "none" => door = "closed"
  /\ pool = "drained" => /\ ~isRunning
                         /\ service # "none" => door = "closed"
  /\ shutdownPc \in {"drained", "disconnected", "resolved", "rejectedAfterEnd"} =>
       pool # "live"
  /\ shutdownPc \in {"disconnected", "resolved", "rejectedAfterEnd"} =>
       glm # "connected"

(* What cancels the executor shuts it down in the same step.               *)
CanceledIsDown == isCanceled => ~isRunning

(* A task comes from a call of run().                                      *)
TasksHaveCallers == \A t \in Tasks : runCall[t] = "idle" => phase[t] = "absent"

(* An executor that is in use only once its init() has settled.            *)
InitPrecedesShutdown ==
  /\ LogFollowsShutdown
  /\ LogIsOrdered
  /\ NothingBeforeInit
  /\ DrainsAPool
  /\ ShutdownFollowsInit
  /\ InitIsAwaited => TakenDown

IndInv ==
  /\ TypeOK
  /\ TasksHaveCallers
  /\ RunIsFaithful
  /\ InitPrecedesShutdown
  /\ "shutdown" \notin Listeners => ShutdownMeansDown
=============================================================================
