----------------------- MODULE ClientProgramsProperties -----------------------
(***************************************************************************)
(* How the example programs use the executor, and what they leave behind.  *)
(***************************************************************************)
EXTENDS ClientPrograms

(* The executor whose run() and shutdown() are called after init() only.   *)
Awaited == INSTANCE TaskExecutor WITH InitIsAwaited <- TRUE

Over == {"ended", "failed", "crashed"}

(* Nothing a program awaits outside its try can reject but create().       *)
Guarded(p) ==
  \A k \in 1 .. Len(p.stages) :
    k < p.tryFrom => p.stages[k].join = "allSettled" /\ ~p.stages[k].checks

(* Nothing it awaits but create() and shutdown() can make it reject.       *)
Catching(p) == Guarded(p) /\ (p.catches \/ p.tryFrom > Len(p.stages))

(* Every variable of the program has a value of its type.                  *)
ClientTypeOK ==
  /\ program \in Programs
  /\ pc \in Over \cup {"idle", "creating", "running", "closing", "killed"}
  /\ stage \in 0 .. Len(program.stages)
  /\ pc = "running" => stage # 0
  /\ threw \in BOOLEAN

(* A guarded program that is over has shut down what it created: no        *)
(* connection, pool, service, timer or signal handler is left, however its *)
(* tasks ended and whatever signal came in between (hello.ts:22-28).       *)
LeavesNothingBehind ==
  Guarded(program) /\ pc \in Over /\ init = "done" /\ shutdownPc # "rejected" =>
    /\ glm = "disconnected"
    /\ pool = "drained"
    /\ door # "open"
    /\ ~startupTimeoutId /\ ~signalHandlers

(* A program that catches fails only if its preparation, create() or       *)
(* shutdown() does, never because of a task or a signal.                   *)
FailsOnlyOutsideTasks ==
  Catching(program) /\ pc \in {"failed", "crashed"} =>
    init \in {"idle", "failed"} \/ shutdownPc \in {"rejected", "rejectedAfterEnd"}

(* The program has no catch clause for what the stage rejects with: it is  *)
(* to reject as well, if only after its finally clause.                    *)
Rethrows(p, k) == k < p.tryFrom \/ ~p.catches

(* No program exits as if all were well with a result missing that it      *)
(* awaited and would not do without: all the tasks of its Promise.all, or  *)
(* one of its Promise.any, are done, although failures, retries, signals   *)
(* and critical errors make run() reject or give up in between, and a      *)
(* finally clause comes after (fibonacci.ts, ssh.ts).                      *)
EndsWithResults ==
  pc = "ended" =>
    \A k \in 1 .. Len(program.stages) :
      LET s == program.stages[k] IN
        Rethrows(program, k) =>
          /\ s.join \in {"all", "allResolved"} =>
               \A t \in s.tasks : outcome[t] = "done"
          /\ s.join = "any" => \E t \in s.tasks : outcome[t] = "done"

-----------------------------------------------------------------------------
(* All programs call run() and shutdown() after init() only, so they drive *)
(* the executor as executor_life assumes.                                  *)
AwaitsTheExecutor == Awaited!Spec

-----------------------------------------------------------------------------
(* The event loop goes on with the main function once what it awaits has   *)
(* settled.  For Promise.any that is sure only when all of its calls have. *)
ClientFairness ==
  /\ WF_allVars(ExecutorStep /\ ShutdownStep)
  /\ \A t \in Tasks : WF_allVars(ExecutorStep /\ Poll(t))
  /\ WF_allVars(MainStep /\ (Created \/ CallRun \/ Close \/ Closed))
  /\ WF_allVars(MainStep /\ LeaveStage /\ Settled(Current) = Current.tasks)

FairClientSpec == ClientSpec /\ ClientFairness

(* A signal or a critical error ends the program: the calls of run() it    *)
(* waits for reject, and its shutdown() settles with the one under way.    *)
SignalEndsProgram == isCanceled ~> pc \in Over \cup {"killed"}
=============================================================================
