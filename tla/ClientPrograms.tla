--------------------------- MODULE ClientPrograms ---------------------------
(***************************************************************************)
(* The programs under src/examples, composed with the TaskExecutor they    *)
(* use: each awaits create(), calls run() in one stage after another, and  *)
(* ends in shutdown(), most of them from a finally clause.                 *)
(*                                                                         *)
(* What a stage is depends on how the program waits for its calls: one by  *)
(* one, or with Promise.all, allSettled or any.  Two calls stand for any   *)
(* number.  What a task function does on the provider is not the concern   *)
(* of this module; the executor lets it succeed or fail.                   *)
(*                                                                         *)
(* This module leaves it to the programs to await create(): it is meant    *)
(* for InitIsAwaited = FALSE.                                              *)
(***************************************************************************)
EXTENDS TaskExecutor

CONSTANT Programs     \* the programs one of which is run

ASSUME ClientAssumption ==
  /\ Callers = {"main"}
  /\ Tasks \subseteq Int
  /\ UserOptions = {p.options : p \in Programs}
  /\ \A p \in Programs :
       /\ Len(p.stages) \in Nat \ {0} /\ p.tryFrom \in Nat
       /\ \A k \in 1 .. Len(p.stages) : p.stages[k].tasks \subseteq Tasks

VARIABLES
  program,            \* the program that runs
  pc,                 \* where its main function is, or how the process ended
  stage,              \* the stage it is in, 0 before the first
  threw               \* does its finally clause end in a rejection?

clientVars == <<program, pc, stage, threw>>
allVars == <<vars, clientVars>>

-----------------------------------------------------------------------------
(* Stages.  `checks`: code that follows may throw on the results.          *)

Stage(T, join) == [tasks |-> T, join |-> join, checks |-> FALSE]

Await(t) == Stage({t}, "all")
Attempt(t) == Stage({t}, "allSettled")     \* run(...).catch(...)
AwaitAll == Stage({1, 2}, "all")
Checked(s) == [s EXCEPT !.checks = TRUE]

(* Most programs: create, then try { await run } catch, finally shutdown.  *)
(* `tryFrom` is the first stage inside the try, `prepares` tells that      *)
(* something that may reject is awaited before create(), and `survives`    *)
(* that a rejection of the main function is caught, not left to Node.      *)
OneTask ==
  [options |-> NoOptions, prepares |-> FALSE, stages |-> <<Await(1)>>,
   tryFrom |-> 1, catches |-> TRUE, survives |-> FALSE]

Prepared == [OneTask EXCEPT !.prepares = TRUE]
OneCheckedTask == [OneTask EXCEPT !.stages = <<Checked(Await(1))>>]

hello == OneTask
batchPromise == OneTask
batchStream == OneTask
fileTransfer == OneTask
logger == OneTask
tag == OneTask
multipleRunProsaic == OneTask
streamOnclose == OneTask
observingEvents == OneTask
uploadingFile == OneTask
uploadFile == OneTask
multiCommandEnd == OneTask
multiCommandEndstream == OneTask
bestProvidersIds == OneTask
dynamicProposalFilter == OneTask
customPrice == OneTask           \* its task.startupTimeout is no option
serveLocalGvmi == OneTask

npmInstall == Prepared
outboundBasic == Prepared
whitelistChecker == Prepared
reputation == Prepared
externalRequest ==
  [Prepared EXCEPT !.stages = OneCheckedTask.stages]

multiCommandFail == OneCheckedTask

foreach == [OneTask EXCEPT !.stages = <<Await(1), Await(2)>>]
simpleMap == [OneTask EXCEPT !.stages = <<Stage({1, 2}, "allSettled")>>]

(* They read `result.value.reason` of a rejected result, which throws.     *)
map == [OneTask EXCEPT !.stages = <<Stage({1, 2}, "allResolved")>>]
maxParallelTasks == map

onActivityReady == [OneTask EXCEPT !.stages = <<AwaitAll>>]
blender == onActivityReady

(* No catch clause: what rejects does so again after the finally clause.   *)
fibonacci == [onActivityReady EXCEPT !.catches = FALSE]
ssh == [fibonacci EXCEPT !.options.vpn = {TRUE}]

proxy == [OneTask EXCEPT !.options.vpn = {TRUE},
                         !.options.skipProcessSignals = {TRUE}]

(* No try at all.                                                          *)
runAndStream == [OneTask EXCEPT !.tryFrom = 2]
streamWaitforexit ==
  [OneTask EXCEPT !.stages = <<Attempt(1), Attempt(2)>>, !.tryFrom = 3]

(* The first run() and the split of the keyspace are not in the try; the   *)
(* split throws if there are fewer keys than providers.                    *)
yacat == [OneTask EXCEPT
            !.stages = <<Checked(Await(1)), Checked(Stage({2, 3}, "any"))>>,
            !.tryFrom = 2]
runningParallelTasks == [yacat EXCEPT !.survives = TRUE]

Examples ==
  {hello, batchPromise, batchStream, fileTransfer, logger, tag,
   multipleRunProsaic, streamOnclose, observingEvents, uploadingFile,
   uploadFile, multiCommandEnd, multiCommandEndstream, bestProvidersIds,
   dynamicProposalFilter, customPrice, serveLocalGvmi, npmInstall,
   outboundBasic, whitelistChecker, reputation, externalRequest,
   multiCommandFail, foreach, simpleMap, map, maxParallelTasks,
   onActivityReady, blender, fibonacci, ssh, proxy, runAndStream,
   streamWaitforexit, yacat, runningParallelTasks}

-----------------------------------------------------------------------------
ClientInit ==
  /\ Init
  /\ program \in Programs
  /\ options = Config(program.options)
  /\ pc = "idle"
  /\ stage = 0
  /\ threw = FALSE

Current == program.stages[stage]

(* A program in the middle of its calls of run(): they are made without an *)
(* await between them, so nothing else happens.                            *)
Calling == pc = "running" /\ \E t \in Current.tasks : runCall[t] = "idle"

(* The process is gone, and the executor with it: the program let an error *)
(* or a signal through, or the executor threw one that nobody could catch. *)
Dead == pc \in {"crashed", "killed"} \/ process = "ended"

(* The main function rejects.                                              *)
Uncaught == pc' = IF program.survives THEN "failed" ELSE "crashed"

-----------------------------------------------------------------------------
(* How a stage settles.                                                    *)

(* Mutant of Settled: a call that is stopped does not reject.              *)
SettledUnlessStopped(s) == {t \in s.tasks : runCall[t] \in {"resolved", "rejected"}}

Settled(s) == {t \in s.tasks : runCall[t] \notin {"idle", "polling"}}

Resolved(s) == {t \in s.tasks : runCall[t] = "resolved"}

Passes(s) ==
  \/ s.join = "all" /\ Resolved(s) = s.tasks
  \/ s.join = "allSettled" /\ Settled(s) = s.tasks
  \/ s.join = "allResolved" /\ Resolved(s) = s.tasks
  \/ s.join = "any" /\ Resolved(s) # {}

Throws(s) ==
  \/ s.join = "all" /\ Settled(s) # Resolved(s)
  \/ s.join = "allResolved" /\ Settled(s) = s.tasks /\ Resolved(s) # s.tasks
  \/ s.join = "any" /\ Settled(s) = s.tasks /\ Resolved(s) = {}
  \/ s.checks /\ Settled(s) = s.tasks

-----------------------------------------------------------------------------
(* The main function.                                                      *)

(* What comes before create() rejects.                                     *)
PreparationFails ==
  /\ pc = "idle"
  /\ program.prepares
  /\ Uncaught
  /\ UNCHANGED <<vars, program, stage, threw>>

Create ==
  /\ pc = "idle"
  /\ StartInit
  /\ pc' = "creating"
  /\ UNCHANGED <<program, stage, threw>>

(* Mutant of Created: create() is not awaited.                             *)
CreatedUnawaited ==
  /\ pc = "creating"
  /\ pc' = "running"
  /\ stage' = 1
  /\ UNCHANGED <<vars, program, threw>>

Created ==
  /\ pc = "creating"
  /\ \/ init = "done" /\ pc' = "running" /\ stage' = 1
     \/ init = "failed" /\ Uncaught /\ UNCHANGED stage
  /\ UNCHANGED <<vars, program, threw>>

(* The next call of run() of the stage, in order.                          *)
CallRun ==
  /\ pc = "running"
  /\ \E t \in Current.tasks :
       /\ \A u \in Current.tasks : u < t => runCall[u] # "idle"
       /\ Run(t)
  /\ UNCHANGED clientVars

(* Mutants of LeaveStage: one stage too many; the catch clause is missing. *)
LeaveStageOffByOne ==
  /\ pc = "running" /\ ~Calling
  /\ \/ /\ Passes(Current)
        /\ IF stage <= Len(program.stages)
             THEN stage' = stage + 1 /\ UNCHANGED pc
             ELSE pc' = "closing" /\ UNCHANGED stage
        /\ UNCHANGED threw
     \/ /\ Throws(Current)
        /\ stage >= program.tryFrom
        /\ pc' = "closing"
        /\ threw' = ~program.catches
        /\ UNCHANGED stage
  /\ UNCHANGED <<vars, program>>

LeaveStageUncaught ==
  /\ pc = "running" /\ ~Calling
  /\ \/ /\ Passes(Current)
        /\ IF stage < Len(program.stages)
             THEN stage' = stage + 1 /\ UNCHANGED pc
             ELSE pc' = "closing" /\ UNCHANGED stage
        /\ UNCHANGED threw
     \/ /\ Throws(Current)
        /\ pc' = "closing"
        /\ threw' = TRUE
        /\ UNCHANGED stage
  /\ UNCHANGED <<vars, program>>

(* The await of the stage ends: on to the next, or to the finally clause.  *)
LeaveStage ==
  /\ pc = "running" /\ ~Calling
  /\ \/ /\ Passes(Current)
        /\ IF stage < Len(program.stages)
             THEN stage' = stage + 1 /\ UNCHANGED pc
             ELSE pc' = "closing" /\ UNCHANGED stage
        /\ UNCHANGED threw
     \/ /\ Throws(Current)
        /\ IF stage >= program.tryFrom
             THEN pc' = "closing" /\ threw' = ~program.catches
             ELSE Uncaught /\ UNCHANGED threw
        /\ UNCHANGED stage
  /\ UNCHANGED <<vars, program>>

(* `await executor.shutdown()`                                             *)
Close ==
  /\ pc = "closing"
  /\ Shutdown("main")
  /\ UNCHANGED clientVars

(* Mutant of Closed: the promise is not awaited.                           *)
ClosedUnawaited ==
  /\ pc = "closing"
  /\ shutdownCall["main"] # "idle"
  /\ pc' = "ended"
  /\ UNCHANGED <<vars, program, stage, threw>>

Closed ==
  /\ pc = "closing"
  /\ shutdownCall["main"] \in {"resolved", "rejected"}
  /\ IF shutdownCall["main"] = "resolved" /\ ~threw THEN pc' = "ended"
                                                    ELSE Uncaught
  /\ UNCHANGED <<vars, program, stage, threw>>

(* A signal nobody handles: before init() is done, or once cancel() has    *)
(* removed the handlers.                                                   *)
Kill ==
  /\ pc \in {"idle", "creating", "running", "closing"}
  /\ process = "up"
  /\ ~Calling
  /\ ~signalHandlers
  /\ pc' = "killed"
  /\ UNCHANGED <<vars, program, stage, threw>>

(* The main function goes on between the turns of the executor.            *)
MainStep ==
  /\ Quiet
  /\ \/ PreparationFails \/ Create \/ Created \/ CallRun \/ LeaveStage
     \/ Close \/ Closed

(* The executor goes on by itself, as long as the process is there.        *)
ExecutorStep ==
  /\ ~Dead /\ ~Calling
  /\ \/ Connected \/ NetworkCreated \/ PoolCreated \/ InitDone \/ InitFails
     \/ ShutdownStep
     \/ Signal \/ StartupTimeout \/ ServiceFails \/ ServiceReady
     \/ \E t \in Tasks : Poll(t) \/ TaskStep(t)
  /\ UNCHANGED clientVars

ClientNext == MainStep \/ ExecutorStep \/ Kill

ClientSpec == ClientInit /\ [][ClientNext]_allVars
=============================================================================
