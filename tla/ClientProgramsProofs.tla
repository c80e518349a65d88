------------------------ MODULE ClientProgramsProofs ------------------------
(***************************************************************************)
(* Theorems about ClientPrograms, for any programs of its kind, any number *)
(* of tasks and stages.                                                    *)
(***************************************************************************)
EXTENDS ClientProgramsProperties, TaskExecutorProofs

(* A program awaits create() before it calls run(), and closes only what   *)
(* it has created.                                                         *)
CreatesFirst ==
  /\ pc = "idle" => init = "idle"
  /\ pc \in {"running", "closing"} => init = "done"

(* A program that is over has not created an executor, or has awaited its  *)
(* shutdown, or gave up outside its try.                                   *)
ClosesLast ==
  pc \in Over /\ Guarded(program) =>
    \/ init \in {"idle", "failed"}
    \/ shutdownCall["main"] \in {"resolved", "rejected"}

Rejections == {"rejected", "rejectedAfterEnd"}

RejectsWithShutdown == shutdownCall["main"] = "rejected" => shutdownPc \in Rejections

OnlyClosingThrows ==
  /\ threw => ~Catching(program)
  /\ pc \in {"failed", "crashed"} /\ Catching(program) =>
       init \in {"idle", "failed"} \/ shutdownPc \in Rejections

(* The calls of run() without which the stage would not pass are resolved. *)
Delivered(s) ==
  /\ s.join \in {"all", "allResolved"} => Resolved(s) = s.tasks
  /\ s.join = "any" => Resolved(s) # {}

StagesDelivered ==
  /\ pc \in {"running", "closing"} =>
       \A k \in 1 .. Len(program.stages) :
         k < stage => Delivered(program.stages[k])
  /\ pc = "ended" \/ (pc = "closing" /\ ~threw) =>
       \A k \in 1 .. Len(program.stages) :
         Rethrows(program, k) => Delivered(program.stages[k])

ClientInv ==
  /\ ClientTypeOK
  /\ CreatesFirst /\ ClosesLast /\ RejectsWithShutdown /\ OnlyClosingThrows
  /\ StagesDelivered

-----------------------------------------------------------------------------
(* The program and its executor take turns.                                *)

(* A running program is in one of its stages, whose calls of run() are *)
(* about tasks.                                                        *)
LEMMA CurrentTasks ==
  ASSUME ClientTypeOK, pc = "running"
  PROVE  stage \in 1 .. Len(program.stages) /\ Current.tasks \subseteq Tasks
<1>1. stage \in 1 .. Len(program.stages)
  BY ClientAssumption DEF ClientTypeOK
<1>2. QED
  BY <1>1, ClientAssumption DEF ClientTypeOK, Current

(* A step of a program is one of the executor, or leaves the executor *)
(* alone.                                                             *)
LEMMA ClientStepsAreSteps ==
  ASSUME ClientTypeOK, [ClientNext]_allVars
  PROVE  [Next]_vars
<1>1. CASE UNCHANGED allVars
  BY <1>1 DEF allVars
<1>2. CASE MainStep
  <2>1. CASE Create
    BY <2>1 DEF Create, Next, InitializationStep
  <2>2. CASE CallRun
    BY <2>2, CurrentTasks DEF CallRun, Next
  <2>3. CASE Close
    BY <2>3, ClientAssumption DEF Close, Next
  <2>4. CASE PreparationFails \/ Created \/ LeaveStage \/ Closed
    BY <2>4 DEF PreparationFails, Created, LeaveStage, Closed
  <2>5. QED
    BY <1>2, <2>1, <2>2, <2>3, <2>4 DEF MainStep
<1>3. CASE ExecutorStep
  BY <1>3 DEF ExecutorStep, Next, InitializationStep
<1>4. CASE Kill
  BY <1>4 DEF Kill
<1>5. QED
  BY <1>1, <1>2, <1>3, <1>4 DEF ClientNext

(* Where init() is, and how the first call of shutdown() may settle, in a  *)
(* step of the executor.                                                   *)
LEMMA InitMoves ==
  ASSUME [Next]_vars
  PROVE  /\ init \in {"done", "failed"} => UNCHANGED init
         /\ init = "idle" => UNCHANGED init \/ StartInit
<1>1. CASE UNCHANGED vars
  BY <1>1 DEF vars
<1>2. CASE InitializationStep
  BY <1>2 DEF InitializationStep, StartInit, Connected, NetworkCreated,
     PoolCreated, InitDone, InitFails, InitStep
<1>3. CASE ShutdownStep
  BY <1>3 DEF ShutdownStep, ListenerThrows, EndService, Drain, Drained,
     Disconnected, ShutdownFails, Terminated, DoShutdown
<1>4. CASE Signal \/ StartupTimeout \/ ServiceFails \/ ServiceReady
  BY <1>4 DEF Signal, StartupTimeout, ServiceFails, ServiceReady, ServiceStep
<1>5. CASE \E c \in Callers : Shutdown(c) \/ ListenerShutsDown(c)
  BY <1>5 DEF Shutdown, ListenerShutsDown
<1>6. CASE \E t \in Tasks : Run(t) \/ Poll(t) \/ TaskStep(t)
  BY <1>6 DEF Run, Poll, TaskStep, ServeTask, SettleTask, ReportTask, ServiceStep
<1>7. QED
  BY <1>1, <1>2, <1>3, <1>4, <1>5, <1>6 DEF Next

(* The shutdown() a program awaits settles once, and rejects only with *)
(* doShutdown.                                                         *)
LEMMA ShutdownCallMoves ==
  ASSUME IndInv, [Next]_vars, RejectsWithShutdown
  PROVE  /\ shutdownPc \in Rejections => shutdownPc' \in Rejections
         /\ RejectsWithShutdown'
         /\ shutdownCall["main"] \in {"resolved", "rejected"} =>
              shutdownCall'["main"] = shutdownCall["main"]
<1>type. /\ shutdownCall \in [Callers -> {"idle", "waiting", "resolved", "rejected"}]
         /\ "main" \in Callers
         /\ isRunning <=> shutdownPc = "idle"
         /\ log \in Seq(Events)
  BY PartsOfType, ClientAssumption DEF IndInv, CallsTypeOK, InitPrecedesShutdown,
     LogFollowsShutdown
<1> USE DEF RejectsWithShutdown, Rejections
<1> DEFINE Goal == /\ shutdownPc \in Rejections => shutdownPc' \in Rejections
                   /\ shutdownCall'["main"] = "rejected" => shutdownPc' \in Rejections
                   /\ shutdownCall["main"] \in {"resolved", "rejected"} =>
                        shutdownCall'["main"] = shutdownCall["main"]
<1>same. UNCHANGED <<shutdownPc, shutdownCall>> => Goal
  OBVIOUS
<1>1. CASE UNCHANGED vars
  BY <1>same, <1>1 DEF vars, shutdownVars
<1>2. CASE InitializationStep
  BY <1>same, <1>2 DEF InitializationStep, StartInit, Connected, NetworkCreated,
     PoolCreated, InitDone, InitFails, InitStep, shutdownVars
<1>3. CASE ShutdownStep
  BY <1>type, <1>3 DEF ShutdownStep, ListenerThrows, EndService, Drain, Drained,
     Disconnected, ShutdownFails, Terminated, DoShutdown, SettleCalls
<1>cancel. Cancel(<< >>) \/ HandleCriticalError =>
             shutdownPc' = shutdownPc \/ shutdownPc = "idle"
  BY <1>type DEF HandleCriticalError, Cancel, BeginShutdown
<1>4. CASE Signal \/ StartupTimeout \/ ServiceFails \/ ServiceReady
  <2>1. UNCHANGED shutdownCall
    BY <1>4 DEF Signal, StartupTimeout, ServiceFails, ServiceReady, ServiceStep,
       shutdownVars
  <2>2. shutdownPc' = shutdownPc \/ shutdownPc = "idle"
    BY <1>cancel, <1>4 DEF Signal, StartupTimeout, ServiceFails, ServiceReady,
       ServiceStep, shutdownVars
  <2>3. QED
    BY <1>type, <2>1, <2>2
<1>5. ASSUME NEW c \in Callers, Shutdown(c) \/ ListenerShutsDown(c)
      PROVE  Goal
  <2>1. c = "main"
    BY ClientAssumption
  <2>2. shutdownCall["main"] = "idle"
    BY <1>5, <2>1 DEF Shutdown, ListenerShutsDown
  <2>3. CASE BeginShutdown(<< >>)
             /\ shutdownCall' = [shutdownCall EXCEPT ![c] = "waiting"]
    BY <1>type, <2>1, <2>2, <2>3 DEF BeginShutdown
  <2>4. CASE UNCHANGED shutdownPc
             /\ shutdownCall' = [shutdownCall EXCEPT ![c] = LaterCall]
    BY <1>type, <2>1, <2>2, <2>4 DEF LaterCall
  <2>5. QED
    BY <1>5, <2>3, <2>4 DEF Shutdown, ListenerShutsDown
<1>6. CASE \E t \in Tasks : Run(t) \/ Poll(t) \/ TaskStep(t)
  BY <1>same, <1>6 DEF Run, Poll, TaskStep, ServeTask, SettleTask, ReportTask,
     ServiceStep, shutdownVars
<1>7. Goal
  BY <1>1, <1>2, <1>3, <1>4, <1>5, <1>6 DEF Next
<1>8. QED
  BY <1>7

(* A call of run() that has settled stays as it is.                        *)
LEMMA SettledStays ==
  ASSUME TypeOK, [Next]_vars, NEW t \in Tasks, runCall[t] \notin {"idle", "polling"}
  PROVE  runCall'[t] = runCall[t]
<1>type. DOMAIN runCall = Tasks
  BY PartsOfType DEF CallsTypeOK
<1>1. CASE UNCHANGED vars
  BY <1>1 DEF vars, runVars
<1>2. CASE InitializationStep
  BY <1>2 DEF InitializationStep, StartInit, Connected, NetworkCreated,
     PoolCreated, InitDone, InitFails, InitStep, runVars
<1>3. CASE ShutdownStep
  BY <1>3 DEF ShutdownStep, ListenerThrows, EndService, Drain, Drained,
     Disconnected, ShutdownFails, Terminated, DoShutdown, runVars
<1>4. CASE Signal \/ StartupTimeout \/ ServiceFails \/ ServiceReady
  BY <1>4 DEF Signal, StartupTimeout, ServiceFails, ServiceReady, ServiceStep, runVars
<1>5. CASE \E c \in Callers : Shutdown(c) \/ ListenerShutsDown(c)
  BY <1>5 DEF Shutdown, ListenerShutsDown, runVars
<1>6. ASSUME NEW u \in Tasks, Run(u) \/ Poll(u) \/ TaskStep(u)
      PROVE  runCall'[t] = runCall[t]
  <2>1. CASE Run(u)
    BY <1>type, <2>1 DEF Run
  <2>2. CASE Poll(u)
    BY <1>type, <2>2 DEF Poll
  <2>3. CASE TaskStep(u)
    BY <2>3 DEF TaskStep, ServeTask, SettleTask, ReportTask, ServiceStep
  <2>4. QED
    BY <1>6, <2>1, <2>2, <2>3
<1>7. QED
  BY <1>1, <1>2, <1>3, <1>4, <1>5, <1>6 DEF Next

(* What is delivered stays delivered. *)
LEMMA DeliveredStays ==
  ASSUME TypeOK, ClientTypeOK, [Next]_vars, UNCHANGED program,
         NEW k \in 1 .. Len(program.stages), Delivered(program.stages[k])
  PROVE  Delivered(program.stages[k])'
<1>1. program.stages[k].tasks \subseteq Tasks
  BY ClientAssumption DEF ClientTypeOK
<1>2. \A t \in program.stages[k].tasks :
        runCall[t] = "resolved" => runCall'[t] = "resolved"
  BY <1>1, SettledStays
<1>3. QED
  BY <1>2 DEF Delivered, Resolved

(* A stage that passes has delivered. *)
LEMMA PassingDelivers ==
  ASSUME Passes(Current)
  PROVE  Delivered(Current)
BY DEF Passes, Delivered

(* ClientInv holds initially. *)
LEMMA ClientInitEstablishes == ClientInit => ClientInv
<1>1. SUFFICES ASSUME ClientInit PROVE ClientInv
  OBVIOUS
<1>2. /\ pc = "idle" /\ init = "idle" /\ stage = 0 /\ threw = FALSE
      /\ program \in Programs
      /\ shutdownCall["main"] = "idle"
  BY <1>1, ClientAssumption DEF ClientInit, Init
<1>3. ClientTypeOK
  <2>1. Len(program.stages) \in Nat
    BY <1>2, ClientAssumption
  <2>2. 0 \in 0 .. Len(program.stages)
    BY <2>1
  <2>3. QED
    BY <1>2, <2>2 DEF ClientTypeOK, Over
<1>4. QED
  BY <1>2, <1>3 DEF ClientInv, CreatesFirst, ClosesLast, RejectsWithShutdown,
     OnlyClosingThrows, StagesDelivered, Over

(* Each step of a program keeps the types of its variables. *)
LEMMA ClientTypeStays ==
  ASSUME ClientTypeOK, [ClientNext]_allVars
  PROVE  ClientTypeOK'
<1> USE DEF ClientTypeOK, Over
<1>program. /\ program \in Programs
            /\ Len(program.stages) \in Nat \ {0}
  BY ClientAssumption
<1>same. UNCHANGED clientVars => ClientTypeOK'
  BY DEF clientVars
<1>1. CASE UNCHANGED allVars
  BY <1>same, <1>1 DEF allVars
<1>2. CASE ExecutorStep
  BY <1>same, <1>2 DEF ExecutorStep
<1>3. CASE Kill
  BY <1>3 DEF Kill
<1>4. CASE PreparationFails \/ Closed
  BY <1>4 DEF PreparationFails, Closed, Uncaught
<1>5. CASE Create
  BY <1>5 DEF Create
<1>6. CASE Created
  BY <1>6, <1>program DEF Created, Uncaught
<1>7. CASE CallRun \/ Close
  BY <1>same, <1>7 DEF CallRun, Close
<1>8. CASE LeaveStage
  <2>1. stage \in 1 .. Len(program.stages)
    BY <1>8, CurrentTasks DEF LeaveStage
  <2>2. pc' \in {"running", "closing", "failed", "crashed"}
    BY <1>8 DEF LeaveStage, Uncaught
  <2>3. stage' \in 1 .. Len(program.stages)
    BY <1>8, <1>program, <2>1 DEF LeaveStage
  <2>4. threw' \in BOOLEAN
    BY <1>8 DEF LeaveStage
  <2>5. QED
    BY <1>8, <2>2, <2>3, <2>4 DEF LeaveStage
<1>9. QED
  BY <1>1, <1>2, <1>3, <1>4, <1>5, <1>6, <1>7, <1>8 DEF ClientNext, MainStep

(* A program that is guarded leaves a stage outside its try only to go on. *)
LEMMA GuardedStagesPass ==
  ASSUME ClientTypeOK, pc = "running", Throws(Current), Guarded(program)
  PROVE  stage >= program.tryFrom
<1>1. stage \in 1 .. Len(program.stages) /\ program.tryFrom \in Nat
      /\ Len(program.stages) \in Nat
  BY CurrentTasks, ClientAssumption DEF ClientTypeOK
<1>2. SUFFICES ASSUME stage < program.tryFrom PROVE FALSE
  BY <1>1
<1>3. Current.join = "allSettled" /\ ~Current.checks
  BY <1>1, <1>2 DEF Guarded, Current
<1>4. QED
  BY <1>3 DEF Throws

(* A program that leaves a stage has what it was to deliver, or rejects, or *)
(* has a catch clause for it, and is past its shutdown() only if it is not  *)
(* guarded.                                                                 *)
LEMMA StageEndsSafely ==
  ASSUME ClientInv, LeaveStage
  PROVE  /\ init = "done"
         /\ pc' # "closing" => pc' = "running" \/ ~Guarded(program)
         /\ threw' => ~Catching(program)
         /\ StagesDelivered'
<1>1. /\ pc = "running" /\ ClientTypeOK /\ init = "done"
      /\ threw => ~Catching(program)
      /\ threw \in BOOLEAN
      /\ UNCHANGED <<program, runCall>>
  BY DEF LeaveStage, ClientInv, CreatesFirst, OnlyClosingThrows, ClientTypeOK,
     vars, runVars
<1>2. stage \in 1 .. Len(program.stages) /\ Len(program.stages) \in Nat
      /\ program.tryFrom \in Nat
  BY <1>1, CurrentTasks, ClientAssumption DEF ClientTypeOK
<1>3. \A k \in 1 .. Len(program.stages) :
        k < stage => Delivered(program.stages[k])
  BY <1>1 DEF ClientInv, StagesDelivered
<1>same. \A k \in 1 .. Len(program.stages) :
           Delivered(program.stages[k]) => Delivered(program.stages[k])'
  BY <1>1 DEF Delivered, Resolved
<1>4. CASE Passes(Current) /\ UNCHANGED threw
           /\ IF stage < Len(program.stages)
                THEN stage' = stage + 1 /\ UNCHANGED pc
                ELSE pc' = "closing" /\ UNCHANGED stage
  <2>1. \A k \in 1 .. Len(program.stages) :
          k <= stage => Delivered(program.stages[k])
    BY <1>2, <1>3, <1>4, PassingDelivers DEF Current
  <2>2. CASE stage < Len(program.stages)
    <3>1. \A k \in 1 .. Len(program.stages) : k < stage' => k <= stage
      BY <1>2, <1>4, <2>2
    <3>2. StagesDelivered'
      BY <1>1, <1>4, <1>same, <2>1, <2>2, <3>1 DEF StagesDelivered
    <3>3. QED
      BY <1>1, <1>4, <2>2, <3>2
  <2>3. CASE ~(stage < Len(program.stages))
    <3>1. \A k \in 1 .. Len(program.stages) : k <= stage
      BY <1>2, <2>3
    <3>2. StagesDelivered'
      BY <1>1, <1>4, <1>same, <2>1, <2>3, <3>1 DEF StagesDelivered
    <3>3. QED
      BY <1>1, <1>4, <2>3, <3>2
  <2>4. QED
    BY <2>2, <2>3
<1>5. CASE Throws(Current) /\ UNCHANGED stage
           /\ IF stage >= program.tryFrom
                THEN pc' = "closing" /\ threw' = ~program.catches
                ELSE Uncaught /\ UNCHANGED threw
  <2>1. CASE stage >= program.tryFrom
    <3>1. threw' => ~Catching(program)
      <4>1. ~(program.tryFrom > Len(program.stages))
        BY <1>2, <2>1
      <4>2. QED
        BY <1>5, <2>1, <4>1 DEF Catching
    <3>2. ASSUME NEW k \in 1 .. Len(program.stages), Rethrows(program, k), ~threw'
          PROVE  Delivered(program.stages[k])
      <4>1. k < program.tryFrom
        BY <1>5, <2>1, <3>2 DEF Rethrows
      <4>2. k < stage
        BY <1>2, <2>1, <4>1
      <4>3. QED
        BY <1>3, <4>2
    <3>3. StagesDelivered'
      BY <1>1, <1>3, <1>5, <1>same, <2>1, <3>2 DEF StagesDelivered, Rethrows
    <3>4. QED
      BY <1>1, <1>5, <2>1, <3>1, <3>3
  <2>2. CASE ~(stage >= program.tryFrom)
    <3>1. ~Guarded(program) /\ pc' \in {"failed", "crashed"}
      BY <1>1, <1>5, <2>2, GuardedStagesPass DEF Uncaught
    <3>2. StagesDelivered'
      BY <3>1 DEF StagesDelivered
    <3>3. QED
      BY <1>1, <1>5, <2>2, <3>1, <3>2
  <2>3. QED
    BY <2>1, <2>2
<1>6. QED
  BY <1>4, <1>5 DEF LeaveStage

(* Each step preserves ClientInv. *)
LEMMA ClientStepPreserves ==
  IndInv /\ ClientInv /\ [ClientNext]_allVars => ClientInv'
<1>1. SUFFICES ASSUME IndInv, ClientInv, [ClientNext]_allVars PROVE ClientInv'
  OBVIOUS
<1>2. ClientTypeOK' /\ ClientTypeOK
  BY <1>1, ClientTypeStays DEF ClientInv
<1>3. /\ [Next]_vars
      /\ TypeOK
  BY <1>1, <1>2, ClientStepsAreSteps DEF IndInv
<1>4. RejectsWithShutdown'
  BY <1>1, <1>3, ShutdownCallMoves DEF ClientInv
<1>init. init \in {"done", "failed"} => UNCHANGED init
  BY <1>3, InitMoves
<1>idle. init = "idle" => UNCHANGED init \/ StartInit
  BY <1>3, InitMoves
<1>call. /\ shutdownPc \in Rejections => shutdownPc' \in Rejections
         /\ shutdownCall["main"] \in {"resolved", "rejected"} =>
              shutdownCall'["main"] = shutdownCall["main"]
  BY <1>1, <1>3, ShutdownCallMoves DEF ClientInv
<1>before. CreatesFirst /\ ClosesLast /\ RejectsWithShutdown /\ OnlyClosingThrows
           /\ StagesDelivered
  BY <1>1 DEF ClientInv
<1>stuck. ASSUME UNCHANGED clientVars, init = "idle" => UNCHANGED init
          PROVE  ClientInv'
  <2>1. CreatesFirst' /\ ClosesLast'
    BY <1>stuck, <1>before, <1>init, <1>call DEF clientVars, CreatesFirst,
       ClosesLast
  <2>2. OnlyClosingThrows'
    BY <1>stuck, <1>before, <1>init, <1>call DEF clientVars,
       OnlyClosingThrows
  <2>3. StagesDelivered'
    <3>1. \A k \in 1 .. Len(program.stages) :
            Delivered(program.stages[k]) => Delivered(program.stages[k])'
      BY <1>2, <1>3, <1>stuck, DeliveredStays DEF clientVars
    <3>2. QED
      BY <1>stuck, <1>before, <3>1 DEF clientVars, StagesDelivered
  <2>4. QED
    BY <1>2, <1>4, <1>stuck, <1>before, <2>1, <2>2, <2>3 DEF ClientInv, clientVars
<1>5. CASE UNCHANGED allVars
  BY <1>stuck, <1>5 DEF allVars, vars
<1>6. CASE ExecutorStep
  <2>1. init = "idle" => UNCHANGED init
    <3>1. CASE \E t \in Tasks : Poll(t) \/ TaskStep(t)
      BY <3>1 DEF Poll, TaskStep, ServeTask, SettleTask, ReportTask, ServiceStep
    <3>2. CASE ShutdownStep
      BY <3>2 DEF ShutdownStep, ListenerThrows, EndService, Drain, Drained,
         Disconnected, ShutdownFails, Terminated, DoShutdown
    <3>3. CASE Signal \/ StartupTimeout \/ ServiceFails \/ ServiceReady
      BY <3>3 DEF Signal, StartupTimeout, ServiceFails, ServiceReady, ServiceStep
    <3>4. CASE Connected \/ NetworkCreated \/ PoolCreated \/ InitDone \/ InitFails
      BY <3>4 DEF Connected, NetworkCreated, PoolCreated, InitDone, InitFails,
         InitStep
    <3>5. QED
      BY <1>6, <3>1, <3>2, <3>3, <3>4 DEF ExecutorStep
  <2>2. QED
    BY <1>6, <1>stuck, <2>1 DEF ExecutorStep
<1>7. CASE Kill
  <2>1. UNCHANGED <<vars, program, stage, threw>> /\ pc' = "killed"
    BY <1>7 DEF Kill
  <2>2. QED
    BY <1>2, <1>4, <1>before, <2>1 DEF vars, ClientInv, CreatesFirst, ClosesLast,
       OnlyClosingThrows, StagesDelivered, Over
<1>8. CASE PreparationFails
  <2>1. /\ UNCHANGED <<vars, program, stage, threw>>
        /\ init' = "idle"
        /\ pc' \in {"failed", "crashed"}
    BY <1>8, <1>before DEF PreparationFails, Uncaught, CreatesFirst, vars
  <2>2. QED
    BY <1>2, <1>4, <1>before, <2>1 DEF vars, ClientInv, CreatesFirst, ClosesLast,
       OnlyClosingThrows, StagesDelivered, Over
<1>9. CASE Create
  <2>1. UNCHANGED <<program, threw>> /\ pc' = "creating"
    BY <1>9 DEF Create
  <2>2. QED
    BY <1>2, <1>4, <1>before, <2>1 DEF ClientInv, CreatesFirst, ClosesLast,
       OnlyClosingThrows, StagesDelivered, Over, Catching, Guarded
<1>10. CASE Created
  <2>1. /\ UNCHANGED <<vars, init, program, threw>>
        /\ \/ init = "done" /\ pc' = "running"
                /\ stage' = 1
           \/ init = "failed" /\ pc' \in {"failed", "crashed"}
    BY <1>10 DEF Created, Uncaught, vars
  <2>2. QED
    BY <1>2, <1>4, <1>before, <2>1 DEF ClientInv, CreatesFirst, ClosesLast,
       OnlyClosingThrows, StagesDelivered, Over, Catching, Guarded
<1>11. CASE CallRun \/ Close
  BY <1>11, <1>stuck DEF CallRun, Close, Run, Shutdown
<1>12. CASE LeaveStage
  <2>1. /\ UNCHANGED <<vars, init, program, shutdownCall, shutdownPc, runCall>>
        /\ pc' \in {"running", "closing", "failed", "crashed"}
    BY <1>12 DEF LeaveStage, Uncaught, vars, shutdownVars, runVars
  <2>2. /\ init = "done"
        /\ pc' # "closing" => pc' = "running" \/ ~Guarded(program)
        /\ threw' => ~Catching(program)
        /\ StagesDelivered'
    BY <1>1, <1>12, StageEndsSafely
  <2>3. CreatesFirst' /\ ClosesLast'
    BY <2>1, <2>2 DEF CreatesFirst, ClosesLast, Over, Guarded
  <2>4. OnlyClosingThrows'
    BY <2>1, <2>2 DEF OnlyClosingThrows, Catching, Guarded
  <2>5. QED
    BY <1>2, <1>4, <2>2, <2>3, <2>4 DEF ClientInv
<1>13. CASE Closed
  <2>1. /\ UNCHANGED <<vars, init, program, threw, shutdownCall, shutdownPc>>
        /\ init = "done"
        /\ shutdownCall["main"] \in {"resolved", "rejected"}
        /\ pc' \in {"ended", "failed", "crashed"}
        /\ pc' # "ended" => shutdownCall["main"] = "rejected" \/ threw
        /\ pc = "closing" /\ (pc' = "ended" => ~threw)
        /\ UNCHANGED runCall
    BY <1>13, <1>before DEF Closed, Uncaught, CreatesFirst, vars, shutdownVars,
       runVars
  <2>2. CreatesFirst' /\ ClosesLast'
    BY <2>1 DEF CreatesFirst, ClosesLast
  <2>3. OnlyClosingThrows'
    BY <1>before, <2>1 DEF OnlyClosingThrows, RejectsWithShutdown, Catching, Guarded
  <2>4. StagesDelivered'
    BY <1>before, <2>1 DEF StagesDelivered, Delivered, Resolved, Rethrows
  <2>5. QED
    BY <1>2, <1>4, <2>1, <2>2, <2>3, <2>4 DEF ClientInv
<1>14. QED
  BY <1>1, <1>5, <1>6, <1>7, <1>8, <1>9, <1>10, <1>11, <1>12, <1>13
     DEF ClientNext, MainStep

-----------------------------------------------------------------------------
(* What init() has started is there until it is taken down.                *)

InitLeavesTraces ==
  /\ init \in {"networking", "pooling", "subscribing", "done"} => glm # "off"
  /\ init = "done" => pool # "none"

(* A place that init() has reached has left its traces, and they stay. *)
LEMMA TracesStay ==
  ASSUME NothingBeforeInit, InitLeavesTraces, [Next]_vars
  PROVE  InitLeavesTraces'
<1> USE DEF InitLeavesTraces
<1>same. UNCHANGED <<init, glm, pool>> => InitLeavesTraces'
  OBVIOUS
<1>1. CASE UNCHANGED vars
  BY <1>same, <1>1 DEF vars, resourceVars
<1>2. CASE InitializationStep
  <2>1. CASE InitDone
    BY <2>1 DEF InitDone, NothingBeforeInit
  <2>2. CASE Connected
    BY <2>2 DEF Connected, InitStep
  <2>3. CASE StartInit \/ NetworkCreated \/ PoolCreated \/ InitFails
    BY <2>3 DEF StartInit, NetworkCreated, PoolCreated, InitFails, InitStep,
       resourceVars
  <2>4. QED
    BY <1>2, <2>1, <2>2, <2>3 DEF InitializationStep
<1>3. CASE ShutdownStep
  <2>1. CASE Drained
    BY <2>1 DEF Drained, DoShutdown
  <2>2. CASE Disconnected
    BY <2>2 DEF Disconnected, DoShutdown
  <2>3. CASE ListenerThrows \/ EndService \/ Drain \/ ShutdownFails \/ Terminated
    BY <1>same, <2>3 DEF ListenerThrows, EndService, Drain, ShutdownFails,
       Terminated, DoShutdown, resourceVars
  <2>4. QED
    BY <1>3, <2>1, <2>2, <2>3 DEF ShutdownStep
<1>4. CASE Signal \/ StartupTimeout \/ ServiceFails \/ ServiceReady
  BY <1>same, <1>4 DEF Signal, StartupTimeout, ServiceFails, ServiceReady,
     ServiceStep, resourceVars
<1>5. CASE \E c \in Callers : Shutdown(c) \/ ListenerShutsDown(c)
  BY <1>same, <1>5 DEF Shutdown, ListenerShutsDown, resourceVars
<1>6. CASE \E t \in Tasks : Run(t) \/ Poll(t) \/ TaskStep(t)
  BY <1>same, <1>6 DEF Run, Poll, TaskStep, ServeTask, SettleTask, ReportTask,
     ServiceStep, resourceVars
<1>7. QED
  BY <1>1, <1>2, <1>3, <1>4, <1>5, <1>6 DEF Next

-----------------------------------------------------------------------------
(* A program's shutdown follows its init(), without assuming that init()   *)
(* is awaited: the programs see to it themselves.                          *)

(* A shutdown begins with a call of the program, which has awaited         *)
(* create(), or with what init() has set up.                               *)
LEMMA ShutdownBeginsLate ==
  ASSUME NothingBeforeInit, CreatesFirst, [ClientNext]_allVars,
         isRunning' # isRunning
  PROVE  InitSettled
<1>1. CASE UNCHANGED allVars
  BY <1>1 DEF allVars, vars, shutdownVars
<1>2. CASE MainStep
  <2>1. CASE PreparationFails \/ Created \/ LeaveStage \/ Closed
    BY <2>1 DEF PreparationFails, Created, LeaveStage, Closed, vars, shutdownVars
  <2>2. CASE Create \/ CallRun
    BY <2>2 DEF Create, StartInit, InitStep, CallRun, Run, shutdownVars
  <2>3. CASE Close
    BY <2>3 DEF Close, CreatesFirst, InitSettled
  <2>4. QED
    BY <1>2, <2>1, <2>2, <2>3 DEF MainStep
<1>3. CASE ExecutorStep
  <2>1. CASE Connected \/ NetworkCreated \/ PoolCreated \/ InitDone \/ InitFails
    BY <2>1 DEF Connected, NetworkCreated, PoolCreated, InitDone, InitFails,
       InitStep, shutdownVars
  <2>2. CASE ShutdownStep
    BY <2>2 DEF ShutdownStep, ListenerThrows, EndService, Drain, Drained,
       Disconnected, ShutdownFails, Terminated, DoShutdown
  <2>3. CASE Signal \/ StartupTimeout \/ ServiceFails
    BY <2>3 DEF Signal, StartupTimeout, ServiceFails, NothingBeforeInit
  <2>4. CASE ServiceReady \/ \E t \in Tasks : Poll(t) \/ TaskStep(t)
    BY <2>4 DEF ServiceReady, Poll, TaskStep, ServeTask, SettleTask, ReportTask,
       ServiceStep, shutdownVars
  <2>5. QED
    BY <1>3, <2>1, <2>2, <2>3, <2>4 DEF ExecutorStep
<1>4. CASE Kill
  BY <1>4 DEF Kill, vars, shutdownVars
<1>5. QED
  BY <1>1, <1>2, <1>3, <1>4 DEF ClientNext

-----------------------------------------------------------------------------
(* The theorems.                                                           *)

AllInv ==
  /\ IndInv /\ ClientInv /\ InitLeavesTraces
  /\ ~isRunning => InitSettled
  /\ TakenDown

(* All the invariants that the theorems rest on hold in every reachable *)
(* state.                                                               *)
LEMMA AllInvariance == ClientSpec => []AllInv
<1>1. ClientInit => AllInv
  BY InitEstablishes, ClientInitEstablishes DEF ClientInit, Init, AllInv,
     InitLeavesTraces, TakenDown, PastListeners
<1>2. AllInv /\ [ClientNext]_allVars => AllInv'
  <2>1. SUFFICES ASSUME AllInv, [ClientNext]_allVars PROVE AllInv'
    OBVIOUS
  <2>2. /\ [Next]_vars
        /\ IndInv' /\ ClientInv' /\ InitLeavesTraces'
    BY <2>1, ClientStepsAreSteps, EachStepPreserves, ClientStepPreserves, TracesStay
       DEF AllInv, ClientInv, IndInv, InitPrecedesShutdown
  <2>3. /\ TypeOK /\ NothingBeforeInit /\ LogIsSound
        /\ CreatesFirst /\ TakenDown /\ (~isRunning => InitSettled)
    BY <2>1, PartsOfType DEF AllInv, IndInv, InitPrecedesShutdown, LogIsSound,
       ClientInv
  <2>4. LogStep
    BY <2>2, <2>3, EachStepLogs
  <2>5. (~isRunning => InitSettled)'
    <3>1. InitSettled => InitSettled'
      BY <2>4 DEF LogStep
    <3>2. isRunning' # isRunning => InitSettled
      BY <2>1, <2>3, ShutdownBeginsLate
    <3>3. QED
      BY <2>3, <3>1, <3>2
  <2>6. TakenDown'
    BY <2>2, <2>3, <2>4, StaysTakenDown
  <2>7. QED
    BY <2>2, <2>5, <2>6 DEF AllInv
<1>3. QED
  BY <1>1, <1>2, PTL DEF ClientSpec

(* Every variable of a program keeps its type.                             *)
THEOREM ClientTypeCorrectness == ClientSpec => []ClientTypeOK
<1>1. AllInv => ClientTypeOK
  BY DEF AllInv, ClientInv
<1>2. QED
  BY <1>1, AllInvariance, PTL

(* A program that catches never fails because of a task or a signal.       *)
THEOREM ProgramsFailOutsideTasks == ClientSpec => []FailsOnlyOutsideTasks
<1>1. AllInv => FailsOnlyOutsideTasks
  BY DEF AllInv, ClientInv, OnlyClosingThrows, FailsOnlyOutsideTasks, Rejections
<1>2. QED
  BY <1>1, AllInvariance, PTL

(* No program exits as if all were well with a result missing that it      *)
(* awaited and has no catch clause for.                                    *)
THEOREM ProgramsEndWithResults == ClientSpec => []EndsWithResults
<1>1. ASSUME AllInv, pc = "ended", NEW k \in 1 .. Len(program.stages),
             Rethrows(program, k)
      PROVE  LET s == program.stages[k] IN
               /\ s.join \in {"all", "allResolved"} =>
                    \A t \in s.tasks : outcome[t] = "done"
               /\ s.join = "any" => \E t \in s.tasks : outcome[t] = "done"
  <2> DEFINE s == program.stages[k]
  <2>1. Delivered(s) /\ s.tasks \subseteq Tasks
    BY <1>1, ClientAssumption DEF AllInv, ClientInv, StagesDelivered, ClientTypeOK
  <2>2. \A t \in s.tasks : runCall[t] = "resolved" => outcome[t] = "done"
    BY <1>1, <2>1 DEF AllInv, IndInv, RunIsFaithful
  <2> HIDE DEF s
  <2>3. /\ s.join \in {"all", "allResolved"} =>
             \A t \in s.tasks : outcome[t] = "done"
        /\ s.join = "any" => \E t \in s.tasks : outcome[t] = "done"
    BY <2>1, <2>2 DEF Delivered, Resolved
  <2>4. QED
    BY <2>3 DEF s
<1>2. AllInv => EndsWithResults
  BY <1>1 DEF EndsWithResults
<1>3. QED
  BY <1>2, AllInvariance, PTL

(* A guarded program that is over has taken down its executor: connection, *)
(* pool, service, timer and signal handlers.  That its shutdown() follows  *)
(* its init() is proved of the program, not assumed; that none of its      *)
(* listeners of "executorBeforeEnd" calls shutdown() is.                   *)
THEOREM ProgramsLeaveNothingBehind ==
  ASSUME "shutdown" \notin Listeners
  PROVE  ClientSpec => []LeavesNothingBehind
<1>1. ASSUME AllInv, Guarded(program), pc \in Over, init = "done",
             shutdownPc # "rejected"
      PROVE  /\ glm = "disconnected" /\ pool = "drained" /\ door # "open"
             /\ ~startupTimeoutId /\ ~signalHandlers
  <2>1. \/ shutdownCall["main"] = "resolved"
        \/ shutdownPc \in Rejections
    BY <1>1 DEF AllInv, ClientInv, ClosesLast, RejectsWithShutdown
  <2>2. shutdownPc \in {"resolved", "rejectedAfterEnd"}
    BY <2>1, <1>1, ClientAssumption DEF AllInv, IndInv, ShutdownMeansDown,
       InitPrecedesShutdown, LogFollowsShutdown, Rejections
  <2>3. TakenDown /\ NothingBeforeInit /\ PastListeners
    BY <1>1, <2>2 DEF AllInv, IndInv, InitPrecedesShutdown, PastListeners
  <2>4. glm = "disconnected" /\ pool = "drained"
    <3>1. glm # "connected" /\ pool # "live"
      BY <2>2, <2>3 DEF TakenDown
    <3>2. glm # "off" /\ pool # "none"
      BY <1>1 DEF AllInv, InitLeavesTraces
    <3>3. QED
      BY <1>1, <3>1, <3>2, PartsOfType DEF AllInv, IndInv, PlacesTypeOK
  <2>5. ~startupTimeoutId /\ ~signalHandlers /\ door # "open"
    BY <2>3 DEF TakenDown, NothingBeforeInit
  <2>6. QED
    BY <2>4, <2>5
<1>2. AllInv => LeavesNothingBehind
  BY <1>1 DEF LeavesNothingBehind
<1>3. QED
  BY <1>2, AllInvariance, PTL

-----------------------------------------------------------------------------
(* The executor of a program is one that is used after init() only.        *)

(* Each step of a program is one that the executor allows if its init() is *)
(* awaited.                                                                *)
LEMMA ProgramsAwaitInit ==
  ASSUME AllInv, [ClientNext]_allVars
  PROVE  [Awaited!Next]_vars
<1> USE DEF Quiet, Awaited!Quiet, resourceVars, Awaited!resourceVars,
        shutdownVars, Awaited!shutdownVars, runVars, Awaited!runVars,
        schedulerVars, Awaited!schedulerVars
<1>awaits. pc \in {"running", "closing"} => Awaited!InUse
  BY DEF AllInv, ClientInv, CreatesFirst, Awaited!InUse
<1>1. CASE UNCHANGED allVars
  BY <1>1 DEF allVars
<1>2. CASE PreparationFails \/ Created \/ LeaveStage \/ Closed \/ Kill
  BY <1>2 DEF PreparationFails, Created, LeaveStage, Closed, Kill
<1>3. CASE Create
  <2>1. Awaited!StartInit
    BY <1>3 DEF Create, StartInit, InitStep, Awaited!StartInit, Awaited!InitStep
  <2>2. QED
    BY <2>1 DEF Awaited!Next, Awaited!InitializationStep
<1>4. CASE CallRun
  <2>1. PICK t \in Tasks : Run(t)
    BY <1>4, CurrentTasks DEF CallRun, AllInv, ClientInv
  <2>2. Awaited!InUse
    BY <1>4, <1>awaits DEF CallRun
  <2>3. Awaited!Run(t)
    BY <2>1, <2>2 DEF Run, Awaited!Run, FirstTurn, Awaited!FirstTurn,
       Scheduler!Submit, Awaited!Scheduler!Submit, Scheduler!Move,
       Awaited!Scheduler!Move, TaskIsRefused, Awaited!TaskIsRefused, TaskOptions,
       Awaited!TaskOptions, Or, Awaited!Or, OrOption, Awaited!OrOption
  <2>4. QED
    BY <2>3 DEF Awaited!Next
<1>5. CASE Close
  <2>1. Shutdown("main") /\ Awaited!InUse
    BY <1>5, <1>awaits DEF Close
  <2>2. Awaited!Shutdown("main")
    BY <2>1 DEF Shutdown, Awaited!Shutdown, BeginShutdown, Awaited!BeginShutdown,
       LaterCall, Awaited!LaterCall
  <2>3. QED
    BY <2>2, ClientAssumption DEF Awaited!Next
<1>6. CASE ExecutorStep
  <2>1. CASE Connected \/ NetworkCreated \/ PoolCreated \/ InitFails
    <3>1. \/ Awaited!Connected \/ Awaited!NetworkCreated \/ Awaited!PoolCreated
          \/ Awaited!InitFails
      BY <2>1 DEF Connected, NetworkCreated, PoolCreated, InitFails, InitStep,
         Awaited!Connected, Awaited!NetworkCreated, Awaited!PoolCreated,
         Awaited!InitFails, Awaited!InitStep
    <3>2. QED
      BY <3>1 DEF Awaited!Next, Awaited!InitializationStep
  <2>2. CASE InitDone
    <3>1. Awaited!InitDone
      BY <2>2 DEF InitDone, Awaited!InitDone, Truthy, Awaited!Truthy
    <3>2. QED
      BY <3>1 DEF Awaited!Next, Awaited!InitializationStep
  <2>3. CASE ShutdownStep
    <3>1. Awaited!ShutdownStep
      BY <2>3 DEF ShutdownStep, ListenerThrows, EndService, Drain, Drained,
         Disconnected, ShutdownFails, Terminated, DoShutdown, SettleCalls,
         Scheduler!Close, Awaited!ShutdownStep, Awaited!ListenerThrows,
         Awaited!EndService, Awaited!Drain, Awaited!Drained, Awaited!Disconnected,
         Awaited!ShutdownFails, Awaited!Terminated, Awaited!DoShutdown,
         Awaited!SettleCalls, Awaited!Scheduler!Close
    <3>2. QED
      BY <3>1 DEF Awaited!Next
  <2>4. CASE Signal \/ StartupTimeout \/ ServiceFails
    <3>1. HandleCriticalError => Awaited!HandleCriticalError
      BY DEF HandleCriticalError, Cancel, BeginShutdown,
         Awaited!HandleCriticalError, Awaited!Cancel, Awaited!BeginShutdown
    <3>2. Cancel(<< >>) => Awaited!Cancel(<< >>)
      BY DEF Cancel, BeginShutdown, Awaited!Cancel, Awaited!BeginShutdown
    <3>3. Awaited!Signal \/ Awaited!StartupTimeout \/ Awaited!ServiceFails
      BY <2>4, <3>1, <3>2 DEF Signal, StartupTimeout, ServiceFails, Awaited!Signal,
         Awaited!StartupTimeout, Awaited!ServiceFails
    <3>4. QED
      BY <3>3 DEF Awaited!Next
  <2>5. CASE ServiceReady
    <3>1. Awaited!ServiceReady
      BY <2>5 DEF ServiceReady, ServiceStep, Scheduler!Open, Awaited!ServiceReady,
         Awaited!ServiceStep, Awaited!Scheduler!Open
    <3>2. QED
      BY <3>1 DEF Awaited!Next
  <2>6. ASSUME NEW t \in Tasks, Poll(t)
        PROVE  [Awaited!Next]_vars
    <3>1. Awaited!Poll(t)
      BY <2>6 DEF Poll, Awaited!Poll
    <3>2. QED
      BY <3>1 DEF Awaited!Next
  <2>7. ASSUME NEW t \in Tasks, TaskStep(t)
        PROVE  [Awaited!Next]_vars
    <3>active. Scheduler!Cardinality(Scheduler!Active)
                 = Awaited!Scheduler!Cardinality(Awaited!Scheduler!Active)
      BY Zenon DEF Scheduler!Active, Awaited!Scheduler!Active,
         Scheduler!Cardinality, Awaited!Scheduler!Cardinality
    <3>begin. Scheduler!Begin(t) => Awaited!Scheduler!Begin(t)
      BY <3>active DEF Scheduler!Begin, Awaited!Scheduler!Begin, Scheduler!Move,
         Awaited!Scheduler!Move
    <3>retry. Scheduler!Retry(t) => Awaited!Scheduler!Retry(t)
      BY DEF Scheduler!Retry, Awaited!Scheduler!Retry, Scheduler!Move,
         Awaited!Scheduler!Move
    <3>abandon. Scheduler!Abandon(t) => Awaited!Scheduler!Abandon(t)
      BY DEF Scheduler!Abandon, Awaited!Scheduler!Abandon, Scheduler!Move,
         Awaited!Scheduler!Move
    <3>finish. Scheduler!Finish(t) => Awaited!Scheduler!Finish(t)
      BY DEF Scheduler!Finish, Awaited!Scheduler!Finish, Scheduler!Move,
         Awaited!Scheduler!Move
    <3>service. ServiceStep => Awaited!ServiceStep
      BY DEF ServiceStep, Awaited!ServiceStep
    <3>1. ServeTask(t) => Awaited!ServeTask(t)
      BY <3>service, <3>begin, <3>retry, <3>abandon DEF ServeTask, Awaited!ServeTask
    <3>2. SettleTask(t) => Awaited!SettleTask(t)
      BY <3>service DEF SettleTask, Awaited!SettleTask
    <3>3. ReportTask(t) => Awaited!ReportTask(t)
      BY <3>service, <3>finish DEF ReportTask, Awaited!ReportTask
    <3>4. Awaited!TaskStep(t)
      BY <2>7, <3>1, <3>2, <3>3 DEF TaskStep, Awaited!TaskStep
    <3>5. QED
      BY <3>4 DEF Awaited!Next
  <2>8. QED
    BY <1>6, <2>1, <2>2, <2>3, <2>4, <2>5, <2>6, <2>7 DEF ExecutorStep
<1>7. QED
  BY <1>1, <1>2, <1>3, <1>4, <1>5, <1>6 DEF ClientNext, MainStep

(* Every program drives its executor as the theorems of TaskExecutor for   *)
(* an awaited init() assume.                                               *)
THEOREM ProgramsAwaitTheExecutor == ClientSpec => AwaitsTheExecutor
<1>1. ClientInit => Awaited!Init
  BY DEF ClientInit, Init, Awaited!Init, Scheduler!Init, Awaited!Scheduler!Init,
     Config, Awaited!Config, Or, Awaited!Or, DEFAULTS, Awaited!DEFAULTS
<1>2. AllInv /\ [ClientNext]_allVars => [Awaited!Next]_(Awaited!vars)
  BY ProgramsAwaitInit DEF vars, Awaited!vars, resourceVars, Awaited!resourceVars,
     shutdownVars, Awaited!shutdownVars, runVars, Awaited!runVars, schedulerVars,
     Awaited!schedulerVars
<1>3. QED
  BY <1>1, <1>2, AllInvariance, PTL DEF ClientSpec, Awaited!Spec, AwaitsTheExecutor
=============================================================================
