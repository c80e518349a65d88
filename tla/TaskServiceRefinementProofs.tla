--------------------- MODULE TaskServiceRefinementProofs ---------------------
(***************************************************************************)
(* TaskService implements TaskScheduler: a step of the service is a step   *)
(* of the scheduler or none at all.                                        *)
(***************************************************************************)
EXTENDS TaskServiceEventProofs

PhaseOf(t) ==
  IF state[t] = "absent" THEN "absent"
  ELSE IF InService(t) THEN "active"
  ELSE IF state[t] = "done" THEN "completed"
  ELSE IF state[t] = "rejected" THEN "failed"
  ELSE IF Has(t) THEN "waiting"
  ELSE "abandoned"

TriesOf(t) ==
  IF state[t] = "retry" /\ ~Has(t) THEN retriesCount[t] - 1
                                   ELSE retriesCount[t]

(* A step moves at most one task ...                                       *)
LEMMA OneMoves ==
  ASSUME NEW t \in Tasks,
         \A u \in Tasks \ {t} :
           PhaseOf(u)' = PhaseOf(u) /\ TriesOf(u)' = TriesOf(u)
  PROVE  /\ phaseMap[t] = PhaseOf(t) /\ triesMap[t] = TriesOf(t)
         /\ phaseMap' = [phaseMap EXCEPT ![t] = PhaseOf(t)']
         /\ triesMap' = [triesMap EXCEPT ![t] = TriesOf(t)']
         /\ PhaseOf(t)' = PhaseOf(t) => phaseMap' = phaseMap
         /\ TriesOf(t)' = TriesOf(t) => triesMap' = triesMap
<1>1. /\ phaseMap = [u \in Tasks |-> PhaseOf(u)]
      /\ triesMap = [u \in Tasks |-> TriesOf(u)]
  BY DEF phaseMap, triesMap, PhaseOf, TriesOf
<1>2. /\ phaseMap' = [u \in Tasks |-> PhaseOf(u)']
      /\ triesMap' = [u \in Tasks |-> TriesOf(u)']
  BY DEF phaseMap, triesMap, PhaseOf, TriesOf
<1>3. QED
  BY <1>1, <1>2

(* ... and the others stay where they are.                                 *)
LEMMA OthersStay ==
  ASSUME NEW u \in Tasks,
         state'[u] = state[u], retriesCount'[u] = retriesCount[u],
         \A a \in AttemptsOf(u) : handler'[a] = handler[a],
         Has(u)' <=> Has(u)
  PROVE  PhaseOf(u)' = PhaseOf(u) /\ TriesOf(u)' = TriesOf(u)
<1>1. Handled(u)' <=> Handled(u)
  BY DEF Handled, AttemptsOf
<1>2. InService(u)' <=> InService(u)
  BY <1>1 DEF InService
<1>3. QED
  BY <1>2 DEF PhaseOf, TriesOf

(* The tasks that are active for the scheduler are those the service       *)
(* serves, and it counts them.                                             *)
LEMMA ActiveIsServed ==
  ASSUME IndInv
  PROVE  /\ \A t \in Tasks : state[t] \in {"absent", "new"} => ~Handled(t)
         /\ \A t \in Tasks : Has(t) => ~Handled(t)
         /\ Scheduler!Active = Served
         /\ Scheduler!Cardinality(Scheduler!Active) = activeTasksCount
<1>1. \A t \in Tasks : Handled(t) => ~Has(t) /\ state[t] \in {"retry", "done", "rejected"}
  <2>1. SUFFICES ASSUME NEW a \in Attempts, handler[a] # "idle"
                 PROVE  ~Has(a[1]) /\ state[a[1]] \in {"retry", "done", "rejected"}
    BY DEF Handled, AttemptsOf
  <2>2. handler[a] \in {"retrying", "stopping"}
    BY <2>1, EventTypes
  <2>3. CASE handler[a] = "retrying"
    BY <2>3 DEF IndInv, CoreInv, HandlersFollowState
  <2>4. CASE handler[a] = "stopping"
    BY <2>4 DEF IndInv, CoreInv, HandlersFollowState, QueueFollowsState, Has,
       IsFinished, Finished, IsQueueable, Queueable
  <2>5. QED
    BY <2>2, <2>3, <2>4
<1>2. Scheduler!Active = Served
  BY <1>1 DEF Scheduler!Active, phaseMap, Served, InService
<1>3. Scheduler!Cardinality(Served) = Cardinality(Served)
  BY Zenon DEF Scheduler!Cardinality, Cardinality
<1>4. QED
  BY <1>1, <1>2, <1>3 DEF IndInv, CoreInv, ActiveCountIsExact, Served

-----------------------------------------------------------------------------
(* A task that is stopped stays active until its handler ends; one that    *)
(* has none, as the service has ended, is abandoned.                       *)
LEMMA StopMoves ==
  ASSUME IndInv, NEW t \in Tasks, NEW error, NEW retry \in BOOLEAN,
         NEW value \in Nat, Stopped(t, error, retry, value),
         resourceRental' \in [Tasks -> Rentals \cup {NoRental}]
  PROVE  /\ PhaseOf(t) = "active"
         /\ PhaseOf(t)' = "active" \/ (aborted /\ PhaseOf(t)' = "abandoned")
         /\ TriesOf(t)' = TriesOf(t)
         /\ \A u \in Tasks \ {t} :
              PhaseOf(u)' = PhaseOf(u) /\ TriesOf(u)' = TriesOf(u)
<1> DEFINE s == StopState(t, error, retry)
           c == Current(t)
<1>1. /\ state[t] \in {"queued", "pending"}
      /\ state'[t] \in {"done", "rejected", "retry"}
      /\ state'[t] \in Finished => Handled(t)'
      /\ ~Has(t)'
      /\ \A u \in Tasks \ {t} :
           /\ state'[u] = state[u]
           /\ \A a \in AttemptsOf(u) : handler'[a] = handler[a]
      /\ \A u \in Tasks : Has(u)' <=> Has(u)
  BY StopHandles
<1>2. /\ state' = [state EXCEPT ![t] = s]
      /\ retriesCount' = [retriesCount EXCEPT ![t] =
                            IF s = "retry" THEN @ + 1 ELSE @]
  BY DEF Stopped, StopNow, StopTask
<1>3. c \in AttemptsOf(t) /\ \A a \in AttemptsOf(t) : handler[a] = "idle"
  BY <1>1, StoppedTask DEF IndInv, StopIsIgnored, Finished, AttemptsOf, Current
<1>4. \/ s = "retry" /\ aborted /\ handler' = handler
      \/ /\ ~(s = "retry" /\ aborted)
         /\ handler' = [handler EXCEPT ![c] = IF s = "retry" THEN "retrying"
                                              ELSE "stopping"]
  BY StopEffect
<1> HIDE DEF s, c
<1>5. /\ state'[t] = s
      /\ retriesCount'[t] = IF s = "retry" THEN retriesCount[t] + 1
                                           ELSE retriesCount[t]
      /\ \A u \in Tasks \ {t} : retriesCount'[u] = retriesCount[u]
      /\ retriesCount[t] \in Nat
  BY <1>2, EventTypes
<1>6. PhaseOf(t) = "active"
  BY <1>1 DEF PhaseOf, InService
<1>7. TriesOf(t)' = TriesOf(t)
  BY <1>1, <1>5 DEF TriesOf
<1>8. PhaseOf(t)' = "active" \/ (aborted /\ PhaseOf(t)' = "abandoned")
  <2>1. CASE s = "retry" /\ aborted /\ handler' = handler
    <3>1. ~Handled(t)'
      BY <1>3, <2>1 DEF Handled, AttemptsOf
    <3>2. QED
      BY <1>1, <1>5, <2>1, <3>1 DEF PhaseOf, InService
  <2>2. CASE handler' = [handler EXCEPT ![c] = IF s = "retry" THEN "retrying"
                                               ELSE "stopping"]
    <3>1. handler'[c] # "idle"
      BY <1>3, <2>2, EventTypes DEF AttemptsOf
    <3>2. Handled(t)'
      BY <1>3, <3>1 DEF Handled, AttemptsOf
    <3>3. QED
      BY <1>1, <3>2 DEF PhaseOf, InService
  <2>3. QED
    BY <1>4, <2>1, <2>2
<1>9. \A u \in Tasks \ {t} : PhaseOf(u)' = PhaseOf(u) /\ TriesOf(u)' = TriesOf(u)
  BY <1>1, <1>5, OthersStay
<1>10. QED
  BY <1>6, <1>7, <1>8, <1>9

-----------------------------------------------------------------------------
(* Each step of the service is a step of TaskScheduler or leaves its   *)
(* variables alone, a throwing listener of taskRetried and a pool that *)
(* refuses rentals included.                                           *)
THEOREM StepsAreScheduled ==
  ASSUME IndInv, [Next]_vars
  PROVE  [Scheduler!Next]_(Scheduler!svars)
<1> DEFINE Stutters == UNCHANGED <<phaseMap, itemsStack, triesMap, doorMap>>
<1>stutter. Stutters => [Scheduler!Next]_(Scheduler!svars)
  BY DEF Scheduler!svars
<1>stay. ASSUME UNCHANGED <<state, retriesCount, handler, itemsStack>>
         PROVE  UNCHANGED <<phaseMap, triesMap>>
  BY <1>stay DEF phaseMap, triesMap, InService, Handled, AttemptsOf, Has
<1>door. ASSUME UNCHANGED <<loop, aborted>>
         PROVE  doorMap' = doorMap
  BY <1>door DEF doorMap
<1> HIDE DEF Stutters
<1>1. CASE UNCHANGED vars \/ LoopExit
  BY <1>1, <1>stay, <1>stutter DEF vars, taskVars, serviceVars, dispatchVars,
     LoopExit, doorMap, Stutters
<1>2. CASE Ready
  <2>1. UNCHANGED <<phaseMap, triesMap, itemsStack>>
    BY <1>2, <1>stay DEF Ready, taskVars, dispatchVars
  <2>2. \/ doorMap' = doorMap \/ doorMap' = "closed"
        \/ doorMap = "shut" /\ doorMap' = "open"
    BY <1>2 DEF Ready, doorMap
  <2>3. QED
    BY <2>1, <2>2, <1>stutter DEF Scheduler!Next, Scheduler!Open,
       Scheduler!Close, Stutters
<1>3. CASE End
  <2>1. UNCHANGED <<phaseMap, triesMap, itemsStack>>
    BY <1>3, <1>stay DEF End, taskVars, dispatchVars
  <2>2. doorMap' = "closed"
    BY <1>3 DEF End, doorMap
  <2>3. QED
    BY <2>1, <2>2 DEF Scheduler!Next, Scheduler!Close
<1>4. ASSUME NEW t \in Tasks, Submit(t)
      PROVE  [Scheduler!Next]_(Scheduler!svars)
  <2>1. /\ state[t] = "absent" /\ state'[t] = "new"
        /\ itemsStack' = Append(itemsStack, t)
        /\ \A u \in Tasks \ {t} : state'[u] = state[u]
        /\ UNCHANGED <<handler, retriesCount>>
    BY <1>4, EventTypes DEF Submit, NewTask, AddToEnd, dispatchVars
  <2>2. /\ \A u \in Tasks \ {t} : Has(u)' <=> Has(u)
        /\ Has(t)'
    BY <2>1, EventTypes, AppendToQueue DEF Has
  <2>3. ~Handled(t) /\ ~Handled(t)'
    BY <2>1, ActiveIsServed DEF Handled, AttemptsOf
  <2>4. /\ PhaseOf(t) = "absent" /\ PhaseOf(t)' = "waiting"
        /\ TriesOf(t)' = TriesOf(t)
    BY <2>1, <2>2, <2>3 DEF PhaseOf, TriesOf, InService
  <2>5. \A u \in Tasks \ {t} : PhaseOf(u)' = PhaseOf(u) /\ TriesOf(u)' = TriesOf(u)
    BY <2>1, <2>2, OthersStay
  <2>6. doorMap' = doorMap
    BY <1>4, <1>door DEF Submit, serviceVars
  <2>7. Scheduler!Submit(t)
    BY <2>1, <2>4, <2>5, <2>6, OneMoves DEF Scheduler!Submit, Scheduler!Move
  <2>8. QED
    BY <2>7 DEF Scheduler!Next
<1>5. ASSUME NEW t \in Tasks, Take(t)
      PROVE  [Scheduler!Next]_(Scheduler!svars)
  <2>1. /\ state'[t] = "queued"
        /\ \A u \in Tasks \ {t} : state'[u] = state[u]
        /\ UNCHANGED <<handler, retriesCount>>
        /\ itemsStack # << >> /\ t = Head(itemsStack)
        /\ itemsStack' = Tail(itemsStack)
        /\ activeTasksCount < MaxParallelTasks
        /\ loop = "looping" /\ ~aborted
    BY <1>5, EventTypes DEF Take, InitTask, Get
  <2>2. /\ Has(t) /\ IsQueueable(t)
        /\ \A u \in Tasks : Has(u)' <=> Has(u) /\ u # t
    BY <1>5, TakenTask
  <2>3. ~Handled(t) /\ Scheduler!Cardinality(Scheduler!Active) < MaxParallelTasks
    BY <2>1, <2>2, ActiveIsServed
  <2>4. /\ PhaseOf(t) = "waiting" /\ PhaseOf(t)' = "active"
        /\ TriesOf(t)' = TriesOf(t)
    BY <2>1, <2>2, <2>3 DEF PhaseOf, TriesOf, InService, IsQueueable, Queueable
  <2>5. \A u \in Tasks \ {t} : PhaseOf(u)' = PhaseOf(u) /\ TriesOf(u)' = TriesOf(u)
    BY <2>1, <2>2, OthersStay
  <2>6. doorMap = "open" /\ doorMap' = doorMap
    BY <1>5, <2>1 DEF Take, serviceVars, doorMap
  <2>7. Scheduler!Begin(t)
    BY <2>1, <2>3, <2>4, <2>5, <2>6, OneMoves DEF Scheduler!Begin, Scheduler!Move
  <2>8. QED
    BY <2>7 DEF Scheduler!Next
<1>6. ASSUME NEW a \in Attempts,
             (\E r \in Rentals : AcquireGranted(a, r)) \/ AttemptEnds(a)
      PROVE  [Scheduler!Next]_(Scheduler!svars)
  BY <1>6, <1>stay, <1>door, <1>stutter DEF AcquireGranted, AttemptEnds, taskVars,
     dispatchVars, serviceVars, Stutters
<1>7. ASSUME NEW a \in Attempts, ExeUnitReady(a)
      PROVE  [Scheduler!Next]_(Scheduler!svars)
  <2> DEFINE t == a[1]
  <2>1. t \in Tasks
    BY AttemptParts
  <2>2. /\ state[t] = "queued" /\ state'[t] = "pending"
        /\ \A u \in Tasks \ {t} : state'[u] = state[u]
        /\ UNCHANGED <<handler, itemsStack, retriesCount, loop, aborted>>
    BY <1>7, <2>1, EventTypes DEF ExeUnitReady, StartTask, dispatchVars, serviceVars
  <2> HIDE DEF t
  <2>3. \A u \in Tasks : Has(u)' <=> Has(u)
    BY <2>2 DEF Has
  <2>4. PhaseOf(t)' = PhaseOf(t) /\ TriesOf(t)' = TriesOf(t)
    BY <2>1, <2>2, <2>3 DEF PhaseOf, TriesOf, InService
  <2>5. \A u \in Tasks \ {t} : PhaseOf(u)' = PhaseOf(u) /\ TriesOf(u)' = TriesOf(u)
    BY <2>2, <2>3, OthersStay
  <2>6. phaseMap' = phaseMap /\ triesMap' = triesMap
    BY <2>1, <2>4, <2>5, OneMoves
  <2>7. QED
    BY <2>2, <2>6, <1>door, <1>stutter DEF Stutters
<1>stop. ASSUME NEW t \in Tasks, NEW error, NEW retry \in BOOLEAN, NEW value \in Nat,
                Stopped(t, error, retry, value),
                resourceRental' \in [Tasks -> Rentals \cup {NoRental}]
         PROVE  [Scheduler!Next]_(Scheduler!svars)
  <2>1. /\ PhaseOf(t) = "active"
        /\ PhaseOf(t)' = "active" \/ (aborted /\ PhaseOf(t)' = "abandoned")
        /\ TriesOf(t)' = TriesOf(t)
        /\ \A u \in Tasks \ {t} :
             PhaseOf(u)' = PhaseOf(u) /\ TriesOf(u)' = TriesOf(u)
    BY <1>stop, StopMoves
  <2>2. itemsStack' = itemsStack /\ doorMap' = doorMap
    BY <1>stop, <1>door DEF Stopped, serviceVars
  <2>3. triesMap' = triesMap
    BY <2>1, OneMoves
  <2>4. CASE PhaseOf(t)' = "active"
    <3>1. phaseMap' = phaseMap
      BY <2>1, <2>4, OneMoves
    <3>2. QED
      BY <2>2, <2>3, <3>1, <1>stutter DEF Stutters
  <2>5. CASE aborted /\ PhaseOf(t)' = "abandoned"
    <3>1. doorMap = "closed"
      BY <2>5 DEF doorMap
    <3>2. phaseMap[t] = "active" /\ phaseMap' = [phaseMap EXCEPT ![t] = "abandoned"]
      BY <2>1, <2>5, OneMoves
    <3>3. Scheduler!Abandon(t)
      BY <2>2, <2>3, <3>1, <3>2 DEF Scheduler!Abandon, Scheduler!Move
    <3>4. QED
      BY <3>3 DEF Scheduler!Next
  <2>6. QED
    BY <2>1, <2>4, <2>5
<1>8. ASSUME NEW t \in Tasks, TimerStops(t)
      PROVE  [Scheduler!Next]_(Scheduler!svars)
  <2>1. /\ Stopped(t, "GolemTimeoutError", RetryOnTimeout[t], 0)
        /\ RetryOnTimeout[t] \in BOOLEAN
        /\ resourceRental' \in [Tasks -> Rentals \cup {NoRental}]
    BY <1>8, PoolTypes, TaskOptionsAssumption DEF TimerStops
  <2>2. QED
    BY <1>stop, <2>1, 0 \in Nat
<1>9. ASSUME NEW a \in Attempts, AttemptStops(a) \/ ListenerStops(a)
      PROVE  [Scheduler!Next]_(Scheduler!svars)
  <2>1. /\ a[1] \in Tasks
        /\ resourceRental' \in [Tasks -> Rentals \cup {NoRental}]
    BY <1>9, AttemptStopArguments
  <2>2. PICK error : \E retry \in BOOLEAN, value \in Nat :
          Stopped(a[1], error, retry, value)
    BY <1>9, AttemptStopArguments
  <2>3. QED
    BY <1>stop, <2>1, <2>2
<1>10. ASSUME NEW a \in Attempts, HandlerStep(a)
       PROVE  [Scheduler!Next]_(Scheduler!svars)
  <2> DEFINE t == a[1]
  <2>1. handler[a] # "idle" /\ HandlerEnds(a)
    BY <1>10 DEF HandlerStep, RetryResumes, RetriedListenerThrows, StopResumes,
       ReleaseRejected
  <2>2. /\ t \in Tasks /\ Handled(t) /\ ~Handled(t)'
        /\ \A u \in Tasks \ {t} : \A b \in AttemptsOf(u) : handler'[b] = handler[b]
        /\ UNCHANGED state
    BY <2>1, HandlerIsOver
  <2>3. UNCHANGED <<retriesCount, loop, aborted>>
    BY <2>1 DEF HandlerEnds, taskVars
  <2>4. doorMap' = doorMap /\ ~Has(t)
    BY <2>2, <2>3, <1>door, ActiveIsServed
  <2>5. CASE RetryResumes(a)
    <3>1. /\ state[t] = "retry" /\ itemsStack' = <<t>> \o itemsStack
          /\ retriesCount[t] \in Nat \ {0} /\ retriesCount[t] <= MaxRetries[t]
      <4>1. state[t] = "retry"
        BY <2>5 DEF RetryResumes, IndInv, CoreInv, HandlersFollowState
      <4>2. retriesCount[t] \in Nat \ {0} /\ retriesCount[t] <= MaxRetries[t]
        BY <2>2, <4>1, EventTypes DEF IndInv, CoreInv, RetriesAreBounded
      <4>3. IsEligible(t)
        BY <2>4, <4>1 DEF IsEligible, IsQueueable, Queueable
      <4>4. itemsStack' = <<t>> \o itemsStack
        BY <2>4, <2>5, <4>3 DEF RetryResumes, AddToBegin
      <4>5. QED
        BY <4>1, <4>2, <4>4
    <3>2. Range(itemsStack') = Range(itemsStack) \cup {t}
      BY <2>2, <3>1, EventTypes, PutInFront
    <3>3. Has(t)' /\ \A u \in Tasks \ {t} : Has(u)' <=> Has(u)
      BY <3>2 DEF Has
    <3> HIDE DEF t
    <3>4. /\ PhaseOf(t) = "active" /\ PhaseOf(t)' = "waiting"
          /\ TriesOf(t) = retriesCount[t] - 1 /\ TriesOf(t)' = retriesCount[t]
      BY <2>2, <2>3, <2>4, <3>1, <3>3 DEF PhaseOf, TriesOf, InService
    <3>5. \A u \in Tasks \ {t} : PhaseOf(u)' = PhaseOf(u) /\ TriesOf(u)' = TriesOf(u)
      BY <2>2, <2>3, <3>3, OthersStay
    <3>6. /\ phaseMap[t] = "active" /\ phaseMap' = [phaseMap EXCEPT ![t] = "waiting"]
          /\ triesMap[t] = retriesCount[t] - 1
          /\ triesMap' = [triesMap EXCEPT ![t] = retriesCount[t]]
      BY <2>2, <3>4, <3>5, OneMoves
    <3>7. triesMap[t] < MaxRetries[t] /\ triesMap[t] + 1 = retriesCount[t]
      <4>1. MaxRetries[t] \in Nat
        BY <2>2, TaskOptionsAssumption
      <4>2. QED
        BY <3>1, <3>6, <4>1
    <3>8. Scheduler!Retry(t)
      BY <2>4, <3>1, <3>6, <3>7 DEF Scheduler!Retry, Scheduler!Move
    <3>9. QED
      BY <2>2, <3>8 DEF Scheduler!Next
  <2>6. CASE state[t] \in {"done", "rejected"} /\ itemsStack' = itemsStack
    <3>1. state[t] \in {"done", "rejected"} /\ itemsStack' = itemsStack
      BY <2>6
    <3> HIDE DEF t
    <3>2. \A u \in Tasks : Has(u)' <=> Has(u)
      BY <3>1 DEF Has
    <3>3. /\ PhaseOf(t) = "active" /\ PhaseOf(t)' \in {"completed", "failed"}
          /\ TriesOf(t)' = TriesOf(t)
      BY <2>2, <2>3, <3>1 DEF PhaseOf, TriesOf, InService
    <3>4. \A u \in Tasks \ {t} : PhaseOf(u)' = PhaseOf(u) /\ TriesOf(u)' = TriesOf(u)
      BY <2>2, <2>3, <3>2, OthersStay
    <3>5. Scheduler!Finish(t)
      BY <2>2, <2>4, <3>1, <3>3, <3>4, OneMoves DEF Scheduler!Finish, Scheduler!Move
    <3>6. QED
      BY <2>2, <3>5 DEF Scheduler!Next
  <2>7. CASE /\ RetriesAreUnsafe
             /\ state[t] = "retry" /\ itemsStack' = itemsStack
    <3> HIDE DEF t
    <3>1. \A u \in Tasks : Has(u)' <=> Has(u)
      BY <2>7 DEF Has
    <3>2. /\ PhaseOf(t) = "active" /\ PhaseOf(t)' = "abandoned"
          /\ TriesOf(t)' = TriesOf(t)
      BY <2>2, <2>3, <2>4, <2>7, <3>1 DEF PhaseOf, TriesOf, InService
    <3>3. \A u \in Tasks \ {t} : PhaseOf(u)' = PhaseOf(u) /\ TriesOf(u)' = TriesOf(u)
      BY <2>2, <2>3, <3>1, OthersStay
    <3>4. Scheduler!Abandon(t)
      BY <2>2, <2>4, <2>7, <3>2, <3>3, OneMoves DEF Scheduler!Abandon, Scheduler!Move
    <3>5. QED
      BY <2>2, <3>4 DEF Scheduler!Next
  <2>8. /\ handler[a] = "retrying" => state[t] = "retry"
        /\ handler[a] = "stopping" => state[t] \in {"done", "rejected"}
        /\ handler[a] \in {"retrying", "stopping"}
    BY <2>1, EventTypes DEF IndInv, CoreInv, HandlersFollowState, IsFinished, Finished
  <2>9. RetryResumes(a) \/ itemsStack' = itemsStack
    BY <1>10 DEF HandlerStep, RetriedListenerThrows, StopResumes, ReleaseRejected
  <2>10. handler[a] = "retrying" => RetryResumes(a) \/ RetriesAreUnsafe
    BY <1>10 DEF HandlerStep, RetriedListenerThrows, StopResumes, ReleaseRejected,
       RetriesAreUnsafe
  <2>11. QED
    BY <2>5, <2>6, <2>7, <2>8, <2>9, <2>10
<1>11. QED
  BY <1>1, <1>2, <1>3, <1>4, <1>5, <1>6, <1>7, <1>8, <1>9, <1>10, StepCases

(* The service implements the scheduler that the executor's specification  *)
(* is built on: order of submission, retries first, the bound on active    *)
(* tasks, the bound on retries and final outcomes (service.ts:38-66,       *)
(* 131-187; queue.ts), for every number of tasks.  Only if the pool may    *)
(* refuse a rental back, or a listener of taskRetried may throw, is it a   *)
(* scheduler that may lose tasks.                                          *)
THEOREM ServiceIsAScheduler == Spec => ImplementsScheduler
<1>1. Init => Scheduler!Init
  <2> SUFFICES ASSUME Init PROVE Scheduler!Init
    OBVIOUS
  <2>1. /\ \A t \in Tasks : state[t] = "absent" /\ retriesCount[t] = 0
        /\ itemsStack = << >> /\ loop = "starting" /\ aborted = FALSE
    BY DEF Init, TaskInit, QueueInit
  <2>2. /\ phaseMap = [t \in Tasks |-> "absent"]
        /\ triesMap = [t \in Tasks |-> 0]
        /\ doorMap = "shut"
    BY <2>1 DEF phaseMap, triesMap, doorMap
  <2>3. QED
    BY <2>1, <2>2 DEF Scheduler!Init
<1>2. IndInv /\ [Next]_vars => [Scheduler!Next]_(Scheduler!svars)
  BY StepsAreScheduled
<1>3. QED
  BY <1>1, <1>2, Invariance, PTL DEF Spec, ImplementsScheduler, Scheduler!Spec
=============================================================================
