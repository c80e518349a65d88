-------------------------- MODULE TaskServiceProofs --------------------------
(***************************************************************************)
(* Theorems about TaskService, for any set of tasks, any options and any   *)
(* number of slots.                                                        *)
(***************************************************************************)
EXTENDS TaskServiceInductive, TLAPS, FiniteSetTheorems, SequenceTheorems

(* An attempt is a task and a number, from 1 to one more than its retries. *)
LEMMA AttemptParts ==
  /\ \A a \in Attempts :
       /\ a[1] \in Tasks
       /\ a[2] \in 1 .. MaxRetries[a[1]] + 1
       /\ a = <<a[1], a[2]>>
  /\ \A t \in Tasks : \A k \in 1 .. MaxRetries[t] + 1 : <<t, k>> \in Attempts
BY TaskOptionsAssumption DEF Attempts

(* addToEnd adds one task to the queue's content, and no task twice.       *)
LEMMA AppendToQueue ==
  ASSUME NEW S, NEW q \in Seq(S), NEW t \in S
  PROVE  /\ Append(q, t) \in Seq(S)
         /\ Range(Append(q, t)) = Range(q) \cup {t}
         /\ IsInjective(q) /\ t \notin Range(q) => IsInjective(Append(q, t))
<1>1. /\ Append(q, t) \in Seq(S)
      /\ Len(Append(q, t)) = Len(q) + 1
      /\ \A i \in 1 .. Len(q) : Append(q, t)[i] = q[i]
      /\ Append(q, t)[Len(q) + 1] = t
  BY AppendProperties
<1>2. DOMAIN q = 1 .. Len(q) /\ DOMAIN Append(q, t) = 1 .. Len(q) + 1
      /\ Len(q) \in Nat
  BY <1>1, LenProperties
<1>3. QED
  BY <1>1, <1>2 DEF Range, IsInjective

(* addToBegin does the same at the other end.                              *)
LEMMA PutInFront ==
  ASSUME NEW S, NEW q \in Seq(S), NEW t \in S
  PROVE  /\ <<t>> \o q \in Seq(S)
         /\ Range(<<t>> \o q) = Range(q) \cup {t}
         /\ IsInjective(q) /\ t \notin Range(q) => IsInjective(<<t>> \o q)
<1> DEFINE r == <<t>> \o q
<1>1. <<t>> \in Seq(S) /\ Len(<<t>>) = 1 /\ <<t>>[1] = t
  OBVIOUS
<1>2. /\ r \in Seq(S)
      /\ Len(r) = Len(q) + 1
      /\ r[1] = t
      /\ \A i \in 2 .. Len(r) : r[i] = q[i - 1]
  BY <1>1, ConcatProperties, LenProperties
<1>3. /\ DOMAIN q = 1 .. Len(q)
      /\ DOMAIN r = 1 .. Len(q) + 1
      /\ Len(q) \in Nat
  BY <1>2, LenProperties
<1>4. \A i \in 1 .. Len(q) : r[i + 1] = q[i]
  BY <1>2, <1>3
<1> HIDE DEF r
<1>5. Range(r) = Range(q) \cup {t}
  <2>1. Range(r) \subseteq Range(q) \cup {t}
    BY <1>2, <1>3 DEF Range
  <2>2. t \in Range(r)
    BY <1>2, <1>3 DEF Range
  <2>3. ASSUME NEW i \in 1 .. Len(q)
        PROVE  q[i] \in Range(r)
    BY <1>3, <1>4, i + 1 \in DOMAIN r DEF Range
  <2>4. Range(q) \subseteq Range(r)
    BY <1>3, <2>3 DEF Range
  <2>5. QED
    BY <2>1, <2>2, <2>4
<1>6. IsInjective(q) /\ t \notin Range(q) => IsInjective(r)
  <2>1. SUFFICES ASSUME IsInjective(q), t \notin Range(q),
                        NEW i \in DOMAIN r, NEW j \in DOMAIN r, r[i] = r[j]
                 PROVE  i = j
    BY DEF IsInjective
  <2>2. \A k \in DOMAIN r : k = 1 \/ (k - 1 \in DOMAIN q /\ r[k] = q[k - 1])
    BY <1>2, <1>3
  <2>3. \A k \in DOMAIN q : q[k] # t
    BY <2>1 DEF Range
  <2>4. CASE i = 1 \/ j = 1
    BY <1>2, <2>1, <2>2, <2>3, <2>4
  <2>5. CASE i # 1 /\ j # 1
    <3>1. i - 1 \in DOMAIN q /\ j - 1 \in DOMAIN q /\ q[i - 1] = q[j - 1]
      BY <2>1, <2>2, <2>5
    <3>2. i - 1 = j - 1
      BY <2>1, <3>1 DEF IsInjective
    <3>3. QED
      BY <1>3, <3>2
  <2>6. QED
    BY <2>4, <2>5
<1>7. QED
  BY <1>2, <1>5, <1>6 DEF r

(* TaskQueue.get takes its task out, and only that one.                    *)
LEMMA TakeFromQueue ==
  ASSUME NEW S, NEW q \in Seq(S), q # << >>
  PROVE  /\ Head(q) \in S
         /\ Head(q) \in Range(q)
         /\ Tail(q) \in Seq(S)
         /\ Range(Tail(q)) \subseteq Range(q)
         /\ IsInjective(q) => IsInjective(Tail(q)) /\ Head(q) \notin Range(Tail(q))
         /\ Range(q) \subseteq Range(Tail(q)) \cup {Head(q)}
<1>1. /\ Head(q) \in S
      /\ Tail(q) \in Seq(S)
      /\ Len(Tail(q)) = Len(q) - 1
      /\ \A i \in 1 .. Len(Tail(q)) : Tail(q)[i] = q[i + 1]
  BY HeadTailProperties
<1>2. /\ DOMAIN q = 1 .. Len(q)
      /\ DOMAIN Tail(q) = 1 .. Len(q) - 1
      /\ Len(q) \in Nat \ {0}
      /\ Head(q) = q[1]
  BY <1>1, LenProperties, EmptySeq
<1> DEFINE r == Tail(q)
<1>3. \A i \in 1 .. Len(q) - 1 : r[i] = q[i + 1]
  BY <1>1, <1>2
<1> HIDE DEF r
<1>4. \A x \in Range(q) : x = Head(q) \/ x \in Range(r)
  <2>1. ASSUME NEW i \in 1 .. Len(q), i # 1
        PROVE  q[i] \in Range(r)
    <3>1. i - 1 \in 1 .. Len(q) - 1 /\ (i - 1) + 1 = i
      BY <1>2, <2>1
    <3>2. QED
      BY <1>2, <1>3, <3>1 DEF r, Range
  <2>2. QED
    BY <1>2, <2>1 DEF Range
<1>5. Range(r) \subseteq Range(q)
  <2>1. ASSUME NEW i \in 1 .. Len(q) - 1
        PROVE  r[i] \in Range(q)
    BY <1>2, <1>3, i + 1 \in DOMAIN q DEF Range
  <2>2. QED
    BY <1>2, <2>1 DEF r, Range
<1>6. IsInjective(q) => IsInjective(r) /\ Head(q) \notin Range(r)
  <2>1. DOMAIN r = 1 .. Len(q) - 1
    BY <1>2 DEF r
  <2>2. SUFFICES ASSUME IsInjective(q)
                 PROVE  IsInjective(r) /\ Head(q) \notin Range(r)
    OBVIOUS
  <2>3. \A i, j \in 1 .. Len(q) : q[i] = q[j] => i = j
    BY <1>2, <2>2 DEF IsInjective
  <2>4. ASSUME NEW i \in 1 .. Len(q) - 1, NEW j \in 1 .. Len(q) - 1, r[i] = r[j]
        PROVE  i = j
    BY <1>2, <1>3, <2>3, <2>4, i + 1 \in 1 .. Len(q), j + 1 \in 1 .. Len(q)
  <2>5. ASSUME NEW i \in 1 .. Len(q) - 1
        PROVE  r[i] # Head(q)
    BY <1>2, <1>3, <2>3, i + 1 \in 1 .. Len(q), 1 \in 1 .. Len(q)
  <2>6. QED
    BY <2>1, <2>4, <2>5 DEF IsInjective, Range
<1>7. Head(q) \in Range(q)
  BY <1>2 DEF Range
<1>8. QED
  BY <1>1, <1>4, <1>5, <1>6, <1>7 DEF r

-----------------------------------------------------------------------------
(* The count when task t enters the service ...                            *)
LEMMA CountEnter ==
  ASSUME NEW S, IsFiniteSet(S), NEW t, t \notin S
  PROVE  IsFiniteSet(S \cup {t}) /\ Cardinality(S \cup {t}) = Cardinality(S) + 1
BY FS_AddElement

(* ... and when it leaves it.                                              *)
LEMMA CountLeave ==
  ASSUME NEW S, IsFiniteSet(S), NEW t \in S
  PROVE  /\ IsFiniteSet(S \ {t})
         /\ Cardinality(S \ {t}) = Cardinality(S) - 1
         /\ Cardinality(S) \in Nat \ {0}
<1>1. /\ IsFiniteSet(S \ {t})
      /\ Cardinality(S \ {t}) = Cardinality(S) - 1
  BY FS_RemoveElement
<1>2. Cardinality(S) \in Nat /\ Cardinality(S \ {t}) \in Nat
  BY <1>1, FS_CardinalityType
<1>3. QED
  BY <1>1, <1>2

(* The service starts with nothing submitted, counted or under way.        *)
THEOREM InitialState == Init => IndInv
<1> SUFFICES ASSUME Init PROVE IndInv
  OBVIOUS
<1>0. \A t \in Tasks : 0 <= MaxRetries[t]
  BY TaskOptionsAssumption
<1> USE DEF Init, TaskInit, QueueInit, PoolInit
<1>1. TypeOK
  <2>1. << >> \in Seq(Tasks) /\ << >> \in Seq(Events)
    OBVIOUS
  <2>2. QED
    BY <2>1 DEF TypeOK, TaskTypeOK, DispatchTypeOK, AttemptTypeOK,
              ServiceTypeOK, TaskState, RentalStatus
<1>2. Range(itemsStack) = {} /\ IsInjective(itemsStack)
  BY DEF Range, IsInjective
<1>3. CoreInv
  <2>1. RetriesAreBounded
    <3>1. \A t \in Tasks : retriesCount[t] = 0 /\ state[t] = "absent"
      OBVIOUS
    <3>2. QED
      BY <1>0, <3>1, Zenon DEF RetriesAreBounded
  <2>2. ListenersFollowState
    BY DEF ListenersFollowState
  <2>3. HandlersFollowState
    BY DEF HandlersFollowState
  <2>4. QueueFollowsState
    BY <1>2 DEF QueueFollowsState
  <2>5. NoTaskIsLost
    BY DEF NoTaskIsLost, IsQueueable, Queueable
  <2>6. TimersFollowState
    BY DEF TimersFollowState
  <2>7. Served = {}
    BY DEF Served, InService, Handled, AttemptsOf
  <2>8. IsFiniteSet(Served) /\ Cardinality(Served) = 0
    BY <2>7, FS_EmptySet
  <2>9. ActiveCountIsExact
    BY <2>8, ServiceAssumption DEF ActiveCountIsExact, Served
  <2>10. QED
    BY <2>1, <2>2, <2>3, <2>4, <2>5, <2>6, <2>8, <2>9 DEF CoreInv
<1>4. AttemptsFollowTask /\ NoStaleAttempt
  BY DEF AttemptsFollowTask, NoStaleAttempt, Live
<1>5. QED
  BY <1>1, <1>3, <1>4 DEF IndInv

-----------------------------------------------------------------------------
(* Stop: the step of every failure, timeout and result.                    *)

(* A task that is not in one of these states is not stopped again; one     *)
(* that is has exactly the closures of its current attempt.                *)
LEMMA StoppedTask ==
  ASSUME TypeOK, CoreInv, NEW t \in Tasks, state[t] \notin {"absent", "new"},
         ~StopIsIgnored(t)
  PROVE  /\ state[t] \in {"queued", "pending"}
         /\ Current(t) \in Attempts
         /\ listeners[t] = {Current(t)}
         /\ t \notin Range(itemsStack)
         /\ t \in Served
         /\ \A a \in AttemptsOf(t) : handler[a] = "idle"
<1>1. state[t] \in {"queued", "pending"}
  BY DEF TypeOK, TaskTypeOK, TaskState, StopIsIgnored, Finished
<1>2. listeners[t] = {Current(t)}
  BY <1>1 DEF CoreInv, ListenersFollowState
<1>3. Current(t) \in Attempts
  BY <1>2 DEF TypeOK, DispatchTypeOK
<1>4. t \notin Range(itemsStack)
  BY <1>1 DEF CoreInv, QueueFollowsState, IsQueueable, Queueable
<1>5. t \in Served
  BY <1>1 DEF Served, InService
<1>6. ASSUME NEW a \in AttemptsOf(t)
      PROVE  handler[a] = "idle"
  BY <1>1, <1>6 DEF CoreInv, HandlersFollowState, IsFinished, Finished,
     TypeOK, DispatchTypeOK, AttemptsOf
<1>7. QED
  BY <1>1, <1>2, <1>3, <1>4, <1>5, <1>6

(* What a stop does to the state of the tasks, whatever it triggers.       *)
LEMMA StopOutcome ==
  ASSUME TypeOK, CoreInv, NEW t \in Tasks, state[t] \notin {"absent", "new"},
         NEW error, NEW retry \in BOOLEAN, NEW value \in Nat,
         ~StopIsIgnored(t), StopNow(t, error, retry, value),
         resourceRental' \in [Tasks -> Rentals \cup {NoRental}]
  PROVE  /\ TaskTypeOK'
         /\ \A u \in Tasks \ {t} :
              /\ state'[u] = state[u]
              /\ retriesCount'[u] = retriesCount[u]
              /\ startupTimeoutId'[u] = startupTimeoutId[u]
              /\ timeoutId'[u] = timeoutId[u]
         /\ state'[t] = StopState(t, error, retry)
         /\ ~startupTimeoutId'[t] /\ ~timeoutId'[t]
         /\ \/ /\ state'[t] \in {"done", "rejected"}
               /\ retriesCount'[t] = retriesCount[t]
            \/ /\ state'[t] = "retry"
               /\ retry
               /\ retriesCount[t] < MaxRetries[t]
               /\ retriesCount'[t] = retriesCount[t] + 1
         /\ Dispatch(t, state'[t])
<1> DEFINE s == StopState(t, error, retry)
<1>1. StopTask(t, s, value) /\ Dispatch(t, s)
  BY DEF StopNow
<1>2. \/ s \in {"done", "rejected"}
      \/ s = "retry" /\ retry /\ retriesCount[t] < MaxRetries[t]
  BY DEF StopState
<1> HIDE DEF s
<1>3. state' = [state EXCEPT ![t] = s]
  BY <1>1 DEF StopTask
<1>4. QED
  BY <1>1, <1>2, <1>3 DEF s, StopTask, TypeOK, TaskTypeOK, TaskState

(* What a stop does to the rest: the closures of the task are called and   *)
(* dropped, or, once the service has ended, called and kept.               *)
LEMMA StopDispatch ==
  ASSUME TypeOK, CoreInv, NEW t \in Tasks, state[t] \notin {"absent", "new"},
         ~StopIsIgnored(t), NEW newState \in {"done", "rejected", "retry"},
         Dispatch(t, newState),
         resourceRental' \in [Tasks -> Rentals \cup {NoRental}]
  PROVE  LET a == Current(t) IN
         /\ handler' \in [Attempts -> {"idle", "retrying", "stopping"}]
         /\ listeners' \in [Tasks -> SUBSET Attempts]
         /\ signalled' \in SUBSET Attempts
         /\ pool' \in [Rentals -> RentalStatus]
         /\ \A u \in Tasks \ {t} : listeners'[u] = listeners[u]
         /\ \A b \in Attempts \ {a} : handler'[b] = handler[b]
         /\ \/ /\ newState = "retry" /\ aborted
               /\ listeners'[t] = {a}
               /\ handler'[a] = "idle"
               /\ activeTasksCount' = activeTasksCount - 1
            \/ /\ ~(newState = "retry" /\ aborted)
               /\ listeners'[t] = {}
               /\ handler'[a] = IF newState = "retry" THEN "retrying"
                                                     ELSE "stopping"
               /\ activeTasksCount' = activeTasksCount
<1> DEFINE a == Current(t)
<1>1. /\ a \in Attempts
      /\ listeners[t] = {a}
      /\ handler[a] = "idle"
  BY StoppedTask DEF AttemptsOf, Current
<1>2. /\ handler \in [Attempts -> {"idle", "retrying", "stopping"}]
      /\ listeners \in [Tasks -> SUBSET Attempts]
      /\ signalled \in SUBSET Attempts
      /\ pool \in [Rentals -> RentalStatus]
      /\ resourceRental'[t] \in Rentals \cup {NoRental}
  BY DEF TypeOK, TaskTypeOK, DispatchTypeOK
<1> HIDE DEF a
<1>3. CASE newState = "retry" /\ aborted
  <2>1. CallAllClosures(t)
    BY <1>1, <1>3 DEF Dispatch
  <2>2. Cardinality(listeners[t]) = 1
    BY <1>1, FS_Singleton
  <2>3. QED
    BY <1>1, <1>2, <1>3, <2>1, <2>2 DEF CallAllClosures, a
<1>4. CASE ~(newState = "retry" /\ aborted)
  <2>1. CallHandler(t, newState)
    BY <1>1, <1>4 DEF Dispatch
  <2>2. handler' = [handler EXCEPT ![a] = IF newState = "retry"
                                          THEN "retrying" ELSE "stopping"]
    BY <1>1, <2>1 DEF CallHandler
  <2>3. listeners' = [listeners EXCEPT ![t] = {}]
    BY <2>1 DEF CallHandler, Cleanup
  <2>4. pool' \in [Rentals -> RentalStatus]
    BY <1>2, <2>1 DEF CallHandler, ReleaseTaskResources, Destroy, Release,
       RentalStatus
  <2>5. UNCHANGED <<signalled, activeTasksCount>>
    BY <2>1 DEF CallHandler
  <2>6. /\ handler'[a] = (IF newState = "retry" THEN "retrying" ELSE "stopping")
        /\ \A b \in Attempts \ {a} : handler'[b] = handler[b]
        /\ handler' \in [Attempts -> {"idle", "retrying", "stopping"}]
    BY <1>1, <1>2, <2>2
  <2>7. QED
    BY <1>2, <1>4, <2>3, <2>4, <2>5, <2>6 DEF a
<1>5. QED
  BY <1>3, <1>4

(* A stop preserves the core of the invariant.                             *)
LEMMA StopKeepsCore ==
  ASSUME TypeOK, CoreInv, NEW t \in Tasks, state[t] \notin {"absent", "new"},
         NEW error, NEW retry \in BOOLEAN, NEW value \in Nat,
         ~StopIsIgnored(t), StopNow(t, error, retry, value),
         resourceRental' \in [Tasks -> Rentals \cup {NoRental}],
         UNCHANGED <<itemsStack, aborted>>
  PROVE  CoreInv' /\ DispatchTypeOK'
<1> DEFINE a == Current(t)
           s == state'[t]
<1>1. /\ state[t] \in {"queued", "pending"}
      /\ a \in Attempts
      /\ listeners[t] = {a}
      /\ t \notin Range(itemsStack)
      /\ t \in Served
      /\ \A b \in AttemptsOf(t) : handler[b] = "idle"
  BY StoppedTask
<1>2. /\ TaskTypeOK'
      /\ \A u \in Tasks \ {t} :
           /\ state'[u] = state[u]
           /\ retriesCount'[u] = retriesCount[u]
           /\ startupTimeoutId'[u] = startupTimeoutId[u]
           /\ timeoutId'[u] = timeoutId[u]
      /\ ~startupTimeoutId'[t] /\ ~timeoutId'[t]
      /\ \/ /\ s \in {"done", "rejected"}
            /\ retriesCount'[t] = retriesCount[t]
         \/ /\ s = "retry"
            /\ retriesCount[t] < MaxRetries[t]
            /\ retriesCount'[t] = retriesCount[t] + 1
      /\ Dispatch(t, s)
  BY StopOutcome
<1>3. /\ handler' \in [Attempts -> {"idle", "retrying", "stopping"}]
      /\ listeners' \in [Tasks -> SUBSET Attempts]
      /\ signalled' \in SUBSET Attempts
      /\ pool' \in [Rentals -> RentalStatus]
      /\ \A u \in Tasks \ {t} : listeners'[u] = listeners[u]
      /\ \A b \in Attempts \ {a} : handler'[b] = handler[b]
      /\ \/ /\ s = "retry" /\ aborted
            /\ listeners'[t] = {a}
            /\ handler'[a] = "idle"
            /\ activeTasksCount' = activeTasksCount - 1
         \/ /\ ~(s = "retry" /\ aborted)
            /\ listeners'[t] = {}
            /\ handler'[a] = IF s = "retry" THEN "retrying" ELSE "stopping"
            /\ activeTasksCount' = activeTasksCount
  BY <1>2, StopDispatch
<1>4. /\ a = <<t, retriesCount[t] + 1>>
      /\ retriesCount[t] \in Nat /\ MaxRetries[t] \in Nat
      /\ \A b \in Attempts : b[1] \in Tasks /\ b = <<b[1], b[2]>>
  BY AttemptParts, TaskOptionsAssumption DEF Current, TypeOK, TaskTypeOK
<1> HIDE DEF a, s
<1>5. RetriesAreBounded'
  BY <1>2, <1>4 DEF CoreInv, RetriesAreBounded, s
<1>6. ListenersFollowState'
  <2>1. ASSUME NEW u \in Tasks \ {t}
        PROVE  /\ state'[u] = state[u]
               /\ Current(u)' = Current(u)
               /\ listeners'[u] = listeners[u]
               /\ retriesCount'[u] = retriesCount[u]
    BY <1>2, <1>3 DEF Current
  <2>2. /\ s = "retry" =>
             \/ listeners'[t] = {}
             \/ aborted' /\ listeners'[t] = {<<t, retriesCount'[t]>>}
        /\ s \in {"done", "rejected"} => listeners'[t] = {}
    BY <1>2, <1>3, <1>4
  <2>3. s \in {"done", "rejected", "retry"}
    BY <1>2
  <2>4. QED
    BY <2>1, <2>2, <2>3 DEF CoreInv, ListenersFollowState, s
<1>7. HandlersFollowState'
  <2>1. ASSUME NEW b \in Attempts, b[1] # t
        PROVE  /\ handler'[b] = "retrying" =>
                   /\ state'[b[1]] = "retry"
                   /\ b[2] = retriesCount'[b[1]]
                   /\ listeners'[b[1]] = {}
                   /\ ~Has(b[1])'
               /\ handler'[b] = "stopping" =>
                   /\ IsFinished(b[1])'
                   /\ b[2] = retriesCount'[b[1]] + 1
    <3>1. b # a /\ b[1] \in Tasks \ {t}
      BY <1>4, <2>1
    <3>2. handler'[b] = handler[b] /\ Has(b[1])' = Has(b[1])
      BY <1>3, <3>1 DEF Has
    <3>3. QED
      BY <1>2, <1>3, <3>1, <3>2, SMTT(30) DEF CoreInv, HandlersFollowState, IsFinished
  <2>2. ASSUME NEW b \in Attempts, b[1] = t, handler'[b] # "idle"
        PROVE  b = a
    BY <1>1, <1>3, <2>2 DEF AttemptsOf
  <2>3. /\ handler'[a] = "retrying" =>
             /\ state'[t] = "retry"
             /\ retriesCount'[t] = retriesCount[t] + 1
             /\ listeners'[t] = {}
        /\ handler'[a] = "stopping" =>
             /\ state'[t] \in {"done", "rejected"}
             /\ retriesCount'[t] = retriesCount[t]
    BY <1>2, <1>3 DEF s
  <2>4. ~Has(t)'
    BY <1>1 DEF Has
  <2>5. QED
    BY <1>4, <2>1, <2>2, <2>3, <2>4 DEF HandlersFollowState, IsFinished, Finished
<1>8. QueueFollowsState'
  <2>1. Range(itemsStack) \subseteq Tasks \ {t}
    BY <1>1, RangeOfSeq DEF TypeOK, ServiceTypeOK
  <2>2. itemsStack' = itemsStack
    OBVIOUS
  <2>3. QED
    BY <1>2, <1>3, <2>1, <2>2 DEF CoreInv, QueueFollowsState, IsQueueable
<1>9. \A u \in Tasks \ {t} : Handled(u)' <=> Handled(u)
  BY <1>3, <1>4 DEF Handled, AttemptsOf
<1>10. Handled(t)' <=> ~(s = "retry" /\ aborted)
  <2>1. a \in AttemptsOf(t)
    BY <1>1, <1>4 DEF AttemptsOf
  <2>2. ASSUME NEW b \in AttemptsOf(t), b # a
        PROVE  handler'[b] = "idle"
    BY <1>1, <1>3, <2>2 DEF AttemptsOf
  <2>3. QED
    BY <1>3, <2>1, <2>2 DEF Handled
<1>11. NoTaskIsLost'
  <2>1. ASSUME NEW u \in Tasks \ {t}
        PROVE  /\ IsQueueable(u)' = IsQueueable(u)
               /\ Has(u)' = Has(u)
    BY <1>2 DEF IsQueueable, Has
  <2>2. IsQueueable(t)' => Handled(t)' \/ aborted'
    BY <1>2, <1>10 DEF IsQueueable, Queueable, s
  <2>3. QED
    BY <1>9, <2>1, <2>2 DEF CoreInv, NoTaskIsLost
<1>12. TimersFollowState'
  BY <1>2 DEF CoreInv, TimersFollowState, s
<1>13. Served' = IF s = "retry" /\ aborted THEN Served \ {t} ELSE Served
  <2>1. ASSUME NEW u \in Tasks \ {t}
        PROVE  InService(u)' <=> InService(u)
    BY <1>2, <1>9 DEF InService
  <2>2. InService(t)' <=> ~(s = "retry" /\ aborted)
    BY <1>2, <1>10 DEF InService, s
  <2>3. QED
    BY <1>1, <2>1, <2>2 DEF Served
<1>14. /\ IsFiniteSet(Served)
       /\ activeTasksCount = Cardinality(Served)
       /\ activeTasksCount <= MaxParallelTasks
       /\ MaxParallelTasks \in Nat
       /\ activeTasksCount \in Nat
  BY ServiceAssumption DEF CoreInv, ActiveCountIsExact, Served,
     TypeOK, DispatchTypeOK
<1>15. /\ IsFiniteSet(Served')
       /\ activeTasksCount' = Cardinality(Served')
       /\ activeTasksCount' <= MaxParallelTasks
       /\ activeTasksCount' \in Nat
  <2>1. CASE s = "retry" /\ aborted
    <3>1. /\ IsFiniteSet(Served \ {t})
          /\ Cardinality(Served \ {t}) = Cardinality(Served) - 1
          /\ Cardinality(Served) \in Nat \ {0}
      BY <1>1, <1>14, CountLeave
    <3>2. QED
      BY <1>3, <1>13, <1>14, <2>1, <3>1
  <2>2. CASE ~(s = "retry" /\ aborted)
    BY <1>3, <1>13, <1>14, <2>2
  <2>3. QED
    BY <2>1, <2>2
<1>16. ActiveCountIsExact'
  BY <1>15 DEF ActiveCountIsExact, Served
<1>17. DispatchTypeOK'
  BY <1>3, <1>15 DEF DispatchTypeOK
<1>18. QED
  BY <1>5, <1>6, <1>7, <1>8, <1>11, <1>12, <1>15, <1>16, <1>17 DEF CoreInv

(* A step that stops task t, and in which attempts do nothing but end,     *)
(* preserves the invariant.  Of a task that does not retry timeouts, only  *)
(* its live attempt can cause a retry, and it ends by that.                *)
LEMMA StopKeepsInvariant ==
  ASSUME IndInv, NEW t \in Tasks, state[t] \notin {"absent", "new"},
         NEW error, NEW retry \in BOOLEAN, NEW value \in Nat,
         \/ Stop(t, error, retry, value)
         \/ /\ StopNow(t, error, retry, value)
            /\ ~StopIsIgnored(t)
            /\ resourceRental' \in [Tasks -> Rentals \cup {NoRental}],
         UNCHANGED <<itemsStack, serviceVars, rental, invoked>>,
         emitted' \in [Tasks -> Seq(Events)],
         pc' \in [Attempts -> {"idle", "acquiring", "deploying", "running",
                              "ended"}],
         \A b \in Attempts :
           pc'[b] = pc[b] \/ (pc[b] # "idle" /\ pc'[b] = "ended"),
         retry /\ ~RetryOnTimeout[t] =>
           \E b \in AttemptsOf(t) : Live(b) /\ pc'[b] = "ended"
  PROVE  IndInv'
<1> USE DEF IndInv
<1>1. AttemptTypeOK' /\ ServiceTypeOK'
  BY DEF TypeOK, AttemptTypeOK, ServiceTypeOK, serviceVars
<1>2. \A b \in Attempts : b[1] \in Tasks /\ b = <<b[1], b[2]>> /\ b[2] \in Nat
  BY AttemptParts
<1>3. \A u \in Tasks : retriesCount[u] \in Nat
  BY DEF TypeOK, TaskTypeOK
<1>4. \A b \in Attempts : Live(b)' => Live(b)
  BY DEF Live
<1>5. CASE StopIsIgnored(t)
  <2>1. UNCHANGED <<taskVars, dispatchVars, itemsStack, aborted>>
    BY <1>5 DEF Stop, serviceVars
  <2>2. TaskTypeOK' /\ DispatchTypeOK'
    BY <2>1 DEF TypeOK, TaskTypeOK, DispatchTypeOK, taskVars, dispatchVars
  <2>3. CoreInv'
    <3>1. /\ RetriesAreBounded' /\ ListenersFollowState'
          /\ HandlersFollowState' /\ QueueFollowsState' /\ TimersFollowState'
      BY <2>1 DEF CoreInv, RetriesAreBounded, ListenersFollowState,
         HandlersFollowState, QueueFollowsState, TimersFollowState, Has,
         IsQueueable, IsFinished, Current, taskVars, dispatchVars
    <3>2. NoTaskIsLost'
      BY <2>1 DEF CoreInv, NoTaskIsLost, Has, IsQueueable, Handled, taskVars,
         dispatchVars
    <3>3. IsFiniteSet(Served)' /\ ActiveCountIsExact'
      BY <2>1 DEF CoreInv, ActiveCountIsExact, Served, InService, Handled,
         taskVars, dispatchVars
    <3>4. QED
      BY <3>1, <3>2, <3>3 DEF CoreInv
  <2>4. AttemptsFollowTask' /\ NoStaleAttempt'
    BY <1>4, <2>1 DEF AttemptsFollowTask, NoStaleAttempt, Current, taskVars
  <2>5. QED
    BY <1>1, <2>2, <2>3, <2>4 DEF TypeOK
<1>6. CASE ~StopIsIgnored(t)
  <2>0. /\ StopNow(t, error, retry, value)
        /\ resourceRental' \in [Tasks -> Rentals \cup {NoRental}]
    BY <1>6 DEF Stop, TypeOK, TaskTypeOK
  <2>1. CoreInv' /\ DispatchTypeOK'
    BY <1>6, <2>0, StopKeepsCore DEF serviceVars
  <2>2. /\ TaskTypeOK'
        /\ \A u \in Tasks \ {t} : /\ state'[u] = state[u]
                                 /\ retriesCount'[u] = retriesCount[u]
        /\ \/ /\ state'[t] \in {"done", "rejected"}
              /\ retriesCount'[t] = retriesCount[t]
           \/ /\ state'[t] = "retry"
              /\ retry
              /\ retriesCount'[t] = retriesCount[t] + 1
    BY <1>6, <2>0, StopOutcome
  <2>3. AttemptsFollowTask'
    <3>1. ASSUME NEW b \in Attempts, pc'[b] # "idle"
          PROVE  /\ state'[b[1]] \notin {"absent", "new"}
                 /\ b[2] <= retriesCount'[b[1]] + 1
                 /\ state'[b[1]] = "retry" => b[2] <= retriesCount'[b[1]]
      <4>1. /\ state[b[1]] \notin {"absent", "new"}
            /\ b[2] <= retriesCount[b[1]] + 1
            /\ state[b[1]] = "retry" => b[2] <= retriesCount[b[1]]
        BY <3>1 DEF AttemptsFollowTask
      <4>2. CASE b[1] = t
        BY <1>2, <1>3, <2>2, <4>1, <4>2
      <4>3. CASE b[1] # t
        BY <1>2, <2>2, <4>1, <4>3
      <4>4. QED
        BY <4>2, <4>3
    <3>2. QED
      BY <3>1 DEF AttemptsFollowTask
  <2>4. NoStaleAttempt'
    <3>1. ASSUME NEW b \in Attempts, Live(b)', ~RetryOnTimeout[b[1]]
          PROVE  b = <<b[1], retriesCount'[b[1]] + 1>>
      <4>1. Live(b) /\ b = <<b[1], retriesCount[b[1]] + 1>>
        BY <1>4, <3>1 DEF NoStaleAttempt, Current
      <4>2. CASE b[1] # t
        BY <1>2, <2>2, <4>1, <4>2
      <4>3. CASE b[1] = t /\ ~retry
        BY <2>2, <4>1, <4>3
      <4>4. CASE b[1] = t /\ retry
        <5>1. PICK c \in AttemptsOf(t) : Live(c) /\ pc'[c] = "ended"
          BY <3>1, <4>4
        <5>2. c = <<t, retriesCount[t] + 1>>
          BY <3>1, <4>4, <5>1 DEF AttemptsOf, NoStaleAttempt, Current
        <5>3. b = c
          BY <4>1, <4>4, <5>2
        <5>4. QED
          BY <3>1, <5>1, <5>3 DEF Live
      <4>5. QED
        BY <4>2, <4>3, <4>4
    <3>2. QED
      BY <3>1 DEF NoStaleAttempt, Current
  <2>5. QED
    BY <1>1, <2>1, <2>2, <2>3, <2>4 DEF TypeOK
<1>7. QED
  BY <1>5, <1>6

(* The catch clause of startTask, and with it every rejection.             *)
LEMMA CatchKeepsInvariant ==
  ASSUME IndInv, NEW a \in Attempts, Live(a), NEW e, Catch(a, e),
         UNCHANGED <<itemsStack, serviceVars, rental, invoked, emitted>>
  PROVE  IndInv'
<1>1. a[1] \in Tasks /\ a \in AttemptsOf(a[1])
  BY AttemptParts DEF AttemptsOf
<1>2. state[a[1]] \notin {"absent", "new"}
  BY DEF IndInv, AttemptsFollowTask, Live
<1>3. Retryable(a[1], e) \in BOOLEAN
  BY DEF Retryable
<1>4. /\ pc' = [pc EXCEPT ![a] = "ended"]
      /\ Stop(a[1], e, Retryable(a[1], e), 0)
  BY DEF Catch
<1>5. /\ pc' \in [Attempts -> {"idle", "acquiring", "deploying", "running",
                              "ended"}]
      /\ \A b \in Attempts :
           pc'[b] = pc[b] \/ (pc[b] # "idle" /\ pc'[b] = "ended")
      /\ pc'[a] = "ended"
  BY <1>4 DEF IndInv, TypeOK, AttemptTypeOK, Live
<1>6. emitted' \in [Tasks -> Seq(Events)]
  BY DEF IndInv, TypeOK, ServiceTypeOK
<1>7. QED
  BY <1>1, <1>2, <1>3, <1>4, <1>5, <1>6, StopKeepsInvariant

(* A listener of taskStarted throws: the task is stopped with the rental   *)
(* it has just been given, and its attempt ends.                           *)
LEMMA StartedListenerKeepsInvariant ==
  ASSUME IndInv, NEW a \in Attempts, StartedListenerThrows(a)
  PROVE  IndInv'
<1> DEFINE t == a[1]
<1>1. /\ t \in Tasks
      /\ a \in AttemptsOf(t)
  BY AttemptParts DEF AttemptsOf
<1>2. /\ pc[a] = "deploying"
      /\ state[t] = "queued"
      /\ resourceRental' = [resourceRental EXCEPT ![t] = rental[a]]
      /\ pc' = [pc EXCEPT ![a] = "ended"]
      /\ Emit(t, "taskStarted")
      /\ UNCHANGED <<itemsStack, serviceVars, rental, invoked>>
  BY DEF StartedListenerThrows
<1>3. PICK e : StopNow(t, e, Retryable(t, e), 0)
  BY DEF StartedListenerThrows
<1>4. /\ ~StopIsIgnored(t)
      /\ Retryable(t, e) \in BOOLEAN
      /\ state[t] \notin {"absent", "new"}
  BY <1>2 DEF StopIsIgnored, Finished, Retryable
<1>5. /\ resourceRental' \in [Tasks -> Rentals \cup {NoRental}]
      /\ emitted' \in [Tasks -> Seq(Events)]
  BY <1>1, <1>2 DEF IndInv, TypeOK, TaskTypeOK, AttemptTypeOK, ServiceTypeOK,
     Emit, Events
<1>6. /\ pc' \in [Attempts -> {"idle", "acquiring", "deploying", "running",
                              "ended"}]
      /\ \A b \in Attempts :
           pc'[b] = pc[b] \/ (pc[b] # "idle" /\ pc'[b] = "ended")
      /\ Live(a) /\ pc'[a] = "ended"
  BY <1>2 DEF IndInv, TypeOK, AttemptTypeOK, Live
<1> HIDE DEF t
<1>7. QED
  BY <1>1, <1>2, <1>3, <1>4, <1>5, <1>6, StopKeepsInvariant, ZenonT(30)

(* A handler ends: its task leaves the service, into the queue if it is    *)
(* retried.                                                                *)
LEMMA HandlerEndKeepsInvariant ==
  ASSUME IndInv, NEW a \in Attempts, handler[a] # "idle", HandlerEnds(a),
         retryCountTotal' \in Nat, emitted' \in [Tasks -> Seq(Events)],
         \/ UNCHANGED itemsStack /\ (handler[a] = "stopping" \/ RetriesAreUnsafe)
         \/ handler[a] = "retrying" /\ AddToBegin(a[1])
  PROVE  IndInv'
<1> DEFINE t == a[1]
<1> USE DEF IndInv
<1>1. /\ t \in Tasks
      /\ \A b \in Attempts : b[1] \in Tasks /\ b = <<b[1], b[2]>>
  BY AttemptParts
<1>2. /\ \A b \in Attempts \ {a} : handler'[b] = handler[b]
      /\ handler'[a] = "idle"
      /\ handler' \in [Attempts -> {"idle", "retrying", "stopping"}]
      /\ activeTasksCount' = activeTasksCount - 1
      /\ UNCHANGED <<state, retriesCount, results, startupTimeoutId, timeoutId,
                     resourceRental, listeners, pool, loop, aborted, pc, rental,
                     invoked, signalled>>
  BY DEF HandlerEnds, TypeOK, DispatchTypeOK, taskVars, attemptVars
<1>3. /\ handler[a] = "retrying" => /\ state[t] = "retry"
                                    /\ listeners[t] = {}
                                    /\ t \notin Range(itemsStack)
      /\ handler[a] = "stopping" => state[t] \in {"done", "rejected"}
      /\ handler[a] \in {"retrying", "stopping"}
  BY DEF CoreInv, HandlersFollowState, Has, IsFinished, Finished, TypeOK,
     DispatchTypeOK
<1>4. ASSUME NEW b \in Attempts, b[1] = t, handler[b] # "idle"
      PROVE  b = a
  <2>1. /\ b[2] = IF state[t] = "retry" THEN retriesCount[t]
                                       ELSE retriesCount[t] + 1
        /\ a[2] = IF state[t] = "retry" THEN retriesCount[t]
                                       ELSE retriesCount[t] + 1
    BY <1>4 DEF CoreInv, HandlersFollowState, IsFinished, Finished, TypeOK,
       DispatchTypeOK
  <2>2. QED
    BY <1>1, <1>4, <2>1
<1>5. /\ itemsStack' \in Seq(Tasks)
      /\ IsInjective(itemsStack')
      /\ \/ itemsStack' = itemsStack
            /\ (handler[a] = "stopping" \/ RetriesAreUnsafe)
         \/ handler[a] = "retrying" /\ Range(itemsStack') = Range(itemsStack) \cup {t}
  <2>1. itemsStack \in Seq(Tasks) /\ IsInjective(itemsStack)
    BY DEF CoreInv, QueueFollowsState, TypeOK, ServiceTypeOK
  <2>2. CASE handler[a] = "retrying" /\ AddToBegin(t)
    <3> DEFINE q == <<t>> \o itemsStack
    <3>1. /\ q \in Seq(Tasks)
          /\ Range(q) = Range(itemsStack) \cup {t}
          /\ IsInjective(itemsStack) /\ t \notin Range(itemsStack)
               => IsInjective(q)
      BY <1>1, <2>1, PutInFront
    <3>2. itemsStack' = q
      BY <2>2 DEF AddToBegin
    <3> HIDE DEF q
    <3>3. QED
      BY <1>3, <2>1, <2>2, <3>1, <3>2
  <2>3. CASE /\ UNCHANGED itemsStack
             /\ handler[a] = "stopping" \/ RetriesAreUnsafe
    BY <2>1, <2>3
  <2>4. QED
    BY <2>2, <2>3
<1> HIDE DEF t
<1>6. Range(itemsStack) \subseteq Tasks
  BY RangeOfSeq DEF TypeOK, ServiceTypeOK
<1>7. TaskTypeOK' /\ AttemptTypeOK' /\ ServiceTypeOK'
  BY <1>2, <1>5 DEF TypeOK, TaskTypeOK, AttemptTypeOK, ServiceTypeOK
<1>8. RetriesAreBounded' /\ ListenersFollowState' /\ TimersFollowState'
  BY <1>2 DEF CoreInv, RetriesAreBounded, ListenersFollowState,
     TimersFollowState, Current
<1>9. HandlersFollowState'
  <2>1. ASSUME NEW b \in Attempts, handler'[b] # "idle"
        PROVE  /\ handler[b] = handler'[b]
               /\ b[1] # t
               /\ Has(b[1])' <=> Has(b[1])
    <3>1. handler[b] = handler'[b] /\ b # a
      BY <1>2, <2>1
    <3>2. b[1] # t
      BY <1>4, <2>1, <3>1
    <3>3. QED
      BY <1>5, <3>1, <3>2 DEF Has
  <2>2. QED
    BY <1>2, <2>1, ZenonT(30) DEF CoreInv, HandlersFollowState, IsFinished
<1>10. QueueFollowsState'
  BY <1>2, <1>3, <1>5 DEF CoreInv, QueueFollowsState, IsQueueable, Queueable
<1>11. ASSUME NEW u \in Tasks \ {t}
       PROVE  Handled(u)' <=> Handled(u)
  BY <1>2, <1>11 DEF Handled, AttemptsOf, t
<1>12. ~Handled(t)'
  BY <1>2, <1>4 DEF Handled, AttemptsOf
<1>13. NoTaskIsLost'
  <2>1. ASSUME NEW u \in Tasks \ {t}
        PROVE  Has(u)' <=> Has(u)
    BY <1>5, <2>1 DEF Has
  <2>2. IsQueueable(t) => Has(t)' \/ RetriesAreUnsafe
    BY <1>3, <1>5 DEF Has, IsQueueable, Queueable
  <2>3. QED
    BY <1>2, <1>11, <2>1, <2>2 DEF CoreInv, NoTaskIsLost, IsQueueable,
       RetriesAreUnsafe
<1>14. t \in Served /\ Served' = Served \ {t}
  <2>1. ~InService(t)'
    BY <1>2, <1>3, <1>12 DEF InService
  <2>2. InService(t)
    BY <1>1 DEF InService, Handled, AttemptsOf, t
  <2>3. ASSUME NEW u \in Tasks \ {t}
        PROVE  InService(u)' <=> InService(u)
    BY <1>2, <1>11 DEF InService
  <2>4. QED
    BY <1>1, <2>1, <2>2, <2>3 DEF Served, t
<1>15. /\ IsFiniteSet(Served')
       /\ activeTasksCount' = Cardinality(Served')
       /\ activeTasksCount' \in Nat
       /\ activeTasksCount' <= MaxParallelTasks
  <2>1. /\ IsFiniteSet(Served)
        /\ activeTasksCount = Cardinality(Served)
        /\ activeTasksCount <= MaxParallelTasks
        /\ MaxParallelTasks \in Nat
    BY ServiceAssumption DEF CoreInv, ActiveCountIsExact, Served
  <2>2. /\ IsFiniteSet(Served \ {t})
        /\ Cardinality(Served \ {t}) = Cardinality(Served) - 1
        /\ Cardinality(Served) \in Nat \ {0}
    BY <1>14, <2>1, CountLeave
  <2>3. QED
    BY <1>2, <1>14, <2>1, <2>2
<1>16. DispatchTypeOK' /\ ActiveCountIsExact'
  BY <1>2, <1>15 DEF TypeOK, DispatchTypeOK, ActiveCountIsExact, Served
<1>17. AttemptsFollowTask' /\ NoStaleAttempt'
  BY <1>2 DEF AttemptsFollowTask, NoStaleAttempt, Live, Current
<1>18. QED
  BY <1>7, <1>8, <1>9, <1>10, <1>13, <1>15, <1>16, <1>17 DEF TypeOK, CoreInv

-----------------------------------------------------------------------------
(* The steps that stop no task and end no handler.                         *)

(* A new task is queued, with no timer, closure or attempt of its own.     *)
LEMMA SubmitKeepsInvariant ==
  ASSUME IndInv, NEW t \in Tasks, Submit(t)
  PROVE  IndInv'
<1> USE DEF IndInv
<1>1. /\ state[t] = "absent"
      /\ state' = [state EXCEPT ![t] = "new"]
      /\ UNCHANGED <<retriesCount, results, startupTimeoutId, timeoutId,
                     resourceRental, listeners, handler, signalled,
                     activeTasksCount, pool, pc, rental, invoked, loop,
                     aborted, retryCountTotal>>
  BY DEF Submit, NewTask, dispatchVars, attemptVars, serviceVars
<1>2. /\ state \in [Tasks -> TaskState \cup {"absent"}]
      /\ \A u \in Tasks \ {t} : state'[u] = state[u]
      /\ state'[t] = "new"
      /\ state' \in [Tasks -> TaskState \cup {"absent"}]
  BY <1>1 DEF TypeOK, TaskTypeOK, TaskState
<1>3. /\ itemsStack \in Seq(Tasks)
      /\ IsInjective(itemsStack)
      /\ t \notin Range(itemsStack)
      /\ listeners[t] = {}
  BY <1>1 DEF TypeOK, ServiceTypeOK, CoreInv, QueueFollowsState, IsQueueable,
     Queueable, ListenersFollowState
<1>4. /\ itemsStack' \in Seq(Tasks)
      /\ Range(itemsStack') = Range(itemsStack) \cup {t}
      /\ IsInjective(itemsStack')
  <2>1. itemsStack' = Append(itemsStack, t)
    BY DEF Submit, AddToEnd
  <2>2. QED
    BY <1>3, <2>1, AppendToQueue
<1>5. TypeOK'
  <2>1. emitted' \in [Tasks -> Seq(Events)]
    BY DEF TypeOK, ServiceTypeOK, Submit, Emit, Events
  <2>2. QED
    BY <1>1, <1>2, <1>4, <2>1 DEF TypeOK, TaskTypeOK, DispatchTypeOK,
       AttemptTypeOK, ServiceTypeOK
<1>6. \A a \in Attempts : a[1] \in Tasks
  BY AttemptParts
<1>7. \A a \in Attempts : a[1] = t => handler[a] = "idle" /\ pc[a] = "idle"
  BY <1>1 DEF CoreInv, HandlersFollowState, AttemptsFollowTask, IsFinished,
     Finished, TypeOK, DispatchTypeOK
<1>8. RetriesAreBounded' /\ ListenersFollowState' /\ TimersFollowState'
  BY <1>1, <1>2, <1>3 DEF CoreInv, RetriesAreBounded, ListenersFollowState,
     TimersFollowState, Current
<1>9. HandlersFollowState'
  <2>1. ASSUME NEW a \in Attempts, handler'[a] # "idle"
        PROVE  a[1] # t /\ (Has(a[1])' <=> Has(a[1]))
    BY <1>1, <1>4, <1>7, <2>1 DEF Has
  <2>2. QED
    BY <1>1, <1>2, <1>6, <2>1 DEF CoreInv, HandlersFollowState, IsFinished
<1>10. QueueFollowsState'
  <2>1. Range(itemsStack) \subseteq Tasks
    BY <1>3, RangeOfSeq
  <2>2. QED
    BY <1>1, <1>2, <1>3, <1>4, <2>1 DEF CoreInv, QueueFollowsState, IsQueueable,
       Queueable
<1>11. NoTaskIsLost'
  <2>1. \A u \in Tasks : Handled(u)' = Handled(u)
    BY <1>1 DEF Handled
  <2>2. QED
    BY <1>1, <1>2, <1>4, <2>1 DEF CoreInv, NoTaskIsLost, Has, IsQueueable
<1>12. Served' = Served
  BY <1>1, <1>2 DEF Served, InService, Handled
<1>13. IsFiniteSet(Served)' /\ ActiveCountIsExact'
  BY <1>1, <1>12 DEF CoreInv, ActiveCountIsExact, Served
<1>14. AttemptsFollowTask' /\ NoStaleAttempt'
  BY <1>1, <1>2, <1>6, <1>7 DEF AttemptsFollowTask, NoStaleAttempt, Live, Current
<1>15. QED
  BY <1>5, <1>8, <1>9, <1>10, <1>11, <1>13, <1>14 DEF CoreInv

(* The run loop takes a task: it is counted, gets its closures and its     *)
(* startup timer, and its current attempt begins.                          *)
LEMMA TakeKeepsInvariant ==
  ASSUME IndInv, NEW t \in Tasks, Take(t)
  PROVE  IndInv'
<1> DEFINE a == Current(t)
<1> USE DEF IndInv
<1>1. /\ ~aborted
      /\ activeTasksCount < MaxParallelTasks
      /\ itemsStack # << >> /\ t = Head(itemsStack)
      /\ itemsStack' = Tail(itemsStack)
      /\ listeners' = [listeners EXCEPT ![t] = @ \cup {a}]
      /\ activeTasksCount' = activeTasksCount + 1
      /\ state' = [state EXCEPT ![t] = "queued"]
      /\ startupTimeoutId' = [startupTimeoutId EXCEPT ![t] = HasStartupTimeout[t]]
      /\ pc' = [pc EXCEPT ![a] = "acquiring"]
      /\ UNCHANGED <<retriesCount, results, timeoutId, resourceRental, loop,
                     aborted, retryCountTotal, rental, invoked, handler,
                     signalled, pool, emitted>>
  BY DEF Take, Get, OnStateChange, InitTask, serviceVars, Current
<1>2. /\ itemsStack \in Seq(Tasks)
      /\ t \in Range(itemsStack)
      /\ itemsStack' \in Seq(Tasks)
      /\ Range(itemsStack') \subseteq Range(itemsStack)
      /\ IsInjective(itemsStack')
      /\ t \notin Range(itemsStack')
      /\ Range(itemsStack) \subseteq Range(itemsStack') \cup {t}
  <2>1. itemsStack \in Seq(Tasks) /\ IsInjective(itemsStack)
    BY DEF TypeOK, ServiceTypeOK, CoreInv, QueueFollowsState
  <2>2. QED
    BY <1>1, <2>1, TakeFromQueue
<1>3. /\ state[t] \in {"new", "retry"}
      /\ listeners[t] = {}
  BY <1>2 DEF CoreInv, QueueFollowsState, IsQueueable, Queueable
<1>4. /\ retriesCount[t] \in Nat
      /\ a = <<t, retriesCount[t] + 1>>
      /\ a \in Attempts
      /\ \A b \in Attempts : b[1] \in Tasks /\ b = <<b[1], b[2]>>
  BY AttemptParts, TaskOptionsAssumption DEF CoreInv, RetriesAreBounded, TypeOK,
     TaskTypeOK, Current
<1> HIDE DEF a
<1>5. /\ \A u \in Tasks \ {t} : /\ state'[u] = state[u]
                              /\ listeners'[u] = listeners[u]
                              /\ startupTimeoutId'[u] = startupTimeoutId[u]
      /\ state'[t] = "queued"
      /\ listeners'[t] = {a}
      /\ startupTimeoutId'[t] = HasStartupTimeout[t]
      /\ \A b \in Attempts \ {a} : pc'[b] = pc[b]
      /\ pc'[a] = "acquiring"
  BY <1>1, <1>3, <1>4 DEF TypeOK, TaskTypeOK, DispatchTypeOK, AttemptTypeOK
<1>6. TaskTypeOK' /\ AttemptTypeOK' /\ ServiceTypeOK'
  BY <1>1, <1>2, TaskOptionsAssumption DEF TypeOK, TaskTypeOK, TaskState,
     AttemptTypeOK, ServiceTypeOK
<1>7. \A b \in Attempts : b[1] = t => handler[b] = "idle"
  BY <1>2, <1>3 DEF CoreInv, HandlersFollowState, IsFinished, Finished, Has,
     TypeOK, DispatchTypeOK
<1>8. RetriesAreBounded' /\ TimersFollowState'
  BY <1>1, <1>3, <1>5 DEF CoreInv, RetriesAreBounded, TimersFollowState
<1>9. ListenersFollowState'
  BY <1>1, <1>4, <1>5 DEF CoreInv, ListenersFollowState, Current
<1>10. HandlersFollowState'
  BY <1>1, <1>2, <1>4, <1>5, <1>7 DEF CoreInv, HandlersFollowState, IsFinished, Has
<1>11. QueueFollowsState'
  <2>1. Range(itemsStack') \subseteq Tasks \ {t}
    BY <1>2, RangeOfSeq
  <2>2. QED
    BY <1>2, <1>5, <2>1 DEF CoreInv, QueueFollowsState, IsQueueable
<1>12. \A u \in Tasks : Handled(u)' = Handled(u)
  BY <1>1 DEF Handled
<1>13. NoTaskIsLost'
  BY <1>1, <1>2, <1>5, <1>12 DEF CoreInv, NoTaskIsLost, IsQueueable, Queueable, Has
<1>14. t \notin Served /\ Served' = Served \cup {t}
  <2>1. ~InService(t)
    BY <1>3, <1>7 DEF InService, Handled, AttemptsOf
  <2>2. InService(t)'
    BY <1>5 DEF InService
  <2>3. \A u \in Tasks \ {t} : InService(u)' = InService(u)
    BY <1>5, <1>12 DEF InService
  <2>4. QED
    BY <2>1, <2>2, <2>3 DEF Served
<1>15. /\ IsFiniteSet(Served')
       /\ activeTasksCount' = Cardinality(Served')
       /\ activeTasksCount' \in Nat
       /\ activeTasksCount' <= MaxParallelTasks
  <2>1. /\ IsFiniteSet(Served)
        /\ activeTasksCount = Cardinality(Served)
        /\ activeTasksCount \in Nat
        /\ MaxParallelTasks \in Nat
    BY ServiceAssumption DEF CoreInv, ActiveCountIsExact, Served, TypeOK,
       DispatchTypeOK
  <2>2. /\ IsFiniteSet(Served \cup {t})
        /\ Cardinality(Served \cup {t}) = Cardinality(Served) + 1
    BY <1>14, <2>1, CountEnter
  <2>3. QED
    BY <1>1, <1>14, <2>1, <2>2
<1>16. DispatchTypeOK' /\ ActiveCountIsExact'
  BY <1>1, <1>4, <1>15 DEF TypeOK, DispatchTypeOK, ActiveCountIsExact, Served
<1>17. AttemptsFollowTask'
  BY <1>1, <1>3, <1>4, <1>5 DEF AttemptsFollowTask
<1>18. NoStaleAttempt'
  <2>1. ASSUME NEW b \in Attempts, Live(b)', ~RetryOnTimeout[b[1]]
        PROVE  b = Current(b[1])'
    <3>1. CASE b = a
      BY <1>1, <1>4, <3>1 DEF Current
    <3>2. CASE b # a
      <4>1. Live(b)
        BY <1>5, <2>1, <3>2 DEF Live
      <4>2. b = Current(b[1])
        BY <2>1, <4>1 DEF NoStaleAttempt
      <4>3. QED
        BY <1>1, <4>2 DEF Current
    <3>3. QED
      BY <3>1, <3>2
  <2>2. QED
    BY <2>1 DEF NoStaleAttempt
<1>19. QED
  BY <1>6, <1>8, <1>9, <1>10, <1>11, <1>13, <1>15, <1>16, <1>17, <1>18
     DEF TypeOK, CoreInv

(* An attempt starts its task: only the timers and the state change.       *)
LEMMA ExeUnitReadyKeepsInvariant ==
  ASSUME IndInv, NEW a \in Attempts, ExeUnitReady(a)
  PROVE  IndInv'
<1> DEFINE t == a[1]
<1> USE DEF IndInv
<1>1. /\ state[t] = "queued"
      /\ state' = [state EXCEPT ![t] = "pending"]
      /\ startupTimeoutId' = [startupTimeoutId EXCEPT ![t] = FALSE]
      /\ timeoutId' = [timeoutId EXCEPT ![t] = HasTimeout[t]]
      /\ resourceRental' = [resourceRental EXCEPT ![t] = rental[a]]
      /\ pc[a] = "deploying"
      /\ pc' = [pc EXCEPT ![a] = "running"]
      /\ invoked' = invoked \cup {a}
      /\ UNCHANGED <<retriesCount, results, itemsStack, loop, aborted,
                     retryCountTotal, rental, listeners, handler, signalled,
                     activeTasksCount, pool>>
  BY DEF ExeUnitReady, StartTask, serviceVars, dispatchVars
<1>2. t \in Tasks
  BY AttemptParts
<1> HIDE DEF t
<1>3. /\ \A u \in Tasks \ {t} : /\ state'[u] = state[u]
                              /\ startupTimeoutId'[u] = startupTimeoutId[u]
                              /\ timeoutId'[u] = timeoutId[u]
      /\ state'[t] = "pending"
      /\ ~startupTimeoutId'[t]
      /\ timeoutId'[t] = HasTimeout[t]
      /\ \A b \in Attempts \ {a} : pc'[b] = pc[b]
  BY <1>1, <1>2 DEF TypeOK, TaskTypeOK, AttemptTypeOK
<1>4. TypeOK'
  <2>1. emitted' \in [Tasks -> Seq(Events)]
    BY <1>2 DEF TypeOK, ServiceTypeOK, ExeUnitReady, Emit, Events, t
  <2>2. TaskTypeOK' /\ AttemptTypeOK'
    BY <1>1, <1>2, TaskOptionsAssumption DEF TypeOK, TaskTypeOK, TaskState,
       AttemptTypeOK
  <2>3. QED
    BY <1>1, <2>1, <2>2 DEF TypeOK, DispatchTypeOK, ServiceTypeOK
<1>5. Range(itemsStack) \subseteq Tasks \ {t}
  <2>1. t \notin Range(itemsStack)
    BY <1>1 DEF CoreInv, QueueFollowsState, IsQueueable, Queueable
  <2>2. QED
    BY <2>1, RangeOfSeq DEF TypeOK, ServiceTypeOK
<1>6. \A b \in Attempts : b[1] = t => handler[b] = "idle"
  BY <1>1 DEF CoreInv, HandlersFollowState, IsFinished, Finished, TypeOK,
     DispatchTypeOK
<1>7. \A b \in Attempts : b[1] \in Tasks
  BY AttemptParts
<1>8. RetriesAreBounded' /\ TimersFollowState' /\ ListenersFollowState'
  BY <1>1, <1>3 DEF CoreInv, RetriesAreBounded, TimersFollowState,
     ListenersFollowState, Current
<1>9. HandlersFollowState'
  BY <1>1, <1>3, <1>6, <1>7 DEF CoreInv, HandlersFollowState, IsFinished, Has
<1>10. QueueFollowsState'
  BY <1>1, <1>3, <1>5 DEF CoreInv, QueueFollowsState, IsQueueable
<1>11. \A u \in Tasks : Handled(u)' = Handled(u)
  BY <1>1 DEF Handled
<1>12. NoTaskIsLost'
  BY <1>1, <1>3, <1>11 DEF CoreInv, NoTaskIsLost, IsQueueable, Queueable, Has
<1>13. Served' = Served
  BY <1>1, <1>3, <1>11 DEF Served, InService
<1>14. IsFiniteSet(Served)' /\ ActiveCountIsExact'
  BY <1>1, <1>13 DEF CoreInv, ActiveCountIsExact, Served
<1>15. AttemptsFollowTask'
  BY <1>1, <1>3 DEF AttemptsFollowTask
<1>16. NoStaleAttempt'
  <2>1. ASSUME NEW b \in Attempts, Live(b)', ~RetryOnTimeout[b[1]]
        PROVE  b = Current(b[1])'
    <3>1. Live(b)
      BY <1>1, <1>3, <2>1 DEF Live
    <3>2. QED
      BY <1>1, <2>1, <3>1 DEF NoStaleAttempt, Current
  <2>2. QED
    BY <2>1 DEF NoStaleAttempt
<1>17. QED
  BY <1>4, <1>8, <1>9, <1>10, <1>12, <1>14, <1>15, <1>16 DEF CoreInv

(* Steps that touch no task: only the loop, the signal of the service, the *)
(* pool or an attempt that waited for a rental.                            *)
LEMMA OtherStepsKeepInvariant ==
  ASSUME IndInv,
         UNCHANGED <<taskVars, listeners, handler, signalled, itemsStack,
                     activeTasksCount, retryCountTotal, invoked, emitted>>,
         loop' \in {"starting", "looping", "exited", "failed"},
         aborted' \in BOOLEAN, aborted => aborted',
         AttemptTypeOK', pool' \in [Rentals -> RentalStatus],
         \A b \in Attempts :
           (pc'[b] # "idle" => pc[b] # "idle") /\ (Live(b)' => Live(b))
  PROVE  IndInv'
<1> USE DEF IndInv
<1>1. TypeOK'
  BY DEF TypeOK, TaskTypeOK, DispatchTypeOK, ServiceTypeOK, taskVars
<1>2. /\ RetriesAreBounded' /\ ListenersFollowState' /\ HandlersFollowState'
      /\ QueueFollowsState' /\ TimersFollowState'
  BY DEF CoreInv, RetriesAreBounded, ListenersFollowState, HandlersFollowState,
     QueueFollowsState, TimersFollowState, Has, IsQueueable, IsFinished,
     Current, taskVars
<1>3. NoTaskIsLost'
  BY DEF CoreInv, NoTaskIsLost, Has, IsQueueable, Handled, taskVars
<1>4. IsFiniteSet(Served)' /\ ActiveCountIsExact'
  BY DEF CoreInv, ActiveCountIsExact, Served, InService, Handled, taskVars
<1>5. AttemptsFollowTask' /\ NoStaleAttempt'
  BY DEF AttemptsFollowTask, NoStaleAttempt, Current, taskVars
<1>6. QED
  BY <1>1, <1>2, <1>3, <1>4, <1>5 DEF CoreInv

-----------------------------------------------------------------------------
(* Every step of the service preserves the invariant.                      *)
THEOREM NextKeepsInvariant == IndInv /\ [Next]_vars => IndInv'
<1> SUFFICES ASSUME IndInv, [Next]_vars PROVE IndInv'
  OBVIOUS
<1>types. /\ AttemptTypeOK
          /\ pool \in [Rentals -> RentalStatus]
          /\ loop \in {"starting", "looping", "exited", "failed"}
          /\ aborted \in BOOLEAN
          /\ retryCountTotal \in Nat
          /\ emitted \in [Tasks -> Seq(Events)]
  BY DEF IndInv, TypeOK, DispatchTypeOK, ServiceTypeOK
<1>1. CASE Ready \/ LoopExit \/ End
  BY <1>1, <1>types, OtherStepsKeepInvariant DEF Ready, LoopExit, End, attemptVars,
     dispatchVars, AttemptTypeOK, Live
<1>2. ASSUME NEW t \in Tasks, Submit(t) \/ Take(t)
      PROVE  IndInv'
  BY <1>2, SubmitKeepsInvariant, TakeKeepsInvariant
<1>3. ASSUME NEW t \in Tasks, TimerStep(t)
      PROVE  IndInv'
  <2>1. Timeout(t)
    BY <1>3 DEF TimerStep, StartupTimeout, TaskTimeout
  <2>2. state[t] \notin {"absent", "new"}
    BY <1>3 DEF IndInv, CoreInv, TimersFollowState, TimerStep, StartupTimeout,
       TaskTimeout
  <2>3. RetryOnTimeout[t] \in BOOLEAN
    BY TaskOptionsAssumption
  <2>4. /\ Stop(t, "GolemTimeoutError", RetryOnTimeout[t], 0)
        /\ UNCHANGED <<itemsStack, serviceVars, pc, rental, invoked, emitted>>
    BY <2>1 DEF Timeout, attemptVars
  <2>5. QED
    BY <1>types, <2>2, <2>3, <2>4, StopKeepsInvariant DEF AttemptTypeOK
<1>4. ASSUME NEW a \in Attempts, AttemptStep(a)
      PROVE  IndInv'
  <2>1. CASE \E r \in Rentals : AcquireGranted(a, r)
    <3>1. PICK r \in Rentals : AcquireGranted(a, r)
      BY <2>1
    <3>2. AttemptTypeOK' /\ pool' \in [Rentals -> RentalStatus]
      BY <1>types, <3>1 DEF AcquireGranted, Acquire, AttemptTypeOK, RentalStatus
    <3>3. \A b \in Attempts :
            (pc'[b] # "idle" => pc[b] # "idle") /\ (Live(b)' => Live(b))
      BY <1>types, <3>1 DEF AcquireGranted, AttemptTypeOK, Live
    <3>4. QED
      BY <1>types, <3>1, <3>2, <3>3, OtherStepsKeepInvariant
         DEF AcquireGranted, serviceVars
  <2>2. CASE AcquireRejected(a) \/ ExeUnitTooLate(a) \/ ExeUnitFailed(a)
             \/ FunctionThrows(a)
    <3>1. /\ Live(a)
          /\ \E e : Catch(a, e)
          /\ UNCHANGED <<itemsStack, serviceVars, rental, invoked, emitted>>
      BY <2>2 DEF AcquireRejected, ExeUnitTooLate, ExeUnitFailed,
         FunctionThrows, Live
    <3>2. QED
      BY <3>1, CatchKeepsInvariant
  <2>3. CASE ExeUnitReady(a)
    BY <2>3, ExeUnitReadyKeepsInvariant
  <2>4. CASE FunctionReturns(a)
    <3>1. /\ a[1] \in Tasks /\ a[2] \in Nat
          /\ a \in AttemptsOf(a[1])
          /\ state[a[1]] \notin {"absent", "new"}
      BY <2>4, AttemptParts DEF AttemptsOf, FunctionReturns, IndInv,
         AttemptsFollowTask
    <3>2. /\ pc' \in [Attempts -> {"idle", "acquiring", "deploying", "running",
                                  "ended"}]
          /\ \A b \in Attempts :
               pc'[b] = pc[b] \/ (pc[b] # "idle" /\ pc'[b] = "ended")
          /\ Live(a) /\ pc'[a] = "ended"
      BY <1>types, <2>4 DEF FunctionReturns, AttemptTypeOK, Live
    <3>3. QED
      BY <1>types, <2>4, <3>1, <3>2, StopKeepsInvariant DEF FunctionReturns
  <2>5. CASE StartedListenerThrows(a)
    BY <2>5, StartedListenerKeepsInvariant
  <2>6. QED
    BY <1>4, <2>1, <2>2, <2>3, <2>4, <2>5 DEF AttemptStep
<1>5. ASSUME NEW a \in Attempts, HandlerStep(a)
      PROVE  IndInv'
  <2>1. a[1] \in Tasks
    BY AttemptParts
  <2>2. CASE RetryResumes(a)
    <3>1. IsQueueable(a[1]) /\ ~Has(a[1])
      BY <2>2 DEF RetryResumes, IndInv, CoreInv, HandlersFollowState,
         IsQueueable, Queueable
    <3>2. /\ retryCountTotal' \in Nat
          /\ emitted' \in [Tasks -> Seq(Events)]
      BY <1>types, <2>1, <2>2 DEF RetryResumes, Emit, Events
    <3>3. AddToBegin(a[1]) /\ HandlerEnds(a) /\ handler[a] = "retrying"
      BY <2>2, <3>1 DEF RetryResumes, IsEligible
    <3>4. QED
      BY <3>2, <3>3, HandlerEndKeepsInvariant
  <2>3. CASE StopResumes(a)
    <3>1. emitted' \in [Tasks -> Seq(Events)]
      BY <1>types, <2>1, <2>3 DEF StopResumes, Emit, Events
    <3>2. QED
      BY <1>types, <2>3, <3>1, HandlerEndKeepsInvariant DEF StopResumes
  <2>4. CASE ReleaseRejected(a)
    BY <1>types, <2>4, HandlerEndKeepsInvariant DEF ReleaseRejected,
       RetriesAreUnsafe
  <2>5. CASE RetriedListenerThrows(a)
    <3>1. emitted' \in [Tasks -> Seq(Events)]
      BY <1>types, <2>1, <2>5 DEF RetriedListenerThrows, Emit, Events
    <3>2. QED
      BY <1>types, <2>5, <3>1, HandlerEndKeepsInvariant
         DEF RetriedListenerThrows, RetriesAreUnsafe
  <2>6. QED
    BY <1>5, <2>2, <2>3, <2>4, <2>5 DEF HandlerStep
<1>6. CASE UNCHANGED vars
  BY <1>6, <1>types, OtherStepsKeepInvariant DEF vars, attemptVars, serviceVars,
     AttemptTypeOK, Live
<1>7. QED
  BY <1>1, <1>2, <1>3, <1>4, <1>5, <1>6 DEF Next

(* The inductive invariant holds in every reachable state.                 *)
THEOREM Invariance == Spec => []IndInv
<1>1. Init => IndInv
  BY InitialState
<1>2. IndInv /\ [Next]_vars => IndInv'
  BY NextKeepsInvariant
<1>3. QED
  BY <1>1, <1>2, PTL DEF Spec

(* Every variable keeps its type: in particular activeTasksCount never     *)
(* goes below zero.                                                        *)
THEOREM TypeCorrectness == Spec => []TypeOK
<1>1. IndInv => TypeOK
  BY DEF IndInv
<1>2. QED
  BY <1>1, Invariance, PTL

(* The count of active tasks is exact, whatever times out, fails or is     *)
(* rejected by the pool, and never exceeds maxParallelTasks.               *)
THEOREM ActiveCountCorrectness == Spec => []ActiveCountIsExact
<1>1. IndInv => ActiveCountIsExact
  BY DEF IndInv, CoreInv
<1>2. QED
  BY <1>1, Invariance, PTL

(* The queue holds each task once, and only tasks nothing else works on.   *)
THEOREM QueueCorrectness == Spec => []QueueIsSound
<1>1. IndInv => QueueIsSound
  <2> SUFFICES ASSUME IndInv PROVE QueueIsSound
    OBVIOUS
  <2>1. ASSUME NEW t \in Range(itemsStack)
        PROVE  /\ IsQueueable(t) /\ listeners[t] = {}
               /\ ~startupTimeoutId[t] /\ ~timeoutId[t]
               /\ ~Handled(t)
    <3>1. t \in Tasks
      BY RangeOfSeq DEF IndInv, TypeOK, ServiceTypeOK
    <3>2. IsQueueable(t) /\ listeners[t] = {}
      BY DEF IndInv, CoreInv, QueueFollowsState
    <3>3. ~startupTimeoutId[t] /\ ~timeoutId[t]
      BY <3>1, <3>2 DEF IndInv, CoreInv, TimersFollowState, IsQueueable, Queueable
    <3>4. ~Handled(t)
      BY <3>1, <3>2 DEF IndInv, CoreInv, HandlersFollowState, Handled,
         AttemptsOf, Has, IsQueueable, Queueable, IsFinished, Finished,
         TypeOK, DispatchTypeOK
    <3>5. QED
      BY <3>2, <3>3, <3>4
  <2>2. IsInjective(itemsStack)
    BY DEF IndInv, CoreInv, QueueFollowsState
  <2>3. QED
    BY <2>1, <2>2 DEF QueueIsSound
<1>2. QED
  BY <1>1, Invariance, PTL

(* A task that still has to run is in the queue or about to be, while the  *)
(* service is up and the pool takes rentals back.                          *)
THEOREM NoTaskIsEverLost == Spec => []NoTaskIsLost
<1>1. IndInv => NoTaskIsLost
  BY DEF IndInv, CoreInv
<1>2. QED
  BY <1>1, Invariance, PTL

(* No timer of an earlier attempt is ever left armed.                      *)
THEOREM TimerCorrectness == Spec => []TimersFollowState
<1>1. IndInv => TimersFollowState
  BY DEF IndInv, CoreInv
<1>2. QED
  BY <1>1, Invariance, PTL

(* A task that does not retry timeouts never has two coroutines at work.   *)
THEOREM NoStaleAttempts == Spec => []NoStaleAttempt
<1>1. IndInv => NoStaleAttempt
  BY DEF IndInv
<1>2. QED
  BY <1>1, Invariance, PTL

-----------------------------------------------------------------------------
(* A finished task is not changed by any step.                             *)
LEMMA FinishedStep ==
  ASSUME IndInv, [Next]_vars, NEW t \in Tasks, IsFinished(t)
  PROVE  /\ state'[t] = state[t]
         /\ results'[t] = results[t]
         /\ retriesCount'[t] = retriesCount[t]
<1> DEFINE Same == /\ state'[t] = state[t]
                   /\ results'[t] = results[t]
                   /\ retriesCount'[t] = retriesCount[t]
<1> USE DEF IsFinished, Finished
<1>types. TaskTypeOK
  BY DEF IndInv, TypeOK
<1>stop. ASSUME NEW u \in Tasks, NEW e, NEW retry, NEW value,
                Stop(u, e, retry, value)
         PROVE  Same
  <2>1. CASE u = t
    BY <1>stop, <2>1 DEF Stop, StopIsIgnored, taskVars
  <2>2. CASE u # t /\ StopIsIgnored(u)
    BY <1>stop, <2>2 DEF Stop, taskVars
  <2>3. CASE u # t /\ ~StopIsIgnored(u)
    BY <1>stop, <1>types, <2>3 DEF Stop, StopNow, StopTask, TaskTypeOK
  <2>4. QED
    BY <2>1, <2>2, <2>3
<1>1. CASE Ready \/ LoopExit \/ End \/ UNCHANGED vars
  BY <1>1 DEF Ready, LoopExit, End, vars, taskVars
<1>2. ASSUME NEW u \in Tasks, Submit(u) \/ Take(u)
      PROVE  Same
  <2>1. CASE Submit(u)
    BY <1>types, <2>1 DEF Submit, NewTask, TaskTypeOK
  <2>2. CASE Take(u)
    <3>1. u \in Range(itemsStack)
      <4>1. itemsStack \in Seq(Tasks) /\ itemsStack # << >> /\ u = Head(itemsStack)
        BY <2>2 DEF IndInv, TypeOK, ServiceTypeOK, Take, Get
      <4>2. QED
        BY <4>1, TakeFromQueue
    <3>2. u # t
      BY <3>1 DEF IndInv, CoreInv, QueueFollowsState, IsQueueable, Queueable
    <3>3. QED
      BY <1>types, <2>2, <3>2 DEF Take, InitTask, TaskTypeOK
  <2>3. QED
    BY <1>2, <2>1, <2>2
<1>3. ASSUME NEW u \in Tasks, TimerStep(u)
      PROVE  Same
  BY <1>3, <1>stop DEF TimerStep, StartupTimeout, TaskTimeout, Timeout
<1>4. ASSUME NEW a \in Attempts, AttemptStep(a)
      PROVE  Same
  <2>1. a[1] \in Tasks
    BY AttemptParts
  <2>2. CASE \E r \in Rentals : AcquireGranted(a, r)
    BY <2>2 DEF AcquireGranted, taskVars
  <2>3. CASE ExeUnitReady(a)
    BY <1>types, <2>1, <2>3 DEF ExeUnitReady, StartTask, TaskTypeOK
  <2>4. CASE AcquireRejected(a) \/ ExeUnitTooLate(a) \/ ExeUnitFailed(a)
             \/ FunctionThrows(a)
    <3>1. \E e : Catch(a, e)
      BY <2>4 DEF AcquireRejected, ExeUnitTooLate, ExeUnitFailed, FunctionThrows
    <3>2. QED
      BY <1>stop, <2>1, <3>1 DEF Catch
  <2>5. CASE FunctionReturns(a)
    BY <1>stop, <2>1, <2>5 DEF FunctionReturns
  <2>6. CASE StartedListenerThrows(a)
    <3>1. a[1] # t
      BY <2>6 DEF StartedListenerThrows
    <3>2. \E e, retry : StopNow(a[1], e, retry, 0)
      BY <2>6 DEF StartedListenerThrows
    <3>3. QED
      BY <1>types, <2>1, <3>1, <3>2 DEF StopNow, StopTask, TaskTypeOK
  <2>7. QED
    BY <1>4, <2>2, <2>3, <2>4, <2>5, <2>6 DEF AttemptStep
<1>5. ASSUME NEW a \in Attempts, HandlerStep(a)
      PROVE  Same
  BY <1>5 DEF HandlerStep, RetryResumes, RetriedListenerThrows, StopResumes,
     ReleaseRejected, HandlerEnds, taskVars
<1>6. QED
  BY <1>1, <1>2, <1>3, <1>4, <1>5 DEF Next

(* Nothing revives a finished task or overwrites its results: not a timer, *)
(* not a late attempt, not a handler.                                      *)
THEOREM FinishedTasksStayFinished == Spec => FinishedIsFinal
<1>1. IndInv /\ [Next]_vars =>
        [\A t \in Tasks : IsFinished(t) =>
           /\ state'[t] = state[t]
           /\ results'[t] = results[t]
           /\ retriesCount'[t] = retriesCount[t]]_vars
  BY FinishedStep
<1>2. QED
  BY <1>1, Invariance, PTL DEF Spec, FinishedIsFinal

-----------------------------------------------------------------------------
(* The steps of the service by what they do.  Of the steps of the timers   *)
(* and the attempts, those that stop a task do so in one of three ways.    *)

Stopped(t, error, retry, value) ==
  /\ state[t] \in {"queued", "pending"}
  /\ StopNow(t, error, retry, value)
  /\ UNCHANGED <<itemsStack, serviceVars, rental, invoked>>

TimerStops(t) ==
  /\ startupTimeoutId[t] \/ timeoutId[t]
  /\ Stopped(t, "GolemTimeoutError", RetryOnTimeout[t], 0)
  /\ UNCHANGED <<resourceRental, pc, emitted>>

AttemptStops(a) ==
  /\ Live(a)
  /\ pc' = [pc EXCEPT ![a] = "ended"]
  /\ \/ pc[a] = "running" /\ Stopped(a[1], "undefined", TRUE, a[2])
     \/ \E e : /\ e = "undefined" => e \in FunctionErrors
               /\ Stopped(a[1], e, Retryable(a[1], e), 0)
  /\ UNCHANGED <<resourceRental, emitted>>

ListenerStops(a) ==
  /\ pc[a] = "deploying"
  /\ state[a[1]] = "queued"
  /\ pc' = [pc EXCEPT ![a] = "ended"]
  /\ resourceRental' = [resourceRental EXCEPT ![a[1]] = rental[a]]
  /\ \E e \in FunctionErrors : Stopped(a[1], e, Retryable(a[1], e), 0)
  /\ Emit(a[1], "taskStarted")

(* The task of the attempt is stopped already.                             *)
AttemptEnds(a) ==
  /\ Live(a)
  /\ StopIsIgnored(a[1])
  /\ pc' = [pc EXCEPT ![a] = "ended"]
  /\ UNCHANGED <<taskVars, dispatchVars, itemsStack, serviceVars, rental,
                 invoked, emitted>>

(* What the catch clause of startTask does: the attempt ends, and may stop *)
(* its task.                                                               *)
LEMMA CatchCases ==
  ASSUME IndInv, NEW a \in Attempts, Live(a), NEW e, Catch(a, e),
         e = "undefined" => e \in FunctionErrors,
         UNCHANGED <<itemsStack, serviceVars, rental, invoked, emitted>>
  PROVE  AttemptEnds(a) \/ AttemptStops(a)
<1>1. a[1] \in Tasks
  BY AttemptParts
<1>2. CASE StopIsIgnored(a[1])
  BY <1>2 DEF Catch, Stop, AttemptEnds
<1>3. CASE ~StopIsIgnored(a[1])
  <2>1. state[a[1]] \notin {"absent", "new"}
    BY DEF IndInv, AttemptsFollowTask, Live
  <2>2. state[a[1]] \in {"queued", "pending"}
    BY <1>1, <1>3, <2>1, StoppedTask DEF IndInv
  <2>3. Stopped(a[1], e, Retryable(a[1], e), 0) /\ UNCHANGED resourceRental
    BY <1>3, <2>2 DEF Catch, Stop, Stopped
  <2>4. QED
    BY <2>3 DEF Catch, AttemptStops
<1>4. QED
  BY <1>2, <1>3

(* Each step of the service by what it does to a task: stop it, find it *)
(* stopped, or go on with it.                                           *)
LEMMA StepCases ==
  ASSUME IndInv, [Next]_vars
  PROVE  \/ UNCHANGED vars \/ Ready \/ LoopExit \/ End
         \/ \E t \in Tasks : Submit(t) \/ Take(t) \/ TimerStops(t)
         \/ \E a \in Attempts :
              \/ \E r \in Rentals : AcquireGranted(a, r)
              \/ ExeUnitReady(a)
              \/ AttemptEnds(a) \/ AttemptStops(a) \/ ListenerStops(a)
              \/ HandlerStep(a)
<1>1. ASSUME NEW t \in Tasks, TimerStep(t)
      PROVE  TimerStops(t)
  <2>1. state[t] \in {"queued", "pending"}
    BY <1>1 DEF TimerStep, StartupTimeout, TaskTimeout, IndInv, CoreInv,
       TimersFollowState
  <2>2. ~StopIsIgnored(t)
    BY <2>1 DEF StopIsIgnored, Finished
  <2>3. Timeout(t) /\ (startupTimeoutId[t] \/ timeoutId[t])
    BY <1>1 DEF TimerStep, StartupTimeout, TaskTimeout
  <2>4. QED
    BY <2>1, <2>2, <2>3 DEF Timeout, Stop, TimerStops, Stopped, attemptVars
<1>2. ASSUME NEW a \in Attempts, AttemptStep(a)
      PROVE  \/ \E r \in Rentals : AcquireGranted(a, r)
             \/ ExeUnitReady(a)
             \/ AttemptEnds(a) \/ AttemptStops(a) \/ ListenerStops(a)
  <2>1. a[1] \in Tasks
    BY AttemptParts
  <2>2. CASE AcquireRejected(a) \/ ExeUnitTooLate(a) \/ ExeUnitFailed(a)
             \/ FunctionThrows(a)
    <3>1. /\ Live(a)
          /\ \E e : Catch(a, e) /\ (e = "undefined" => e \in FunctionErrors)
          /\ UNCHANGED <<itemsStack, serviceVars, rental, invoked, emitted>>
      BY <2>2, ServiceAssumption DEF AcquireRejected, ExeUnitTooLate,
         ExeUnitFailed, FunctionThrows, Live, SignalErrors
    <3>2. QED
      BY <3>1, CatchCases
  <2>3. CASE FunctionReturns(a)
    <3>1. Live(a) /\ state[a[1]] \notin {"absent", "new"}
      BY <2>3 DEF FunctionReturns, Live, IndInv, AttemptsFollowTask
    <3>2. CASE StopIsIgnored(a[1])
      BY <2>3, <3>1, <3>2 DEF FunctionReturns, Stop, AttemptEnds
    <3>3. CASE ~StopIsIgnored(a[1])
      <4>1. state[a[1]] \in {"queued", "pending"}
        BY <2>1, <3>1, <3>3, StoppedTask DEF IndInv
      <4>2. QED
        BY <2>3, <3>1, <3>3, <4>1 DEF FunctionReturns, Stop, Stopped, AttemptStops
    <3>4. QED
      BY <3>2, <3>3
  <2>4. CASE StartedListenerThrows(a)
    BY <2>4 DEF StartedListenerThrows, ListenerStops, Stopped
  <2>5. QED
    BY <1>2, <2>2, <2>3, <2>4 DEF AttemptStep
<1>3. QED
  BY <1>1, <1>2 DEF Next

(* What such a stop does.                                                  *)
LEMMA StopEffect ==
  ASSUME IndInv, NEW t \in Tasks, NEW error, NEW retry \in BOOLEAN,
         NEW value \in Nat, Stopped(t, error, retry, value),
         resourceRental' \in [Tasks -> Rentals \cup {NoRental}]
  PROVE  LET s == StopState(t, error, retry)
             a == Current(t) IN
         /\ a \in Attempts
         /\ s \in {"done", "rejected", "retry"}
         /\ s = "done" <=> error = "undefined"
         /\ s = "retry" => retry
         /\ state' = [state EXCEPT ![t] = s]
         /\ results' = [results EXCEPT ![t] = IF s = "done" THEN value ELSE @]
         /\ retriesCount' = [retriesCount EXCEPT ![t] =
                               IF s = "retry" THEN @ + 1 ELSE @]
         /\ \/ /\ s = "retry" /\ aborted
               /\ listeners[t] = {a}
               /\ signalled' = signalled \cup {a}
               /\ UNCHANGED <<listeners, handler, pool>>
            \/ /\ ~(s = "retry" /\ aborted)
               /\ listeners' = [listeners EXCEPT ![t] = {}]
               /\ handler' = [handler EXCEPT ![a] = IF s = "retry" THEN "retrying"
                                                    ELSE "stopping"]
               /\ ReleaseTaskResources(t, s)
               /\ UNCHANGED signalled
<1> DEFINE s == StopState(t, error, retry)
           a == Current(t)
<1>1. state[t] \notin {"absent", "new"} /\ ~StopIsIgnored(t)
  BY DEF Stopped, StopIsIgnored, Finished
<1>2. a \in Attempts /\ listeners[t] = {a}
  BY <1>1, StoppedTask DEF IndInv
<1>3. /\ s \in {"done", "rejected", "retry"}
      /\ s = "done" <=> error = "undefined"
      /\ s = "retry" => retry
  BY DEF StopState
<1>4. StopTask(t, s, value) /\ Dispatch(t, s)
  BY DEF Stopped, StopNow
<1> HIDE DEF s, a
<1>5. CASE s = "retry" /\ aborted
  <2>1. CallAllClosures(t)
    BY <1>2, <1>4, <1>5 DEF Dispatch
  <2>2. signalled' = signalled \cup {a} /\ UNCHANGED <<listeners, handler, pool>>
    BY <1>2, <2>1 DEF CallAllClosures
  <2>3. QED
    BY <1>2, <1>3, <1>4, <1>5, <2>2 DEF StopTask, s, a
<1>6. CASE ~(s = "retry" /\ aborted)
  <2>1. CallHandler(t, s)
    BY <1>2, <1>4, <1>6 DEF Dispatch
  <2>2. handler' = [handler EXCEPT ![a] = IF s = "retry" THEN "retrying"
                                          ELSE "stopping"]
    BY <1>2, <2>1 DEF CallHandler
  <2>3. /\ listeners' = [listeners EXCEPT ![t] = {}]
        /\ ReleaseTaskResources(t, s)
        /\ UNCHANGED signalled
    BY <2>1 DEF CallHandler, Cleanup
  <2>4. QED
    BY <1>2, <1>3, <1>4, <1>6, <2>2, <2>3 DEF StopTask, s, a
<1>7. QED
  BY <1>5, <1>6

(* A task that is taken waits at the head of the queue, free of everything.*)
LEMMA TakenTask ==
  ASSUME IndInv, NEW t \in Tasks, Take(t)
  PROVE  /\ Has(t) /\ IsQueueable(t) /\ listeners[t] = {}
         /\ Current(t) \in Attempts
         /\ pc[Current(t)] = "idle"
         /\ \A u \in Tasks : Has(u)' <=> Has(u) /\ u # t
<1>1. /\ itemsStack \in Seq(Tasks) /\ itemsStack # << >>
      /\ t = Head(itemsStack) /\ itemsStack' = Tail(itemsStack)
  BY DEF Take, Get, IndInv, TypeOK, ServiceTypeOK
<1>2. /\ t \in Range(itemsStack)
      /\ Range(itemsStack') \subseteq Range(itemsStack)
      /\ Range(itemsStack) \subseteq Range(itemsStack') \cup {t}
      /\ t \notin Range(itemsStack')
  BY <1>1, TakeFromQueue DEF IndInv, CoreInv, QueueFollowsState
<1>3. IsQueueable(t) /\ listeners[t] = {}
  BY <1>2 DEF IndInv, CoreInv, QueueFollowsState
<1>4. Current(t) \in Attempts
  BY TaskOptionsAssumption, AttemptParts DEF Current, IndInv, TypeOK, TaskTypeOK,
     CoreInv, RetriesAreBounded
<1>5. pc[Current(t)] = "idle"
  BY <1>3, <1>4 DEF IndInv, TypeOK, TaskTypeOK, AttemptsFollowTask, Current,
     IsQueueable, Queueable
<1>6. QED
  BY <1>2, <1>3, <1>4, <1>5 DEF Has
=============================================================================
