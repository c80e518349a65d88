----------------------- MODULE TaskServiceRentalProofs -----------------------
(***************************************************************************)
(* Theorems about the rentals the attempts of TaskService work on.         *)
(***************************************************************************)
EXTENDS TaskServiceProofs

(* The types that the proofs about rentals need. *)
LEMMA PoolTypes ==
  ASSUME IndInv
  PROVE  /\ pool \in [Rentals -> RentalStatus]
         /\ rental \in [Attempts -> Rentals \cup {NoRental}]
         /\ resourceRental \in [Tasks -> Rentals \cup {NoRental}]
         /\ pc \in [Attempts -> {"idle", "acquiring", "deploying", "running",
                                 "ended"}]
         /\ state \in [Tasks -> TaskState \cup {"absent"}]
         /\ listeners \in [Tasks -> SUBSET Attempts]
         /\ retriesCount \in [Tasks -> Nat]
         /\ invoked \subseteq Attempts
BY DEF IndInv, TypeOK, TaskTypeOK, DispatchTypeOK, AttemptTypeOK

(* An attempt that stops its task ends.                                    *)
LEMMA AttemptStopArguments ==
  ASSUME IndInv, NEW a \in Attempts, AttemptStops(a) \/ ListenerStops(a)
  PROVE  /\ a[1] \in Tasks
         /\ pc' = [pc EXCEPT ![a] = "ended"]
         /\ resourceRental' \in [Tasks -> Rentals \cup {NoRental}]
         /\ UNCHANGED <<rental, invoked, aborted>>
         /\ \E error : \E retry \in BOOLEAN, value \in Nat :
              Stopped(a[1], error, retry, value)
<1>1. a[1] \in Tasks /\ a[2] \in Nat
  BY AttemptParts
<1>2. pc' = [pc EXCEPT ![a] = "ended"] /\ UNCHANGED <<rental, invoked, aborted>>
  BY DEF AttemptStops, ListenerStops, Stopped, serviceVars
<1>3. resourceRental' \in [Tasks -> Rentals \cup {NoRental}]
  <2>1. CASE resourceRental' = resourceRental
    BY <2>1, PoolTypes
  <2>2. CASE resourceRental' = [resourceRental EXCEPT ![a[1]] = rental[a]]
    BY <1>1, <2>2, PoolTypes
  <2>3. QED
    BY <2>1, <2>2 DEF AttemptStops, ListenerStops
<1>4. \E error : \E retry \in BOOLEAN, value \in Nat :
        Stopped(a[1], error, retry, value)
  <2>1. CASE pc[a] = "running" /\ Stopped(a[1], "undefined", TRUE, a[2])
    BY <1>1, <2>1
  <2>2. CASE \E e : Stopped(a[1], e, Retryable(a[1], e), 0)
    <3>1. \A e : Retryable(a[1], e) \in BOOLEAN
      BY DEF Retryable
    <3>2. QED
      BY <2>2, <3>1, 0 \in Nat
  <2>3. QED
    BY <2>1, <2>2 DEF AttemptStops, ListenerStops
<1>5. QED
  BY <1>1, <1>2, <1>3, <1>4

(* Releasing the rental R, if the pool takes it back, leaves every other   *)
(* alone and lends none.                                                   *)
LEMMA ReleaseEffect ==
  ASSUME IndInv, ~PoolRejects,
         NEW t \in Tasks, NEW s \in {"done", "rejected", "retry"},
         ReleaseTaskResources(t, s),
         resourceRental' \in [Tasks -> Rentals \cup {NoRental}]
  PROVE  LET R == resourceRental'[t] IN
         /\ pool' \in [Rentals -> RentalStatus]
         /\ \A r \in Rentals : r # R => pool'[r] = pool[r]
         /\ R = NoRental => pool' = pool
         /\ R # NoRental =>
              /\ R \in Rentals
              /\ pool'[R] # "borrowed"
              /\ s \in {"rejected", "retry"} \/ pool[R] = "destroyed" =>
                   pool'[R] = "destroyed"
<1> DEFINE R == resourceRental'[t]
<1>1. pool \in [Rentals -> RentalStatus] /\ R \in Rentals \cup {NoRental}
  BY PoolTypes
<1>2. CASE R = NoRental
  BY <1>1, <1>2, NoRentalAssumption
     DEF ReleaseTaskResources, Rentals, Destroy, Release
<1>3. CASE R # NoRental
  BY <1>1, <1>3 DEF ReleaseTaskResources, Destroy, Release, Failed, RentalStatus
<1>4. QED
  BY <1>2, <1>3

-----------------------------------------------------------------------------
(* The order in which an attempt comes to its rental and its function.     *)
LEMMA OrderIsKept ==
  ASSUME IndInv, AttemptsBeginInOrder, [Next]_vars
  PROVE  AttemptsBeginInOrder'
<1> USE PoolTypes DEF AttemptsBeginInOrder
<1>1. CASE UNCHANGED vars \/ Ready \/ LoopExit \/ End
  BY <1>1 DEF vars, attemptVars, Ready, LoopExit, End
<1>2. ASSUME NEW t \in Tasks, Submit(t) \/ TimerStops(t)
      PROVE  AttemptsBeginInOrder'
  BY <1>2 DEF Submit, TimerStops, Stopped, attemptVars
<1>3. ASSUME NEW t \in Tasks, Take(t)
      PROVE  AttemptsBeginInOrder'
  <2>1. Current(t) \in Attempts /\ pc[Current(t)] = "idle"
    BY <1>3, TakenTask
  <2>2. QED
    BY <1>3, <2>1 DEF Take
<1>4. ASSUME NEW a \in Attempts, NEW r \in Rentals, AcquireGranted(a, r)
      PROVE  AttemptsBeginInOrder'
  BY <1>4 DEF AcquireGranted
<1>5. ASSUME NEW a \in Attempts, ExeUnitReady(a)
      PROVE  AttemptsBeginInOrder'
  BY <1>5 DEF ExeUnitReady
<1>6. ASSUME NEW a \in Attempts, AttemptEnds(a) \/ AttemptStops(a) \/ ListenerStops(a)
      PROVE  AttemptsBeginInOrder'
  <2>1. pc' = [pc EXCEPT ![a] = "ended"] /\ UNCHANGED <<rental, invoked>>
    BY <1>6 DEF AttemptEnds, AttemptStops, ListenerStops, Stopped
  <2>2. QED
    BY <2>1
<1>7. ASSUME NEW a \in Attempts, HandlerStep(a)
      PROVE  AttemptsBeginInOrder'
  BY <1>7 DEF HandlerStep, RetryResumes, RetriedListenerThrows, StopResumes,
     ReleaseRejected, HandlerEnds, attemptVars
<1>8. QED
  BY <1>1, <1>2, <1>3, <1>4, <1>5, <1>6, <1>7, StepCases

-----------------------------------------------------------------------------
(* A borrowed rental is not left behind by an attempt that was started.    *)
LEMMA StopKeepsBorrowed ==
  ASSUME ~PoolRejects, IndInv,
         AttemptsBeginInOrder, BorrowedByStarted, NEW t \in Tasks,
         NEW error, NEW retry \in BOOLEAN, NEW value \in Nat,
         Stopped(t, error, retry, value),
         resourceRental' \in [Tasks -> Rentals \cup {NoRental}],
         \A u \in Tasks \ {t} : resourceRental'[u] = resourceRental[u],
         state[t] = "pending" => resourceRental'[t] = resourceRental[t],
         \A b \in Attempts : b[1] # t => pc'[b] = pc[b]
  PROVE  BorrowedByStarted'
<1> DEFINE s == StopState(t, error, retry)
<1>1. /\ s \in {"done", "rejected", "retry"}
      /\ state' = [state EXCEPT ![t] = s]
      /\ \/ aborted /\ pool' = pool
         \/ ReleaseTaskResources(t, s)
  BY StopEffect
<1>2. UNCHANGED <<rental, invoked, aborted>>
  BY DEF Stopped, serviceVars
<1>3. SUFFICES ASSUME NEW r \in Rentals, pool'[r] = "borrowed"
               PROVE  (\E a \in Attempts :
                        /\ rental[a] = r
                        /\ \/ a \notin invoked \/ aborted
                           \/ /\ pc[a] = "running"
                              /\ state[a[1]] = "pending"
                              /\ resourceRental[a[1]] = r)'
  BY DEF BorrowedByStarted
<1> HIDE DEF s
<1>4. pool[r] = "borrowed" /\ (aborted \/ r # resourceRental'[t])
  <2>1. CASE aborted /\ pool' = pool
    BY <1>3, <2>1
  <2>2. CASE ReleaseTaskResources(t, s)
    BY <1>1, <1>3, <2>2, ReleaseEffect, NoRentalAssumption DEF Rentals
  <2>3. QED
    BY <1>1, <2>1, <2>2
<1>5. PICK a \in Attempts :
        /\ rental[a] = r
        /\ \/ a \notin invoked \/ aborted
           \/ /\ pc[a] = "running"
              /\ state[a[1]] = "pending"
              /\ resourceRental[a[1]] = r
  BY <1>4 DEF BorrowedByStarted
<1>6. CASE a \notin invoked \/ aborted
  BY <1>2, <1>5, <1>6
<1>7. CASE /\ ~aborted
           /\ pc[a] = "running"
           /\ state[a[1]] = "pending"
           /\ resourceRental[a[1]] = r
  <2>1. a[1] \in Tasks
    BY AttemptParts
  <2>2. a[1] # t
    BY <1>4, <1>7
  <2>3. state'[a[1]] = state[a[1]]
    BY <1>1, <2>1, <2>2, PoolTypes
  <2>4. QED
    BY <1>2, <1>5, <1>7, <2>1, <2>2, <2>3
<1>8. QED
  BY <1>5, <1>6, <1>7

(* Each step keeps what is known of a rental that stays borrowed: its *)
(* attempt never called its function.                                 *)
LEMMA BorrowedIsKept ==
  ASSUME ~PoolRejects, IndInv,
         AttemptsBeginInOrder, BorrowedByStarted, [Next]_vars
  PROVE  BorrowedByStarted'
<1> USE PoolTypes
<1>same. ASSUME UNCHANGED <<pool, rental, invoked, resourceRental>>,
                aborted => aborted',
                \A a \in Attempts :
                  pc[a] = "running" /\ state[a[1]] = "pending" =>
                    pc'[a] = "running" /\ state'[a[1]] = "pending"
         PROVE  BorrowedByStarted'
  BY <1>same DEF BorrowedByStarted
<1>1. CASE UNCHANGED vars \/ Ready \/ LoopExit \/ End
  BY <1>1, <1>same DEF vars, taskVars, attemptVars, serviceVars, dispatchVars,
     Ready, LoopExit, End
<1>2. ASSUME NEW t \in Tasks, Submit(t)
      PROVE  BorrowedByStarted'
  BY <1>2, <1>same, AttemptParts DEF Submit, NewTask, attemptVars, serviceVars,
     dispatchVars
<1>3. ASSUME NEW t \in Tasks, Take(t)
      PROVE  BorrowedByStarted'
  <2>1. state[t] # "pending" /\ Current(t) \in Attempts /\ pc[Current(t)] = "idle"
    BY <1>3, TakenTask DEF IsQueueable, Queueable
  <2>2. \A a \in Attempts :
          pc[a] = "running" /\ state[a[1]] = "pending" =>
            pc'[a] = "running" /\ state'[a[1]] = "pending"
    BY <1>3, <2>1, AttemptParts DEF Take, InitTask
  <2>3. QED
    BY <1>3, <2>2, <1>same DEF Take, InitTask, serviceVars
<1>4. ASSUME NEW t \in Tasks, TimerStops(t)
      PROVE  BorrowedByStarted'
  BY <1>4, StopKeepsBorrowed, TaskOptionsAssumption DEF TimerStops
<1>5. ASSUME NEW a \in Attempts, NEW r \in Rentals, AcquireGranted(a, r)
      PROVE  BorrowedByStarted'
  <2>1. /\ rental[a] = NoRental
        /\ a \notin invoked
        /\ pc[a] # "running"
    BY <1>5 DEF AcquireGranted, AttemptsBeginInOrder
  <2>2. /\ rental' = [rental EXCEPT ![a] = r]
        /\ pool' = [pool EXCEPT ![r] = "borrowed"]
        /\ \A b \in Attempts \ {a} : pc'[b] = pc[b]
        /\ UNCHANGED <<invoked, aborted, state, resourceRental>>
    BY <1>5 DEF AcquireGranted, Acquire, taskVars, serviceVars
  <2>3. SUFFICES ASSUME NEW q \in Rentals, pool'[q] = "borrowed"
                 PROVE  (\E b \in Attempts :
                          /\ rental[b] = q
                          /\ \/ b \notin invoked \/ aborted
                             \/ /\ pc[b] = "running"
                                /\ state[b[1]] = "pending"
                                /\ resourceRental[b[1]] = q)'
    BY DEF BorrowedByStarted
  <2>4. CASE q = r
    BY <2>1, <2>2, <2>4
  <2>5. CASE q # r
    <3>1. pool[q] = "borrowed"
      BY <2>2, <2>3, <2>5
    <3>2. PICK b \in Attempts :
            /\ rental[b] = q
            /\ \/ b \notin invoked \/ aborted
               \/ /\ pc[b] = "running"
                  /\ state[b[1]] = "pending"
                  /\ resourceRental[b[1]] = q
      BY <3>1 DEF BorrowedByStarted
    <3>3. b # a
      BY <2>1, <3>2, NoRentalAssumption DEF Rentals
    <3>4. QED
      BY <2>2, <3>2, <3>3
  <2>6. QED
    BY <2>4, <2>5
<1>6. ASSUME NEW a \in Attempts, ExeUnitReady(a)
      PROVE  BorrowedByStarted'
  <2>1. /\ state[a[1]] = "queued"
        /\ state' = [state EXCEPT ![a[1]] = "pending"]
        /\ resourceRental' = [resourceRental EXCEPT ![a[1]] = rental[a]]
        /\ pc' = [pc EXCEPT ![a] = "running"]
        /\ invoked' = invoked \cup {a}
        /\ UNCHANGED <<pool, rental, aborted>>
        /\ a[1] \in Tasks
    BY <1>6, AttemptParts DEF ExeUnitReady, StartTask, dispatchVars, serviceVars
  <2>2. SUFFICES ASSUME NEW q \in Rentals, pool[q] = "borrowed"
                 PROVE  (\E b \in Attempts :
                          /\ rental[b] = q
                          /\ \/ b \notin invoked \/ aborted
                             \/ /\ pc[b] = "running"
                                /\ state[b[1]] = "pending"
                                /\ resourceRental[b[1]] = q)'
    BY <2>1 DEF BorrowedByStarted
  <2>3. CASE rental[a] = q
    BY <2>1, <2>3
  <2>4. CASE rental[a] # q
    <3>1. PICK b \in Attempts :
            /\ rental[b] = q
            /\ \/ b \notin invoked \/ aborted
               \/ /\ pc[b] = "running"
                  /\ state[b[1]] = "pending"
                  /\ resourceRental[b[1]] = q
      BY <2>2 DEF BorrowedByStarted
    <3>2. b # a /\ b[1] \in Tasks
      BY <2>4, <3>1, AttemptParts
    <3>3. CASE b \notin invoked \/ aborted
      BY <2>1, <3>1, <3>2, <3>3
    <3>4. CASE pc[b] = "running" /\ state[b[1]] = "pending" /\ resourceRental[b[1]] = q
      BY <2>1, <3>1, <3>2, <3>4
    <3>5. QED
      BY <3>1, <3>3, <3>4
  <2>5. QED
    BY <2>3, <2>4
<1>7. ASSUME NEW a \in Attempts, AttemptEnds(a)
      PROVE  BorrowedByStarted'
  <2>1. state[a[1]] # "pending"
    BY <1>7 DEF AttemptEnds, StopIsIgnored, Finished
  <2>2. QED
    BY <1>7, <2>1, <1>same DEF AttemptEnds, taskVars, dispatchVars, serviceVars
<1>8. ASSUME NEW a \in Attempts, AttemptStops(a) \/ ListenerStops(a)
      PROVE  BorrowedByStarted'
  <2>1. /\ \A u \in Tasks \ {a[1]} : resourceRental'[u] = resourceRental[u]
        /\ state[a[1]] = "pending" => resourceRental'[a[1]] = resourceRental[a[1]]
    BY <1>8 DEF AttemptStops, ListenerStops
  <2>2. /\ a[1] \in Tasks
        /\ resourceRental' \in [Tasks -> Rentals \cup {NoRental}]
        /\ \A b \in Attempts : b[1] # a[1] => pc'[b] = pc[b]
    BY <1>8, AttemptStopArguments
  <2>3. PICK error : \E retry \in BOOLEAN, value \in Nat :
          Stopped(a[1], error, retry, value)
    BY <1>8, AttemptStopArguments
  <2>4. QED
    BY <2>1, <2>2, <2>3, StopKeepsBorrowed
<1>9. ASSUME NEW a \in Attempts, HandlerStep(a)
      PROVE  BorrowedByStarted'
  BY <1>9, <1>same DEF HandlerStep, RetryResumes, RetriedListenerThrows,
     StopResumes, ReleaseRejected, HandlerEnds, attemptVars, taskVars
<1>10. QED
  BY <1>1, <1>2, <1>3, <1>4, <1>5, <1>6, <1>7, <1>8, <1>9, StepCases

-----------------------------------------------------------------------------
(* Who holds a rental, if timeouts are final.                              *)

(* If timeouts are final, an attempt that holds a rental is the one its *)
(* task is on.                                                          *)
LEMMA HoldersAreCurrent ==
  ASSUME IndInv, TimeoutsAreFinal, NEW a \in Attempts, Holds(a)
  PROVE  a[1] \in Tasks /\ a = Current(a[1])
BY AttemptParts DEF IndInv, NoStaleAttempt, Live, Holds, TimeoutsAreFinal

(* A stop takes the rental of its own task from the pool and no other.     *)
LEMMA StopAndPool ==
  ASSUME ~PoolRejects, IndInv,
         TimeoutsAreFinal, HoldersAreAlone, NEW t \in Tasks,
         NEW error, NEW retry \in BOOLEAN, NEW value \in Nat,
         Stopped(t, error, retry, value),
         \/ UNCHANGED resourceRental
         \/ /\ pc[Current(t)] = "deploying"
            /\ resourceRental' = [resourceRental EXCEPT ![t] = rental[Current(t)]]
  PROVE  LET s == StopState(t, error, retry)
             c == Current(t) IN
         /\ \A r \in Rentals : pool[r] = "destroyed" => pool'[r] = "destroyed"
         /\ \A b \in Attempts \ {c} :
              Holds(b) => b[1] # t /\ pool'[rental[b]] = pool[rental[b]]
         /\ state[t] = "queued" /\ UNCHANGED resourceRental => pool' = pool
         /\ s \in {"rejected", "retry"} =>
              \/ listeners'[t] # {} /\ s = "retry"
              \/ resourceRental'[t] = NoRental
              \/ pool'[resourceRental'[t]] = "destroyed"
<1> DEFINE s == StopState(t, error, retry)
           c == Current(t)
           R == resourceRental'[t]
<1>0. c \in Attempts /\ c[1] = t
  BY StoppedTask DEF Stopped, IndInv, StopIsIgnored, Finished, Current
<1>types. /\ resourceRental' \in [Tasks -> Rentals \cup {NoRental}]
          /\ pool \in [Rentals -> RentalStatus]
  BY <1>0, PoolTypes
<1>1. /\ s \in {"done", "rejected", "retry"}
      /\ \/ s = "retry" /\ listeners' = listeners /\ listeners[t] = {c} /\ pool' = pool
         \/ ReleaseTaskResources(t, s)
  BY <1>types, StopEffect
<1>2. /\ \A b \in Attempts : Holds(b) => rental[b] \in Rentals
      /\ \A b \in Attempts \ {c} : Holds(b) => b[1] # t
  BY HoldersAreCurrent DEF HoldersAreAlone
<1>3. R = NoRental \/ pool[R] = "destroyed" \/ (Holds(c) /\ R = rental[c])
  <2>1. CASE state[t] = "queued" /\ UNCHANGED resourceRental
    BY <2>1 DEF HoldersAreAlone, HasNone
  <2>2. CASE state[t] = "pending" /\ UNCHANGED resourceRental
    BY <1>0, <2>2 DEF HoldersAreAlone, Holds
  <2>3. CASE /\ pc[c] = "deploying"
             /\ resourceRental' = [resourceRental EXCEPT ![t] = rental[c]]
    BY <2>3, PoolTypes DEF Holds
  <2>4. QED
    BY <2>1, <2>2, <2>3 DEF Stopped
<1> HIDE DEF s, c
<1>4. CASE s = "retry" /\ listeners' = listeners /\ listeners[t] = {c} /\ pool' = pool
  BY <1>2, <1>4 DEF s, c
<1>5. CASE ReleaseTaskResources(t, s)
  <2>1. /\ pool' \in [Rentals -> RentalStatus]
        /\ \A r \in Rentals : r # R => pool'[r] = pool[r]
        /\ R = NoRental => pool' = pool
        /\ R # NoRental =>
             /\ R \in Rentals
             /\ s \in {"rejected", "retry"} \/ pool[R] = "destroyed" =>
                  pool'[R] = "destroyed"
    BY <1>1, <1>5, <1>types, ReleaseEffect
  <2> HIDE DEF R
  <2>2. \A r \in Rentals : pool[r] = "destroyed" => pool'[r] = "destroyed"
    BY <2>1
  <2>3. ASSUME NEW b \in Attempts \ {c}, Holds(b)
        PROVE  pool'[rental[b]] = pool[rental[b]]
    <3>1. rental[b] = R => pool[R] = "destroyed" /\ R # NoRental
      BY <1>0, <1>2, <1>3, <2>3, NoRentalAssumption DEF HoldersAreAlone, Rentals
    <3>2. QED
      BY <1>2, <2>1, <2>3, <3>1
  <2>4. ASSUME state[t] = "queued", UNCHANGED resourceRental
        PROVE  pool' = pool
    <3>1. R = NoRental \/ pool[R] = "destroyed"
      BY <2>4 DEF HoldersAreAlone, HasNone, R
    <3>2. \A r \in Rentals : pool'[r] = pool[r]
      BY <2>1, <3>1
    <3>3. QED
      BY <1>types, <2>1, <3>2
  <2>5. QED
    BY <1>2, <2>1, <2>2, <2>3, <2>4 DEF s, c, R
<1>6. QED
  BY <1>1, <1>4, <1>5

(* Stopping a task gives up the rental of its attempt and of no other. *)
LEMMA StopKeepsHolders ==
  ASSUME ~PoolRejects, IndInv,
         TimeoutsAreFinal, HoldersAreAlone, NEW t \in Tasks,
         NEW error, NEW retry \in BOOLEAN, NEW value \in Nat,
         Stopped(t, error, retry, value),
         \/ UNCHANGED resourceRental
         \/ /\ pc[Current(t)] = "deploying"
            /\ resourceRental' = [resourceRental EXCEPT ![t] = rental[Current(t)]],
         \/ /\ UNCHANGED <<pc, resourceRental>>
            /\ error # "undefined" /\ ~retry
         \/ pc' = [pc EXCEPT ![Current(t)] = "ended"]
  PROVE  HoldersAreAlone'
<1> DEFINE s == StopState(t, error, retry)
           c == Current(t)
<1>0. c \in Attempts /\ c[1] = t
  BY StoppedTask DEF Stopped, IndInv, StopIsIgnored, Finished, Current
<1>types. resourceRental' \in [Tasks -> Rentals \cup {NoRental}]
  <2>1. rental[c] \in Rentals \cup {NoRental}
    BY <1>0, PoolTypes
  <2>2. QED
    BY <2>1, PoolTypes
<1>1. /\ s \in {"done", "rejected", "retry"}
      /\ (s = "done") <=> (error = "undefined")
      /\ s = "retry" => retry
      /\ state' = [state EXCEPT ![t] = s]
      /\ \/ listeners' = listeners
         \/ listeners' = [listeners EXCEPT ![t] = {}]
  BY <1>types, StopEffect
<1>others. /\ \A u \in Tasks \ {t} : retriesCount'[u] = retriesCount[u]
           /\ \A u \in Tasks \ {t} : listeners'[u] = listeners[u]
  <2>1. retriesCount' = [retriesCount EXCEPT ![t] =
                           IF s = "retry" THEN @ + 1 ELSE @]
    BY DEF Stopped, StopNow, StopTask
  <2>2. QED
    BY <1>1, <2>1, PoolTypes
<1>2. /\ \A r \in Rentals : pool[r] = "destroyed" => pool'[r] = "destroyed"
      /\ \A b \in Attempts \ {c} :
           Holds(b) => b[1] # t /\ pool'[rental[b]] = pool[rental[b]]
      /\ state[t] = "queued" /\ UNCHANGED resourceRental => pool' = pool
      /\ s \in {"rejected", "retry"} =>
           \/ listeners'[t] # {} /\ s = "retry"
           \/ resourceRental'[t] = NoRental
           \/ pool'[resourceRental'[t]] = "destroyed"
  BY StopAndPool
<1>3. /\ rental' = rental
      /\ state[t] \in {"queued", "pending"}
      /\ \A u \in Tasks \ {t} : resourceRental'[u] = resourceRental[u]
      /\ \A b \in Attempts \ {c} : pc'[b] = pc[b]
  BY PoolTypes DEF Stopped
<1>4. /\ state' \in [Tasks -> TaskState \cup {"absent"}]
      /\ state'[t] = s
      /\ \A u \in Tasks \ {t} : state'[u] = state[u]
  BY <1>1, PoolTypes DEF TaskState
<1>tasks. \A b \in Attempts : b[1] \in Tasks
  BY AttemptParts
<1>stay. pc'[c] = "ended" \/ (/\ UNCHANGED <<pc, resourceRental>>
                             /\ s = "rejected")
  <2>1. CASE pc' = [pc EXCEPT ![c] = "ended"]
    BY <1>0, <2>1, PoolTypes
  <2>2. CASE UNCHANGED <<pc, resourceRental>> /\ error # "undefined" /\ ~retry
    BY <1>1, <2>2
  <2>3. QED
    BY <2>1, <2>2
<1> HIDE DEF s, c
<1>5. \A b \in Attempts : Holds(b)' => Holds(b)
  BY <1>3, <1>stay DEF Holds
<1>6. /\ \A a \in Attempts : Holds(a)' => rental'[a] \in Rentals
      /\ \A a, b \in Attempts :
           Holds(a)' /\ Holds(b)' /\ rental'[a] = rental'[b] => a = b
  BY <1>3, <1>5 DEF HoldersAreAlone
<1>7. ASSUME NEW a \in Attempts, pc'[a] = "deploying"
      PROVE  pool'[rental'[a]] = "borrowed"
  <2>1. CASE a # c
    BY <1>2, <1>3, <1>7, <2>1 DEF HoldersAreAlone, Holds
  <2>2. CASE a = c
    <3>1. UNCHANGED <<pc, resourceRental>>
      BY <1>7, <1>stay, <2>2
    <3>2. pc[c] = "deploying"
      BY <1>7, <2>2, <3>1
    <3>3. state[t] = "queued"
      BY <1>3, <3>2 DEF HoldersAreAlone, c
    <3>4. QED
      BY <1>0, <1>2, <1>3, <2>2, <3>1, <3>2, <3>3 DEF HoldersAreAlone
  <2>3. QED
    BY <2>1, <2>2
<1>8. ASSUME NEW a \in Attempts, pc'[a] = "running"
      PROVE  \/ /\ state'[a[1]] = "pending"
                /\ resourceRental'[a[1]] = rental'[a]
                /\ pool'[rental'[a]] = "borrowed"
             \/ state'[a[1]] = "rejected" /\ pool'[rental'[a]] = "destroyed"
  <2>1. CASE a # c
    <3>1. pc[a] = "running" /\ a[1] \in Tasks \ {t}
          /\ pool'[rental[a]] = pool[rental[a]]
      BY <1>2, <1>3, <1>8, <1>tasks, <2>1 DEF Holds
    <3>2. QED
      BY <1>3, <1>4, <3>1 DEF HoldersAreAlone
  <2>2. CASE a = c
    <3>1. UNCHANGED <<pc, resourceRental>> /\ s = "rejected"
      BY <1>8, <1>stay, <2>2
    <3>2. pc[c] = "running" /\ rental[c] \in Rentals
      BY <1>0, <1>8, <2>2, <3>1 DEF HoldersAreAlone, Holds
    <3>3. resourceRental[t] = rental[c]
      BY <1>0, <1>3, <3>2 DEF HoldersAreAlone
    <3>4. pool'[rental[c]] = "destroyed"
      BY <1>2, <3>1, <3>2, <3>3, NoRentalAssumption DEF Rentals
    <3>5. QED
      BY <1>0, <1>3, <1>4, <2>2, <3>1, <3>4
  <2>3. QED
    BY <2>1, <2>2
<1>9. ASSUME NEW u \in Tasks
      PROVE  /\ state'[u] = "pending" => pc'[Current(u)'] = "running"
             /\ state'[u] \in {"absent", "new", "queued"} => HasNone(u)'
             /\ state'[u] = "retry" /\ listeners'[u] = {} => HasNone(u)'
  <2>1. CASE u # t
    <3>1. Current(u)' = Current(u) /\ Current(u) # c
      BY <1>0, <1>others, <2>1 DEF Current
    <3>2. HasNone(u) => HasNone(u)'
      BY <1>2, <1>3, <2>1, PoolTypes DEF HasNone
    <3>3. state[u] = "pending" => Current(u) \in Attempts
      <4>1. ASSUME state[u] = "pending" PROVE Current(u) \in Attempts
        BY <4>1, StoppedTask DEF IndInv, StopIsIgnored, Finished
      <4>2. QED
        BY <4>1
    <3>4. state'[u] = state[u] /\ listeners'[u] = listeners[u]
      BY <1>others, <1>4, <2>1
    <3>5. ASSUME state'[u] = "pending"
          PROVE  pc'[Current(u)'] = "running"
      <4>1. pc[Current(u)] = "running" /\ Current(u) \in Attempts
        BY <3>3, <3>4, <3>5 DEF HoldersAreAlone
      <4>2. pc'[Current(u)] = "running"
        BY <1>3, <3>1, <4>1
      <4>3. QED
        BY <3>1, <4>2
    <3>6. QED
      BY <3>2, <3>4, <3>5 DEF HoldersAreAlone
  <2>2. CASE u = t
    BY <1>1, <1>2, <1>4, <2>2 DEF HasNone
  <2>3. QED
    BY <2>1, <2>2, Zenon
<1>10. QED
  BY <1>6, <1>7, <1>8, <1>9 DEF HoldersAreAlone

(* Each step keeps rentals with those who hold them alone. *)
LEMMA HoldersAreKept ==
  ASSUME ~PoolRejects, IndInv,
         TimeoutsAreFinal, HoldersAreAlone, [Next]_vars
  PROVE  HoldersAreAlone'
<1>same. ASSUME UNCHANGED <<pc, rental, pool, state, listeners, resourceRental,
                            retriesCount>>
         PROVE  HoldersAreAlone'
  BY <1>same DEF HoldersAreAlone, Holds, HasNone, Current
<1>1. CASE UNCHANGED vars \/ Ready \/ LoopExit \/ End
  BY <1>1, <1>same DEF vars, taskVars, attemptVars, dispatchVars, Ready,
     LoopExit, End
<1>2. ASSUME NEW t \in Tasks, Submit(t)
      PROVE  HoldersAreAlone'
  <2>1. /\ state[t] = "absent"
        /\ state' = [state EXCEPT ![t] = "new"]
        /\ UNCHANGED <<pc, rental, pool, listeners, resourceRental, retriesCount>>
    BY <1>2 DEF Submit, NewTask, attemptVars, dispatchVars
  <2>2. \A u \in Tasks : u # t => state'[u] = state[u]
    BY <2>1, PoolTypes
  <2>3. state'[t] = "new"
    BY <2>1, PoolTypes
  <2>4. \A a \in Attempts : a[1] \in Tasks
    BY AttemptParts
  <2>5. QED
    BY <2>1, <2>2, <2>3, <2>4 DEF HoldersAreAlone, Holds, HasNone, Current
<1>3. ASSUME NEW t \in Tasks, Take(t)
      PROVE  HoldersAreAlone'
  <2>1. /\ IsQueueable(t) /\ listeners[t] = {}
        /\ Current(t) \in Attempts /\ pc[Current(t)] = "idle"
    BY <1>3, TakenTask
  <2>2. /\ state' = [state EXCEPT ![t] = "queued"]
        /\ pc' = [pc EXCEPT ![Current(t)] = "acquiring"]
        /\ listeners' = [listeners EXCEPT ![t] = @ \cup {Current(t)}]
        /\ UNCHANGED <<rental, pool, resourceRental, retriesCount>>
    <3>1. Current(t)[1] = t
      BY DEF Current
    <3>2. QED
      BY <1>3, <3>1 DEF Take, InitTask, OnStateChange
  <2>3. /\ \A u \in Tasks : u # t => /\ state'[u] = state[u]
                                     /\ listeners'[u] = listeners[u]
        /\ state'[t] = "queued"
    BY <2>2, PoolTypes
  <2>4. \A a \in Attempts : a[1] \in Tasks
    BY AttemptParts
  <2>5. /\ \A a \in Attempts : a # Current(t) => pc'[a] = pc[a]
        /\ pc'[Current(t)] = "acquiring"
    BY <2>1, <2>2, PoolTypes
  <2>6. HasNone(t)
    BY <2>1 DEF HoldersAreAlone, IsQueueable, Queueable
  <2>7. /\ \A a \in Attempts : Holds(a)' => Holds(a) /\ a # Current(t)
        /\ \A u \in Tasks : HasNone(u)' = HasNone(u) /\ Current(u)' = Current(u)
    BY <2>2, <2>5 DEF Holds, HasNone, Current
  <2>8. state[t] \in {"new", "retry"}
    BY <2>1 DEF IsQueueable, Queueable
  <2>9. /\ \A a \in Attempts : Holds(a)' => rental'[a] \in Rentals
        /\ \A a, b \in Attempts :
             Holds(a)' /\ Holds(b)' /\ rental'[a] = rental'[b] => a = b
        /\ \A a \in Attempts : pc'[a] = "deploying" => pool'[rental'[a]] = "borrowed"
    BY <2>2, <2>5, <2>7 DEF HoldersAreAlone
  <2>10. ASSUME NEW a \in Attempts, pc'[a] = "running"
         PROVE  \/ /\ state'[a[1]] = "pending"
                   /\ resourceRental'[a[1]] = rental'[a]
                   /\ pool'[rental'[a]] = "borrowed"
                \/ state'[a[1]] = "rejected" /\ pool'[rental'[a]] = "destroyed"
    <3>1. pc[a] = "running"
      BY <2>5, <2>10
    <3>2. a[1] # t
      BY <2>8, <3>1 DEF HoldersAreAlone
    <3>3. QED
      BY <2>2, <2>3, <2>4, <3>1, <3>2 DEF HoldersAreAlone
  <2>11. ASSUME NEW u \in Tasks
         PROVE  /\ state'[u] = "pending" => pc'[Current(u)'] = "running"
                /\ state'[u] \in {"absent", "new", "queued"} => HasNone(u)'
                /\ state'[u] = "retry" /\ listeners'[u] = {} => HasNone(u)'
    <3>1. CASE u = t
      BY <2>3, <2>6, <2>7, <3>1
    <3>2. CASE u # t
      <4>1. state'[u] = state[u] /\ listeners'[u] = listeners[u]
        BY <2>3, <3>2
      <4>2. ASSUME state[u] = "pending" PROVE pc'[Current(u)] = "running"
        <5>1. Current(u) \in Attempts
          BY <4>2, StoppedTask DEF IndInv, StopIsIgnored, Finished
        <5>2. pc[Current(u)] = "running"
          BY <4>2 DEF HoldersAreAlone
        <5>3. QED
          BY <2>1, <2>5, <5>1, <5>2
      <4>3. QED
        BY <2>7, <4>1, <4>2 DEF HoldersAreAlone
    <3>3. QED
      BY <3>1, <3>2
  <2>12. QED
    BY <2>9, <2>10, <2>11 DEF HoldersAreAlone
<1>4. ASSUME NEW a \in Attempts, NEW r \in Rentals, AcquireGranted(a, r)
      PROVE  HoldersAreAlone'
  <2>1. /\ pc[a] = "acquiring"
        /\ pool[r] \in {"available", "unsigned"}
        /\ pool' = [pool EXCEPT ![r] = "borrowed"]
        /\ rental' = [rental EXCEPT ![a] = r]
        /\ pc' = [pc EXCEPT ![a] = IF IsFailed(a[1]) THEN "ended" ELSE "deploying"]
        /\ UNCHANGED <<state, listeners, resourceRental, retriesCount>>
    BY <1>4 DEF AcquireGranted, Acquire, taskVars
  <2>2. /\ \A b \in Attempts : b # a => pc'[b] = pc[b] /\ rental'[b] = rental[b]
        /\ rental'[a] = r
        /\ pc'[a] \in {"ended", "deploying"}
        /\ \A q \in Rentals : q # r => pool'[q] = pool[q]
        /\ pool'[r] = "borrowed"
    BY <2>1, PoolTypes
  <2>3. \A b \in Attempts : Holds(b) => rental[b] \in Rentals /\ rental[b] # r
    BY <2>1 DEF HoldersAreAlone, Holds
  <2>4. \A b \in Attempts : b # a => (Holds(b)' <=> Holds(b))
    BY <2>2 DEF Holds
  <2>5. \A u \in Tasks : Current(u)' = Current(u) /\ (HasNone(u) => HasNone(u)')
    <3>1. ASSUME NEW u \in Tasks, HasNone(u) PROVE HasNone(u)'
      BY <2>1, <2>2, <3>1, PoolTypes DEF HasNone
    <3>2. QED
      BY <2>1, <3>1 DEF Current
  <2>6. /\ \A b \in Attempts : Holds(b)' => rental'[b] \in Rentals
        /\ \A b, c \in Attempts :
             Holds(b)' /\ Holds(c)' /\ rental'[b] = rental'[c] => b = c
    BY <2>2, <2>3, <2>4 DEF HoldersAreAlone
  <2>7. \A b \in Attempts : pc'[b] = "deploying" => pool'[rental'[b]] = "borrowed"
    BY <2>2, <2>3 DEF HoldersAreAlone, Holds
  <2>8. \A b \in Attempts : pc'[b] = "running" =>
          \/ /\ state'[b[1]] = "pending"
             /\ resourceRental'[b[1]] = rental'[b]
             /\ pool'[rental'[b]] = "borrowed"
          \/ state'[b[1]] = "rejected" /\ pool'[rental'[b]] = "destroyed"
    BY <2>1, <2>2, <2>3 DEF HoldersAreAlone, Holds
  <2>9. ASSUME NEW u \in Tasks, state[u] = "pending"
        PROVE  pc'[Current(u)] = "running"
    <3>1. Current(u) \in Attempts
      BY <2>9, StoppedTask DEF IndInv, StopIsIgnored, Finished
    <3>2. pc[Current(u)] = "running"
      BY <2>9 DEF HoldersAreAlone
    <3>3. QED
      BY <2>1, <2>2, <3>1, <3>2
  <2>10. \A u \in Tasks :
           /\ state'[u] = "pending" => pc'[Current(u)'] = "running"
           /\ state'[u] \in {"absent", "new", "queued"} => HasNone(u)'
           /\ state'[u] = "retry" /\ listeners'[u] = {} => HasNone(u)'
    BY <2>1, <2>5, <2>9 DEF HoldersAreAlone
  <2>11. QED
    BY <2>6, <2>7, <2>8, <2>10 DEF HoldersAreAlone
<1>5. ASSUME NEW a \in Attempts, ExeUnitReady(a)
      PROVE  HoldersAreAlone'
  <2>1. /\ pc[a] = "deploying" /\ state[a[1]] = "queued"
        /\ state' = [state EXCEPT ![a[1]] = "pending"]
        /\ resourceRental' = [resourceRental EXCEPT ![a[1]] = rental[a]]
        /\ pc' = [pc EXCEPT ![a] = "running"]
        /\ UNCHANGED <<pool, rental, listeners, retriesCount>>
    BY <1>5 DEF ExeUnitReady, StartTask, dispatchVars
  <2>2. a[1] \in Tasks /\ a = Current(a[1])
    BY <2>1, HoldersAreCurrent DEF Holds
  <2>3. \A b \in Attempts : b # a /\ Holds(b) => b[1] \in Tasks /\ b[1] # a[1]
    BY <2>2, HoldersAreCurrent
  <2>4. /\ \A b \in Attempts : b # a => pc'[b] = pc[b]
        /\ pc'[a] = "running"
    BY <2>1, PoolTypes
  <2>5. /\ \A u \in Tasks : u # a[1] => /\ state'[u] = state[u]
                                        /\ resourceRental'[u] = resourceRental[u]
        /\ state'[a[1]] = "pending"
        /\ resourceRental'[a[1]] = rental[a]
    BY <2>1, <2>2, PoolTypes
  <2>6. /\ \A b \in Attempts : Holds(b)' <=> Holds(b)
        /\ \A u \in Tasks : /\ Current(u)' = Current(u)
                            /\ u # a[1] => (HasNone(u)' <=> HasNone(u))
    BY <2>1, <2>4, <2>5 DEF Holds, Current, HasNone
  <2>7. /\ \A b \in Attempts : Holds(b)' => rental'[b] \in Rentals
        /\ \A b, c \in Attempts :
             Holds(b)' /\ Holds(c)' /\ rental'[b] = rental'[c] => b = c
        /\ \A b \in Attempts : pc'[b] = "deploying" => pool'[rental'[b]] = "borrowed"
    BY <2>1, <2>4, <2>6 DEF HoldersAreAlone
  <2>8. \A b \in Attempts : pc'[b] = "running" =>
          \/ /\ state'[b[1]] = "pending"
             /\ resourceRental'[b[1]] = rental'[b]
             /\ pool'[rental'[b]] = "borrowed"
          \/ state'[b[1]] = "rejected" /\ pool'[rental'[b]] = "destroyed"
    BY <2>1, <2>3, <2>4, <2>5 DEF HoldersAreAlone, Holds
  <2>9. ASSUME NEW u \in Tasks, u # a[1], state[u] = "pending"
        PROVE  pc'[Current(u)] = "running"
    <3>1. Current(u) \in Attempts
      BY <2>9, StoppedTask DEF IndInv, StopIsIgnored, Finished
    <3>2. pc[Current(u)] = "running"
      BY <2>9 DEF HoldersAreAlone
    <3>3. QED
      BY <2>1, <2>4, <3>1, <3>2
  <2>10. ASSUME NEW u \in Tasks
         PROVE  /\ state'[u] = "pending" => pc'[Current(u)'] = "running"
                /\ state'[u] \in {"absent", "new", "queued"} => HasNone(u)'
                /\ state'[u] = "retry" /\ listeners'[u] = {} => HasNone(u)'
    <3>1. CASE u = a[1]
      BY <2>2, <2>4, <2>5, <2>6, <3>1
    <3>2. CASE u # a[1]
      BY <2>1, <2>5, <2>6, <2>9, <3>2 DEF HoldersAreAlone
    <3>3. QED
      BY <3>1, <3>2
  <2>11. QED
    BY <2>7, <2>8, <2>10 DEF HoldersAreAlone
<1>6. ASSUME NEW a \in Attempts, AttemptEnds(a)
      PROVE  HoldersAreAlone'
  <2>1. /\ state[a[1]] # "pending"
        /\ pc' = [pc EXCEPT ![a] = "ended"]
        /\ UNCHANGED <<rental, pool, state, listeners, resourceRental, retriesCount>>
    BY <1>6 DEF AttemptEnds, StopIsIgnored, Finished, taskVars, dispatchVars
  <2>2. /\ \A b \in Attempts : b # a => pc'[b] = pc[b]
        /\ pc'[a] = "ended"
    BY <2>1, PoolTypes
  <2>3. ASSUME NEW u \in Tasks, state[u] = "pending"
        PROVE  pc'[Current(u)] = "running"
    <3>1. Current(u) \in Attempts /\ Current(u)[1] = u
      BY <2>3, StoppedTask DEF IndInv, StopIsIgnored, Finished, Current
    <3>2. pc[Current(u)] = "running"
      BY <2>3 DEF HoldersAreAlone
    <3>3. QED
      BY <2>1, <2>2, <2>3, <3>1, <3>2
  <2>4. \A u \in Tasks : Current(u)' = Current(u) /\ (HasNone(u)' <=> HasNone(u))
    BY <2>1 DEF Current, HasNone
  <2>5. \A b \in Attempts : Holds(b)' => Holds(b) /\ b # a
    BY <2>2 DEF Holds
  <2>6. QED
    BY <2>1, <2>2, <2>3, <2>4, <2>5 DEF HoldersAreAlone
<1>7. ASSUME NEW t \in Tasks, TimerStops(t)
      PROVE  HoldersAreAlone'
  <2>1. RetryOnTimeout[t] = FALSE
    BY TaskOptionsAssumption DEF TimeoutsAreFinal
  <2>2. Stopped(t, "GolemTimeoutError", FALSE, 0) /\ UNCHANGED <<pc, resourceRental>>
    BY <1>7, <2>1 DEF TimerStops
  <2>3. QED
    BY <2>2, StopKeepsHolders, 0 \in Nat
<1>8. ASSUME NEW a \in Attempts, AttemptStops(a) \/ ListenerStops(a)
      PROVE  HoldersAreAlone'
  <2>1. a[1] \in Tasks /\ pc' = [pc EXCEPT ![a] = "ended"]
    BY <1>8, AttemptStopArguments
  <2>2. a = Current(a[1])
    BY <1>8, <2>1 DEF AttemptStops, ListenerStops, Live, IndInv, NoStaleAttempt,
       TimeoutsAreFinal
  <2>3. \/ UNCHANGED resourceRental
        \/ /\ pc[Current(a[1])] = "deploying"
           /\ resourceRental' =
                [resourceRental EXCEPT ![a[1]] = rental[Current(a[1])]]
    BY <1>8, <2>2 DEF AttemptStops, ListenerStops
  <2>4. PICK error : \E retry \in BOOLEAN, value \in Nat :
          Stopped(a[1], error, retry, value)
    BY <1>8, AttemptStopArguments
  <2>5. QED
    BY <2>1, <2>2, <2>3, <2>4, StopKeepsHolders
<1>9. ASSUME NEW a \in Attempts, HandlerStep(a)
      PROVE  HoldersAreAlone'
  BY <1>9, <1>same DEF HandlerStep, RetryResumes, RetriedListenerThrows,
     StopResumes, ReleaseRejected, HandlerEnds, attemptVars, taskVars
<1>10. QED
  BY <1>1, <1>2, <1>3, <1>4, <1>5, <1>6, <1>7, <1>8, <1>9, StepCases

-----------------------------------------------------------------------------
(* The invariant holds at first, is kept by every step, and gives the      *)
(* properties.                                                             *)
LEMMA RentalInitially == Init => RentalInv
<1> SUFFICES ASSUME Init PROVE RentalInv
  OBVIOUS
<1>1. /\ \A a \in Attempts : pc[a] = "idle" /\ rental[a] = NoRental
      /\ \A r \in Rentals : pool[r] = "unsigned"
      /\ \A t \in Tasks : state[t] = "absent" /\ resourceRental[t] = NoRental
      /\ invoked = {}
  BY DEF Init, TaskInit, PoolInit
<1>2. AttemptsBeginInOrder /\ BorrowedByStarted
  BY <1>1 DEF AttemptsBeginInOrder, BorrowedByStarted
<1>3. HoldersAreAlone
  BY <1>1 DEF HoldersAreAlone, Holds, HasNone
<1>4. QED
  BY <1>2, <1>3 DEF RentalInv

(* In every reachable state each rental is with who should have it, if the *)
(* pool takes back what it is given.                                       *)
THEOREM RentalInvariance ==
  ASSUME ~PoolRejects
  PROVE  Spec => []RentalInv
<1>1. Init => RentalInv
  BY RentalInitially
<1>2. ASSUME IndInv, RentalInv, [Next]_vars
      PROVE  RentalInv'
  <2>1. AttemptsBeginInOrder' /\ BorrowedByStarted'
    BY <1>2, OrderIsKept, BorrowedIsKept DEF RentalInv
  <2>2. ASSUME TimeoutsAreFinal
        PROVE  HoldersAreAlone'
    BY <1>2, <2>2, HoldersAreKept DEF RentalInv
  <2>3. TimeoutsAreFinal' = TimeoutsAreFinal
    BY DEF TimeoutsAreFinal
  <2>4. QED
    BY <2>1, <2>2, <2>3 DEF RentalInv
<1>3. QED
  BY <1>1, <1>2, Invariance, PTL DEF Spec

(* If timeouts are final and the pool takes back what it is given, two     *)
(* task functions never work on one rental, and                            *)
(* the rental of a running one is lent to nobody else: `rental` of         *)
(* startTask and resourceRental of the task name the same, borrowed until  *)
(* stopTask or a timeout gives it up (service.ts:70-115).                  *)
THEOREM RentalsAreExclusive ==
  ASSUME ~PoolRejects
  PROVE  Spec => []RentalIsExclusive
<1>1. RentalInv => RentalIsExclusive
  <2>1. SUFFICES ASSUME TimeoutsAreFinal, HoldersAreAlone,
                        NEW a \in Attempts, pc[a] = "running"
                 PROVE  /\ \A b \in Running : rental[a] = rental[b] => a = b
                        /\ \/ pool[rental[a]] = "borrowed"
                           \/ pool[rental[a]] = "destroyed" /\ IsFailed(a[1])
    BY DEF RentalInv, RentalIsExclusive, TimeoutsAreFinal, Running
  <2>2. \A b \in Running : rental[a] = rental[b] => a = b
    BY <2>1 DEF HoldersAreAlone, Holds, Running
  <2>3. \/ pool[rental[a]] = "borrowed"
        \/ pool[rental[a]] = "destroyed" /\ IsFailed(a[1])
    BY <2>1 DEF HoldersAreAlone, IsFailed, Failed
  <2>4. QED
    BY <2>2, <2>3
<1>2. QED
  BY <1>1, RentalInvariance, PTL

(* Only an attempt that never called its function leaves its rental        *)
(* borrowed, for every number of tasks, retries and timeouts: stopTask and *)
(* retryTask give back the rental of one that did (service.ts:131-187).    *)
THEOREM StartedAttemptsGiveBack == Spec => []OnlyUnstartedAttemptsLeak
<1>1. CASE ~PoolRejects
  <2>1. RentalInv => OnlyUnstartedAttemptsLeak
    BY DEF RentalInv, BorrowedByStarted, OnlyUnstartedAttemptsLeak
  <2>2. QED
    BY <1>1, <2>1, RentalInvariance, PTL
<1>2. CASE PoolRejects
  <2>1. OnlyUnstartedAttemptsLeak
    BY <1>2 DEF OnlyUnstartedAttemptsLeak
  <2>2. QED
    BY <2>1, PTL
<1>3. QED
  BY <1>1, <1>2

-----------------------------------------------------------------------------
(* What an attempt that stops its task may stop it with.                   *)
LEMMA AttemptStopValues ==
  ASSUME IndInv, NEW a \in Attempts, AttemptStops(a) \/ ListenerStops(a)
  PROVE  /\ Live(a) /\ a[1] \in Tasks
         /\ \A u \in Tasks \ {a[1]} :
              /\ state'[u] = state[u]
              /\ results'[u] = results[u]
              /\ retriesCount'[u] = retriesCount[u]
              /\ resourceRental'[u] = resourceRental[u]
         /\ state'[a[1]] \in {"done", "rejected", "retry"}
         /\ state'[a[1]] = "done" =>
              \/ results'[a[1]] = 0
              \/ /\ results'[a[1]] = a[2]
                 /\ pc[a] = "running"
                 /\ resourceRental' = resourceRental
<1>1. /\ a[1] \in Tasks /\ a[2] \in Nat
      /\ resourceRental' \in [Tasks -> Rentals \cup {NoRental}]
      /\ state \in [Tasks -> TaskState \cup {"absent"}]
      /\ results \in [Tasks -> Nat]
      /\ retriesCount \in [Tasks -> Nat]
  BY AttemptParts, AttemptStopArguments DEF IndInv, TypeOK, TaskTypeOK
<1>2. Live(a)
  BY DEF AttemptStops, ListenerStops, Live
<1>3. \A u \in Tasks \ {a[1]} : resourceRental'[u] = resourceRental[u]
  BY <1>1, PoolTypes DEF AttemptStops, ListenerStops
<1> DEFINE Value(value) ==
             \/ value = 0
             \/ value = a[2] /\ pc[a] = "running" /\ resourceRental' = resourceRental
<1>4. PICK error : \E retry \in BOOLEAN, value \in Nat :
        Stopped(a[1], error, retry, value) /\ Value(value)
  <2>1. CASE AttemptStops(a) /\ pc[a] = "running"
             /\ Stopped(a[1], "undefined", TRUE, a[2])
    BY <1>1, <2>1 DEF AttemptStops
  <2>2. CASE \E e : Stopped(a[1], e, Retryable(a[1], e), 0)
    <3>1. \A e : Retryable(a[1], e) \in BOOLEAN
      BY DEF Retryable
    <3>2. QED
      BY <2>2, <3>1, 0 \in Nat
  <2>3. QED
    BY <2>1, <2>2 DEF AttemptStops, ListenerStops
<1>5. PICK retry \in BOOLEAN, value \in Nat :
        Stopped(a[1], error, retry, value) /\ Value(value)
  BY <1>4
<1> DEFINE s == StopState(a[1], error, retry)
<1>6. /\ s \in {"done", "rejected", "retry"}
      /\ state' = [state EXCEPT ![a[1]] = s]
      /\ results' = [results EXCEPT ![a[1]] = IF s = "done" THEN value ELSE @]
      /\ retriesCount' = [retriesCount EXCEPT
                            ![a[1]] = IF s = "retry" THEN @ + 1 ELSE @]
  BY <1>5 DEF Stopped, StopNow, StopTask, StopState
<1> HIDE DEF s
<1>7. QED
  BY <1>1, <1>2, <1>3, <1>5, <1>6

(* A function that no timer cuts short keeps its slot: its attempt is the  *)
(* current one of its task, which is pending.                              *)
LEMMA SlotsAreKept ==
  ASSUME IndInv, FunctionsKeepSlots, [Next]_vars
  PROVE  FunctionsKeepSlots'
<1> SUFFICES ASSUME NEW b \in Attempts, Live(b)', ~MayBeCutShort(b[1])
             PROVE  /\ b = Current(b[1])'
                    /\ pc'[b] = "running" => state'[b[1]] = "pending"
  BY DEF FunctionsKeepSlots, MayBeCutShort
<1> DEFINE t == b[1]
<1>0. /\ t \in Tasks /\ b = <<t, b[2]>>
      /\ Live(b) => b = Current(t) /\ (pc[b] = "running" => state[t] = "pending")
  BY AttemptParts DEF FunctionsKeepSlots
<1> HIDE DEF t
<1> USE PoolTypes DEF Live, Current
<1>same. ASSUME pc' = pc, retriesCount'[t] = retriesCount[t], state'[t] = state[t]
         PROVE  b = Current(t)' /\ (pc'[b] = "running" => state'[t] = "pending")
  BY <1>0, <1>same
<1>1. CASE UNCHANGED vars \/ Ready \/ LoopExit \/ End
           \/ \E a \in Attempts : HandlerStep(a)
  <2>1. UNCHANGED <<pc, retriesCount, state>>
    BY <1>1 DEF vars, taskVars, attemptVars, Ready, LoopExit, End, HandlerStep,
       RetryResumes, RetriedListenerThrows, StopResumes, ReleaseRejected, HandlerEnds
  <2>2. QED
    BY <2>1, <1>same DEF t
<1>2. ASSUME NEW u \in Tasks, Submit(u)
      PROVE  b = Current(t)' /\ (pc'[b] = "running" => state'[t] = "pending")
  <2>1. /\ pc' = pc /\ retriesCount' = retriesCount
        /\ state[u] = "absent"
        /\ state' = [state EXCEPT ![u] = "new"]
    BY <1>2 DEF Submit, NewTask, attemptVars
  <2>2. u # t
    BY <2>1 DEF t, IndInv, AttemptsFollowTask
  <2>3. QED
    BY <1>0, <1>same, <2>1, <2>2
<1>3. ASSUME NEW u \in Tasks, Take(u)
      PROVE  b = Current(t)' /\ (pc'[b] = "running" => state'[t] = "pending")
  <2>1. /\ retriesCount' = retriesCount
        /\ state' = [state EXCEPT ![u] = "queued"]
        /\ pc' = [pc EXCEPT ![Current(u)] = "acquiring"]
        /\ pc[Current(u)] = "idle"
    BY <1>3, TakenTask DEF Take, InitTask
  <2>2. CASE b = Current(u)
    BY <1>0, <2>1, <2>2
  <2>3. CASE b # Current(u)
    <3>1. pc'[b] = pc[b]
      BY <2>1, <2>3
    <3>2. t # u
      BY <1>0, <2>3, <3>1
    <3>3. QED
      BY <1>0, <2>1, <3>1, <3>2
  <2>4. QED
    BY <2>2, <2>3
<1>4. ASSUME NEW u \in Tasks, TimerStops(u)
      PROVE  b = Current(t)' /\ (pc'[b] = "running" => state'[t] = "pending")
  <2> DEFINE s == StopState(u, "GolemTimeoutError", RetryOnTimeout[u])
  <2>1. /\ state' = [state EXCEPT ![u] = s]
        /\ retriesCount' = [retriesCount EXCEPT
                              ![u] = IF s = "retry" THEN @ + 1 ELSE @]
        /\ pc' = pc
        /\ s = "retry" => RetryOnTimeout[u]
    BY <1>4 DEF TimerStops, Stopped, StopNow, StopTask, StopState
  <2> HIDE DEF s
  <2>2. CASE u # t
    BY <1>0, <1>same, <2>1, <2>2
  <2>3. CASE u = t
    <3>1. HasStartupTimeout[t] /\ state[t] = "queued"
      BY <1>0, <1>4, <2>3 DEF TimerStops, IndInv, CoreInv, TimersFollowState,
         MayBeCutShort, t
    <3>2. ~RetryOnTimeout[t]
      BY <3>1 DEF MayBeCutShort, t
    <3>3. QED
      BY <1>0, <2>1, <2>3, <3>1, <3>2
  <2>4. QED
    BY <2>2, <2>3
<1>5. ASSUME NEW a \in Attempts, NEW r \in Rentals, AcquireGranted(a, r)
      PROVE  b = Current(t)' /\ (pc'[b] = "running" => state'[t] = "pending")
  <2>1. /\ UNCHANGED <<state, retriesCount>>
        /\ pc[a] = "acquiring"
        /\ pc' = [pc EXCEPT ![a] = IF IsFailed(a[1]) THEN "ended" ELSE "deploying"]
    BY <1>5 DEF AcquireGranted, taskVars
  <2>2. Live(b) /\ (pc'[b] = "running" => pc[b] = "running")
    BY <2>1
  <2>3. QED
    BY <1>0, <2>1, <2>2
<1>6. ASSUME NEW a \in Attempts, ExeUnitReady(a)
      PROVE  b = Current(t)' /\ (pc'[b] = "running" => state'[t] = "pending")
  <2>1. /\ retriesCount' = retriesCount
        /\ state' = [state EXCEPT ![a[1]] = "pending"]
        /\ pc' = [pc EXCEPT ![a] = "running"]
        /\ pc[a] = "deploying"
        /\ a[1] \in Tasks
    BY <1>6, AttemptParts DEF ExeUnitReady, StartTask
  <2>2. Live(b) /\ (pc'[b] = "running" => pc[b] = "running" \/ t = a[1])
    BY <2>1 DEF t
  <2>3. QED
    BY <1>0, <2>1, <2>2
<1>7. ASSUME NEW a \in Attempts, AttemptEnds(a)
      PROVE  b = Current(t)' /\ (pc'[b] = "running" => state'[t] = "pending")
  <2>1. pc' = [pc EXCEPT ![a] = "ended"] /\ UNCHANGED <<state, retriesCount>>
    BY <1>7 DEF AttemptEnds, taskVars
  <2>2. pc'[b] = pc[b]
    BY <2>1
  <2>3. QED
    BY <1>0, <2>1, <2>2
<1>8. ASSUME NEW a \in Attempts, AttemptStops(a) \/ ListenerStops(a)
      PROVE  b = Current(t)' /\ (pc'[b] = "running" => state'[t] = "pending")
  <2>1. /\ Live(a) /\ a[1] \in Tasks
        /\ \A u \in Tasks \ {a[1]} :
             state'[u] = state[u] /\ retriesCount'[u] = retriesCount[u]
    BY <1>8, AttemptStopValues
  <2>2. pc' = [pc EXCEPT ![a] = "ended"]
    BY <1>8, AttemptStopArguments
  <2>3. b # a /\ pc'[b] = pc[b]
    BY <2>2
  <2>4. a[1] # t
    BY <1>0, <2>1, <2>3 DEF FunctionsKeepSlots, t
  <2>5. QED
    BY <1>0, <2>1, <2>3, <2>4
<1>9. QED
  BY <1>1, <1>2, <1>3, <1>4, <1>5, <1>6, <1>7, <1>8, StepCases DEF t

(* At most maxParallelTasks of the functions no timer cuts short run at a  *)
(* time (executor.ts:28): of any number of tasks, with any options and any *)
(* mixture of them.                                                        *)
THEOREM UncutFunctionsAreBounded == Spec => []UncutRunningIsBounded
<1>1. Init => FunctionsKeepSlots
  BY DEF Init, FunctionsKeepSlots, Live
<1>2. IndInv /\ FunctionsKeepSlots /\ [Next]_vars => FunctionsKeepSlots'
  BY SlotsAreKept
<1>3. IndInv /\ FunctionsKeepSlots => UncutRunningIsBounded
  <2> SUFFICES ASSUME IndInv, FunctionsKeepSlots
               PROVE  UncutRunningIsBounded
    OBVIOUS
  <2> DEFINE Uncut == {a \in Running : ~MayBeCutShort(a[1])}
             task == [a \in Uncut |-> a[1]]
  <2>1. /\ IsFiniteSet(Served)
        /\ Cardinality(Served) <= MaxParallelTasks
        /\ Cardinality(Served) \in Nat
    BY FS_CardinalityType DEF IndInv, CoreInv, ActiveCountIsExact, Served
  <2>2. ASSUME NEW a \in Uncut
        PROVE  a[1] \in Served /\ a = Current(a[1])
    <3>1. a \in Attempts /\ a[1] \in Tasks /\ Live(a) /\ pc[a] = "running"
      BY AttemptParts DEF Running, Live
    <3>2. QED
      BY <3>1 DEF FunctionsKeepSlots, Served, InService
  <2>3. task \in Injection(Uncut, Served)
    <3> HIDE DEF Uncut
    <3>1. task \in [Uncut -> Served]
      BY <2>2
    <3>2. \A a, b \in Uncut : task[a] = task[b] => a = b
      BY <2>2
    <3>3. QED
      BY <3>1, <3>2 DEF Injection, IsInjective
  <2> HIDE DEF Uncut, task
  <2>4. IsFiniteSet(Uncut) /\ Cardinality(Uncut) <= Cardinality(Served)
    BY <2>1, <2>3, FS_Injection
  <2>5. Cardinality(Uncut) \in Nat
    BY <2>4, FS_CardinalityType
  <2>6. QED
    BY <2>1, <2>4, <2>5, ServiceAssumption DEF UncutRunningIsBounded, Uncut
<1>4. QED
  BY <1>1, <1>2, <1>3, Invariance, PTL DEF Spec

-----------------------------------------------------------------------------
(* A task that does not retry its timeouts has the rental of the attempt   *)
(* that runs it, and keeps that of the attempt that completed it.          *)
LEMMA CreditIsKept ==
  ASSUME IndInv, AttemptsBeginInOrder, FunctionsRunOnTheirRental, [Next]_vars
  PROVE  FunctionsRunOnTheirRental'
<1> DEFINE Completer(t) == <<t, results[t]>>
           Kept(t) ==
             /\ \A a \in AttemptsOf(t) :
                  pc[a] = "running" => resourceRental[t] = rental[a]
             /\ state[t] = "done" /\ results[t] # 0 =>
                  /\ Completer(t) \in Attempts
                  /\ pc[Completer(t)] = "ended"
                  /\ resourceRental[t] = rental[Completer(t)]
<1> SUFFICES ASSUME NEW t \in Tasks, ~RetryOnTimeout[t]
             PROVE  Kept(t)'
  BY DEF FunctionsRunOnTheirRental
<1>0. Kept(t)
  BY DEF FunctionsRunOnTheirRental
<1> USE PoolTypes
<1>one. \A a, b \in AttemptsOf(t) : Live(a) /\ Live(b) => a = b
  BY DEF AttemptsOf, IndInv, NoStaleAttempt
<1>same. ASSUME \A a \in AttemptsOf(t) :
                  /\ pc'[a] = "running" => pc[a] = "running"
                  /\ pc[a] = "ended" => pc'[a] = "ended"
                  /\ pc[a] \in {"running", "ended"} => rental'[a] = rental[a],
                resourceRental'[t] = resourceRental[t],
                state'[t] = "done" => state[t] = "done" /\ results'[t] = results[t]
         PROVE  Kept(t)'
  <2>1. \A a \in AttemptsOf(t) :
          pc'[a] = "running" => resourceRental'[t] = rental'[a]
    BY <1>0, <1>same
  <2>2. ASSUME state'[t] = "done", results'[t] # 0
        PROVE  /\ Completer(t)' \in Attempts
               /\ pc'[Completer(t)'] = "ended"
               /\ resourceRental'[t] = rental'[Completer(t)']
    <3>1. Completer(t)' = Completer(t) /\ Completer(t)[1] = t
      BY <1>same, <2>2
    <3>2. /\ Completer(t) \in Attempts
          /\ pc[Completer(t)] = "ended"
          /\ resourceRental[t] = rental[Completer(t)]
      BY <1>0, <1>same, <2>2
    <3> HIDE DEF Completer
    <3>3. Completer(t) \in AttemptsOf(t)
      BY <3>1, <3>2 DEF AttemptsOf
    <3>4. QED
      BY <1>same, <3>1, <3>2, <3>3
  <2>3. QED
    BY <2>1, <2>2 DEF AttemptsOf
<1> HIDE DEF Kept
<1>1. CASE UNCHANGED vars \/ Ready \/ LoopExit \/ End
           \/ \E a \in Attempts : HandlerStep(a)
  <2>1. UNCHANGED <<pc, rental, state, results, resourceRental>>
    BY <1>1 DEF vars, taskVars, attemptVars, Ready, LoopExit, End, HandlerStep,
       RetryResumes, RetriedListenerThrows, StopResumes, ReleaseRejected, HandlerEnds
  <2>2. QED
    BY <2>1, <1>same
<1>2. ASSUME NEW u \in Tasks, Submit(u)
      PROVE  Kept(t)'
  BY <1>2, <1>same DEF Submit, NewTask, attemptVars
<1>3. ASSUME NEW u \in Tasks, Take(u)
      PROVE  Kept(t)'
  <2>1. /\ UNCHANGED <<rental, results, resourceRental>>
        /\ state' = [state EXCEPT ![u] = "queued"]
        /\ pc' = [pc EXCEPT ![Current(u)] = "acquiring"]
        /\ pc[Current(u)] = "idle"
    BY <1>3, TakenTask DEF Take, InitTask
  <2>2. QED
    BY <2>1, <1>same DEF AttemptsOf
<1>4. ASSUME NEW u \in Tasks, TimerStops(u)
      PROVE  Kept(t)'
  <2> DEFINE s == StopState(u, "GolemTimeoutError", RetryOnTimeout[u])
  <2>1. /\ state' = [state EXCEPT ![u] = s]
        /\ results' = [results EXCEPT ![u] = IF s = "done" THEN 0 ELSE @]
        /\ s # "done"
        /\ UNCHANGED <<pc, rental, resourceRental>>
    BY <1>4 DEF TimerStops, Stopped, StopNow, StopTask, StopState
  <2> HIDE DEF s
  <2>2. state'[t] = "done" => state[t] = "done" /\ results'[t] = results[t]
    BY <2>1 DEF IndInv, TypeOK, TaskTypeOK
  <2>3. QED
    BY <2>1, <2>2, <1>same
<1>5. ASSUME NEW a \in Attempts, NEW r \in Rentals, AcquireGranted(a, r)
      PROVE  Kept(t)'
  <2>1. /\ UNCHANGED <<state, results, resourceRental>>
        /\ pc[a] = "acquiring"
        /\ pc' = [pc EXCEPT ![a] = IF IsFailed(a[1]) THEN "ended" ELSE "deploying"]
        /\ rental' = [rental EXCEPT ![a] = r]
    BY <1>5 DEF AcquireGranted, taskVars
  <2>2. QED
    BY <2>1, <1>same DEF AttemptsOf
<1>6. ASSUME NEW a \in Attempts, ExeUnitReady(a)
      PROVE  Kept(t)'
  <2>1. /\ UNCHANGED <<rental, results>>
        /\ state' = [state EXCEPT ![a[1]] = "pending"]
        /\ pc' = [pc EXCEPT ![a] = "running"]
        /\ pc[a] = "deploying"
        /\ resourceRental' = [resourceRental EXCEPT ![a[1]] = rental[a]]
        /\ a[1] \in Tasks
    BY <1>6, AttemptParts DEF ExeUnitReady, StartTask
  <2>2. CASE a[1] # t
    BY <2>1, <2>2, <1>same DEF AttemptsOf
  <2>3. CASE a[1] = t
    <3>1. state'[t] # "done"
      BY <2>1, <2>3
    <3>2. ASSUME NEW b \in AttemptsOf(t), pc'[b] = "running"
          PROVE  b = a
      BY <2>1, <2>3, <3>2, <1>one DEF AttemptsOf, Live
    <3>3. resourceRental'[t] = rental'[a]
      BY <2>1, <2>3
    <3>4. QED
      BY <3>1, <3>2, <3>3 DEF Kept, AttemptsOf
  <2>4. QED
    BY <2>2, <2>3
<1>7. ASSUME NEW a \in Attempts, AttemptEnds(a)
      PROVE  Kept(t)'
  BY <1>7, <1>same DEF AttemptEnds, taskVars, AttemptsOf
<1>8. ASSUME NEW a \in Attempts, AttemptStops(a) \/ ListenerStops(a)
      PROVE  Kept(t)'
  <2>1. /\ Live(a) /\ a[1] \in Tasks
        /\ \A u \in Tasks \ {a[1]} :
             /\ state'[u] = state[u]
             /\ results'[u] = results[u]
             /\ resourceRental'[u] = resourceRental[u]
        /\ state'[a[1]] = "done" =>
             \/ results'[a[1]] = 0
             \/ /\ results'[a[1]] = a[2]
                /\ pc[a] = "running"
                /\ resourceRental' = resourceRental
    BY <1>8, AttemptStopValues
  <2>2. pc' = [pc EXCEPT ![a] = "ended"] /\ rental' = rental
    BY <1>8, AttemptStopArguments
  <2>3. CASE a[1] # t
    BY <2>1, <2>2, <2>3, <1>same DEF AttemptsOf
  <2>4. CASE a[1] = t
    <3>1. ASSUME NEW b \in AttemptsOf(t)
          PROVE  pc'[b] # "running"
      BY <2>1, <2>2, <2>4, <1>one DEF AttemptsOf, Live
    <3>2. ASSUME state'[t] = "done", results'[t] # 0
          PROVE  /\ Completer(t)' = a
                 /\ resourceRental'[t] = rental'[a]
      BY <1>0, <2>1, <2>2, <2>4, <3>2, AttemptParts DEF Kept, AttemptsOf
    <3>3. QED
      BY <2>2, <3>1, <3>2 DEF Kept, AttemptsOf
  <2>5. QED
    BY <2>3, <2>4
<1>9. QED
  BY <1>1, <1>2, <1>3, <1>4, <1>5, <1>6, <1>7, <1>8, StepCases

(* A task that does not retry its timeouts is credited to the rental its   *)
(* results were computed on, and gives that one back, whatever the tasks   *)
(* beside it do (stats.ts:74).                                             *)
THEOREM FinalTimeoutsAreCredited == Spec => []FinalTimeoutsCreditTruly
<1> DEFINE Inv == AttemptsBeginInOrder /\ FunctionsRunOnTheirRental
<1>1. Init => Inv
  BY DEF Init, TaskInit, AttemptsBeginInOrder, FunctionsRunOnTheirRental, AttemptsOf
<1>2. IndInv /\ Inv /\ [Next]_vars => Inv'
  BY OrderIsKept, CreditIsKept
<1>3. Inv => FinalTimeoutsCreditTruly
  BY DEF FunctionsRunOnTheirRental, FinalTimeoutsCreditTruly, CreditIsTrue
<1> HIDE DEF Inv
<1>4. QED
  BY <1>1, <1>2, <1>3, Invariance, PTL DEF Spec
=============================================================================
