------------------------ MODULE TaskServiceEventProofs ------------------------
(***************************************************************************)
(* Theorems about what the listeners of TaskService's events are told, and *)
(* about the results of a completed task.                                  *)
(***************************************************************************)
EXTENDS TaskServiceRentalProofs, SumTheorems

Final == {"taskCompleted", "taskFailed"}

(* The types that the proofs about events need. *)
LEMMA EventTypes ==
  ASSUME IndInv
  PROVE  /\ emitted \in [Tasks -> Seq(Events)]
         /\ itemsStack \in Seq(Tasks)
         /\ handler \in [Attempts -> {"idle", "retrying", "stopping"}]
         /\ retriesCount \in [Tasks -> Nat]
         /\ state \in [Tasks -> TaskState \cup {"absent"}]
BY DEF IndInv, TypeOK, TaskTypeOK, DispatchTypeOK, ServiceTypeOK

(* An event is added at the end of a history.                              *)
LEMMA AppendEvent ==
  ASSUME NEW log \in Seq(Events), NEW e \in Events
  PROVE  /\ Append(log, e) # << >>
         /\ Last(Append(log, e)) = e
         /\ Len(Append(log, e)) = Len(log) + 1
         /\ DOMAIN Append(log, e) = 1 .. Len(log) + 1
         /\ DOMAIN log = 1 .. Len(log) /\ Len(log) \in Nat
         /\ \A i \in 1 .. Len(log) : Append(log, e)[i] = log[i]
         /\ Append(log, e)[Len(log) + 1] = e
         /\ log = << >> <=> Len(log) = 0
         /\ Last(log) = log[Len(log)]
<1>1. /\ Append(log, e) \in Seq(Events)
      /\ Len(Append(log, e)) = Len(log) + 1
      /\ \A i \in 1 .. Len(log) : Append(log, e)[i] = log[i]
      /\ Append(log, e)[Len(log) + 1] = e
  BY AppendProperties
<1>2. DOMAIN log = 1 .. Len(log) /\ Len(log) \in Nat
  BY LenProperties
<1>3. log = << >> <=> Len(log) = 0
  BY EmptySeq
<1>4. DOMAIN Append(log, e) = 1 .. Len(log) + 1
  <2>1. DOMAIN Append(log, e) = 1 .. Len(Append(log, e))
    BY <1>1, LenProperties
  <2>2. QED
    BY <1>1, <2>1
<1>5. Append(log, e) # << >>
  BY <1>1, <1>2, EmptySeq
<1>6. QED
  BY <1>1, <1>2, <1>3, <1>4, <1>5 DEF Last

(* When the story of a task goes on with an event that fits ...            *)
LEMMA EventFits ==
  ASSUME NEW t \in Tasks, NEW e \in Events,
         emitted \in [Tasks -> Seq(Events)], Emit(t, e), EventsOfTask(t),
         state[t] \notin Finished \/ Handled(t),
         state[t] = "absent" <=> e = "taskQueued",
         state'[t] # "absent",
         e = "taskStarted" => state[t] = "queued",
         e \in Final => ~Handled(t)',
         e = "taskCompleted" => state'[t] = "done",
         e = "taskFailed" => state'[t] = "rejected",
         state'[t] = "queued" \/ Has(t)' => e \in {"taskQueued", "taskRetried"},
         IsFinished(t)' => Handled(t)' \/ PoolRejects \/ e \in Final
  PROVE  EventsOfTask(t)'
<1> DEFINE log == emitted[t]
           new == Append(log, e)
<1>1. emitted'[t] = new /\ log \in Seq(Events)
  BY DEF Emit
<1>2. /\ new # << >> /\ Last(new) = e /\ Len(new) = Len(log) + 1
      /\ DOMAIN new = 1 .. Len(log) + 1
      /\ DOMAIN log = 1 .. Len(log) /\ Len(log) \in Nat
      /\ \A i \in 1 .. Len(log) : new[i] = log[i]
      /\ new[Len(log) + 1] = e
      /\ log = << >> <=> Len(log) = 0
      /\ Last(log) = log[Len(log)]
  BY <1>1, AppendEvent
<1>3. /\ state[t] = "absent" <=> log = << >>
      /\ log # << >> => log[1] = "taskQueued"
      /\ \A i \in DOMAIN log :
           /\ log[i] = "taskQueued" => i = 1
           /\ log[i] = "taskStarted" => i > 1 /\ log[i-1] # "taskStarted"
           /\ log[i] \notin Final
      /\ state[t] = "queued" => Last(log) \in {"taskQueued", "taskRetried"}
  BY DEF EventsOfTask, Final, Finished
<1> HIDE DEF new
<1> HIDE DEF log
<1>4. new[1] = "taskQueued"
  BY <1>2, <1>3
<1>5. ASSUME NEW i \in DOMAIN new
      PROVE  /\ new[i] = "taskQueued" => i = 1
             /\ new[i] = "taskStarted" => i > 1 /\ new[i-1] # "taskStarted"
             /\ new[i] \in Final => i = Len(new) /\ new[i] = e
  <2>1. CASE i \in 1 .. Len(log)
    BY <1>2, <1>3, <2>1
  <2>2. CASE i = Len(log) + 1
    BY <1>2, <1>3, <2>2
  <2>3. QED
    BY <1>2, <2>1, <2>2
<1>6. /\ state'[t] # "absent" /\ new # << >>
      /\ \A i \in DOMAIN new :
           /\ new[i] \in Final => i = Len(new) /\ ~Handled(t)'
           /\ new[i] = "taskCompleted" => state'[t] = "done"
           /\ new[i] = "taskFailed" => state'[t] = "rejected"
      /\ state'[t] = "queued" \/ Has(t)' => Last(new) \in {"taskQueued", "taskRetried"}
      /\ IsFinished(t)' => Handled(t)' \/ PoolRejects \/ Last(new) \in Final
  BY <1>2, <1>5 DEF Final
<1>7. QED
  BY <1>1, <1>4, <1>5, <1>6 DEF EventsOfTask, Final

(* ... and when it says nothing new.                                       *)
LEMMA NoEvent ==
  ASSUME NEW t \in Tasks, emitted'[t] = emitted[t], EventsOfTask(t),
         state'[t] = "absent" <=> state[t] = "absent",
         \/ state[t] \notin Finished
         \/ state'[t] = state[t] /\ (Handled(t)' => Handled(t)),
         state'[t] = "queued" \/ Has(t)' => state[t] = "queued" \/ Has(t),
         IsFinished(t)' => \/ Handled(t)' \/ PoolRejects
                           \/ IsFinished(t) /\ ~Handled(t)
  PROVE  EventsOfTask(t)'
BY DEF EventsOfTask, Finished, IsFinished

(* A step leaves the story of every task alone that it does not work on.   *)
LEMMA OtherTask ==
  ASSUME NEW u \in Tasks, EventsOfTask(u),
         emitted'[u] = emitted[u], state'[u] = state[u],
         \A a \in AttemptsOf(u) : handler'[a] = handler[a],
         Has(u)' => Has(u)
  PROVE  EventsOfTask(u)'
<1>1. Handled(u)' <=> Handled(u)
  BY DEF Handled, AttemptsOf
<1>2. IsFinished(u)' <=> IsFinished(u)
  BY DEF IsFinished
<1>3. IsFinished(u) => state[u] \in Finished
  BY DEF IsFinished
<1>4. QED
  BY <1>1, <1>2, <1>3, NoEvent, Zenon

-----------------------------------------------------------------------------
(* A task has at most one handler.                                         *)
LEMMA OneHandler ==
  ASSUME IndInv, NEW a \in Attempts, handler[a] # "idle",
         NEW b \in AttemptsOf(a[1]), handler[b] # "idle"
  PROVE  a = b
<1>1. /\ b \in Attempts /\ b[1] = a[1]
      /\ a = <<a[1], a[2]>> /\ b = <<b[1], b[2]>>
  BY AttemptParts DEF AttemptsOf
<1>2. /\ handler[a] \in {"retrying", "stopping"}
      /\ handler[b] \in {"retrying", "stopping"}
  BY <1>1, EventTypes
<1>3. \A c \in {a, b} :
        /\ handler[c] = "retrying" => state[a[1]] = "retry" /\ c[2] = retriesCount[a[1]]
        /\ handler[c] = "stopping" => IsFinished(a[1]) /\ c[2] = retriesCount[a[1]] + 1
  BY <1>1 DEF IndInv, CoreInv, HandlersFollowState
<1>4. a[2] = b[2]
  BY <1>2, <1>3 DEF IsFinished, Finished
<1>5. QED
  BY <1>1, <1>4

(* When a handler ends, no handler of its task is left; other tasks keep *)
(* theirs.                                                               *)
LEMMA HandlerIsOver ==
  ASSUME IndInv, NEW a \in Attempts, handler[a] # "idle", HandlerEnds(a)
  PROVE  /\ a[1] \in Tasks
         /\ Handled(a[1]) /\ ~Handled(a[1])'
         /\ \A u \in Tasks \ {a[1]} : \A b \in AttemptsOf(u) : handler'[b] = handler[b]
         /\ UNCHANGED state
<1>1. handler' = [handler EXCEPT ![a] = "idle"] /\ UNCHANGED state
  BY DEF HandlerEnds, taskVars
<1>2. \A b \in AttemptsOf(a[1]) : handler'[b] = "idle"
  BY <1>1, OneHandler, EventTypes DEF AttemptsOf
<1>3. a[1] \in Tasks /\ Handled(a[1])
  BY AttemptParts DEF Handled, AttemptsOf
<1>4. AttemptsOf(a[1])' = AttemptsOf(a[1])
  BY DEF AttemptsOf
<1>5. ~Handled(a[1])'
  BY <1>2 DEF Handled, AttemptsOf
<1>6. \A u \in Tasks \ {a[1]} : \A b \in AttemptsOf(u) : handler'[b] = handler[b]
  BY <1>1 DEF AttemptsOf
<1>7. QED
  BY <1>1, <1>3, <1>5, <1>6

(* A task that is stopped is handed to a handler, unless it is to be       *)
(* retried after the service has ended.                                    *)
LEMMA StopHandles ==
  ASSUME IndInv, NEW t \in Tasks, NEW error, NEW retry \in BOOLEAN,
         NEW value \in Nat, Stopped(t, error, retry, value),
         resourceRental' \in [Tasks -> Rentals \cup {NoRental}]
  PROVE  /\ state[t] \in {"queued", "pending"}
         /\ state'[t] \in {"done", "rejected", "retry"}
         /\ state'[t] \in Finished => Handled(t)'
         /\ ~Has(t)'
         /\ \A u \in Tasks \ {t} :
              /\ state'[u] = state[u]
              /\ \A a \in AttemptsOf(u) : handler'[a] = handler[a]
         /\ \A u \in Tasks : Has(u)' <=> Has(u)
<1> DEFINE s == StopState(t, error, retry)
           c == Current(t)
<1>1. c \in Attempts /\ c[1] = t /\ s \in {"done", "rejected", "retry"}
  <2>1. c \in Attempts
    BY StopEffect
  <2>2. QED
    BY <2>1 DEF Current, StopState
<1>2. state' = [state EXCEPT ![t] = s]
  BY DEF Stopped, StopNow, StopTask
<1>3. \/ s = "retry" /\ handler' = handler
      \/ handler' = [handler EXCEPT ![c] = IF s = "retry" THEN "retrying"
                                           ELSE "stopping"]
  BY StopEffect
<1>4. state[t] \in {"queued", "pending"} /\ itemsStack' = itemsStack
  BY DEF Stopped
<1> HIDE DEF s, c
<1>5. /\ state'[t] = s
      /\ \A u \in Tasks \ {t} : state'[u] = state[u]
  BY <1>2, EventTypes
<1>6. \A u \in Tasks \ {t} : \A a \in AttemptsOf(u) : handler'[a] = handler[a]
  BY <1>1, <1>3, EventTypes DEF AttemptsOf
<1>7. state'[t] \in Finished => Handled(t)'
  <2>1. s # "retry" => handler'[c] = "stopping"
    BY <1>1, <1>3, EventTypes
  <2>2. QED
    BY <1>1, <1>5, <2>1 DEF Handled, AttemptsOf, Finished
<1>8. ~Has(t) /\ \A u \in Tasks : Has(u)' <=> Has(u)
  BY <1>4 DEF Has, IndInv, CoreInv, QueueFollowsState, IsQueueable, Queueable
<1>9. QED
  BY <1>1, <1>4, <1>5, <1>6, <1>7, <1>8

-----------------------------------------------------------------------------
(* How often the listeners are told of a retry.                            *)
LEMMA TimesAreNumbers ==
  ASSUME IndInv
  PROVE  \A t \in Tasks : /\ timesRetried[t] \in Nat
                          /\ t \notin Told => timesRetried[t] = 0
<1> SUFFICES ASSUME NEW t \in Tasks
             PROVE  /\ timesRetried[t] \in Nat
                    /\ t \notin Told => timesRetried[t] = 0
  OBVIOUS
<1> DEFINE log == emitted[t]
           S == {i \in DOMAIN log : log[i] = "taskRetried"}
<1>1. timesRetried[t] = Cardinality(S)
  BY DEF timesRetried, Count
<1>2. DOMAIN log = 1 .. Len(log) /\ Len(log) \in Nat
  BY EventTypes, LenProperties
<1>3. S \subseteq 1 .. Len(log)
  BY <1>2
<1>4. t \notin Told => S = {}
  BY DEF Told
<1> HIDE DEF S
<1>5. IsFiniteSet(S)
  <2>1. IsFiniteSet(1 .. Len(log))
    BY <1>2, FS_Interval
  <2>2. QED
    BY <1>3, <2>1, FS_Subset
<1>6. QED
  BY <1>1, <1>4, <1>5, FS_CardinalityType, FS_EmptySet

(* Emitting an event raises the retries told of that task if it is *)
(* taskRetried, and nothing else.                                  *)
LEMMA EmitCounts ==
  ASSUME IndInv, NEW t \in Tasks, NEW e \in Events, Emit(t, e)
  PROVE  /\ timesRetried'[t] = IF e = "taskRetried" THEN timesRetried[t] + 1
                                                    ELSE timesRetried[t]
         /\ \A u \in Tasks \ {t} : timesRetried'[u] = timesRetried[u]
         /\ Told' = Told \cup {t}
<1> DEFINE log == emitted[t]
           new == Append(log, e)
           S == {i \in DOMAIN log : log[i] = "taskRetried"}
           T == {i \in DOMAIN new : new[i] = "taskRetried"}
<1>1. /\ emitted \in [Tasks -> Seq(Events)]
      /\ emitted' = [emitted EXCEPT ![t] = new]
  BY EventTypes DEF Emit
<1>2. /\ new # << >>
      /\ DOMAIN new = 1 .. Len(log) + 1
      /\ DOMAIN log = 1 .. Len(log) /\ Len(log) \in Nat
      /\ \A i \in 1 .. Len(log) : new[i] = log[i]
      /\ new[Len(log) + 1] = e
  BY <1>1, AppendEvent
<1>3. timesRetried[t] = Cardinality(S) /\ timesRetried'[t] = Cardinality(T)
  BY <1>1 DEF timesRetried, Count
<1>4. \A u \in Tasks \ {t} : timesRetried'[u] = timesRetried[u]
  BY <1>1 DEF timesRetried, Count
<1>5. Told' = Told \cup {t}
  BY <1>1, <1>2 DEF Told
<1> HIDE DEF log, new
<1>6. T = IF e = "taskRetried" THEN S \cup {Len(log) + 1} ELSE S
  BY <1>2
<1>7. S \subseteq 1 .. Len(log) /\ Len(log) + 1 \notin S
  BY <1>2
<1> HIDE DEF S, T
<1>8. IsFiniteSet(S)
  <2>1. IsFiniteSet(1 .. Len(log))
    BY <1>2, FS_Interval
  <2>2. QED
    BY <1>7, <2>1, FS_Subset
<1>9. Cardinality(S \cup {Len(log) + 1}) = Cardinality(S) + 1
  BY <1>7, <1>8, FS_AddElement
<1>10. QED
  BY <1>3, <1>4, <1>5, <1>6, <1>9

(* The sum over the tasks that are told of grows by one with each retry.   *)
LEMMA EmitSum ==
  ASSUME IndInv, IsFiniteSet(Told), NEW t \in Tasks, NEW e \in Events, Emit(t, e)
  PROVE  /\ IsFiniteSet(Told')
         /\ SumFunctionOnSet(timesRetried', Told') =
              SumFunctionOnSet(timesRetried, Told)
                + (IF e = "taskRetried" THEN 1 ELSE 0)
<1> DEFINE f == timesRetried
           g == timesRetried'
           R == Told \ {t}
           U == R \cup {t}
<1>1. /\ g[t] = f[t] + (IF e = "taskRetried" THEN 1 ELSE 0)
      /\ \A u \in R : g[u] = f[u]
      /\ Told' = U
      /\ \A u \in Tasks : f[u] \in Nat /\ (u \notin Told => f[u] = 0)
      /\ Told \subseteq Tasks
  BY EmitCounts, TimesAreNumbers DEF Told
<1> HIDE DEF f, g
<1>2. IsFiniteSet(R) /\ IsFiniteSet(U) /\ t \notin R
  BY FS_Subset, FS_AddElement
<1>3. /\ \A u \in R : f[u] \in Nat /\ g[u] \in Nat
      /\ \A u \in Told : f[u] \in Nat
      /\ f[t] \in Nat /\ g[t] \in Nat
  BY <1>1
<1>4. U \ {t} = R
  OBVIOUS
<1> HIDE DEF R, U
<1>5. SumFunctionOnSet(g, U) = g[t] + SumFunctionOnSet(g, R)
  BY <1>2, <1>3, SumAdd DEF U
<1>6. SumFunctionOnSet(g, R) = SumFunctionOnSet(f, R)
  BY <1>1, <1>2, SumAgrees
<1>7. SumFunctionOnSet(f, R) \in Nat
  BY <1>2, <1>3, SumType
<1>8. SumFunctionOnSet(f, Told) = f[t] + SumFunctionOnSet(f, R)
  <2>1. CASE t \in Told
    BY <1>3, <2>1, SumRemove DEF R
  <2>2. CASE t \notin Told
    <3>1. R = Told /\ f[t] = 0
      BY <1>1, <2>2 DEF R
    <3>2. QED
      BY <1>7, <3>1
  <2>3. QED
    BY <2>1, <2>2
<1>9. QED
  BY <1>1, <1>2, <1>3, <1>5, <1>6, <1>7, <1>8 DEF f, g

(* A step that neither fails a task nor ends a handler.                    *)
LEMMA NoRetry ==
  ASSUME IndInv, RetriesAreCounted,
         UNCHANGED <<retriesCount, handler, retryCountTotal>>,
         aborted => aborted',
         \/ emitted' = emitted
         \/ \E t \in Tasks : \E e \in Events \ {"taskRetried"} : Emit(t, e)
  PROVE  RetriesAreCounted'
<1>1. \A t \in Tasks : IsRetrying(t)' <=> IsRetrying(t)
  BY DEF IsRetrying, AttemptsOf
<1>2. \A t \in Tasks : timesRetried'[t] = timesRetried[t]
  BY EmitCounts DEF timesRetried, Count
<1>3. IsFiniteSet(Told)
  BY DEF RetriesAreCounted
<1>4. /\ IsFiniteSet(Told')
      /\ SumFunctionOnSet(timesRetried', Told') = SumFunctionOnSet(timesRetried, Told)
  <2>1. CASE emitted' = emitted
    BY <1>3, <2>1 DEF Told, timesRetried, Count
  <2>2. CASE \E t \in Tasks : \E e \in Events \ {"taskRetried"} : Emit(t, e)
    <3>1. SumFunctionOnSet(timesRetried, Told) \in Nat
      BY <1>3, TimesAreNumbers, SumType DEF Told
    <3>2. PICK t \in Tasks, e \in Events : Emit(t, e) /\ e # "taskRetried"
      BY <2>2
    <3>3. QED
      BY <1>3, <3>1, <3>2, EmitSum
  <2>3. QED
    BY <2>1, <2>2
<1>5. RetriesAreUnsafe' <=> RetriesAreUnsafe
  BY DEF RetriesAreUnsafe
<1>6. QED
  BY <1>1, <1>2, <1>4, <1>5 DEF RetriesAreCounted, RetriesAgree

(* A task that fails and is to be retried has a handler that retries it.   *)
LEMMA StopMarksRetry ==
  ASSUME IndInv, NEW t \in Tasks, NEW error, NEW retry \in BOOLEAN,
         NEW value \in Nat, Stopped(t, error, retry, value),
         resourceRental' \in [Tasks -> Rentals \cup {NoRental}]
  PROVE  /\ UNCHANGED <<aborted, retryCountTotal>>
         /\ ~IsRetrying(t)
         /\ \E n \in {0, 1} :
              /\ retriesCount'[t] = retriesCount[t] + n
              /\ ~aborted => (IsRetrying(t)' <=> n = 1)
         /\ \A u \in Tasks \ {t} : /\ IsRetrying(u)' <=> IsRetrying(u)
                                   /\ retriesCount'[u] = retriesCount[u]
<1> DEFINE s == StopState(t, error, retry)
           c == Current(t)
<1>1. c \in Attempts
  BY StopEffect
<1>2. c \in AttemptsOf(t) /\ s \in {"done", "rejected", "retry"}
  BY <1>1 DEF Current, AttemptsOf, StopState
<1>3. retriesCount' = [retriesCount EXCEPT ![t] =
                         IF s = "retry" THEN @ + 1 ELSE @]
  BY DEF Stopped, StopNow, StopTask
<1>4. \/ s = "retry" /\ aborted /\ handler' = handler
      \/ /\ ~(s = "retry" /\ aborted)
         /\ handler' = [handler EXCEPT ![c] = IF s = "retry" THEN "retrying"
                                              ELSE "stopping"]
  BY StopEffect
<1>5. UNCHANGED <<aborted, retryCountTotal>>
  BY DEF Stopped, serviceVars
<1>6. state[t] \in {"queued", "pending"}
  BY DEF Stopped
<1> HIDE DEF s, c
<1>7. ~IsRetrying(t)
  BY <1>6 DEF IsRetrying, AttemptsOf, IndInv, CoreInv, HandlersFollowState
<1>8. \A u \in Tasks \ {t} : /\ IsRetrying(u)' <=> IsRetrying(u)
                             /\ retriesCount'[u] = retriesCount[u]
  <2>1. \A u \in Tasks \ {t} : \A a \in AttemptsOf(u) : handler'[a] = handler[a]
    BY <1>1, <1>2, <1>4, EventTypes DEF AttemptsOf
  <2>2. QED
    BY <1>3, <2>1, EventTypes DEF IsRetrying, AttemptsOf
<1>9. ASSUME ~aborted
      PROVE  IsRetrying(t)' <=> s = "retry"
  <2>1. handler' = [handler EXCEPT ![c] = IF s = "retry" THEN "retrying"
                                          ELSE "stopping"]
    BY <1>4, <1>9
  <2>2. handler'[c] = IF s = "retry" THEN "retrying" ELSE "stopping"
    BY <1>1, <2>1, EventTypes
  <2>3. \A a \in AttemptsOf(t) \ {c} : handler'[a] # "retrying"
    BY <1>1, <1>7, <2>1, EventTypes DEF IsRetrying, AttemptsOf
  <2>4. QED
    BY <1>2, <2>2, <2>3 DEF IsRetrying, AttemptsOf
<1>10. retriesCount'[t] = retriesCount[t] + (IF s = "retry" THEN 1 ELSE 0)
  BY <1>3, EventTypes
<1>11. QED
  BY <1>5, <1>7, <1>8, <1>9, <1>10

(* Such a retry is counted from then on in the task ...                    *)
LEMMA StopIsCounted ==
  ASSUME IndInv, RetriesAreCounted, RetriesAreBounded', NEW t \in Tasks,
         UNCHANGED <<aborted, retryCountTotal>>, ~IsRetrying(t),
         NEW n \in {0, 1}, retriesCount'[t] = retriesCount[t] + n,
         ~aborted => (IsRetrying(t)' <=> n = 1),
         \A u \in Tasks \ {t} : /\ IsRetrying(u)' <=> IsRetrying(u)
                                /\ retriesCount'[u] = retriesCount[u],
         emitted' = emitted \/ Emit(t, "taskStarted")
  PROVE  RetriesAreCounted'
<1>1. /\ \A u \in Tasks : timesRetried'[u] = timesRetried[u]
      /\ IsFiniteSet(Told')
      /\ SumFunctionOnSet(timesRetried', Told') = SumFunctionOnSet(timesRetried, Told)
  <2>1. IsFiniteSet(Told)
    BY DEF RetriesAreCounted
  <2>2. CASE emitted' = emitted
    BY <2>1, <2>2 DEF Told, timesRetried, Count
  <2>3. CASE Emit(t, "taskStarted")
    <3>1. "taskStarted" \in Events
      BY DEF Events
    <3>2. SumFunctionOnSet(timesRetried, Told) \in Nat
      BY <2>1, TimesAreNumbers, SumType DEF Told
    <3>3. QED
      BY <2>1, <2>3, <3>1, <3>2, EmitCounts, EmitSum
  <2>4. QED
    BY <2>2, <2>3
<1>2. \A u \in Tasks : ~aborted' /\ ~RetriesAreUnsafe =>
        retriesCount'[u] = timesRetried'[u] + (IF IsRetrying(u)' THEN 1 ELSE 0)
  <2> SUFFICES ASSUME NEW u \in Tasks, ~aborted, ~RetriesAreUnsafe
               PROVE  retriesCount'[u] =
                        timesRetried[u] + (IF IsRetrying(u)' THEN 1 ELSE 0)
    BY <1>1
  <2>1. retriesCount[u] = timesRetried[u] + (IF IsRetrying(u) THEN 1 ELSE 0)
    BY DEF RetriesAreCounted, RetriesAgree
  <2>2. CASE u = t
    BY <2>1, <2>2, EventTypes, TimesAreNumbers
  <2>3. CASE u # t
    BY <2>1, <2>3
  <2>4. QED
    BY <2>2, <2>3
<1>3. "taskRetried" \notin ThrowingListeners =>
        retryCountTotal' = SumFunctionOnSet(timesRetried', Told')
  BY <1>1 DEF RetriesAreCounted, RetriesAgree
<1>4. RetriesAreUnsafe' <=> RetriesAreUnsafe
  BY DEF RetriesAreUnsafe
<1>5. QED
  BY <1>1, <1>2, <1>3, <1>4 DEF RetriesAreCounted, RetriesAgree, RetriesAreBounded

(* ... and the handler counts it in the service when it tells of it.       *)
LEMMA HandlerCounts ==
  ASSUME IndInv, RetriesAreCounted, NEW a \in Attempts, HandlerStep(a)
  PROVE  RetriesAreCounted'
<1> DEFINE t == a[1]
<1>1. /\ handler[a] \in {"retrying", "stopping"}
      /\ handler' = [handler EXCEPT ![a] = "idle"]
      /\ UNCHANGED <<retriesCount, aborted>>
  BY EventTypes DEF HandlerStep, RetryResumes, RetriedListenerThrows,
     StopResumes, ReleaseRejected, HandlerEnds, taskVars
<1>2. t \in Tasks /\ a \in AttemptsOf(t)
  BY AttemptParts DEF AttemptsOf
<1> HIDE DEF t
<1>3. \A b \in AttemptsOf(t) \ {a} : handler[b] = "idle"
  <2>1. \A b \in AttemptsOf(t) : handler[b] # "idle" => a = b
    BY <1>1, OneHandler DEF t
  <2>2. QED
    BY <2>1
<1>4. /\ IsRetrying(t) <=> handler[a] = "retrying"
      /\ ~IsRetrying(t)'
      /\ \A u \in Tasks \ {t} : IsRetrying(u)' <=> IsRetrying(u)
  <2>1. \A b \in AttemptsOf(t) : handler'[b] = "idle"
    BY <1>1, <1>3, EventTypes DEF AttemptsOf
  <2>2. IsRetrying(t) <=> handler[a] = "retrying"
    BY <1>2, <1>3 DEF IsRetrying
  <2>3. \A u \in Tasks \ {t} : \A b \in AttemptsOf(u) : handler'[b] = handler[b]
    BY <1>1, <1>2, EventTypes DEF AttemptsOf
  <2>4. ~IsRetrying(t)'
    BY <2>1 DEF IsRetrying, AttemptsOf
  <2>5. QED
    BY <2>2, <2>3, <2>4 DEF IsRetrying, AttemptsOf
<1>5. IsFiniteSet(Told) /\ SumFunctionOnSet(timesRetried, Told) \in Nat
  BY TimesAreNumbers, SumType DEF RetriesAreCounted, Told
<1>6. RetriesAreUnsafe' <=> RetriesAreUnsafe
  BY DEF RetriesAreUnsafe
<1>7. ASSUME NEW n \in {0, 1},
             timesRetried'[t] = timesRetried[t] + n,
             \A u \in Tasks \ {t} : timesRetried'[u] = timesRetried[u],
             IsFiniteSet(Told'),
             "taskRetried" \notin ThrowingListeners =>
               /\ retryCountTotal' = retryCountTotal + n
               /\ SumFunctionOnSet(timesRetried', Told') =
                    SumFunctionOnSet(timesRetried, Told) + n,
             ~RetriesAreUnsafe => n = IF handler[a] = "retrying" THEN 1 ELSE 0
      PROVE  RetriesAreCounted'
  <2>1. \A u \in Tasks : ~aborted' /\ ~RetriesAreUnsafe =>
          retriesCount'[u] = timesRetried'[u] + (IF IsRetrying(u)' THEN 1 ELSE 0)
    <3> SUFFICES ASSUME NEW u \in Tasks, ~aborted, ~RetriesAreUnsafe
                 PROVE  retriesCount[u] =
                          timesRetried'[u] + (IF IsRetrying(u)' THEN 1 ELSE 0)
      BY <1>1
    <3>1. retriesCount[u] = timesRetried[u] + (IF IsRetrying(u) THEN 1 ELSE 0)
      BY DEF RetriesAreCounted, RetriesAgree
    <3>2. CASE u = t
      BY <1>4, <1>7, <3>1, <3>2, TimesAreNumbers
    <3>3. CASE u # t
      BY <1>4, <1>7, <3>1, <3>3
    <3>4. QED
      BY <3>2, <3>3
  <2>2. "taskRetried" \notin ThrowingListeners =>
          retryCountTotal' = SumFunctionOnSet(timesRetried', Told')
    BY <1>5, <1>7 DEF RetriesAreCounted, RetriesAgree
  <2>3. QED
    BY <1>1, <1>6, <1>7, <2>1, <2>2 DEF RetriesAreCounted, RetriesAgree
<1>8. CASE RetryResumes(a)
  <2>1. ~Has(t)
    BY <1>8 DEF RetryResumes, IndInv, CoreInv, HandlersFollowState, t
  <2>2. Emit(t, "taskRetried") /\ retryCountTotal' = retryCountTotal + 1
        /\ handler[a] = "retrying"
    BY <1>8, <2>1 DEF RetryResumes, t
  <2>3. "taskRetried" \in Events
    BY DEF Events
  <2>4. QED
    BY <1>2, <1>5, <1>7, <2>2, <2>3, EmitCounts, EmitSum
<1>9. CASE RetriedListenerThrows(a)
  <2>1. Emit(t, "taskRetried") /\ "taskRetried" \in ThrowingListeners
    BY <1>9 DEF RetriedListenerThrows, t
  <2>2. "taskRetried" \in Events /\ RetriesAreUnsafe
    BY <2>1 DEF Events, RetriesAreUnsafe
  <2>3. QED
    BY <1>2, <1>5, <1>7, <2>1, <2>2, EmitCounts, EmitSum
<1>10. CASE StopResumes(a)
  <2>1. PICK e \in {"taskFailed", "taskCompleted"} : Emit(t, e)
    BY <1>10 DEF StopResumes, t
  <2>2. e \in Events /\ e # "taskRetried"
    BY DEF Events
  <2>3. /\ retryCountTotal' = retryCountTotal /\ handler[a] = "stopping"
    BY <1>10 DEF StopResumes
  <2>4. "taskRetried" \notin ThrowingListeners =>
          retryCountTotal' = retryCountTotal + 0
    BY <1>5, <2>3 DEF RetriesAreCounted, RetriesAgree
  <2>5. QED
    BY <1>2, <1>5, <1>7, <2>1, <2>2, <2>3, <2>4, EmitCounts, EmitSum,
       TimesAreNumbers
<1>11. CASE ReleaseRejected(a)
  <2>1. UNCHANGED <<emitted, retryCountTotal>> /\ RetriesAreUnsafe
    BY <1>11 DEF ReleaseRejected, RetriesAreUnsafe
  <2>2. /\ \A u \in Tasks : timesRetried'[u] = timesRetried[u]
        /\ Told' = Told
        /\ timesRetried' = timesRetried
    BY <2>1 DEF Told, timesRetried, Count
  <2>3. "taskRetried" \notin ThrowingListeners =>
          retryCountTotal' = retryCountTotal + 0
    BY <1>5, <2>1 DEF RetriesAreCounted, RetriesAgree
  <2>4. QED
    BY <1>2, <1>5, <1>7, <2>1, <2>2, <2>3, TimesAreNumbers
<1>12. QED
  BY <1>8, <1>9, <1>10, <1>11 DEF HandlerStep

(* Each step keeps the counters of retries in agreement with the events. *)
LEMMA RetriesStayCounted ==
  ASSUME IndInv, RetriesAreCounted, [Next]_vars
  PROVE  RetriesAreCounted'
<1>1. RetriesAreBounded'
  BY NextKeepsInvariant DEF IndInv, CoreInv
<1>2. CASE UNCHANGED vars \/ Ready \/ LoopExit \/ End
  <2>1. /\ UNCHANGED <<retriesCount, handler, retryCountTotal, emitted>>
        /\ aborted => aborted'
    BY <1>2 DEF vars, taskVars, serviceVars, dispatchVars, Ready, LoopExit, End
  <2>2. QED
    BY <2>1, NoRetry
<1>3. ASSUME NEW t \in Tasks, Submit(t) \/ Take(t)
      PROVE  RetriesAreCounted'
  <2>1. "taskQueued" \in Events \ {"taskRetried"}
    BY DEF Events
  <2>2. QED
    BY <1>3, <2>1, NoRetry DEF Submit, NewTask, Take, InitTask, serviceVars,
       dispatchVars
<1>4. ASSUME NEW a \in Attempts,
             \/ \E r \in Rentals : AcquireGranted(a, r)
             \/ ExeUnitReady(a) \/ AttemptEnds(a)
      PROVE  RetriesAreCounted'
  <2>1. "taskStarted" \in Events \ {"taskRetried"} /\ a[1] \in Tasks
    BY AttemptParts DEF Events
  <2>2. /\ UNCHANGED <<retriesCount, handler, retryCountTotal, aborted>>
        /\ emitted' = emitted \/ Emit(a[1], "taskStarted")
    BY <1>4 DEF AcquireGranted, ExeUnitReady, StartTask, AttemptEnds, taskVars,
       serviceVars, dispatchVars
  <2>3. QED
    BY <2>1, <2>2, NoRetry
<1>5. ASSUME NEW t \in Tasks, TimerStops(t)
      PROVE  RetriesAreCounted'
  <2>1. /\ Stopped(t, "GolemTimeoutError", RetryOnTimeout[t], 0)
        /\ RetryOnTimeout[t] \in BOOLEAN /\ 0 \in Nat
        /\ resourceRental' \in [Tasks -> Rentals \cup {NoRental}]
        /\ emitted' = emitted
    BY <1>5, PoolTypes, TaskOptionsAssumption DEF TimerStops
  <2>2. QED
    BY <1>1, <2>1, StopMarksRetry, StopIsCounted
<1>6. ASSUME NEW a \in Attempts, AttemptStops(a) \/ ListenerStops(a)
      PROVE  RetriesAreCounted'
  <2>1. /\ a[1] \in Tasks
        /\ resourceRental' \in [Tasks -> Rentals \cup {NoRental}]
        /\ \E error : \E retry \in BOOLEAN, value \in Nat :
             Stopped(a[1], error, retry, value)
    BY <1>6, AttemptStopArguments
  <2>2. emitted' = emitted \/ Emit(a[1], "taskStarted")
    BY <1>6 DEF AttemptStops, ListenerStops
  <2>3. QED
    BY <1>1, <2>1, <2>2, StopMarksRetry, StopIsCounted
<1>7. ASSUME NEW a \in Attempts, HandlerStep(a)
      PROVE  RetriesAreCounted'
  BY <1>7, HandlerCounts
<1>8. QED
  BY <1>2, <1>3, <1>4, <1>5, <1>6, <1>7, StepCases

(* Whatever fails a task, and however late, each retry is counted once: in *)
(* the task (task.ts:135), in the total of the service (service.ts:137) and*)
(* in the events; and no task is retried more than maxRetries times.       *)
THEOREM RetryCorrectness == Spec => []RetriesAgree
<1>1. Init => RetriesAreCounted
  <2> SUFFICES ASSUME Init PROVE RetriesAreCounted
    OBVIOUS
  <2>1. /\ Told = {} /\ retryCountTotal = 0
        /\ \A t \in Tasks : retriesCount[t] = 0 /\ ~IsRetrying(t)
    BY DEF Init, TaskInit, Told, IsRetrying, AttemptsOf
  <2>2. \A t \in Tasks : timesRetried[t] = 0
    BY <2>1, InitialState, TimesAreNumbers
  <2>3. IsFiniteSet(Told) /\ SumFunctionOnSet(timesRetried, Told) = 0
    BY <2>1, FS_EmptySet, SumEmpty
  <2>4. \A t \in Tasks : retriesCount[t] <= MaxRetries[t]
    BY InitialState DEF IndInv, CoreInv, RetriesAreBounded
  <2>5. QED
    BY <2>1, <2>2, <2>3, <2>4 DEF RetriesAreCounted, RetriesAgree
<1>2. IndInv /\ RetriesAreCounted /\ [Next]_vars => RetriesAreCounted'
  BY RetriesStayCounted
<1>3. RetriesAreCounted => RetriesAgree
  BY DEF RetriesAreCounted
<1>4. QED
  BY <1>1, <1>2, <1>3, Invariance, PTL DEF Spec

-----------------------------------------------------------------------------
(* Each step keeps the events of every task in agreement with its state. *)
LEMMA EventsAreKept ==
  ASSUME IndInv, EventsFollowState, [Next]_vars
  PROVE  EventsFollowState'
<1>told. \A t \in Tasks : EventsOfTask(t)
  BY DEF EventsFollowState
<1>types. /\ emitted \in [Tasks -> Seq(Events)]
          /\ itemsStack \in Seq(Tasks)
          /\ state \in [Tasks -> TaskState \cup {"absent"}]
  BY EventTypes
<1>emit. ASSUME NEW t \in Tasks, NEW e, Emit(t, e),
                NEW u \in Tasks, u # t
         PROVE  emitted'[u] = emitted[u]
  BY <1>emit, <1>types DEF Emit
<1>same. ASSUME UNCHANGED <<emitted, state, handler, itemsStack>>
         PROVE  EventsFollowState'
  <2>1. \A u \in Tasks : (Has(u)' <=> Has(u))
    BY <1>same DEF Has
  <2>2. QED
    BY <1>same, <1>told, <2>1, OtherTask DEF EventsFollowState
<1>1. CASE UNCHANGED vars \/ Ready \/ LoopExit \/ End
  BY <1>1, <1>same DEF vars, taskVars, dispatchVars, Ready, LoopExit, End
<1>2. ASSUME NEW t \in Tasks, Submit(t)
      PROVE  EventsFollowState'
  <2>1. /\ state[t] = "absent" /\ Emit(t, "taskQueued") /\ handler' = handler
        /\ itemsStack' = Append(itemsStack, t)
        /\ state'[t] = "new"
        /\ \A u \in Tasks \ {t} : state'[u] = state[u]
    BY <1>2, <1>types DEF Submit, NewTask, AddToEnd, dispatchVars
  <2>2. \A u \in Tasks \ {t} : Has(u)' <=> Has(u)
    BY <1>types, <2>1, AppendToQueue DEF Has
  <2>3. EventsOfTask(t)'
    <3>1. "taskQueued" \in Events /\ "taskQueued" \notin Final
      BY DEF Events, Final
    <3>2. state[t] \notin Finished /\ ~IsFinished(t)'
      BY <2>1 DEF Finished, IsFinished
    <3>3. QED
      BY <1>told, <1>types, <2>1, <3>1, <3>2, EventFits
  <2>4. \A u \in Tasks \ {t} : EventsOfTask(u)'
    BY <1>emit, <1>told, <2>1, <2>2, OtherTask
  <2>5. QED
    BY <2>3, <2>4 DEF EventsFollowState
<1>3. ASSUME NEW t \in Tasks, Take(t)
      PROVE  EventsFollowState'
  <2>1. /\ emitted' = emitted /\ handler' = handler
        /\ state'[t] = "queued"
        /\ \A u \in Tasks \ {t} : state'[u] = state[u]
    BY <1>3, <1>types DEF Take, InitTask
  <2>2. /\ Has(t) /\ IsQueueable(t)
        /\ \A u \in Tasks : Has(u)' => Has(u)
    BY <1>3, TakenTask
  <2>3. EventsOfTask(t)'
    <3>1. /\ state[t] \notin Finished /\ ~IsFinished(t)'
          /\ state[t] # "absent" /\ state'[t] # "absent"
      BY <2>1, <2>2 DEF Finished, IsFinished, IsQueueable, Queueable
    <3>2. QED
      BY <1>told, <2>1, <2>2, <3>1, NoEvent
  <2>4. \A u \in Tasks \ {t} : EventsOfTask(u)'
    BY <1>told, <2>1, <2>2, OtherTask
  <2>5. QED
    BY <2>3, <2>4 DEF EventsFollowState
<1>4. ASSUME NEW a \in Attempts,
             (\E r \in Rentals : AcquireGranted(a, r)) \/ AttemptEnds(a)
      PROVE  EventsFollowState'
  BY <1>4, <1>same DEF AcquireGranted, AttemptEnds, taskVars, dispatchVars
<1>5. ASSUME NEW a \in Attempts, ExeUnitReady(a)
      PROVE  EventsFollowState'
  <2> DEFINE t == a[1]
  <2>1. t \in Tasks
    BY AttemptParts
  <2>2. /\ state[t] = "queued" /\ Emit(t, "taskStarted")
        /\ state'[t] = "pending"
        /\ \A u \in Tasks \ {t} : state'[u] = state[u]
        /\ UNCHANGED <<handler, itemsStack>>
    BY <1>5, <1>types, <2>1 DEF ExeUnitReady, StartTask, dispatchVars
  <2> HIDE DEF t
  <2>3. /\ \A u \in Tasks : Has(u)' <=> Has(u)
        /\ ~Has(t)
    BY <2>1, <2>2 DEF Has, IndInv, CoreInv, QueueFollowsState, IsQueueable,
       Queueable
  <2>4. EventsOfTask(t)'
    <3>1. "taskStarted" \in Events /\ "taskStarted" \notin Final
      BY DEF Events, Final
    <3>2. state[t] \notin Finished /\ ~IsFinished(t)'
      BY <2>2 DEF Finished, IsFinished
    <3>3. QED
      BY <1>told, <1>types, <2>1, <2>2, <2>3, <3>1, <3>2, EventFits
  <2>5. \A u \in Tasks \ {t} : EventsOfTask(u)'
    BY <1>emit, <1>told, <2>1, <2>2, <2>3, OtherTask
  <2>6. QED
    BY <2>4, <2>5 DEF EventsFollowState
<1>stop. ASSUME NEW t \in Tasks, NEW error, NEW retry \in BOOLEAN, NEW value \in Nat,
                Stopped(t, error, retry, value),
                resourceRental' \in [Tasks -> Rentals \cup {NoRental}],
                emitted' = emitted \/ (state[t] = "queued" /\ Emit(t, "taskStarted"))
         PROVE  EventsFollowState'
  <2>1. /\ state[t] \in {"queued", "pending"}
        /\ state'[t] \in {"done", "rejected", "retry"}
        /\ state'[t] \in Finished => Handled(t)'
        /\ ~Has(t)'
        /\ \A u \in Tasks \ {t} :
             /\ state'[u] = state[u]
             /\ \A a \in AttemptsOf(u) : handler'[a] = handler[a]
        /\ \A u \in Tasks : Has(u)' <=> Has(u)
    BY <1>stop, StopHandles
  <2>2. /\ state[t] \notin Finished
        /\ state[t] # "absent" /\ state'[t] \notin {"absent", "queued"}
        /\ IsFinished(t)' => Handled(t)'
    BY <2>1 DEF Finished, IsFinished
  <2>3. EventsOfTask(t)'
    <3>1. CASE emitted' = emitted
      BY <1>told, <2>1, <2>2, <3>1, NoEvent
    <3>2. CASE state[t] = "queued" /\ Emit(t, "taskStarted")
      <4>1. "taskStarted" \in Events /\ "taskStarted" \notin Final
        BY DEF Events, Final
      <4>2. QED
        BY <1>told, <1>types, <2>1, <2>2, <3>2, <4>1, EventFits
    <3>3. QED
      BY <1>stop, <3>1, <3>2
  <2>4. \A u \in Tasks \ {t} : EventsOfTask(u)'
    <3>1. \A u \in Tasks \ {t} : emitted'[u] = emitted[u]
      BY <1>stop, <1>emit
    <3>2. QED
      BY <1>told, <2>1, <3>1, OtherTask
  <2>5. QED
    BY <2>3, <2>4 DEF EventsFollowState
<1>6. ASSUME NEW t \in Tasks, TimerStops(t)
      PROVE  EventsFollowState'
  <2>1. /\ Stopped(t, "GolemTimeoutError", RetryOnTimeout[t], 0)
        /\ RetryOnTimeout[t] \in BOOLEAN
        /\ resourceRental' \in [Tasks -> Rentals \cup {NoRental}]
        /\ emitted' = emitted
    BY <1>6, PoolTypes, TaskOptionsAssumption DEF TimerStops
  <2>2. QED
    BY <1>stop, <2>1, 0 \in Nat
<1>7. ASSUME NEW a \in Attempts, AttemptStops(a) \/ ListenerStops(a)
      PROVE  EventsFollowState'
  <2>1. /\ a[1] \in Tasks
        /\ resourceRental' \in [Tasks -> Rentals \cup {NoRental}]
    BY <1>7, AttemptStopArguments
  <2>2. emitted' = emitted \/ (state[a[1]] = "queued" /\ Emit(a[1], "taskStarted"))
    BY <1>7 DEF AttemptStops, ListenerStops
  <2>3. PICK error : \E retry \in BOOLEAN, value \in Nat :
          Stopped(a[1], error, retry, value)
    BY <1>7, AttemptStopArguments
  <2>4. QED
    BY <1>stop, <2>1, <2>2, <2>3
<1>8. ASSUME NEW a \in Attempts, HandlerStep(a)
      PROVE  EventsFollowState'
  <2> DEFINE t == a[1]
  <2>1. handler[a] # "idle" /\ HandlerEnds(a)
    BY <1>8 DEF HandlerStep, RetryResumes, RetriedListenerThrows, StopResumes,
       ReleaseRejected
  <2>2. /\ t \in Tasks /\ Handled(t) /\ ~Handled(t)'
        /\ \A u \in Tasks \ {t} : \A b \in AttemptsOf(u) : handler'[b] = handler[b]
        /\ UNCHANGED state
    BY <2>1, HandlerIsOver
  <2>3. /\ handler[a] = "retrying" => state[t] = "retry"
        /\ handler[a] = "stopping" => state[t] \in {"done", "rejected"}
    BY DEF IndInv, CoreInv, HandlersFollowState, IsFinished, Finished
  <2>queue. /\ \A u \in Tasks \ {t} : Has(u)' => Has(u)
            /\ Has(t)' => Has(t) \/ RetryResumes(a)
    <3>1. CASE RetryResumes(a)
      <4>1. itemsStack' = itemsStack \/ itemsStack' = <<t>> \o itemsStack
        BY <3>1 DEF RetryResumes, AddToBegin
      <4>2. Range(<<t>> \o itemsStack) = Range(itemsStack) \cup {t}
        BY <1>types, <2>2, PutInFront
      <4>3. Range(itemsStack') \subseteq Range(itemsStack) \cup {t}
        BY <4>1, <4>2
      <4>4. QED
        BY <3>1, <4>3 DEF Has
    <3>2. CASE ~RetryResumes(a)
      <4>1. itemsStack' = itemsStack
        BY <1>8, <3>2 DEF HandlerStep, RetriedListenerThrows, StopResumes,
           ReleaseRejected
      <4>2. QED
        BY <4>1 DEF Has
    <3>3. QED
      BY <3>1, <3>2
  <2>4. CASE RetryResumes(a) \/ RetriedListenerThrows(a)
    <3>1. handler[a] = "retrying" /\ Emit(t, "taskRetried") /\ state[t] = "retry"
      BY <2>3, <2>4 DEF RetryResumes, RetriedListenerThrows
    <3>2. "taskRetried" \in Events \ Final /\ ~IsFinished(t)' /\ state[t] \notin Finished
      BY <2>2, <3>1 DEF Events, Final, IsFinished, Finished
    <3> HIDE DEF t
    <3>3. EventsOfTask(t)'
      BY <1>told, <1>types, <2>2, <3>1, <3>2, EventFits DEF Final
    <3>4. \A u \in Tasks \ {t} : EventsOfTask(u)'
      BY <1>emit, <1>told, <2>2, <2>queue, <3>1, OtherTask
    <3>5. QED
      BY <3>3, <3>4 DEF EventsFollowState
  <2>5. CASE StopResumes(a)
    <3> DEFINE e == IF state[t] = "rejected" THEN "taskFailed" ELSE "taskCompleted"
    <3>1. Emit(t, e) /\ state[t] \in {"done", "rejected"} /\ itemsStack' = itemsStack
      BY <2>3, <2>5 DEF StopResumes
    <3>2. /\ e \in Events /\ e \in Final
          /\ e \notin {"taskQueued", "taskStarted"}
          /\ e = "taskCompleted" => state'[t] = "done"
          /\ e = "taskFailed" => state'[t] = "rejected"
      BY <2>2, <3>1 DEF Events, Final
    <3>3. ~Has(t)'
      BY <2>2, <3>1 DEF Has, IndInv, CoreInv, QueueFollowsState, IsQueueable,
         Queueable
    <3> HIDE DEF t, e
    <3>4. EventsOfTask(t)'
      BY <1>told, <1>types, <2>2, <3>1, <3>2, <3>3, EventFits
    <3>5. \A u \in Tasks \ {t} : EventsOfTask(u)'
      BY <1>emit, <1>told, <2>2, <2>queue, <3>1, OtherTask
    <3>6. QED
      BY <3>4, <3>5 DEF EventsFollowState
  <2>6. CASE ReleaseRejected(a)
    <3>1. PoolRejects /\ UNCHANGED <<emitted, itemsStack>>
      BY <2>6 DEF ReleaseRejected
    <3>2. \A u \in Tasks : (Has(u)' <=> Has(u))
      BY <3>1 DEF Has
    <3> HIDE DEF t
    <3>3. EventsOfTask(t)'
      BY <1>told, <2>2, <3>1, <3>2, NoEvent
    <3>4. \A u \in Tasks \ {t} : EventsOfTask(u)'
      BY <1>told, <2>2, <3>1, <3>2, OtherTask
    <3>5. QED
      BY <3>3, <3>4 DEF EventsFollowState
  <2>7. QED
    BY <1>8, <2>4, <2>5, <2>6 DEF HandlerStep
<1>9. QED
  BY <1>1, <1>2, <1>3, <1>4, <1>5, <1>6, <1>7, <1>8, StepCases

(* EventsFollowState holds initially. *)
LEMMA EventsInitially == Init => EventsFollowState
<1> SUFFICES ASSUME Init, NEW t \in Tasks PROVE EventsOfTask(t)
  BY DEF EventsFollowState
<1>1. state[t] = "absent" /\ emitted[t] = << >> /\ itemsStack = << >>
  BY DEF Init, TaskInit, QueueInit
<1>2. ~Has(t) /\ ~IsFinished(t)
  BY <1>1 DEF Has, Range, IsFinished, Finished
<1>3. DOMAIN emitted[t] = {}
  BY <1>1
<1>4. QED
  BY <1>1, <1>2, <1>3 DEF EventsOfTask

(* In every reachable state the events of a task fit the state it is in. *)
THEOREM EventInvariance == Spec => []EventsFollowState
<1>1. Init => EventsFollowState
  BY EventsInitially
<1>2. IndInv /\ EventsFollowState /\ [Next]_vars => EventsFollowState'
  BY EventsAreKept
<1>3. QED
  BY <1>1, <1>2, Invariance, PTL DEF Spec

(* The listeners of task events see each task go through its life in       *)
(* order, and the last event of a task agrees with the state it ends in    *)
(* (service.ts:48, 107, 131-187), for any number of tasks and retries and  *)
(* whatever times out, settles late, throws or is rejected.                *)
THEOREM EventsAreOrdered == Spec => []EventsTellTheStory
<1>1. EventsFollowState => EventsTellTheStory
  BY DEF EventsFollowState, EventsOfTask, EventsTellTheStory
<1>2. QED
  BY <1>1, EventInvariance, PTL

(* With both timeouts set, a task that is not yet reported is always in    *)
(* the hands of the service: a timer or a handler of it will be served, or *)
(* it waits for a slot that is free or will be.  No interleaving of timers *)
(* and attempts leaves it to a market, provider or function that may never *)
(* answer (task.ts:93-124, service.ts:41-62).                              *)
THEOREM TasksAreNeverStuck == Spec => []NoTaskIsStuck
<1>1. IndInv /\ EventsFollowState => NoTaskIsStuck
  <2>1. SUFFICES ASSUME IndInv, EventsFollowState, MaxParallelTasks > 0,
                        \A t \in Tasks : HasTimeout[t] /\ HasStartupTimeout[t],
                        ~aborted, ~RetriesAreUnsafe,
                        NEW t \in Tasks, state[t] # "absent"
                 PROVE  \/ HasWayOut(t)
                        \/ Has(t) /\ \/ activeTasksCount < MaxParallelTasks
                                     \/ \E u \in Tasks : InService(u) /\ HasWayOut(u)
                        \/ Last(emitted[t]) \in {"taskCompleted", "taskFailed"}
    BY DEF NoTaskIsStuck
  <2>2. \A u \in Tasks : InService(u) => HasWayOut(u)
    BY <2>1 DEF InService, HasWayOut, IndInv, CoreInv, TimersFollowState
  <2>3. CASE IsQueueable(t)
    <3>1. Has(t) \/ Handled(t)
      BY <2>1, <2>3 DEF IndInv, CoreInv, NoTaskIsLost
    <3>2. CASE activeTasksCount < MaxParallelTasks
      BY <3>1, <3>2 DEF HasWayOut
    <3>3. CASE ~(activeTasksCount < MaxParallelTasks)
      <4>1. /\ activeTasksCount = Cardinality(Served)
            /\ activeTasksCount \in Nat /\ MaxParallelTasks \in Nat
        BY <2>1, ServiceAssumption DEF IndInv, CoreInv, ActiveCountIsExact, Served,
           TypeOK, DispatchTypeOK
      <4>2. Cardinality(Served) # 0
        BY <2>1, <3>3, <4>1
      <4>3. Served # {}
        BY <4>2, FS_EmptySet
      <4>4. QED
        BY <2>2, <3>1, <4>3 DEF Served, HasWayOut
    <3>4. QED
      BY <3>2, <3>3
  <2>4. CASE IsFinished(t)
    BY <2>1, <2>4 DEF EventsFollowState, EventsOfTask, RetriesAreUnsafe, HasWayOut
  <2>5. CASE state[t] \in {"queued", "pending"}
    BY <2>2, <2>5 DEF InService
  <2>6. QED
    BY <2>1, <2>3, <2>4, <2>5 DEF IndInv, TypeOK, TaskTypeOK, TaskState,
       IsQueueable, Queueable, IsFinished, Finished
<1>2. QED
  BY <1>1, Invariance, EventInvariance, PTL

-----------------------------------------------------------------------------
(* Where the results of a completed task come from.                        *)
LEMMA ResultsAreKept ==
  ASSUME IndInv, AttemptsBeginInOrder, ResultsAreReturned, [Next]_vars
  PROVE  ResultsAreReturned'
<1> SUFFICES ASSUME "undefined" \notin FunctionErrors, NEW t \in Tasks,
                    state'[t] = "done"
             PROVE  results'[t] # 0 /\ <<t, results'[t]>> \in invoked'
  BY DEF ResultsAreReturned
<1>grow. invoked \subseteq invoked'
  BY DEF Next, vars, attemptVars, Ready, LoopExit, End, Submit, Take, TimerStep,
     StartupTimeout, TaskTimeout, Timeout, AttemptStep, AcquireGranted,
     AcquireRejected, ExeUnitReady, StartedListenerThrows, ExeUnitTooLate,
     ExeUnitFailed, FunctionReturns, FunctionThrows, HandlerStep, RetryResumes,
     RetriedListenerThrows, StopResumes, ReleaseRejected, HandlerEnds
<1>1. CASE state[t] = "done"
  <2>1. results'[t] = results[t]
    BY <1>1, FinishedStep DEF IsFinished, Finished
  <2>2. QED
    BY <1>1, <1>grow, <2>1 DEF ResultsAreReturned
<1>2. CASE state[t] # "done"
  <2>stop. ASSUME NEW u \in Tasks, NEW error, NEW retry, NEW value,
                  Stopped(u, error, retry, value)
           PROVE  t = u /\ error = "undefined" /\ results'[t] = value
    <3>1. /\ state' = [state EXCEPT ![u] = StopState(u, error, retry)]
          /\ results' = [results EXCEPT ![u] =
               IF StopState(u, error, retry) = "done" THEN value ELSE @]
      BY <2>stop DEF Stopped, StopNow, StopTask
    <3>2. t = u /\ StopState(u, error, retry) = "done"
      BY <1>2, <3>1, EventTypes
    <3>3. results'[t] = value
      BY <3>1, <3>2 DEF IndInv, TypeOK, TaskTypeOK
    <3>4. QED
      BY <3>2, <3>3 DEF StopState
  <2>1. CASE UNCHANGED vars \/ Ready \/ LoopExit \/ End
    BY <1>2, <2>1 DEF vars, taskVars, Ready, LoopExit, End
  <2>2. ASSUME NEW u \in Tasks, Submit(u) \/ Take(u)
        PROVE  FALSE
    BY <1>2, <2>2, EventTypes DEF Submit, NewTask, Take, InitTask
  <2>3. ASSUME NEW u \in Tasks, TimerStops(u)
        PROVE  FALSE
    BY <2>3, <2>stop DEF TimerStops
  <2>4. ASSUME NEW a \in Attempts,
               \/ \E r \in Rentals : AcquireGranted(a, r)
               \/ ExeUnitReady(a) \/ AttemptEnds(a) \/ HandlerStep(a)
        PROVE  FALSE
    BY <1>2, <2>4, EventTypes, AttemptParts DEF AcquireGranted, ExeUnitReady,
       StartTask, AttemptEnds, HandlerStep, RetryResumes, RetriedListenerThrows,
       StopResumes, ReleaseRejected, HandlerEnds, taskVars
  <2>5. ASSUME NEW a \in Attempts, ListenerStops(a)
        PROVE  FALSE
    <3>1. a[1] \in Tasks
      BY AttemptParts
    <3>2. QED
      BY <2>5, <2>stop, <3>1 DEF ListenerStops
  <2>6. ASSUME NEW a \in Attempts, AttemptStops(a)
        PROVE  results'[t] # 0 /\ <<t, results'[t]>> \in invoked'
    <3>1. a[1] \in Tasks /\ a[2] # 0 /\ a = <<a[1], a[2]>>
      BY AttemptParts, TaskOptionsAssumption
    <3>2. CASE pc[a] = "running" /\ Stopped(a[1], "undefined", TRUE, a[2])
      <4>1. t = a[1] /\ results'[t] = a[2]
        BY <2>stop, <3>1, <3>2
      <4>2. a \in invoked
        BY <3>2 DEF AttemptsBeginInOrder
      <4>3. QED
        BY <1>grow, <3>1, <4>1, <4>2
    <3>3. ASSUME NEW e, e = "undefined" => e \in FunctionErrors,
                 Stopped(a[1], e, Retryable(a[1], e), 0)
          PROVE  FALSE
      BY <2>stop, <3>1, <3>3
    <3>4. QED
      BY <2>6, <3>2, <3>3 DEF AttemptStops
  <2>7. QED
    BY <2>1, <2>2, <2>3, <2>4, <2>5, <2>6, StepCases
<1>3. QED
  BY <1>1, <1>2

(* Unless a function rejects with nothing (task.ts:132), a completed task  *)
(* has the results that a call of its function returned, and the event     *)
(* taskCompleted is not emitted for any other.                             *)
THEOREM CompletionIsTrue == Spec => []CompletedMeansReturned
<1>1. Init => AttemptsBeginInOrder /\ ResultsAreReturned
  BY DEF Init, TaskInit, AttemptsBeginInOrder, ResultsAreReturned
<1>2. IndInv /\ AttemptsBeginInOrder /\ ResultsAreReturned /\ [Next]_vars
        => AttemptsBeginInOrder' /\ ResultsAreReturned'
  BY OrderIsKept, ResultsAreKept
<1>3. EventsFollowState /\ ResultsAreReturned => CompletedMeansReturned
  <2>1. SUFFICES ASSUME EventsFollowState, NEW t \in Tasks,
                        Count(t, "taskCompleted") > 0
                 PROVE  state[t] = "done"
    BY DEF ResultsAreReturned, CompletedMeansReturned
  <2> DEFINE S == {i \in DOMAIN emitted[t] : emitted[t][i] = "taskCompleted"}
  <2>2. S # {}
    <3>1. Cardinality(S) > 0
      BY <2>1 DEF Count
    <3>2. Cardinality({}) = 0
      BY FS_EmptySet
    <3> HIDE DEF S
    <3>3. QED
      BY <3>1, <3>2
  <2>3. QED
    BY <2>1, <2>2 DEF EventsFollowState, EventsOfTask
<1>4. QED
  BY <1>1, <1>2, <1>3, Invariance, EventInvariance, PTL DEF Spec
=============================================================================
