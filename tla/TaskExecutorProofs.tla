------------------------- MODULE TaskExecutorProofs -------------------------
(***************************************************************************)
(* Theorems about TaskExecutor, for any tasks, callers and configurations, *)
(* whatever the listeners do and whichever step fails.                     *)
(***************************************************************************)
EXTENDS TaskExecutorInductive, TLAPS, SequenceTheorems

Events == {"executorReady", "executorBeforeEnd", "criticalError", "executorEnd"}

-----------------------------------------------------------------------------
(* The log: what one more event changes.                                   *)

(* What one more event does to a log: what it contains, and what stays in *)
(* order.                                                                 *)
LEMMA OneMoreEvent ==
  ASSUME NEW s \in Seq(Events), NEW e \in Events
  PROVE  /\ Append(s, e) \in Seq(Events)
         /\ \A x : Contains(Append(s, e), x) <=> Contains(s, x) \/ x = e
         /\ EachEventOnce(s) /\ (e = "criticalError" \/ ~Contains(s, e))
              => EachEventOnce(Append(s, e))
         /\ \A first, second :
              /\ InOrder(s, first, second)
              /\ first # second
              /\ e = first => ~Contains(s, second)
              => InOrder(Append(s, e), first, second)
<1> DEFINE r == Append(s, e)
<1>1. /\ r \in Seq(Events)
      /\ Len(r) = Len(s) + 1
      /\ \A i \in 1 .. Len(s) : r[i] = s[i]
      /\ r[Len(s) + 1] = e
  BY AppendProperties
<1>2. /\ Len(s) \in Nat
      /\ DOMAIN s = 1 .. Len(s)
      /\ DOMAIN r = 1 .. Len(s) + 1
  BY <1>1, LenProperties
<1> HIDE DEF r
<1>3. \A x : Contains(r, x) <=> Contains(s, x) \/ x = e
  BY <1>1, <1>2 DEF Contains
<1>4. \A i \in DOMAIN r : \/ i = Len(s) + 1 /\ r[i] = e
                          \/ i \in DOMAIN s /\ i < Len(s) + 1 /\ r[i] = s[i]
  BY <1>1, <1>2
<1>5. \A i \in DOMAIN s : Contains(s, s[i])
  BY <1>2 DEF Contains
<1>6. EachEventOnce(s) /\ (e = "criticalError" \/ ~Contains(s, e))
        => EachEventOnce(r)
  BY <1>4, <1>5 DEF EachEventOnce
<1>7. ASSUME NEW first, NEW second, InOrder(s, first, second), first # second,
             e = first => ~Contains(s, second)
      PROVE  InOrder(r, first, second)
  <2>1. \A i, j \in DOMAIN s : s[i] = first /\ s[j] = second => i < j
    BY <1>7 DEF InOrder
  <2>2. ASSUME NEW i \in DOMAIN r, NEW j \in DOMAIN r, r[i] = first, r[j] = second
        PROVE  i < j
    BY <1>2, <1>4, <1>5, <1>7, <2>1, <2>2
  <2>3. QED
    BY <2>2 DEF InOrder
<1>8. QED
  BY <1>1, <1>3, <1>6, <1>7 DEF r

(* The events of one step, written as concatenations, are appended one by *)
(* one.                                                                   *)
LEMMA EventsInARow ==
  ASSUME NEW s \in Seq(Events), NEW e \in Events
  PROVE  /\ s \o << >> = s
         /\ s \o <<e>> = Append(s, e)
         /\ s \o << >> \o <<e>> = Append(s, e)
         /\ s \o <<"criticalError">> \o <<e>> = Append(Append(s, "criticalError"), e)
<1>1. \A q \in Seq(Events), x \in Events : q \o <<x>> = Append(q, x)
  BY AppendIsConcat
<1>2. s \o << >> = s
  BY ConcatEmptySeq
<1>3. "criticalError" \in Events /\ Append(s, "criticalError") \in Seq(Events)
  BY OneMoreEvent DEF Events
<1>4. QED
  BY <1>1, <1>2, <1>3

-----------------------------------------------------------------------------
(* Type correctness.                                                       *)

(* The initial state is well-typed. *)
LEMMA InitIsTyped == Init => TypeOK
<1>1. SUFFICES ASSUME Init PROVE TypeOK
  OBVIOUS
<1>2. Scheduler!TypeInvariant
  BY <1>1 DEF Init, Scheduler!Init, Scheduler!TypeInvariant, Scheduler!Phases
<1>3. log \in Seq({"executorReady", "executorBeforeEnd", "criticalError",
                   "executorEnd"})
  BY <1>1 DEF Init
<1>4. QED
  BY <1>1, <1>2, <1>3 DEF Init, TypeOK

(* What the steps of the executor do to the state of the scheduler.        *)
LEMMA SchedulerIsTyped ==
  ASSUME Scheduler!TypeInvariant
  PROVE  /\ UNCHANGED schedulerVars => Scheduler!TypeInvariant'
         /\ Scheduler!Open \/ Scheduler!Close => Scheduler!TypeInvariant'
         /\ \A t \in Tasks :
              \/ Scheduler!Submit(t) \/ Scheduler!Begin(t) \/ Scheduler!Finish(t)
              \/ Scheduler!Retry(t) \/ Scheduler!Abandon(t)
              => Scheduler!TypeInvariant'
<1> USE DEF Scheduler!TypeInvariant, Scheduler!Phases
<1>1. UNCHANGED schedulerVars => Scheduler!TypeInvariant'
  BY DEF schedulerVars
<1>2. Scheduler!Open \/ Scheduler!Close => Scheduler!TypeInvariant'
  BY DEF Scheduler!Open, Scheduler!Close
<1>3. ASSUME NEW t \in Tasks, NEW from, NEW to \in Scheduler!Phases,
             Scheduler!Move(t, from, to)
      PROVE  phase' \in [Tasks -> Scheduler!Phases]
  BY <1>3 DEF Scheduler!Move
<1>4. ASSUME NEW t \in Tasks, Scheduler!Submit(t)
      PROVE  Scheduler!TypeInvariant'
  <2>1. Append(line, t) \in Seq(Tasks)
    BY AppendProperties
  <2>2. QED
    BY <1>3, <1>4, <2>1 DEF Scheduler!Submit
<1>5. ASSUME NEW t \in Tasks, Scheduler!Begin(t)
      PROVE  Scheduler!TypeInvariant'
  <2>1. Tail(line) \in Seq(Tasks)
    BY <1>5, HeadTailProperties DEF Scheduler!Begin
  <2>2. QED
    BY <1>3, <1>5, <2>1 DEF Scheduler!Begin
<1>6. ASSUME NEW t \in Tasks, Scheduler!Finish(t)
      PROVE  Scheduler!TypeInvariant'
  BY <1>3, <1>6 DEF Scheduler!Finish
<1>7. ASSUME NEW t \in Tasks, Scheduler!Retry(t)
      PROVE  Scheduler!TypeInvariant'
  <2>1. <<t>> \in Seq(Tasks)
    OBVIOUS
  <2>2. <<t>> \o line \in Seq(Tasks)
    BY <2>1, ConcatProperties
  <2>3. phase' \in [Tasks -> Scheduler!Phases]
    BY <1>3, <1>7 DEF Scheduler!Retry
  <2>4. tries' \in [Tasks -> Nat]
    BY <1>7 DEF Scheduler!Retry
  <2>5. QED
    BY <1>7, <2>2, <2>3, <2>4 DEF Scheduler!Retry
<1>8. ASSUME NEW t \in Tasks, Scheduler!Abandon(t)
      PROVE  Scheduler!TypeInvariant'
  BY <1>3, <1>8 DEF Scheduler!Abandon
<1>9. QED
  BY <1>1, <1>2, <1>4, <1>5, <1>6, <1>7, <1>8

(* Scheduler!Finish ends the tasks that the executor reports.              *)
SchedulerStep ==
  \/ UNCHANGED schedulerVars
  \/ Scheduler!Open \/ Scheduler!Close
  \/ \E t \in Tasks :
       \/ Scheduler!Submit(t) \/ Scheduler!Begin(t) \/ Scheduler!Finish(t)
       \/ Scheduler!Retry(t) \/ Scheduler!Abandon(t)

(* Every step of the executor is a step or a stutter of the scheduler.     *)
LEMMA EachStepSchedules == [Next]_vars => SchedulerStep
<1> USE DEF SchedulerStep
<1>1. CASE UNCHANGED vars
  BY <1>1 DEF vars, schedulerVars
<1>2. CASE InitializationStep
  BY <1>2 DEF InitializationStep, StartInit, Connected, NetworkCreated,
     PoolCreated, InitDone, InitFails, InitStep, schedulerVars
<1>3. CASE ShutdownStep
  BY <1>3 DEF ShutdownStep, ListenerThrows, EndService, Drain, Drained,
     Disconnected, ShutdownFails, Terminated, DoShutdown, schedulerVars
<1>4. CASE Signal \/ StartupTimeout \/ ServiceFails
  BY <1>4 DEF Signal, StartupTimeout, ServiceFails
<1>5. CASE ServiceReady
  BY <1>5 DEF ServiceReady
<1>6. ASSUME NEW c \in Callers, Shutdown(c) \/ ListenerShutsDown(c)
      PROVE  SchedulerStep
  BY <1>6 DEF Shutdown, ListenerShutsDown
<1>7. ASSUME NEW t \in Tasks, Run(t) \/ Poll(t) \/ TaskStep(t)
      PROVE  SchedulerStep
  BY <1>7 DEF Run, Poll, TaskStep, ServeTask, SettleTask, ReportTask
<1>8. QED
  BY <1>1, <1>2, <1>3, <1>4, <1>5, <1>6, <1>7 DEF Next

(* cancel() and the start of doShutdown, after emitting nothing or a       *)
(* critical error.                                                         *)
Emitted(events) == IF events = << >> THEN log ELSE Append(log, "criticalError")

Begun(events) ==
  /\ isRunning
  /\ isRunning' = FALSE
  /\ shutdownPc' = "emitting"
  /\ log' = Append(Emitted(events), "executorBeforeEnd")

(* The log with the events of a step is a log. *)
LEMMA EmittedIsALog ==
  ASSUME log \in Seq(Events), NEW events \in {<< >>, <<"criticalError">>}
  PROVE  /\ Emitted(events) \in Seq(Events)
         /\ log \o events = Emitted(events)
         /\ \A e \in Events : log \o events \o <<e>> = Append(Emitted(events), e)
<1>1. "criticalError" \in Events
  BY DEF Events
<1>2. CASE events = << >>
  BY <1>2, EventsInARow DEF Emitted
<1>3. CASE events = <<"criticalError">>
  <2>1. Emitted(events) = Append(log, "criticalError")
    BY <1>3 DEF Emitted
  <2>2. Emitted(events) \in Seq(Events)
    BY <1>1, <2>1, OneMoreEvent
  <2>3. log \o events = Emitted(events)
    BY <1>1, <1>3, <2>1, EventsInARow
  <2>4. ASSUME NEW e \in Events
        PROVE  log \o events \o <<e>> = Append(Emitted(events), e)
    BY <2>2, <2>3, EventsInARow
  <2>5. QED
    BY <2>2, <2>3, <2>4
<1>4. QED
  BY <1>2, <1>3

(* What begins a shutdown, as the log and the flags see it. *)
LEMMA BeginShutdownEffect ==
  ASSUME log \in Seq(Events), NEW events \in {<< >>, <<"criticalError">>},
         BeginShutdown(events)
  PROVE  Begun(events)
<1>1. "executorBeforeEnd" \in Events
  BY DEF Events
<1>2. QED
  BY <1>1, EmittedIsALog DEF BeginShutdown, Begun

(* What cancel() does to the log and the flags: it begins a shutdown, or *)
(* finds one begun.                                                      *)
LEMMA CancelEffect ==
  ASSUME log \in Seq(Events), NEW events \in {<< >>, <<"criticalError">>},
         Cancel(events)
  PROVE  /\ \/ UNCHANGED <<isCanceled, signalHandlers>>
            \/ isCanceled' = TRUE /\ signalHandlers' = FALSE
         /\ \/ Begun(events)
            \/ log' = Emitted(events) /\ UNCHANGED <<isRunning, shutdownPc>>
<1>1. log \o events = Emitted(events)
  BY EmittedIsALog
<1>2. BeginShutdown(events) => Begun(events)
  BY BeginShutdownEffect
<1>3. QED
  BY <1>1, <1>2 DEF Cancel

(* A critical error is emitted, and perhaps a shutdown begun.              *)
LEMMA CriticalErrorEffect ==
  ASSUME log \in Seq(Events), HandleCriticalError
  PROVE  /\ \/ UNCHANGED <<isCanceled, signalHandlers>>
            \/ isCanceled' = TRUE /\ signalHandlers' = FALSE
         /\ \/ Begun(<<"criticalError">>)
            \/ /\ log' = Append(log, "criticalError")
               /\ UNCHANGED <<isRunning, shutdownPc>>
<1>1. Emitted(<<"criticalError">>) = Append(log, "criticalError")
  BY DEF Emitted
<1>2. CASE Cancel(<<"criticalError">>)
  BY <1>1, <1>2, CancelEffect
<1>3. CASE log' = Append(log, "criticalError")
            /\ UNCHANGED <<isCanceled, signalHandlers, isRunning, shutdownPc>>
  BY <1>3
<1>4. QED
  BY <1>2, <1>3 DEF HandleCriticalError

-----------------------------------------------------------------------------
(* What a step may do to the log, and to the variables it agrees with.     *)

SameShutdown == UNCHANGED <<log, isRunning, shutdownPc>>

MovesOn ==
  /\ UNCHANGED <<log, isRunning>>
  /\ shutdownPc \notin {"idle", "resolved", "rejectedAfterEnd"}
  /\ shutdownPc' \notin {"idle", "resolved", "rejectedAfterEnd"}

GetsReady ==
  /\ log' = Append(log, "executorReady")
  /\ ~InitSettled /\ InitSettled'
  /\ UNCHANGED <<isRunning, shutdownPc>>

HitsError ==
  /\ log' = Append(log, "criticalError")
  /\ UNCHANGED <<isRunning, shutdownPc>>

GoesDown ==
  /\ Begun(<< >>) \/ Begun(<<"criticalError">>)
  /\ InitIsAwaited => InitSettled
  /\ UNCHANGED init

IsDown ==
  /\ log' = Append(log, "executorEnd")
  /\ shutdownPc = "disconnected"
  /\ shutdownPc' \in {"resolved", "rejectedAfterEnd"}
  /\ UNCHANGED isRunning

LogStep ==
  /\ InitSettled => InitSettled'
  /\ SameShutdown \/ MovesOn \/ GetsReady \/ HitsError \/ GoesDown \/ IsDown

(* Each step writes to the log what one of a few kinds of steps writes. *)
LEMMA EachStepLogs ==
  ASSUME TypeOK, NothingBeforeInit, [Next]_vars
  PROVE  LogStep
<1>log. log \in Seq(Events)
  BY DEF TypeOK, Events
<1> DEFINE Same == UNCHANGED <<init, shutdownVars>>
<1>same. Same => LogStep
  BY DEF shutdownVars, LogStep, SameShutdown, InitSettled
<1>1. CASE UNCHANGED vars
  BY <1>same, <1>1 DEF vars
<1>2. CASE InitializationStep
  <2>1. CASE InitDone
    BY <2>1 DEF InitDone, LogStep, GetsReady, InitSettled
  <2>2. CASE ~InitDone
    <3>1. ~InitSettled /\ UNCHANGED shutdownVars
      BY <1>2, <2>2 DEF InitializationStep, StartInit, Connected, NetworkCreated,
         PoolCreated, InitFails, InitStep, InitSettled
    <3>2. QED
      BY <3>1 DEF shutdownVars, LogStep, SameShutdown
  <2>3. QED
    BY <2>1, <2>2
<1>3. CASE ShutdownStep
  <2>1. CASE Terminated
    BY <2>1 DEF Terminated, DoShutdown, LogStep, IsDown, InitSettled
  <2>2. CASE ~Terminated
    <3>1. MovesOn /\ UNCHANGED init
      BY <1>3, <2>2 DEF ShutdownStep, ListenerThrows, EndService, Drain, Drained,
         Disconnected, ShutdownFails, DoShutdown, MovesOn
    <3>2. QED
      BY <3>1 DEF LogStep, InitSettled
  <2>3. QED
    BY <2>1, <2>2
<1>4. CASE Signal \/ StartupTimeout \/ ServiceFails
  <2>1. InitSettled /\ UNCHANGED init
    BY <1>4 DEF NothingBeforeInit, Signal, StartupTimeout, ServiceFails
  <2>2. SameShutdown \/ HitsError \/ Begun(<< >>) \/ Begun(<<"criticalError">>)
    <3>1. CASE Signal
      <4>1. Cancel(<< >>)
        BY <3>1 DEF Signal
      <4>2. Emitted(<< >>) = log
        BY DEF Emitted
      <4>3. QED
        BY <1>log, <4>1, <4>2, CancelEffect DEF SameShutdown
    <3>2. CASE HandleCriticalError
      BY <1>log, <3>2, CriticalErrorEffect DEF HitsError
    <3>3. QED
      BY <1>4, <3>1, <3>2 DEF StartupTimeout, ServiceFails, SameShutdown
  <2>3. QED
    BY <2>1, <2>2 DEF LogStep, GoesDown, InitSettled
<1>5. CASE ServiceReady
  BY <1>same, <1>5 DEF ServiceReady, ServiceStep
<1>6. ASSUME NEW c \in Callers, Shutdown(c) \/ ListenerShutsDown(c)
      PROVE  LogStep
  <2>1. CASE Shutdown(c)
    <3>1. UNCHANGED init /\ (InitIsAwaited => InitSettled)
      BY <2>1 DEF Shutdown, InUse, InitSettled
    <3>2. SameShutdown \/ Begun(<< >>)
      BY <1>log, <2>1, BeginShutdownEffect DEF Shutdown, SameShutdown
    <3>3. QED
      BY <3>1, <3>2 DEF LogStep, GoesDown, InitSettled
  <2>2. CASE ListenerShutsDown(c)
    BY <2>2 DEF ListenerShutsDown, LogStep, SameShutdown, InitSettled
  <2>3. QED
    BY <1>6, <2>1, <2>2
<1>7. ASSUME NEW t \in Tasks, Run(t) \/ Poll(t) \/ TaskStep(t)
      PROVE  LogStep
  BY <1>same, <1>7 DEF Run, Poll, TaskStep, ServeTask, SettleTask, ReportTask,
     ServiceStep
<1>8. QED
  BY <1>1, <1>2, <1>3, <1>4, <1>5, <1>6, <1>7 DEF Next

LogIsSound == log \in Seq(Events) /\ LogFollowsShutdown /\ LogIsOrdered

(* Such a step keeps the log ordered and in agreement with the shutdown. *)
LEMMA LogStaysSound ==
  ASSUME isRunning \in BOOLEAN, InitIsAwaited \in BOOLEAN, LogIsSound,
         ShutdownFollowsInit, LogStep
  PROVE  LogIsSound'
<1> DEFINE Ready == "executorReady"
           Before == "executorBeforeEnd"
           Error == "criticalError"
           End == "executorEnd"
<1>names. {Ready, Before, Error, End} \subseteq Events
  BY DEF Events
<1>log. /\ log \in Seq(Events)
        /\ LogFollowsShutdown
        /\ EachEventOnce(log)
        /\ InOrder(log, Before, End)
        /\ InitIsAwaited => InOrder(log, Ready, Before)
  BY DEF LogIsSound, LogIsOrdered
<1>0. SUFFICES /\ log' \in Seq(Events)
               /\ LogFollowsShutdown'
               /\ EachEventOnce(log')
               /\ InOrder(log', Before, End)
               /\ InitIsAwaited => InOrder(log', Ready, Before)
  BY DEF LogIsSound, LogIsOrdered, EachEventOnce, InOrder
<1> USE DEF LogFollowsShutdown, ShutdownFollowsInit, Ended
<1>1. CASE SameShutdown \/ MovesOn
  BY <1>log, <1>1 DEF LogStep, SameShutdown, MovesOn
<1>2. CASE GetsReady
  <2>1. ~Contains(log, Ready)
    BY <1>log, <1>2 DEF GetsReady
  <2>2. InitIsAwaited => ~Contains(log, Before)
    BY <1>log, <1>2 DEF GetsReady
  <2>3. QED
    BY <1>names, <1>log, <1>2, <2>1, <2>2, OneMoreEvent DEF GetsReady
<1>3. CASE HitsError
  BY <1>names, <1>log, <1>3, OneMoreEvent DEF HitsError, LogStep
<1>4. CASE GoesDown
  <2>1. PICK events \in {<< >>, <<Error>>} : Begun(events)
    BY <1>4 DEF GoesDown
  <2> DEFINE s == Emitted(events)
  <2>2. /\ s \in Seq(Events)
        /\ s = log \/ s = Append(log, Error)
    BY <1>log, EmittedIsALog DEF Emitted
  <2>3. /\ EachEventOnce(s)
        /\ InOrder(s, Before, End)
        /\ InitIsAwaited => InOrder(s, Ready, Before)
        /\ \A x \in {Ready, Before, End} : Contains(s, x) <=> Contains(log, x)
    <3> HIDE DEF s
    <3>1. CASE s = log
      BY <1>log, <3>1
    <3>2. CASE s = Append(log, Error)
      BY <1>names, <1>log, <3>2, OneMoreEvent
    <3>3. QED
      BY <2>2, <3>1, <3>2
  <2>4. ~Contains(s, Before) /\ ~Contains(s, End)
    BY <1>log, <2>1, <2>3 DEF Begun
  <2> HIDE DEF s
  <2>5. log' = Append(s, Before)
    BY <2>1 DEF Begun, s
  <2>6. /\ log' \in Seq(Events)
        /\ EachEventOnce(log')
        /\ InOrder(log', Before, End)
        /\ InitIsAwaited => InOrder(log', Ready, Before)
        /\ \A x : Contains(log', x) <=> Contains(s, x) \/ x = Before
    BY <1>names, <2>2, <2>3, <2>4, <2>5, OneMoreEvent
  <2>7. LogFollowsShutdown'
    BY <1>log, <2>1, <2>3, <2>4, <2>6 DEF Begun, LogStep
  <2>8. QED
    BY <2>6, <2>7
<1>5. CASE IsDown
  BY <1>names, <1>log, <1>5, OneMoreEvent DEF IsDown, LogStep
<1>6. QED
  BY <1>1, <1>2, <1>3, <1>4, <1>5 DEF LogStep

-----------------------------------------------------------------------------
(* The types of everything but the log and the scheduler.                  *)

PlacesTypeOK ==
  /\ process \in {"up", "ended"}
  /\ init \in {"idle", "connecting", "networking", "pooling", "subscribing",
               "done", "failed"}
  /\ glm \in {"off", "connected", "disconnected"}
  /\ network \in {"none", "created"}
  /\ pool \in {"none", "live", "drained"}
  /\ service \in {"none", "starting", "looping", "failed"}
  /\ startupTimeoutId \in BOOLEAN /\ signalHandlers \in BOOLEAN
  /\ isRunning \in BOOLEAN /\ isCanceled \in BOOLEAN
  /\ shutdownPc \in {"idle", "emitting", "ending", "draining", "drained",
                     "disconnected", "resolved", "rejected", "rejectedAfterEnd"}

CallsTypeOK ==
  /\ shutdownCall \in [Callers -> {"idle", "waiting", "resolved", "rejected"}]
  /\ runCall \in [Tasks -> {"idle", "polling", "resolved", "rejected", "stopped",
                        "failed"}]
  /\ outcome \in [Tasks -> {"none", "done", "rejected"}]

(* The type invariant, in the parts that are proved one at a time. *)
LEMMA PartsOfType ==
  TypeOK <=> /\ Scheduler!TypeInvariant
             /\ options \in {Config(o) : o \in UserOptions}
             /\ PlacesTypeOK
             /\ log \in Seq(Events)
             /\ CallsTypeOK
BY DEF TypeOK, PlacesTypeOK, CallsTypeOK, Events

(* No step changes the options: executor.ts assigns them in its constructor *)
(* only.                                                                    *)
LEMMA OptionsNeverChange == [Next]_vars => UNCHANGED options
<1>1. CASE UNCHANGED vars
  BY <1>1 DEF vars
<1>2. CASE InitializationStep
  BY <1>2 DEF InitializationStep, StartInit, Connected, NetworkCreated,
     PoolCreated, InitDone, InitFails, InitStep
<1>3. CASE ShutdownStep
  BY <1>3 DEF ShutdownStep, ListenerThrows, EndService, Drain, Drained,
     Disconnected, ShutdownFails, Terminated, DoShutdown
<1>4. CASE Signal \/ StartupTimeout \/ ServiceFails \/ ServiceReady
  BY <1>4 DEF Signal, StartupTimeout, ServiceFails, ServiceReady, ServiceStep
<1>5. CASE \E c \in Callers : Shutdown(c) \/ ListenerShutsDown(c)
  BY <1>5 DEF Shutdown, ListenerShutsDown
<1>6. CASE \E t \in Tasks : Run(t) \/ Poll(t) \/ TaskStep(t)
  BY <1>6 DEF Run, Poll, TaskStep, ServeTask, SettleTask, ReportTask, ServiceStep
<1>7. QED
  BY <1>1, <1>2, <1>3, <1>4, <1>5, <1>6 DEF Next

(* Each step keeps the types of the flags and of the places in init() and *)
(* doShutdown().                                                          *)
LEMMA PlacesStayTyped ==
  ASSUME PlacesTypeOK, log \in Seq(Events), [Next]_vars
  PROVE  PlacesTypeOK'
<1> USE DEF PlacesTypeOK
<1> DEFINE Placed == <<process, init, resourceVars, startupTimeoutId, signalHandlers,
                       isRunning, isCanceled, shutdownPc>>
<1>same. UNCHANGED Placed => PlacesTypeOK'
  BY DEF resourceVars
<1>1. CASE UNCHANGED vars
  BY <1>same, <1>1 DEF vars, shutdownVars
<1>2. CASE InitializationStep
  <2>1. CASE StartInit \/ Connected \/ NetworkCreated \/ PoolCreated \/ InitFails
    BY <2>1 DEF StartInit, Connected, NetworkCreated, PoolCreated, InitFails,
       InitStep, shutdownVars, resourceVars
  <2>2. CASE InitDone
    BY <2>2 DEF InitDone, Truthy
  <2>3. QED
    BY <1>2, <2>1, <2>2 DEF InitializationStep
<1>3. CASE ShutdownStep
  BY <1>3 DEF ShutdownStep, ListenerThrows, EndService, Drain, Drained,
     Disconnected, ShutdownFails, Terminated, DoShutdown, resourceVars
<1>cancel. ASSUME Cancel(<< >>) \/ HandleCriticalError
           PROVE  /\ isCanceled' \in BOOLEAN /\ signalHandlers' \in BOOLEAN
                  /\ isRunning' \in BOOLEAN
                  /\ HandleCriticalError => process' \in {"up", "ended"}
                  /\ shutdownPc' = shutdownPc \/ shutdownPc' = "emitting"
  BY <1>cancel DEF HandleCriticalError, Cancel, BeginShutdown
<1>4. CASE Signal
  BY <1>4, <1>cancel DEF Signal, resourceVars
<1>5. CASE StartupTimeout
  <2>1. /\ startupTimeoutId' = FALSE
        /\ UNCHANGED <<init, glm, network, pool, service>>
        /\ \/ HandleCriticalError
           \/ UNCHANGED <<process, isCanceled, signalHandlers, isRunning, shutdownPc>>
    BY <1>5 DEF StartupTimeout, resourceVars
  <2>2. /\ isCanceled' \in BOOLEAN /\ signalHandlers' \in BOOLEAN
        /\ isRunning' \in BOOLEAN
        /\ process' \in {"up", "ended"}
        /\ shutdownPc' = shutdownPc \/ shutdownPc' = "emitting"
    <3>1. CASE HandleCriticalError
      BY <1>cancel, <3>1
    <3>2. CASE UNCHANGED <<process, isCanceled, signalHandlers, isRunning, shutdownPc>>
      BY <3>2
    <3>3. QED
      BY <2>1, <3>1, <3>2
  <2>3. QED
    BY <2>1, <2>2, ZenonT(30)
<1>6. CASE ServiceFails
  BY <1>6, <1>cancel DEF ServiceFails
<1>7. CASE ServiceReady
  BY <1>7 DEF ServiceReady, ServiceStep, shutdownVars
<1>8. ASSUME NEW c \in Callers, Shutdown(c) \/ ListenerShutsDown(c)
      PROVE  PlacesTypeOK'
  BY <1>8 DEF Shutdown, ListenerShutsDown, BeginShutdown, resourceVars
<1>9. ASSUME NEW t \in Tasks, Run(t) \/ Poll(t) \/ TaskStep(t)
      PROVE  PlacesTypeOK'
  BY <1>9 DEF Run, Poll, TaskStep, ServeTask, SettleTask, ReportTask, ServiceStep,
     shutdownVars, resourceVars
<1>10. QED
  BY <1>1, <1>2, <1>3, <1>4, <1>5, <1>6, <1>7, <1>8, <1>9 DEF Next

(* Each step keeps the types of the calls of run() and shutdown(). *)
LEMMA CallsStayTyped ==
  ASSUME CallsTypeOK, [Next]_vars
  PROVE  CallsTypeOK'
<1> USE DEF CallsTypeOK
<1>same. UNCHANGED <<shutdownCall, runCall, outcome>> => CallsTypeOK'
  OBVIOUS
<1>settle. \A result \in {"resolved", "rejected"} :
             SettleCalls(result) =>
               shutdownCall' \in [Callers -> {"idle", "waiting", "resolved",
                                              "rejected"}]
  BY DEF SettleCalls
<1>later. LaterCall \in {"waiting", "resolved", "rejected"}
  BY DEF LaterCall
<1>1. CASE UNCHANGED vars
  BY <1>same, <1>1 DEF vars, shutdownVars, runVars
<1>2. CASE InitializationStep
  BY <1>same, <1>2 DEF InitializationStep, StartInit, Connected, NetworkCreated,
     PoolCreated, InitDone, InitFails, InitStep, shutdownVars, runVars
<1>3. CASE ShutdownStep
  BY <1>settle, <1>same, <1>3 DEF ShutdownStep, ListenerThrows, EndService, Drain,
     Drained, Disconnected, ShutdownFails, Terminated, DoShutdown, runVars
<1>4. CASE Signal \/ StartupTimeout \/ ServiceFails \/ ServiceReady
  BY <1>same, <1>4 DEF Signal, StartupTimeout, ServiceFails, ServiceReady,
     ServiceStep, shutdownVars, runVars
<1>5. ASSUME NEW c \in Callers, Shutdown(c) \/ ListenerShutsDown(c)
      PROVE  CallsTypeOK'
  BY <1>later, <1>5 DEF Shutdown, ListenerShutsDown, runVars
<1>6. ASSUME NEW t \in Tasks, Run(t)
      PROVE  CallsTypeOK'
  <2>1. FirstTurn \subseteq {"polling", "stopped", "failed"}
    BY DEF FirstTurn
  <2>2. QED
    BY <1>6, <2>1 DEF Run, shutdownVars
<1>7. ASSUME NEW t \in Tasks, Poll(t)
      PROVE  CallsTypeOK'
  BY <1>7 DEF Poll, shutdownVars
<1>8. ASSUME NEW t \in Tasks, TaskStep(t)
      PROVE  CallsTypeOK'
  BY <1>8 DEF TaskStep, ServeTask, SettleTask, ReportTask, ServiceStep, shutdownVars
<1>9. QED
  BY <1>1, <1>2, <1>3, <1>4, <1>5, <1>6, <1>7, <1>8 DEF Next

(* Each step keeps the type invariant. *)
LEMMA TypeStays ==
  ASSUME TypeOK, LogIsSound, LogIsSound', [Next]_vars
  PROVE  TypeOK'
<1>1. Scheduler!TypeInvariant'
  BY PartsOfType, EachStepSchedules, SchedulerIsTyped DEF SchedulerStep
<1>2. /\ options' \in {Config(o) : o \in UserOptions}
      /\ PlacesTypeOK' /\ CallsTypeOK'
  BY PartsOfType, OptionsNeverChange, PlacesStayTyped, CallsStayTyped
<1>3. QED
  BY <1>1, <1>2 DEF TypeOK, PlacesTypeOK, CallsTypeOK, LogIsSound, Events

-----------------------------------------------------------------------------
(* The calls of run() and of shutdown().                                   *)

(* isRunning is never set again. *)
LEMMA NeverRunsAgain ==
  ASSUME LogStep, isRunning \in BOOLEAN
  PROVE  ~isRunning => ~isRunning'
BY DEF LogStep, SameShutdown, MovesOn, GetsReady, HitsError, GoesDown, Begun, IsDown

(* Each step keeps run() truthful, and every task has the call of run() *)
(* that made it.                                                        *)
LEMMA RunStaysFaithful ==
  ASSUME TypeOK, LogStep, TasksHaveCallers, RunIsFaithful, [Next]_vars
  PROVE  TasksHaveCallers' /\ RunIsFaithful'
<1>type. /\ isRunning \in BOOLEAN
         /\ runCall \in [Tasks -> {"idle", "polling", "resolved", "rejected",
                                   "stopped", "failed"}]
         /\ outcome \in [Tasks -> {"none", "done", "rejected"}]
         /\ DOMAIN phase = Tasks
  BY PartsOfType DEF PlacesTypeOK, CallsTypeOK, Scheduler!TypeInvariant
<1>down. ~isRunning => ~isRunning'
  BY <1>type, NeverRunsAgain
<1> DEFINE Good == TasksHaveCallers' /\ RunIsFaithful'
<1> USE DEF TasksHaveCallers, RunIsFaithful
<1>same. UNCHANGED <<runVars, phase>> => Good
  BY <1>down DEF runVars
<1>1. CASE UNCHANGED vars
  BY <1>same, <1>1 DEF vars, schedulerVars
<1>2. CASE InitializationStep
  BY <1>same, <1>2 DEF InitializationStep, StartInit, Connected, NetworkCreated,
     PoolCreated, InitDone, InitFails, InitStep, schedulerVars
<1>3. CASE ShutdownStep
  <2>1. UNCHANGED <<runVars, phase>>
    BY <1>3 DEF ShutdownStep, ListenerThrows, EndService, Drain, Drained,
       Disconnected, ShutdownFails, Terminated, DoShutdown, Scheduler!Close,
       schedulerVars
  <2>2. QED
    BY <1>same, <2>1
<1>4. CASE Signal \/ StartupTimeout \/ ServiceFails
  BY <1>same, <1>4 DEF Signal, StartupTimeout, ServiceFails, schedulerVars
<1>5. CASE ServiceReady
  BY <1>same, <1>5 DEF ServiceReady, ServiceStep, runVars, schedulerVars,
     Scheduler!Open
<1>6. CASE \E c \in Callers : Shutdown(c) \/ ListenerShutsDown(c)
  BY <1>same, <1>6 DEF Shutdown, ListenerShutsDown, schedulerVars
<1>7. ASSUME NEW t \in Tasks, Run(t)
      PROVE  Good
  <2>1. /\ runCall[t] = "idle"
        /\ UNCHANGED <<isRunning, outcome>>
    BY <1>7 DEF Run, shutdownVars
  <2>2. \A u \in Tasks \ {t} : phase'[u] = phase[u] /\ runCall'[u] = runCall[u]
    BY <1>7, <1>type DEF Run, Scheduler!Submit, Scheduler!Move, schedulerVars
  <2>3. CASE /\ runCall' = [runCall EXCEPT ![t] = "failed"]
             /\ UNCHANGED schedulerVars
    BY <1>type, <2>1, <2>3 DEF schedulerVars
  <2>4. CASE \E result \in FirstTurn : runCall' = [runCall EXCEPT ![t] = result]
    <3>1. runCall'[t] \in FirstTurn
      BY <1>type, <2>4
    <3>2. QED
      BY <2>1, <2>2, <3>1 DEF FirstTurn
  <2>5. QED
    BY <1>7, <2>3, <2>4 DEF Run
<1>8. ASSUME NEW t \in Tasks, Poll(t)
      PROVE  Good
  <2>1. UNCHANGED <<isRunning, outcome, phase>>
    BY <1>8 DEF Poll, shutdownVars, schedulerVars
  <2>2. QED
    BY <1>8, <1>type, <2>1 DEF Poll
<1>9. ASSUME NEW t \in Tasks, TaskStep(t)
      PROVE  Good
  <2>1. UNCHANGED <<isRunning, runCall>>
    BY <1>9 DEF TaskStep, ServeTask, SettleTask, ReportTask, ServiceStep,
       shutdownVars
  <2>2. \A u \in Tasks : outcome[u] # "none" => outcome'[u] = outcome[u]
    BY <1>9, <1>type DEF TaskStep, ServeTask, SettleTask, ReportTask
  <2>3. \A u \in Tasks : phase[u] = "absent" => phase'[u] = "absent"
    BY <1>9, <1>type DEF TaskStep, ServeTask, SettleTask, ReportTask,
       Scheduler!Begin, Scheduler!Retry, Scheduler!Abandon, Scheduler!Finish,
       Scheduler!Move, schedulerVars
  <2>4. QED
    BY <1>type, <2>1, <2>2, <2>3
<1>10. QED
  BY <1>1, <1>2, <1>3, <1>4, <1>5, <1>6, <1>7, <1>8, <1>9 DEF Next

(* A call of shutdown() resolves with the executor down, if no listener    *)
(* makes it: then no call comes before shutdownPromise is assigned.        *)
LEMMA ShutdownStaysTrue ==
  ASSUME TypeOK, LogFollowsShutdown, LogFollowsShutdown', LogStep,
         "shutdown" \notin Listeners, ShutdownMeansDown, [Next]_vars
  PROVE  ShutdownMeansDown'
<1>type. shutdownCall \in [Callers -> {"idle", "waiting", "resolved", "rejected"}]
  BY PartsOfType DEF CallsTypeOK
<1> DEFINE Over == {"resolved", "rejectedAfterEnd"}
<1>down. shutdownPc \in Over => shutdownPc' \in Over
  BY DEF LogFollowsShutdown, LogStep, SameShutdown, MovesOn, GetsReady, HitsError,
     GoesDown, Begun, IsDown
<1>before. \A c \in Callers : shutdownCall[c] = "resolved" => shutdownPc \in Over
  BY DEF ShutdownMeansDown, LogFollowsShutdown
<1>0. SUFFICES \A c \in Callers :
                 shutdownCall'[c] = "resolved" => shutdownPc' \in Over
  BY DEF ShutdownMeansDown, LogFollowsShutdown
<1>same. CASE UNCHANGED shutdownCall
  BY <1>before, <1>down, <1>same
<1>1. CASE UNCHANGED vars
  BY <1>same, <1>1 DEF vars, shutdownVars
<1>2. CASE InitializationStep
  BY <1>same, <1>2 DEF InitializationStep, StartInit, Connected, NetworkCreated,
     PoolCreated, InitDone, InitFails, InitStep, shutdownVars
<1>3. CASE ShutdownStep
  <2>1. CASE ListenerThrows \/ ShutdownFails
    BY <1>before, <1>down, <2>1 DEF ListenerThrows, ShutdownFails, SettleCalls
  <2>2. CASE Terminated
    BY <2>2 DEF Terminated, DoShutdown
  <2>3. CASE EndService \/ Drain \/ Drained \/ Disconnected
    BY <1>same, <2>3 DEF EndService, Drain, Drained, Disconnected
  <2>4. QED
    BY <1>3, <2>1, <2>2, <2>3 DEF ShutdownStep
<1>4. CASE Signal \/ StartupTimeout \/ ServiceFails \/ ServiceReady
  BY <1>same, <1>4 DEF Signal, StartupTimeout, ServiceFails, ServiceReady,
     ServiceStep, shutdownVars
<1>5. ASSUME NEW c \in Callers, Shutdown(c) \/ ListenerShutsDown(c)
      PROVE  \A d \in Callers :
               shutdownCall'[d] = "resolved" => shutdownPc' \in Over
  <2>1. Shutdown(c) /\ Quiet
    BY <1>5 DEF Shutdown, ListenerShutsDown
  <2>2. LaterCall = "resolved" => shutdownPc \in Over
    BY <2>1 DEF LaterCall, Quiet
  <2>3. QED
    BY <1>type, <1>before, <1>down, <2>1, <2>2 DEF Shutdown
<1>6. CASE \E t \in Tasks : Run(t) \/ Poll(t) \/ TaskStep(t)
  BY <1>same, <1>6 DEF Run, Poll, TaskStep, ServeTask, SettleTask, ReportTask,
     ServiceStep, shutdownVars
<1>7. QED
  BY <1>1, <1>2, <1>3, <1>4, <1>5, <1>6 DEF Next

-----------------------------------------------------------------------------
(* What there is to take down.                                             *)

(* The scheduler opens with the service, and a closed one stays closed.    *)
LEMMA DoorMoves ==
  ASSUME [Next]_vars
  PROVE  \/ UNCHANGED door
         \/ ServiceReady /\ door # "closed" /\ door' = "open"
         \/ EndService /\ service # "none" /\ door' = "closed"
<1>1. CASE UNCHANGED vars
  BY <1>1 DEF vars, schedulerVars
<1>2. CASE InitializationStep
  BY <1>2 DEF InitializationStep, StartInit, Connected, NetworkCreated,
     PoolCreated, InitDone, InitFails, InitStep, schedulerVars
<1>3. CASE ShutdownStep
  BY <1>3 DEF ShutdownStep, ListenerThrows, EndService, Drain, Drained,
     Disconnected, ShutdownFails, Terminated, DoShutdown, Scheduler!Close,
     schedulerVars
<1>4. CASE Signal \/ StartupTimeout \/ ServiceFails
  BY <1>4 DEF Signal, StartupTimeout, ServiceFails, schedulerVars
<1>5. CASE ServiceReady
  BY <1>5 DEF ServiceReady, Scheduler!Open, schedulerVars
<1>6. CASE \E c \in Callers : Shutdown(c) \/ ListenerShutsDown(c)
  BY <1>6 DEF Shutdown, ListenerShutsDown, schedulerVars
<1>7. CASE \E t \in Tasks : Run(t) \/ Poll(t) \/ TaskStep(t)
  BY <1>7 DEF Run, Poll, TaskStep, ServeTask, SettleTask, ReportTask,
     Scheduler!Submit, Scheduler!Begin, Scheduler!Finish, Scheduler!Retry,
     Scheduler!Abandon, schedulerVars
<1>8. QED
  BY <1>1, <1>2, <1>3, <1>4, <1>5, <1>6, <1>7 DEF Next

(* Before init() there is nothing that could begin a shutdown, if init() is *)
(* awaited.                                                                 *)
LEMMA NothingStaysBeforeInit ==
  ASSUME TypeOK, LogStep, NothingBeforeInit, DrainsAPool, [Next]_vars
  PROVE  NothingBeforeInit'
<1>type. isRunning \in BOOLEAN /\ startupTimeoutId \in BOOLEAN
         /\ signalHandlers \in BOOLEAN /\ InitIsAwaited \in BOOLEAN
  BY PartsOfType, ExecutorAssumption DEF PlacesTypeOK
<1>settled. InitSettled => InitSettled'
  BY DEF LogStep
<1>fewer. ASSUME UNCHANGED <<init, pool, service>>,
                 startupTimeoutId' \in {startupTimeoutId, FALSE},
                 signalHandlers' \in {signalHandlers, FALSE},
                 door' = "open" => door = "open"
          PROVE  NothingBeforeInit'
  <2>1. (startupTimeoutId \/ signalHandlers \/ service # "none" => InitSettled)'
    BY <1>type, <1>fewer DEF NothingBeforeInit, InitSettled
  <2>2. /\ (pool # "none" => init = "subscribing" \/ InitSettled)'
        /\ (init = "subscribing" => pool # "none")'
        /\ (service # "none" => pool # "none")'
    BY <1>fewer DEF NothingBeforeInit, InitSettled
  <2>3. (door = "open" => service # "none")'
    BY <1>fewer DEF NothingBeforeInit
  <2>4. QED
    BY <2>1, <2>2, <2>3 DEF NothingBeforeInit
<1>1. CASE UNCHANGED vars
  BY <1>fewer, <1>1 DEF vars, resourceVars, schedulerVars
<1>2. CASE InitializationStep
  <2>1. CASE InitDone
    BY <2>1 DEF NothingBeforeInit, InitDone, InitSettled, schedulerVars
  <2>2. CASE PoolCreated
    BY <2>2 DEF NothingBeforeInit, PoolCreated, InitStep, InitSettled, schedulerVars
  <2>3. CASE StartInit \/ Connected \/ NetworkCreated \/ InitFails
    BY <2>3 DEF NothingBeforeInit, StartInit, Connected, NetworkCreated, InitFails, InitStep,
       InitSettled, resourceVars, schedulerVars
  <2>4. QED
    BY <1>2, <2>1, <2>2, <2>3 DEF InitializationStep
<1>3. CASE ShutdownStep
  <2>1. CASE EndService
    <3>1. door' = "open" => door = "open"
      BY <2>1 DEF EndService, Scheduler!Close, schedulerVars
    <3>2. QED
      BY <1>fewer, <2>1, <3>1 DEF EndService, resourceVars
  <2>2. CASE Drained
    BY <2>2 DEF NothingBeforeInit, DrainsAPool, Drained, DoShutdown, InitSettled,
       schedulerVars
  <2>3. CASE ListenerThrows \/ Drain \/ Disconnected \/ ShutdownFails \/ Terminated
    BY <1>fewer, <2>3 DEF ListenerThrows, Drain, Disconnected, ShutdownFails,
       Terminated, DoShutdown, resourceVars, schedulerVars
  <2>4. QED
    BY <1>3, <2>1, <2>2, <2>3 DEF ShutdownStep
<1>cancel. Cancel(<< >>) \/ HandleCriticalError =>
             signalHandlers' \in {signalHandlers, FALSE}
  BY DEF HandleCriticalError, Cancel
<1>4. CASE Signal
  BY <1>fewer, <1>cancel, <1>4 DEF Signal, resourceVars, schedulerVars
<1>5. CASE StartupTimeout
  <2>1. signalHandlers' \in {signalHandlers, FALSE}
    BY <1>cancel, <1>5 DEF StartupTimeout
  <2>2. QED
    BY <1>fewer, <1>5, <2>1 DEF StartupTimeout, resourceVars, schedulerVars
<1>6. CASE ServiceFails
  BY <1>cancel, <1>6 DEF NothingBeforeInit, ServiceFails, InitSettled, schedulerVars
<1>7. CASE ServiceReady
  BY <1>7 DEF NothingBeforeInit, ServiceReady, ServiceStep, InitSettled, shutdownVars
<1>8. CASE \E c \in Callers : Shutdown(c) \/ ListenerShutsDown(c)
  BY <1>fewer, <1>8 DEF Shutdown, ListenerShutsDown, resourceVars, schedulerVars
<1>9. ASSUME NEW t \in Tasks, Run(t) \/ Poll(t) \/ TaskStep(t)
      PROVE  NothingBeforeInit'
  <2>1. UNCHANGED door
    BY <1>9, DoorMoves DEF Run, Poll, TaskStep, ServeTask, SettleTask, ReportTask,
       Scheduler!Submit, Scheduler!Begin, Scheduler!Finish, Scheduler!Retry,
       Scheduler!Abandon, schedulerVars
  <2>2. QED
    BY <1>fewer, <1>9, <2>1 DEF Run, Poll, TaskStep, ServeTask, SettleTask,
       ReportTask, ServiceStep, resourceVars
<1>10. QED
  BY <1>1, <1>2, <1>3, <1>4, <1>5, <1>6, <1>7, <1>8, <1>9 DEF Next

(* doShutdown drains a pool only if init() has made one. *)
LEMMA DrainsOnlyAPool ==
  ASSUME PlacesTypeOK, DrainsAPool, [Next]_vars
  PROVE  DrainsAPool'
<1> USE DEF DrainsAPool
<1>same. ASSUME pool' = pool \/ pool' # "none",
                shutdownPc' = shutdownPc \/ shutdownPc' # "draining"
         PROVE  DrainsAPool'
  BY <1>same
<1>1. CASE UNCHANGED vars
  BY <1>same, <1>1 DEF vars, resourceVars, shutdownVars
<1>2. CASE InitializationStep
  BY <1>same, <1>2 DEF InitializationStep, StartInit, Connected, NetworkCreated,
     PoolCreated, InitDone, InitFails, InitStep, resourceVars, shutdownVars
<1>3. CASE ShutdownStep
  <2>1. CASE Drain
    BY <2>1 DEF Drain, DoShutdown
  <2>2. CASE ~Drain
    BY <1>same, <1>3, <2>2 DEF ShutdownStep, ListenerThrows, EndService, Drained,
       Disconnected, ShutdownFails, Terminated, DoShutdown, resourceVars
  <2>3. QED
    BY <2>1, <2>2
<1>cancel. Cancel(<< >>) \/ HandleCriticalError =>
             shutdownPc' = shutdownPc \/ shutdownPc' = "emitting"
  BY DEF HandleCriticalError, Cancel, BeginShutdown
<1>4. CASE Signal \/ StartupTimeout \/ ServiceFails \/ ServiceReady
  BY <1>same, <1>cancel, <1>4 DEF Signal, StartupTimeout, ServiceFails, ServiceReady,
     ServiceStep, resourceVars, shutdownVars
<1>5. CASE \E c \in Callers : Shutdown(c) \/ ListenerShutsDown(c)
  BY <1>same, <1>5 DEF Shutdown, ListenerShutsDown, BeginShutdown, resourceVars
<1>6. CASE \E t \in Tasks : Run(t) \/ Poll(t) \/ TaskStep(t)
  BY <1>same, <1>6 DEF Run, Poll, TaskStep, ServeTask, SettleTask, ReportTask,
     ServiceStep, resourceVars, shutdownVars
<1>7. QED
  BY <1>1, <1>2, <1>3, <1>4, <1>5, <1>6 DEF Next

(* No shutdown begins before init() is over, if init() is awaited. *)
LEMMA ShutdownStaysAfterInit ==
  ASSUME isRunning \in BOOLEAN, InitIsAwaited \in BOOLEAN, ShutdownFollowsInit,
         LogStep
  PROVE  ShutdownFollowsInit'
BY DEF ShutdownFollowsInit, LogStep, SameShutdown, MovesOn, GetsReady, HitsError,
   GoesDown, Begun, IsDown

(* What is taken down stays down, and what is not taken down yet is taken  *)
(* down before doShutdown moves on.                                        *)
LEMMA StaysTakenDown ==
  ASSUME TypeOK, LogIsSound, LogStep, NothingBeforeInit,
         ~isRunning => InitSettled, TakenDown, [Next]_vars
  PROVE  TakenDown'
<1>type. /\ isRunning \in BOOLEAN /\ startupTimeoutId \in BOOLEAN
         /\ signalHandlers \in BOOLEAN
         /\ door \in {"shut", "open", "closed"}
  BY PartsOfType DEF PlacesTypeOK, Scheduler!TypeInvariant
<1>pc. ~InitSettled => shutdownPc = "idle"
  BY DEF LogIsSound, LogFollowsShutdown
<1>down. ~isRunning => ~isRunning'
  BY <1>type, NeverRunsAgain
<1>fewer. ASSUME UNCHANGED <<glm, pool, service, door>>,
                 startupTimeoutId' \in {startupTimeoutId, FALSE},
                 signalHandlers' \in {signalHandlers, FALSE},
                 shutdownPc' = shutdownPc \/ shutdownPc' \in {"emitting", "rejected"}
          PROVE  TakenDown'
  <2>1. PastListeners' => PastListeners
    BY <1>fewer DEF PastListeners
  <2>2. PastListeners' => /\ startupTimeoutId' = FALSE
                          /\ signalHandlers' = FALSE
                          /\ service # "none" => door = "closed"
    BY <1>type, <1>fewer, <2>1 DEF TakenDown
  <2>3. (pool = "drained" => ~isRunning /\ (service # "none" => door = "closed"))'
    BY <1>fewer, <1>down DEF TakenDown
  <2>4. /\ (shutdownPc \in {"drained", "disconnected", "resolved", "rejectedAfterEnd"} =>
              pool # "live")'
        /\ (shutdownPc \in {"disconnected", "resolved", "rejectedAfterEnd"} =>
              glm # "connected")'
    BY <1>fewer DEF TakenDown
  <2>5. QED
    BY <1>fewer, <2>2, <2>3, <2>4 DEF TakenDown
<1>1. CASE UNCHANGED vars
  BY <1>fewer, <1>1 DEF vars, resourceVars, schedulerVars, shutdownVars
<1>2. CASE InitializationStep
  <2>1. ~InitSettled
    BY <1>2 DEF InitializationStep, StartInit, Connected, NetworkCreated,
       PoolCreated, InitDone, InitFails, InitStep, InitSettled
  <2>2. shutdownPc' = "idle"
    BY <1>2, <1>pc, <2>1 DEF InitializationStep, StartInit, Connected,
       NetworkCreated, PoolCreated, InitDone, InitFails, InitStep, shutdownVars
  <2>3. pool # "drained"
    BY <2>1 DEF TakenDown
  <2>4. pool' # "drained"
    BY <1>2, <2>3 DEF InitializationStep, StartInit, Connected, NetworkCreated,
       PoolCreated, InitDone, InitFails, InitStep, resourceVars
  <2>5. QED
    BY <2>2, <2>4 DEF TakenDown, PastListeners
<1>3. CASE ShutdownStep
  <2>1. CASE EndService
    BY <2>1 DEF EndService, Scheduler!Close, schedulerVars, resourceVars, TakenDown,
       PastListeners
  <2>2. CASE Drain
    BY <2>2 DEF Drain, DoShutdown, schedulerVars, TakenDown, PastListeners
  <2>3. CASE Drained
    <3>1. ~isRunning'
      BY <1>down, <2>3 DEF Drained, DoShutdown, LogIsSound, LogFollowsShutdown
    <3>2. QED
      BY <2>3, <3>1 DEF Drained, DoShutdown, schedulerVars, TakenDown, PastListeners
  <2>4. CASE Disconnected
    BY <2>4 DEF Disconnected, DoShutdown, schedulerVars, TakenDown, PastListeners
  <2>5. CASE Terminated
    BY <2>5 DEF Terminated, DoShutdown, schedulerVars, TakenDown, PastListeners
  <2>6. CASE ListenerThrows \/ ShutdownFails
    BY <1>fewer, <2>6 DEF ListenerThrows, ShutdownFails, DoShutdown, resourceVars,
       schedulerVars
  <2>7. QED
    BY <1>3, <2>1, <2>2, <2>3, <2>4, <2>5, <2>6 DEF ShutdownStep
<1>cancel. Cancel(<< >>) \/ HandleCriticalError =>
             /\ signalHandlers' \in {signalHandlers, FALSE}
             /\ shutdownPc' = shutdownPc \/ shutdownPc' = "emitting"
  BY DEF HandleCriticalError, Cancel, BeginShutdown
<1>4. CASE Signal
  BY <1>fewer, <1>cancel, <1>4 DEF Signal, resourceVars, schedulerVars
<1>5. CASE StartupTimeout
  <2>1. /\ signalHandlers' \in {signalHandlers, FALSE}
        /\ shutdownPc' = shutdownPc \/ shutdownPc' = "emitting"
    BY <1>cancel, <1>5 DEF StartupTimeout
  <2>2. QED
    BY <1>fewer, <1>5, <2>1 DEF StartupTimeout, resourceVars, schedulerVars
<1>6. CASE ServiceFails
  <2>1. /\ service = "starting"
        /\ UNCHANGED <<glm, pool, startupTimeoutId, door>>
    BY <1>6 DEF ServiceFails, schedulerVars
  <2>2. /\ signalHandlers' \in {signalHandlers, FALSE}
        /\ shutdownPc' = shutdownPc \/ shutdownPc' = "emitting"
    BY <1>cancel, <1>6 DEF ServiceFails
  <2>3. PastListeners' =>
          PastListeners /\ startupTimeoutId' = FALSE /\ signalHandlers' = FALSE
    BY <1>type, <2>1, <2>2 DEF TakenDown, PastListeners
  <2>4. (pool = "drained" => ~isRunning /\ door = "closed")'
    BY <1>down, <2>1 DEF TakenDown
  <2>5. /\ (shutdownPc \in {"drained", "disconnected", "resolved", "rejectedAfterEnd"} =>
              pool # "live")'
        /\ (shutdownPc \in {"disconnected", "resolved", "rejectedAfterEnd"} =>
              glm # "connected")'
    BY <2>1, <2>2 DEF TakenDown
  <2>6. QED
    BY <2>1, <2>3, <2>4, <2>5 DEF TakenDown
<1>7. CASE ServiceReady
  BY <1>7 DEF ServiceReady, ServiceStep, Scheduler!Open, shutdownVars, schedulerVars,
     TakenDown, PastListeners
<1>8. ASSUME NEW c \in Callers, Shutdown(c) \/ ListenerShutsDown(c)
      PROVE  TakenDown'
  BY <1>fewer, <1>8 DEF Shutdown, ListenerShutsDown, BeginShutdown, resourceVars,
     schedulerVars
<1>9. ASSUME NEW t \in Tasks, Run(t) \/ Poll(t) \/ TaskStep(t)
      PROVE  TakenDown'
  <2>1. UNCHANGED door
    BY <1>9 DEF Run, Poll, TaskStep, ServeTask, SettleTask, ReportTask,
       Scheduler!Submit, Scheduler!Begin, Scheduler!Finish, Scheduler!Retry,
       Scheduler!Abandon, schedulerVars
  <2>2. QED
    BY <1>fewer, <1>9, <2>1 DEF Run, Poll, TaskStep, ServeTask, SettleTask,
       ReportTask, ServiceStep, resourceVars, shutdownVars
<1>10. QED
  BY <1>1, <1>2, <1>3, <1>4, <1>5, <1>6, <1>7, <1>8, <1>9 DEF Next

-----------------------------------------------------------------------------
(* The theorems.                                                           *)

(* IndInv holds initially. *)
LEMMA InitEstablishes == Init => IndInv
<1>1. SUFFICES ASSUME Init PROVE IndInv
  OBVIOUS
<1>2. TypeOK
  BY <1>1, InitIsTyped
<1>3. \A x : ~Contains(<< >>, x)
  BY DEF Contains
<1>4. LogFollowsShutdown /\ LogIsOrdered
  BY <1>1, <1>3 DEF Init, LogFollowsShutdown, Ended, LogIsOrdered, EachEventOnce,
     InOrder
<1>5. /\ NothingBeforeInit /\ DrainsAPool /\ ShutdownFollowsInit
      /\ TakenDown
  BY <1>1 DEF Init, Scheduler!Init, NothingBeforeInit, DrainsAPool,
     ShutdownFollowsInit, TakenDown, PastListeners
<1>6. TasksHaveCallers /\ RunIsFaithful /\ ShutdownMeansDown
  BY <1>1 DEF Init, Scheduler!Init, TasksHaveCallers, RunIsFaithful,
     ShutdownMeansDown
<1>7. QED
  BY <1>2, <1>4, <1>5, <1>6 DEF IndInv, InitPrecedesShutdown

(* Each step preserves IndInv. *)
LEMMA EachStepPreserves == IndInv /\ [Next]_vars => IndInv'
<1>1. SUFFICES ASSUME IndInv, [Next]_vars PROVE IndInv'
  OBVIOUS
<1>2. /\ TypeOK /\ PlacesTypeOK /\ LogIsSound
      /\ LogFollowsShutdown /\ NothingBeforeInit /\ DrainsAPool
      /\ ShutdownFollowsInit
      /\ isRunning \in BOOLEAN /\ InitIsAwaited \in BOOLEAN
  BY <1>1, PartsOfType, ExecutorAssumption DEF IndInv, InitPrecedesShutdown,
     LogIsSound, PlacesTypeOK
<1>3. LogStep
  BY <1>1, <1>2, EachStepLogs
<1>4. LogIsSound'
  BY <1>2, <1>3, LogStaysSound
<1>5. LogFollowsShutdown' /\ LogIsOrdered'
  BY <1>4 DEF LogIsSound
<1>6. TypeOK'
  BY <1>1, <1>2, <1>4, TypeStays
<1>7. TasksHaveCallers' /\ RunIsFaithful'
  BY <1>1, <1>2, <1>3, RunStaysFaithful DEF IndInv
<1>8. NothingBeforeInit' /\ DrainsAPool' /\ ShutdownFollowsInit'
  BY <1>1, <1>2, <1>3, NothingStaysBeforeInit, DrainsOnlyAPool,
     ShutdownStaysAfterInit DEF LogIsSound
<1>9. InitIsAwaited => TakenDown'
  <2>1. SUFFICES ASSUME InitIsAwaited PROVE TakenDown'
    OBVIOUS
  <2>2. TakenDown /\ (~isRunning => InitSettled)
    BY <1>1, <1>2, <2>1 DEF IndInv, InitPrecedesShutdown, ShutdownFollowsInit
  <2>3. QED
    BY <1>1, <1>2, <1>3, <2>2, StaysTakenDown
<1>10. "shutdown" \notin Listeners => ShutdownMeansDown'
  BY <1>1, <1>2, <1>3, <1>5, ShutdownStaysTrue DEF IndInv
<1>11. QED
  BY <1>5, <1>6, <1>7, <1>8, <1>9, <1>10 DEF IndInv, InitPrecedesShutdown

(* IndInv holds in every reachable state of the executor, whoever calls *)
(* shutdown() and whatever fails or throws.                             *)
THEOREM Invariance == Spec => []IndInv
BY InitEstablishes, EachStepPreserves, PTL DEF Spec

(* Every variable of the executor keeps its type.                          *)
THEOREM TypeCorrectness == Spec => []TypeOK
<1>1. IndInv => TypeOK
  BY DEF IndInv
<1>2. QED
  BY <1>1, Invariance, PTL

(* run() never resolves with anything but the results of a task that is    *)
(* done, nor rejects with anything but the error of one that is rejected,  *)
(* whether or not init() is awaited and whatever the listeners do.         *)
THEOREM RunCorrectness == Spec => []RunIsFaithful
<1>1. IndInv => RunIsFaithful
  BY DEF IndInv
<1>2. QED
  BY <1>1, Invariance, PTL

(* For a user who waits for init(), the executor goes down once and in     *)
(* order, however many calls, signals and critical errors race.            *)
THEOREM GoesDownOnceWhenAwaited ==
  ASSUME InitIsAwaited
  PROVE  Spec => []GoesDownOnce
<1>1. IndInv => GoesDownOnce
  BY DEF IndInv, InitPrecedesShutdown, LogFollowsShutdown, LogIsOrdered,
     EachEventOnce, InOrder, GoesDownOnce
<1>2. QED
  BY <1>1, Invariance, PTL

(* ... and timer, signal handlers, service, pool and connection are down   *)
(* when "executorEnd" is emitted (the VPN network is not among them).      *)
THEOREM TerminationIsClean ==
  ASSUME InitIsAwaited
  PROVE  Spec => []CleanTermination
<1>1. IndInv => CleanTermination
  <2>1. SUFFICES ASSUME IndInv, Ended PROVE CleanTermination
    BY DEF CleanTermination
  <2>2. shutdownPc \in {"resolved", "rejectedAfterEnd"}
    BY <2>1 DEF IndInv, InitPrecedesShutdown, LogFollowsShutdown
  <2>3. TakenDown /\ NothingBeforeInit
    BY <2>1 DEF IndInv, InitPrecedesShutdown
  <2>4. ~startupTimeoutId /\ ~signalHandlers
    BY <2>2, <2>3 DEF TakenDown, PastListeners
  <2>5. door # "open" /\ pool # "live" /\ glm # "connected"
    BY <2>2, <2>3 DEF TakenDown, PastListeners, NothingBeforeInit
  <2>6. QED
    BY <2>4, <2>5 DEF CleanTermination
<1>2. QED
  BY <1>1, Invariance, PTL

(* Only the end of init() arms the startup timer, installs signal handlers *)
(* or makes a service.                                                     *)
LEMMA OnlyInitStarts ==
  ASSUME PlacesTypeOK, [Next]_vars, init # "subscribing"
  PROVE  /\ startupTimeoutId' => startupTimeoutId
         /\ signalHandlers' => signalHandlers
         /\ service = "none" => service' = "none"
<1> DEFINE Stays == /\ startupTimeoutId' \in {startupTimeoutId, FALSE}
                    /\ signalHandlers' \in {signalHandlers, FALSE}
                    /\ service' = service \/ service # "none"
<1>cancel. Cancel(<< >>) \/ HandleCriticalError =>
             signalHandlers' \in {signalHandlers, FALSE}
  BY DEF HandleCriticalError, Cancel
<1>0. SUFFICES Stays
  <2>1. startupTimeoutId \in BOOLEAN /\ signalHandlers \in BOOLEAN
    BY DEF PlacesTypeOK
  <2>2. \A x \in BOOLEAN : \A y \in {x, FALSE} : y => x
    OBVIOUS
  <2>3. QED
    BY <1>0, <2>1, <2>2
<1>1. CASE UNCHANGED vars
  BY <1>1 DEF vars, resourceVars
<1>2. CASE InitializationStep
  BY <1>2 DEF InitializationStep, StartInit, Connected, NetworkCreated,
     PoolCreated, InitDone, InitFails, resourceVars
<1>3. CASE ShutdownStep
  BY <1>3 DEF ShutdownStep, ListenerThrows, EndService, Drain, Drained,
     Disconnected, ShutdownFails, Terminated, DoShutdown, resourceVars
<1>4. CASE Signal \/ StartupTimeout \/ ServiceFails \/ ServiceReady
  BY <1>4, <1>cancel DEF Signal, StartupTimeout, ServiceFails, ServiceReady,
     ServiceStep, resourceVars
<1>5. CASE \E c \in Callers : Shutdown(c) \/ ListenerShutsDown(c)
  BY <1>5 DEF Shutdown, ListenerShutsDown, resourceVars
<1>6. CASE \E t \in Tasks : Run(t) \/ Poll(t) \/ TaskStep(t)
  BY <1>6 DEF Run, Poll, TaskStep, ServeTask, SettleTask, ReportTask, ServiceStep,
     resourceVars
<1>7. QED
  BY <1>1, <1>2, <1>3, <1>4, <1>5, <1>6 DEF Next

(* ... and stays down: what shutdown() during init() can bring about, the  *)
(* executor does not do to a user who waits for init().                    *)
THEOREM StaysDownWhenAwaited ==
  ASSUME InitIsAwaited
  PROVE  Spec => StaysDown
<1>1. ASSUME IndInv, [Next]_vars, Ended
      PROVE  /\ startupTimeoutId' => startupTimeoutId
             /\ signalHandlers' => signalHandlers
             /\ service = "none" => service' = "none"
  <2>1. ~isRunning
    BY <1>1 DEF IndInv, InitPrecedesShutdown, LogFollowsShutdown
  <2>2. init # "subscribing"
    BY <1>1, <2>1 DEF IndInv, InitPrecedesShutdown, ShutdownFollowsInit, InitSettled
  <2>3. QED
    BY <1>1, <2>2, PartsOfType, OnlyInitStarts DEF IndInv
<1>2. IndInv /\ [Next]_vars =>
        [Ended =>
           /\ startupTimeoutId' => startupTimeoutId
           /\ signalHandlers' => signalHandlers
           /\ service = "none" => service' = "none"]_vars
  BY <1>1
<1>3. QED
  BY <1>2, Invariance, PTL DEF Spec, StaysDown

(* ... and no task is begun once the pool is drained.                      *)
THEOREM TasksBeginOnALivePool ==
  ASSUME InitIsAwaited
  PROVE  Spec => NoTaskBegunOnDrainedPool
<1>1. ASSUME IndInv, [Next]_vars, NEW t \in Tasks,
             phase[t] = "waiting", phase'[t] = "active"
      PROVE  pool = "live"
  <2>1. phase \in [Tasks -> Scheduler!Phases] /\ pool \in {"none", "live", "drained"}
    BY <1>1, PartsOfType DEF IndInv, PlacesTypeOK, Scheduler!TypeInvariant
  <2>2. SchedulerStep
    BY <1>1, EachStepSchedules
  <2>3. \E u \in Tasks : Scheduler!Begin(u)
    BY <1>1, <2>1, <2>2 DEF SchedulerStep, Scheduler!Open, Scheduler!Close,
       Scheduler!Submit, Scheduler!Begin, Scheduler!Finish, Scheduler!Retry,
       Scheduler!Abandon, Scheduler!Move, schedulerVars
  <2>4. door = "open"
    BY <2>3 DEF Scheduler!Begin
  <2>5. QED
    BY <1>1, <2>1, <2>4 DEF IndInv, InitPrecedesShutdown, TakenDown,
       NothingBeforeInit
<1>2. IndInv /\ [Next]_vars =>
        [\A t \in Tasks :
           phase[t] = "waiting" /\ phase'[t] = "active" => pool = "live"]_vars
  BY <1>1
<1>3. QED
  BY <1>2, Invariance, PTL DEF Spec, NoTaskBegunOnDrainedPool

(* A call of shutdown() resolves only when the executor is shut down, but  *)
(* for one that a listener of "executorBeforeEnd" makes.                   *)
THEOREM ShutdownIsComplete ==
  ASSUME "shutdown" \notin Listeners
  PROVE  Spec => []ShutdownMeansDown
<1>1. IndInv => ShutdownMeansDown
  BY DEF IndInv
<1>2. QED
  BY <1>1, Invariance, PTL

-----------------------------------------------------------------------------
(* What the liveness properties rest on, when it comes to calls that wait. *)

(* A step that leaves the executor running neither cancels it nor emits a  *)
(* critical error, unless a listener of that event throws.                 *)
LEMMA RunningIsUndisturbed ==
  ASSUME IndInv, CanceledIsDown, "throwCritical" \notin Listeners, [Next]_vars,
         isRunning'
  PROVE  UNCHANGED isCanceled /\ log' \in {log, Append(log, "executorReady")}
<1>down. isRunning
  <2>1. LogStep /\ isRunning \in BOOLEAN
    BY EachStepLogs, PartsOfType DEF IndInv, InitPrecedesShutdown, PlacesTypeOK
  <2>2. QED
    BY <2>1, NeverRunsAgain
<1>cancel. ASSUME NEW events, Cancel(events)
           PROVE  FALSE
  BY <1>down, <1>cancel DEF Cancel, CanceledIsDown, BeginShutdown
<1>1. CASE UNCHANGED vars
  BY <1>1 DEF vars, shutdownVars
<1>2. CASE InitializationStep
  BY <1>2 DEF InitializationStep, StartInit, Connected, NetworkCreated,
     PoolCreated, InitDone, InitFails, InitStep, shutdownVars
<1>3. CASE ShutdownStep
  <2>1. shutdownPc # "idle"
    BY <1>3 DEF ShutdownStep, ListenerThrows, EndService, Drain, Drained,
       Disconnected, ShutdownFails, Terminated, DoShutdown
  <2>2. QED
    BY <1>down, <2>1 DEF IndInv, InitPrecedesShutdown, LogFollowsShutdown
<1>4. CASE Signal \/ StartupTimeout \/ ServiceFails \/ ServiceReady
  BY <1>4, <1>cancel DEF Signal, StartupTimeout, ServiceFails, HandleCriticalError,
     ServiceReady, ServiceStep, shutdownVars
<1>5. CASE \E c \in Callers : Shutdown(c) \/ ListenerShutsDown(c)
  BY <1>5, <1>down DEF Shutdown, ListenerShutsDown, BeginShutdown
<1>6. CASE \E t \in Tasks : Run(t) \/ Poll(t) \/ TaskStep(t)
  BY <1>6 DEF Run, Poll, TaskStep, ServeTask, SettleTask, ReportTask, ServiceStep,
     shutdownVars
<1>7. QED
  BY <1>1, <1>2, <1>3, <1>4, <1>5, <1>6 DEF Next

(* An executor that has met a critical error has begun to shut down, so    *)
(* every poll of run() is to give up, although cancel() returns at once if *)
(* it was called before (executor.ts:374-396, 412-422).  The heart of      *)
(* CriticalErrorStopsAll.                                                  *)
THEOREM CriticalErrorsShutDown == Spec => []CriticalErrorIsHeeded
<1> DEFINE Inv == "throwCritical" \notin Listeners =>
                    CanceledIsDown /\ CriticalErrorIsHeeded
<1>1. Init => Inv
  BY DEF Init, CanceledIsDown, CriticalErrorIsHeeded, Contains
<1>2. IndInv /\ Inv /\ [Next]_vars => Inv'
  <2>1. SUFFICES ASSUME IndInv, Inv, [Next]_vars, "throwCritical" \notin Listeners,
                        isRunning'
                 PROVE  ~isCanceled' /\ ~Contains(log', "criticalError")
    BY DEF CanceledIsDown, CriticalErrorIsHeeded
  <2>2. LogStep /\ isRunning \in BOOLEAN /\ log \in Seq(Events)
    BY <2>1, EachStepLogs, PartsOfType
       DEF IndInv, InitPrecedesShutdown, PlacesTypeOK
  <2>3. ~isCanceled /\ ~Contains(log, "criticalError")
    BY <2>1, <2>2, NeverRunsAgain DEF CanceledIsDown, CriticalErrorIsHeeded
  <2>4. UNCHANGED isCanceled /\ log' \in {log, Append(log, "executorReady")}
    BY <2>1, RunningIsUndisturbed
  <2>5. ~Contains(Append(log, "executorReady"), "criticalError")
    <3>1. "executorReady" \in Events
      BY DEF Events
    <3>2. QED
      BY <2>2, <2>3, <3>1, OneMoreEvent
  <2>6. log' = log \/ log' = Append(log, "executorReady")
    BY <2>4
  <2>7. QED
    BY <2>3, <2>4, <2>5, <2>6
<1>3. Inv => CriticalErrorIsHeeded
  BY DEF CriticalErrorIsHeeded
<1> HIDE DEF Inv
<1>4. QED
  BY <1>1, <1>2, <1>3, Invariance, PTL DEF Spec

(* A call that waits goes on waiting only while the shutdown is under way. *)
LEMMA WaitingStaysJustified ==
  ASSUME IndInv, NobodyWaitsInVain, [Next]_vars
  PROVE  NobodyWaitsInVain'
<1> DEFINE Places == {"emitting", "ending", "draining", "drained", "disconnected"}
<1>type. /\ LogStep
         /\ LogFollowsShutdown
         /\ shutdownCall \in [Callers -> {"idle", "waiting", "resolved", "rejected"}]
         /\ shutdownPc \in Places \cup {"idle", "resolved", "rejected",
                                        "rejectedAfterEnd"}
  BY EachStepLogs, PartsOfType
     DEF IndInv, InitPrecedesShutdown, PlacesTypeOK, CallsTypeOK
<1> USE DEF NobodyWaitsInVain
<1>same. ASSUME UNCHANGED shutdownCall, shutdownPc \in Places => shutdownPc' \in Places
         PROVE  NobodyWaitsInVain'
  BY <1>same
<1>1. CASE UNCHANGED vars
  BY <1>same, <1>1 DEF vars, shutdownVars
<1>2. CASE InitializationStep
  BY <1>same, <1>2 DEF InitializationStep, StartInit, Connected, NetworkCreated,
     PoolCreated, InitDone, InitFails, InitStep, shutdownVars
<1>3. CASE ShutdownStep
  <2>1. CASE ListenerThrows \/ ShutdownFails \/ Terminated
    BY <2>1 DEF ListenerThrows, ShutdownFails, Terminated, SettleCalls
  <2>2. CASE EndService \/ Drain \/ Drained \/ Disconnected
    BY <1>same, <2>2 DEF EndService, Drain, Drained, Disconnected, DoShutdown
  <2>3. QED
    BY <1>3, <2>1, <2>2 DEF ShutdownStep
<1>4. CASE Signal \/ StartupTimeout \/ ServiceFails \/ ServiceReady
  BY <1>same, <1>4 DEF Signal, StartupTimeout, ServiceFails, ServiceReady,
     ServiceStep, shutdownVars, HandleCriticalError, Cancel, BeginShutdown
<1>5. ASSUME NEW c \in Callers, Shutdown(c) \/ ListenerShutsDown(c)
      PROVE  NobodyWaitsInVain'
  <2>1. CASE Shutdown(c) /\ isRunning
    BY <2>1 DEF Shutdown, BeginShutdown
  <2>2. CASE Shutdown(c) /\ ~isRunning
    <3>1. shutdownPc \in Places \cup {"resolved", "rejected", "rejectedAfterEnd"}
      BY <1>type, <2>2 DEF LogFollowsShutdown
    <3>2. LaterCall = "waiting" => shutdownPc \in Places
      BY <3>1 DEF LaterCall
    <3>3. /\ shutdownCall' = [shutdownCall EXCEPT ![c] = LaterCall]
          /\ UNCHANGED shutdownPc
      BY <2>2 DEF Shutdown, BeginShutdown
    <3>4. QED
      BY <1>type, <3>2, <3>3
  <2>3. CASE ListenerShutsDown(c)
    BY <2>3 DEF ListenerShutsDown
  <2>4. QED
    BY <1>5, <2>1, <2>2, <2>3
<1>6. CASE \E t \in Tasks : Run(t) \/ Poll(t) \/ TaskStep(t)
  BY <1>same, <1>6 DEF Run, Poll, TaskStep, ServeTask, SettleTask, ReportTask,
     ServiceStep, shutdownVars
<1>7. QED
  BY <1>1, <1>2, <1>3, <1>4, <1>5, <1>6 DEF Next

(* Nobody waits for a shutdown that is over or was never begun, however    *)
(* many calls race, whichever step fails and whatever listeners do         *)
(* (executor.ts:286-296).  The heart of EveryCallSettles.                  *)
THEOREM WaitingIsJustified == Spec => []NobodyWaitsInVain
<1>1. Init => NobodyWaitsInVain
  BY DEF Init, NobodyWaitsInVain
<1>2. IndInv /\ NobodyWaitsInVain /\ [Next]_vars => NobodyWaitsInVain'
  BY WaitingStaysJustified
<1>3. QED
  BY <1>1, <1>2, Invariance, PTL DEF Spec

(* To the queue and the service, an executor is a scheduler: whatever      *)
(* TaskScheduler forbids, no interleaving of init(), run(), shutdown(),    *)
(* signals and critical errors can bring about.                            *)
THEOREM ExecutorIsAScheduler == Spec => Scheduler!Spec
<1>1. Init => Scheduler!Init
  BY DEF Init
<1>2. [Next]_vars => [Scheduler!Next]_(Scheduler!svars)
  BY EachStepSchedules DEF SchedulerStep, Scheduler!Next, Scheduler!svars, schedulerVars
<1>3. QED
  BY <1>1, <1>2, PTL DEF Spec, Scheduler!Spec

-----------------------------------------------------------------------------
(* What the two constructors guarantee to the modules that take the        *)
(* options as constants.                                                   *)

(* An option has the value the user gave it, or else the default.          *)
LEMMA OptionalValue ==
  ASSUME NEW S, NEW option \in Optional(S), NEW default \in S
  PROVE  /\ Or(option, default) \in S
         /\ \A v \in option : Or(option, default) = v
         /\ option = {} => Or(option, default) = default
  BY DEF Optional, Or

(* An accepted configuration has the types TaskExecutor and TaskService    *)
(* rely on; in particular a number of retries that is not negative         *)
(* (config.ts:43), and a value for every flag that was left out.           *)
THEOREM ConfigIsSound ==
  ASSUME NEW given \in ExecutorOptions(Int), ~ConfigIsRefused(given)
  PROVE  Config(given) \in
           [maxParallelTasks : Int, taskRetryOnTimeout : BOOLEAN,
            maxTaskRetries : Nat, taskTimeout : Optional(Int),
            taskStartupTimeout : Optional(Int), startupTimeout : Optional(Int),
            skipProcessSignals : BOOLEAN, vpn : BOOLEAN]
<1>1. /\ given.maxParallelTasks \in Optional(Int)
      /\ given.maxTaskRetries \in Optional(Int)
      /\ given.taskTimeout \in Optional(Int)
      /\ given.taskStartupTimeout \in Optional(Int)
      /\ given.startupTimeout \in Optional(Int)
  BY DEF ExecutorOptions
<1>2. /\ given.taskRetryOnTimeout \in Optional(BOOLEAN)
      /\ given.vpn \in Optional(BOOLEAN)
      /\ given.skipProcessSignals \in Optional(BOOLEAN)
  BY DEF ExecutorOptions
<1>3. /\ DEFAULTS.maxParallelTasks = 5
      /\ DEFAULTS.maxTaskRetries = 3
      /\ DEFAULTS.taskRetryOnTimeout = FALSE
      /\ DEFAULTS.vpn = FALSE
      /\ DEFAULTS.skipProcessSignals = FALSE
  BY DEF DEFAULTS
<1>4. Or(given.maxParallelTasks, DEFAULTS.maxParallelTasks) \in Int
  BY <1>1, <1>3, OptionalValue
<1>5. Or(given.maxTaskRetries, DEFAULTS.maxTaskRetries) \in Nat
  <2>1. Or(given.maxTaskRetries, 3) \in Int
    BY <1>1, OptionalValue
  <2>2. CASE given.maxTaskRetries = {}
    BY <1>1, <1>3, <2>2, OptionalValue
  <2>3. CASE given.maxTaskRetries # {}
    <3>1. PICK n \in Int : given.maxTaskRetries = {n}
      BY <1>1, <2>3 DEF Optional
    <3>2. n >= 0
      BY <3>1 DEF ConfigIsRefused
    <3>3. Or(given.maxTaskRetries, 3) = n
      BY <1>1, <3>1, OptionalValue
    <3> QED
      BY <1>3, <3>2, <3>3
  <2> QED
    BY <2>2, <2>3
<1>6. Or(given.taskRetryOnTimeout, DEFAULTS.taskRetryOnTimeout) \in BOOLEAN
  BY <1>2, <1>3, OptionalValue
<1>7. Or(given.vpn, DEFAULTS.vpn) \in BOOLEAN
  BY <1>2, <1>3, OptionalValue
<1>8. Or(given.skipProcessSignals, DEFAULTS.skipProcessSignals) \in BOOLEAN
  BY <1>2, <1>3, OptionalValue
<1> QED
  BY <1>1, <1>4, <1>5, <1>6, <1>7, <1>8 DEF Config

(* A task that is not refused satisfies the assumption of the module Task, *)
(* and it retries timeouts, times out and starts up under the option of    *)
(* its run(), if there is one, else under the option of the executor.      *)
THEOREM TaskOptionsAreSound ==
  ASSUME NEW given \in ExecutorOptions(Int), ~ConfigIsRefused(given),
         NEW run \in RunOptions(Int)
  PROVE  LET task == TaskOptions(Config(given), run) IN
           /\ run.maxRetries = {} => ~TaskIsRefused(task)
           /\ ~TaskIsRefused(task) => task.maxRetries \in Nat
           /\ task.retryOnTimeout \in BOOLEAN
           /\ task.timeout \in Optional(Int)
           /\ task.startupTimeout \in Optional(Int)
           /\ run.timeout # {} => task.timeout = run.timeout
           /\ run.maxRetries # {} => run.maxRetries = {task.maxRetries}
<1> DEFINE config == Config(given)
           task == TaskOptions(config, run)
<1>1. /\ config.maxTaskRetries \in Nat
      /\ config.taskRetryOnTimeout \in BOOLEAN
      /\ config.taskTimeout \in Optional(Int)
      /\ config.taskStartupTimeout \in Optional(Int)
  BY ConfigIsSound
<1>2. /\ run.maxRetries \in Optional(Int)
      /\ run.timeout \in Optional(Int)
      /\ run.startupTimeout \in Optional(Int)
      /\ run.retryOnTimeout \in Optional(BOOLEAN)
  BY DEF RunOptions
<1> HIDE DEF config
<1>3. /\ task.maxRetries = Or(run.maxRetries, config.maxTaskRetries)
      /\ task.timeout = OrOption(run.timeout, config.taskTimeout)
      /\ task.startupTimeout = OrOption(run.startupTimeout,
                                        config.taskStartupTimeout)
      /\ task.retryOnTimeout = Or(run.retryOnTimeout, config.taskRetryOnTimeout)
  BY DEF TaskOptions
<1> HIDE DEF task
<1>4. task.retryOnTimeout \in BOOLEAN
  BY <1>1, <1>2, <1>3, OptionalValue
<1>5. /\ task.timeout \in Optional(Int)
      /\ task.startupTimeout \in Optional(Int)
      /\ run.timeout # {} => task.timeout = run.timeout
  BY <1>1, <1>2, <1>3 DEF OrOption
<1>6. /\ task.maxRetries \in Int
      /\ run.maxRetries = {} => task.maxRetries = config.maxTaskRetries
      /\ run.maxRetries # {} => run.maxRetries = {task.maxRetries}
  <2>1. config.maxTaskRetries \in Int
    BY <1>1
  <2>2. /\ task.maxRetries \in Int
        /\ \A v \in run.maxRetries : task.maxRetries = v
        /\ run.maxRetries = {} => task.maxRetries = config.maxTaskRetries
    BY <1>2, <1>3, <2>1, OptionalValue
  <2>3. run.maxRetries # {} => run.maxRetries = {task.maxRetries}
    BY <1>2, <2>2 DEF Optional
  <2> QED
    BY <2>2, <2>3
<1>7. /\ run.maxRetries = {} => ~TaskIsRefused(task)
      /\ ~TaskIsRefused(task) => task.maxRetries \in Nat
  BY <1>1, <1>6 DEF TaskIsRefused
<1> QED
  BY <1>4, <1>5, <1>6, <1>7 DEF config, task
=============================================================================
