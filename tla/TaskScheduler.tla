---------------------------- MODULE TaskScheduler ----------------------------
(***************************************************************************)
(* What the queue and the task service promise to the caller of            *)
(* TaskExecutor.run, without timers, attempts, listeners or rentals:       *)
(*                                                                         *)
(*   - tasks are taken in the order they were submitted, a retried one     *)
(*     before all others, and at most MaxParallelTasks are active;         *)
(*   - an active task completes, fails or is retried, the last at most     *)
(*     MaxRetries times; it is given up only once the scheduler is closed, *)
(*     unless retries may fail;                                            *)
(*   - while the scheduler is open, no task waits beside a free slot and   *)
(*     no task is active for ever.                                         *)
(***************************************************************************)
EXTENDS Integers, Sequences, FiniteSets

CONSTANTS
  Tasks,
  MaxRetries,         \* how often each task may be retried
  MaxParallelTasks,
  MayLoseTasks        \* may a retry fail, and the task be lost?

VARIABLES
  phase,              \* where each task is
  line,               \* the waiting tasks, in the order they will be taken
  tries,              \* how often each task has been retried
  door                \* "shut" before the service is ready, then "open",
                      \* then "closed"

svars == <<phase, line, tries, door>>

Phases == {"absent", "waiting", "active", "completed", "failed", "abandoned"}

Active == {t \in Tasks : phase[t] = "active"}

TypeInvariant ==
  /\ phase \in [Tasks -> Phases]
  /\ line \in Seq(Tasks)
  /\ tries \in [Tasks -> Nat]
  /\ door \in {"shut", "open", "closed"}

Init ==
  /\ phase = [t \in Tasks |-> "absent"]
  /\ line = << >>
  /\ tries = [t \in Tasks |-> 0]
  /\ door = "shut"

Move(t, from, to) ==
  /\ phase[t] = from
  /\ phase' = [phase EXCEPT ![t] = to]

Submit(t) ==
  /\ Move(t, "absent", "waiting")
  /\ line' = Append(line, t)
  /\ UNCHANGED <<tries, door>>

Begin(t) ==
  /\ door = "open"
  /\ line # << >>
  /\ t = Head(line)
  /\ Cardinality(Active) < MaxParallelTasks
  /\ Move(t, "waiting", "active")
  /\ line' = Tail(line)
  /\ UNCHANGED <<tries, door>>

Finish(t) ==
  /\ \E outcome \in {"completed", "failed"} : Move(t, "active", outcome)
  /\ UNCHANGED <<line, tries, door>>

Retry(t) ==
  /\ tries[t] < MaxRetries[t]
  /\ Move(t, "active", "waiting")
  /\ tries' = [tries EXCEPT ![t] = @ + 1]
  /\ line' = <<t>> \o line
  /\ UNCHANGED door

Abandon(t) ==
  /\ door = "closed" \/ MayLoseTasks
  /\ Move(t, "active", "abandoned")
  /\ UNCHANGED <<line, tries, door>>

Open ==
  /\ door = "shut"
  /\ door' = "open"
  /\ UNCHANGED <<phase, line, tries>>

Close ==
  /\ door' = "closed"
  /\ UNCHANGED <<phase, line, tries>>

Next ==
  \/ Open \/ Close
  \/ \E t \in Tasks :
       Submit(t) \/ Begin(t) \/ Finish(t) \/ Retry(t) \/ Abandon(t)

Spec == Init /\ [][Next]_svars

FairSpec ==
  /\ Spec
  /\ \A t \in Tasks :
       /\ WF_svars(Begin(t))
       /\ WF_svars(Finish(t) \/ Retry(t) \/ Abandon(t))
=============================================================================
