------------------------ MODULE TaskServiceInductive ------------------------
(***************************************************************************)
(* The inductive invariant of TaskService: what ties the state of a task   *)
(* to its listeners, its handler, the queue, the count and its attempts.   *)
(***************************************************************************)
EXTENDS TaskServiceProperties

Served == {t \in Tasks : InService(t)}

RetriesAreBounded ==
  \A t \in Tasks :
    /\ retriesCount[t] <= MaxRetries[t]
    /\ state[t] = "retry" => retriesCount[t] > 0

(* A task in the service has the closures of its current attempt; any      *)
(* other has none, but for one that failed after the service had ended.    *)
ListenersFollowState ==
  \A t \in Tasks :
    /\ state[t] \in {"queued", "pending"} => listeners[t] = {Current(t)}
    /\ state[t] \in {"absent", "new", "done", "rejected"} => listeners[t] = {}
    /\ state[t] = "retry" =>
         \/ listeners[t] = {}
         \/ aborted /\ listeners[t] = {<<t, retriesCount[t]>>}

(* A handler under way belongs to the attempt its task has just left.      *)
HandlersFollowState ==
  \A a \in Attempts :
    /\ handler[a] = "retrying" =>
         /\ state[a[1]] = "retry"
         /\ a[2] = retriesCount[a[1]]
         /\ listeners[a[1]] = {}
         /\ ~Has(a[1])
    /\ handler[a] = "stopping" =>
         /\ IsFinished(a[1])
         /\ a[2] = retriesCount[a[1]] + 1

QueueFollowsState ==
  /\ IsInjective(itemsStack)
  /\ \A t \in Range(itemsStack) : IsQueueable(t) /\ listeners[t] = {}

(* An attempt that has begun is not ahead of its task.                     *)
AttemptsFollowTask ==
  \A a \in Attempts :
    pc[a] # "idle" =>
      /\ state[a[1]] \notin {"absent", "new"}
      /\ a[2] <= retriesCount[a[1]] + 1
      /\ state[a[1]] = "retry" => a[2] <= retriesCount[a[1]]

CoreInv ==
  /\ RetriesAreBounded
  /\ ListenersFollowState
  /\ HandlersFollowState
  /\ QueueFollowsState
  /\ NoTaskIsLost
  /\ TimersFollowState
  /\ IsFiniteSet(Served)
  /\ ActiveCountIsExact

(* The inductive invariant: TypeOK, QueueIsSound, NoTaskIsLost,            *)
(* TimersFollowState, ActiveCountIsExact and NoStaleAttempt follow from it.*)
IndInv == TypeOK /\ CoreInv /\ AttemptsFollowTask /\ NoStaleAttempt

-----------------------------------------------------------------------------
(* Who has which rental.                                                   *)

(* The function of an attempt is called when it starts to run, and a       *)
(* rental comes before that.                                               *)
AttemptsBeginInOrder ==
  \A a \in Attempts :
    /\ a \in invoked => pc[a] \in {"running", "ended"}
    /\ pc[a] = "running" => a \in invoked
    /\ pc[a] \in {"idle", "acquiring"} => rental[a] = NoRental

(* A borrowed rental belongs to the attempt its task is pending on, unless *)
(* that attempt was never started or the service has ended.                *)
BorrowedByStarted ==
  \A r \in Rentals :
    pool[r] = "borrowed" =>
      \E a \in Attempts :
        /\ rental[a] = r
        /\ \/ a \notin invoked \/ aborted
           \/ /\ pc[a] = "running"
              /\ state[a[1]] = "pending"
              /\ resourceRental[a[1]] = r

Holds(a) == pc[a] \in {"deploying", "running"}

(* The rental of an earlier attempt, if there was one, has been destroyed. *)
HasNone(t) ==
  resourceRental[t] = NoRental \/ pool[resourceRental[t]] = "destroyed"

(* If timeouts are final, no two attempts hold the same rental, and a task *)
(* has the rental of its running attempt or none that is still in use.     *)
HoldersAreAlone ==
  /\ \A a \in Attempts : Holds(a) => rental[a] \in Rentals
  /\ \A a, b \in Attempts :
       Holds(a) /\ Holds(b) /\ rental[a] = rental[b] => a = b
  /\ \A a \in Attempts : pc[a] = "deploying" => pool[rental[a]] = "borrowed"
  /\ \A a \in Attempts : pc[a] = "running" =>
       \/ /\ state[a[1]] = "pending"
          /\ resourceRental[a[1]] = rental[a]
          /\ pool[rental[a]] = "borrowed"
       \/ state[a[1]] = "rejected" /\ pool[rental[a]] = "destroyed"
  /\ \A t \in Tasks :
       /\ state[t] = "pending" => pc[Current(t)] = "running"
       /\ state[t] \in {"absent", "new", "queued"} => HasNone(t)
       /\ state[t] = "retry" /\ listeners[t] = {} => HasNone(t)

TimeoutsAreFinal == \A t \in Tasks : ~RetryOnTimeout[t]

(* With IndInv, inductive where the pool never rejects; RentalIsExclusive  *)
(* and OnlyUnstartedAttemptsLeak follow.                                   *)
RentalInv ==
  /\ AttemptsBeginInOrder /\ BorrowedByStarted
  /\ TimeoutsAreFinal => HoldersAreAlone

(* The attempt of a task whose function no timer cuts short is the only    *)
(* one, and its task stays in the service as long as the function runs.    *)
FunctionsKeepSlots ==
  \A a \in Attempts : Live(a) /\ ~MayBeCutShort(a[1]) =>
    /\ a = Current(a[1])
    /\ pc[a] = "running" => state[a[1]] = "pending"

(* A task that does not retry its timeouts has the rental of the attempt   *)
(* that runs it, and of the one that completed it.                         *)
FunctionsRunOnTheirRental ==
  \A t \in Tasks : ~RetryOnTimeout[t] =>
    /\ \A a \in AttemptsOf(t) : pc[a] = "running" => resourceRental[t] = rental[a]
    /\ state[t] = "done" /\ results[t] # 0 =>
         /\ <<t, results[t]>> \in Attempts
         /\ pc[<<t, results[t]>>] = "ended"
         /\ resourceRental[t] = rental[<<t, results[t]>>]

-----------------------------------------------------------------------------
(* What has been emitted about a task, by the state it is in.              *)
EventsOfTask(t) == LET log == emitted[t] IN
  /\ state[t] = "absent" <=> log = << >>
  /\ log # << >> => log[1] = "taskQueued"
  /\ \A i \in DOMAIN log :
       /\ log[i] = "taskQueued" => i = 1
       /\ log[i] = "taskStarted" => i > 1 /\ log[i-1] # "taskStarted"
       /\ log[i] \in {"taskCompleted", "taskFailed"} =>
            i = Len(log) /\ ~Handled(t)
       /\ log[i] = "taskCompleted" => state[t] = "done"
       /\ log[i] = "taskFailed" => state[t] = "rejected"
  /\ state[t] = "queued" \/ Has(t) =>
       Last(log) \in {"taskQueued", "taskRetried"}
  /\ IsFinished(t) =>
       \/ Handled(t) \/ PoolRejects
       \/ Last(log) \in {"taskCompleted", "taskFailed"}

(* With IndInv, inductive; EventsTellTheStory follows.                     *)
EventsFollowState == \A t \in Tasks : EventsOfTask(t)

(* With IndInv, inductive; the tasks may be infinitely many, but not those *)
(* that something was emitted about.                                       *)
RetriesAreCounted == IsFiniteSet(Told) /\ RetriesAgree

(* What a completed task has for results, if functions reject with errors. *)
ResultsAreReturned ==
  "undefined" \notin FunctionErrors =>
    \A t \in Tasks :
      state[t] = "done" => results[t] # 0 /\ <<t, results[t]>> \in invoked
=============================================================================
