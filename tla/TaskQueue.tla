------------------------------ MODULE TaskQueue ------------------------------
(***************************************************************************)
(* The TaskQueue class (src/src/queue.ts): the tasks waiting to be taken,  *)
(* new ones at the end and retried ones at the front.                      *)
(***************************************************************************)
EXTENDS Task, Sequences, Functions

VARIABLE itemsStack   \* TaskQueue.itemsStack

QueueInit == itemsStack = << >>

Has(t) == t \in Range(itemsStack)

(* checkIfTaskIsEligibleForAdd throws unless this holds.                   *)
IsEligible(t) == IsQueueable(t) /\ ~Has(t)

AddToEnd(t) == itemsStack' = Append(itemsStack, t)

(* Mutant of AddToBegin: the task goes to the end.                         *)
AddToWrongEnd(t) == itemsStack' = Append(itemsStack, t)

AddToBegin(t) == itemsStack' = <<t>> \o itemsStack

(* TaskQueue.get on a queue that holds a task; on an empty one it returns  *)
(* undefined and changes nothing.                                          *)
Get(t) ==
  /\ itemsStack # << >>
  /\ t = Head(itemsStack)
  /\ itemsStack' = Tail(itemsStack)
=============================================================================
