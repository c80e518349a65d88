---------------------------- MODULE MCTaskService ----------------------------
(***************************************************************************)
(* Instances of TaskService for TLC: the values of its constants.          *)
(***************************************************************************)
EXTENDS TaskServiceInductive

CONSTANTS t1, t2

Everyone(value) == [t \in Tasks |-> value]

Zero == Everyone(0)
One == Everyone(1)
Yes == Everyone(TRUE)
No == Everyone(FALSE)

(* The first two tasks may be retried once.                                *)
OneForTwo == [t \in Tasks |-> IF t \in {t1, t2} THEN 1 ELSE 0]

(* Of the tasks that share the slots, only the first retries timeouts.     *)
Mixed == [t \in Tasks |-> t = t1]

NobodyThrows == {}
StartedThrows == {"taskStarted"}
BothThrow == {"taskStarted", "taskRetried"}

NoErrors == {}
WorkErrors == {"GolemWorkError"}
GolemErrors == {"GolemWorkError", "GolemTimeoutError"}
UserErrors == {"GolemWorkError", "other"}
AnyError == Errors
=============================================================================
