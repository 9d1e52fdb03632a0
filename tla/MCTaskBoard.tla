----------------------------- MODULE MCTaskBoard -----------------------------
(* Finite instances of TaskBoard for TLC. *)
EXTENDS TaskBoardInvariants, TLC

\* Every method.
Methods == (Method \ {"idle"}) \cup {"create"}
\* Every method but the override of the administrator, and calls that stop half way.
RacingMethods == (Methods \cup {"fail"}) \ {"updateTaskStatusAdmin"}

\* Without the override of the administrator only a confirmation finishes a task.
ReviewMethods == Methods \ {"updateTaskStatusAdmin"}

\* The methods that take the row lock, wait for it, or both write and count.
LockingMethods == {"assignVolunteer", "withdrawAssignment", "cancelTask",
                   "renewTask", "deleteTask", "create", "fail"}

\* Handlers are alike, and so are the volunteers who may take work.
Symmetric == Permutations(Handlers) \cup Permutations(Cleared)
=============================================================================
