------------------------------ MODULE TaskBoard ------------------------------
(***************************************************************************)
(* The Kanban board of ONE request: TasksService (tasks.service.ts), the   *)
(* rows of "tasks" and "task_assignments", the task chats and the status   *)
(* of the request that the service writes.                                 *)
(*                                                                         *)
(* Every HTTP call runs on one Node process and gives way at each await,   *)
(* so a handler is a start step, which reads the database and makes the    *)
(* checks, followed by one step per later database statement.  Between two *)
(* steps of a handler the steps of other handlers may come.  Only          *)
(* assignVolunteer holds a row lock over its steps.                        *)
(*                                                                         *)
(* A row handed to save() is the copy the handler read earlier: TypeORM    *)
(* compares the copy with the row it finds then and writes every column    *)
(* that differs, the assignments loaded with it included (cascade: true).  *)
(*                                                                         *)
(* A call that fails its checks changes nothing and is left out.  Titles,  *)
(* deadlines, notifications and the one-hour limit on returnToProgress     *)
(* (a refusal that may or may not come) are abstracted away.               *)
(***************************************************************************)
EXTENDS Integers, Sequences, FiniteSets

CONSTANTS
    Users,          \* everybody with an account
    Author,         \* request.creatorId
    Admins,         \* SystemRole.ADMIN
    Coordinators,   \* SystemRole.COORDINATOR
    Cleared,        \* not REQUESTER and past the clearance checks of assign
    Tasks,          \* ids of tasks, present and future
    AutoTask,       \* the task RequestsService.create makes
    Handlers,       \* how many calls can be in flight at once
    Operations,     \* the methods a run lets callers use
    TrustCap,       \* trust scores count in steps of 5: 100 is step 20
    MaxChats,       \* bound: chats made for one task
    MaxOverlaps     \* bound: calls that start while another one is in flight

ASSUME BoardAssumption ==
    /\ Author \in Users
    /\ Admins \subseteq Users /\ Coordinators \subseteq Users
    /\ Cleared \subseteq Users
    /\ AutoTask \in Tasks
    /\ TrustCap \in Nat /\ MaxChats \in Nat /\ MaxOverlaps \in Nat

VARIABLES
    task,        \* the rows of "tasks"
    assignment,  \* the rows of "task_assignments", "NONE" where there is none
    chat,        \* per task, the participants of each chat made for it
    request,     \* the status of the request
    trust,       \* users.trust_score, in steps of 5
    owed,        \* tasks sent to review and not rewarded since (history)
    call,        \* what each handler remembers between two steps
    overlaps     \* calls that started while another one was in flight

board == <<task, assignment, chat, request, trust, owed>>
vars == <<task, assignment, chat, request, trust, owed, call, overlaps>>

TaskStatus == {"TODO", "IN_PROGRESS", "PENDING_REVIEW", "DONE", "CANCELLED"}
AssignmentStatus == {"ASSIGNED", "EN_ROUTE", "ON_SITE", "COMPLETED", "WITHDRAWN"}
RequestStatus == {"OPEN", "IN_PROGRESS", "PARTIALLY_DONE", "PENDING_REVIEW",
                  "COMPLETED", "CANCELLED"}

\* A row of "tasks".  A chat is its position among the chats of the task and
\* 0 stands for NULL; life is "deleted" once deletedAt is set.
TaskRow == [life : {"absent", "live", "deleted"}, status : TaskStatus, chat : Nat]
Column == {"life", "status", "chat"}
AssignmentRow == AssignmentStatus \cup {"NONE"}
NewRow == [life |-> "live", status |-> "TODO", chat |-> 0]

Method == {"idle", "update", "deleteTask", "assignVolunteer", "withdrawAssignment",
           "completeTask", "returnToProgress", "confirmTaskCompletion",
           "rejectTask", "updateTaskStatusAdmin", "cancelTask", "renewTask",
           "updateAssignmentStatus"}
Step == {"none", "lock held", "withdraw", "count remaining", "back to todo",
         "settle", "boost", "count done", "complete request", "reopen",
         "mark", "soft delete", "diff", "write"}

\* What an in-flight call remembers: the task row and assignments it read (the
\* row already changed in memory), whether it saw the request OPEN, and, once
\* save() has compared them with the database, the columns and rows that differ.
CallRecord == [op : Method, step : Step, user : Users, on : Tasks, row : TaskRow,
               asgs : [Users -> AssignmentRow], sawOpen : BOOLEAN,
               cols : SUBSET Column, rows : SUBSET Users]

NoAssignments == [u \in Users |-> "NONE"]
Idle == [op |-> "idle", step |-> "none", user |-> Author, on |-> AutoTask,
         row |-> NewRow, asgs |-> NoAssignments, sawOpen |-> FALSE,
         cols |-> {}, rows |-> {}]

TypeOK ==
    /\ task \in [Tasks -> TaskRow]
    /\ assignment \in [Tasks -> [Users -> AssignmentRow]]
    /\ chat \in [Tasks -> Seq(SUBSET Users)]
    /\ request \in RequestStatus
    /\ trust \in [Users -> 0..TrustCap]
    /\ owed \in [Tasks -> BOOLEAN]
    /\ call \in [Handlers -> CallRecord]
    /\ overlaps \in 0..MaxOverlaps

-----------------------------------------------------------------------------
(* Helpers *)

isActiveAssignmentStatus(s) == s \notin {"NONE", "WITHDRAWN", "COMPLETED"}

Active(asgs) == {u \in Users : isActiveAssignmentStatus(asgs[u])}
Assigned(asgs) == {u \in Users : asgs[u] # "NONE"}

Live(t) == task[t].life = "live"

\* Mutant: the transaction reads without a lock.
UnlockedRead(t) == FALSE

\* The row lock of assignVolunteer: SELECT ... FOR UPDATE, kept to the commit.
Locked(t) == \E h \in Handlers : call[h].op = "assignVolunteer" /\ call[h].on = t

\* May edit, delete, cancel and renew the tasks of the request.
Manages(u) == u = Author \/ u \in Admins \/ u \in Coordinators
\* May confirm and reject work.
Reviews(u) == u = Author \/ u \in Admins

\* Mutant: the task to confirm is loaded without its assignments.
LoadsToEdit(op) ==
    op \in {"update", "completeTask", "returnToProgress", "rejectTask", "cancelTask"}

\* The relations 'assignments' was loaded with the task, so save() cascades.
LoadsAssignments(op) ==
    op \in {"update", "completeTask", "returnToProgress",
            "confirmTaskCompletion", "rejectTask", "cancelTask"}

Goto(h, s) == call' = [call EXCEPT ![h].step = s]
Return(h) == call' = [call EXCEPT ![h] = Idle]

\* A call starts: c is what it remembers after its first reads.
Begin(h, c) ==
    /\ c.op \in Operations
    /\ call[h] = Idle
    /\ call' = [call EXCEPT ![h] = c]
    /\ IF \E g \in Handlers : call[g] # Idle
       THEN overlaps < MaxOverlaps /\ overlaps' = overlaps + 1
       ELSE overlaps' = overlaps
    /\ UNCHANGED board

\* What user u's call of op on task t remembers, at step s, once it has read the
\* task (and its assignments) and set the status in memory.
Reading(op, s, u, t, status) ==
    [Idle EXCEPT !.op = op, !.step = s, !.user = u, !.on = t,
                 !.row = [task[t] EXCEPT !.status = status],
                 !.asgs = IF LoadsAssignments(op) THEN assignment[t] ELSE NoAssignments]

At(h, s) == call[h].step = s

-----------------------------------------------------------------------------
(* The first step of each method: what it reads and what it insists on. *)

\* One insert, after a check on the request that nothing here can undo.
create(u, t) ==
    /\ "create" \in Operations
    /\ Manages(u)
    /\ task[t].life = "absent"
    /\ task' = [task EXCEPT ![t] = NewRow]
    /\ UNCHANGED <<assignment, chat, request, trust, owed, call, overlaps>>

update(h, u, t) ==
    /\ Live(t) /\ Manages(u)
    /\ Active(assignment[t]) = {}
    /\ Begin(h, Reading("update", "diff", u, t, task[t].status))

deleteTask(h, u, t) ==
    /\ Live(t) /\ Manages(u)
    /\ Active(assignment[t]) = {}
    /\ Begin(h, [Idle EXCEPT !.op = "deleteTask", !.step = "soft delete",
                             !.user = u, !.on = t])

\* Takes the row lock (and waits for it), then reads assignments and request.
assignVolunteer(h, u, t) ==
    /\ ~Locked(t)
    /\ Live(t) /\ u \in Cleared
    /\ task[t].status \notin {"DONE", "CANCELLED"}
    /\ task[t].status = "TODO" => Len(chat[t]) < MaxChats
    /\ Begin(h, [Idle EXCEPT !.op = "assignVolunteer", !.step = "lock held",
                             !.user = u, !.on = t, !.row = task[t],
                             !.asgs = assignment[t], !.sawOpen = (request = "OPEN")])

\* Refuses only a COMPLETED assignment: withdrawing twice is allowed.
withdrawAssignment(h, u, t) ==
    /\ assignment[t][u] \notin {"NONE", "COMPLETED"}
    /\ Begin(h, [Idle EXCEPT !.op = "withdrawAssignment", !.step = "withdraw",
                             !.user = u, !.on = t])

completeTask(h, u, t) ==
    /\ Live(t)
    /\ \/ assignment[t][u] \in {"ASSIGNED", "ON_SITE"}
       \/ u \in Admins \cup Coordinators
    /\ Begin(h, Reading("completeTask", "diff", u, t, "PENDING_REVIEW"))

returnToProgress(h, u, t) ==
    /\ Live(t)
    /\ task[t].status = "PENDING_REVIEW"
    /\ \/ assignment[t][u] \in {"ASSIGNED", "ON_SITE", "COMPLETED"}
       \/ u \in Admins
    /\ Begin(h, Reading("returnToProgress", "diff", u, t, "IN_PROGRESS"))

\* Mutant: a task is confirmed without having been sent to review.
ConfirmUnreviewed(h, u, t) ==
    /\ Live(t) /\ Reviews(u)
    /\ Begin(h, Reading("confirmTaskCompletion", "settle", u, t, "DONE"))

confirmTaskCompletion(h, u, t) ==
    /\ Live(t) /\ Reviews(u)
    /\ task[t].status = "PENDING_REVIEW"
    /\ Begin(h, Reading("confirmTaskCompletion", "settle", u, t, "DONE"))

rejectTask(h, u, t) ==
    /\ Live(t) /\ Reviews(u)
    /\ task[t].status = "PENDING_REVIEW"
    /\ Begin(h, Reading("rejectTask", "reopen", u, t, "IN_PROGRESS"))

\* PATCH tasks/:id/status takes any status from an administrator.
updateTaskStatusAdmin(h, u, t) ==
    /\ Live(t) /\ u \in Admins
    /\ \E status \in TaskStatus :
           Begin(h, Reading("updateTaskStatusAdmin", "diff", u, t, status))

cancelTask(h, u, t) ==
    /\ Live(t) /\ Manages(u)
    /\ Begin(h, Reading("cancelTask", "diff", u, t, "CANCELLED"))

renewTask(h, u, t) ==
    /\ Live(t) /\ Manages(u)
    /\ task[t].status = "CANCELLED"
    /\ Begin(h, Reading("renewTask", "diff", u, t, "TODO"))

updateAssignmentStatus(h, u, t) ==
    /\ isActiveAssignmentStatus(assignment[t][u])
    /\ \E status \in {"ASSIGNED", "EN_ROUTE", "ON_SITE"} :
           Begin(h, [Idle EXCEPT !.op = "updateAssignmentStatus", !.step = "mark",
                                 !.user = u, !.on = t,
                                 !.asgs = [NoAssignments EXCEPT ![u] = status]])

Start(h, u, t) ==
    \/ update(h, u, t)
    \/ deleteTask(h, u, t)
    \/ assignVolunteer(h, u, t)
    \/ withdrawAssignment(h, u, t)
    \/ completeTask(h, u, t)
    \/ returnToProgress(h, u, t)
    \/ confirmTaskCompletion(h, u, t)
    \/ rejectTask(h, u, t)
    \/ updateTaskStatusAdmin(h, u, t)
    \/ cancelTask(h, u, t)
    \/ renewTask(h, u, t)
    \/ updateAssignmentStatus(h, u, t)

-----------------------------------------------------------------------------
(* The later steps, one per database statement. *)

\* Mutant: the refusal neither commits nor rolls back.
RefuseKeepingLock(h) ==
    /\ At(h, "lock held")
    /\ assignment[call[h].on][call[h].user] \notin {"NONE", "WITHDRAWN"}
    /\ Goto(h, "none")
    /\ UNCHANGED <<board, overlaps>>

\* The volunteer already holds an assignment that is not withdrawn: rollback.
RefuseAssignment(h) ==
    LET c == call[h] IN
    /\ At(h, "lock held")
    /\ assignment[c.on][c.user] \notin {"NONE", "WITHDRAWN"}
    /\ Return(h)
    /\ UNCHANGED <<board, overlaps>>

\* Mutant: the new chat is for the newcomer alone.
ChatForNewcomer(c) == {Author, c.user}

createChatWithAssignments(c) == {Author, c.user} \cup Active(c.asgs)

\* The rest of the transaction up to its commit, which gives the lock back.
CommitAssignment(h) ==
    LET c == call[h]
        t == c.on
        opens == c.row.status = "TODO"
    IN
    /\ At(h, "lock held")
    /\ assignment[t][c.user] \in {"NONE", "WITHDRAWN"}
    /\ assignment' = [assignment EXCEPT ![t][c.user] = "ASSIGNED"]
    /\ task' = IF opens
               THEN [task EXCEPT ![t].status = "IN_PROGRESS",
                                 ![t].chat = Len(chat[t]) + 1]
               ELSE task
    /\ chat' = IF opens
               THEN [chat EXCEPT ![t] = Append(@, createChatWithAssignments(c))]
               ELSE IF c.row.chat # 0
               THEN [chat EXCEPT ![t][c.row.chat] = @ \cup {c.user}]
               ELSE chat
    /\ request' = IF c.sawOpen THEN "IN_PROGRESS" ELSE request
    /\ Return(h)
    /\ UNCHANGED <<trust, owed, overlaps>>

\* Mutant: a withdrawal deletes the row.
WithdrawDeleting(h) ==
    /\ At(h, "withdraw")
    /\ assignment' = [assignment EXCEPT ![call[h].on][call[h].user] = "NONE"]
    /\ Goto(h, "count remaining")
    /\ UNCHANGED <<task, chat, request, trust, owed, overlaps>>

Withdraw(h) ==
    LET c == call[h] IN
    /\ At(h, "withdraw")
    /\ assignment' = [assignment EXCEPT ![c.on][c.user] = "WITHDRAWN"]
    /\ Goto(h, "count remaining")
    /\ UNCHANGED <<task, chat, request, trust, owed, overlaps>>

\* Counts the rows that are ASSIGNED: a volunteer on the way is not one.
CountRemaining(h) ==
    /\ At(h, "count remaining")
    /\ IF \E u \in Users : assignment[call[h].on][u] = "ASSIGNED"
       THEN Return(h)
       ELSE Goto(h, "back to todo")
    /\ UNCHANGED <<board, overlaps>>

BackToTodo(h) ==
    LET t == call[h].on IN
    /\ At(h, "back to todo")
    /\ ~Locked(t)
    /\ task' = [task EXCEPT ![t].status = "TODO", ![t].chat = 0]
    /\ Return(h)
    /\ UNCHANGED <<assignment, chat, request, trust, owed, overlaps>>

\* UPDATE task_assignments SET status = to WHERE task_id = t AND status = from
Restate(t, from, to) ==
    assignment' = [assignment EXCEPT ![t] =
                      [u \in Users |-> IF @[u] = from THEN to ELSE @[u]]]

Settle(h) ==
    /\ At(h, "settle")
    /\ Restate(call[h].on, "ASSIGNED", "COMPLETED")
    /\ Goto(h, "boost")
    /\ UNCHANGED <<task, chat, request, trust, owed, overlaps>>

\* Mutant: the cap is forgotten.
RaisedPastCap(score) == score + 1

\* LEAST(trust_score + 5, 100)
Raised(score) == IF score < TrustCap THEN score + 1 ELSE score

\* Everybody with an assignment in the copy gains 5, the withdrawn included.
boostVolunteerScores(h) ==
    LET c == call[h] IN
    /\ At(h, "boost")
    /\ trust' = [u \in Users |->
                    IF u \in Assigned(c.asgs) THEN Raised(trust[u]) ELSE trust[u]]
    /\ owed' = [owed EXCEPT ![c.on] = FALSE]
    /\ Goto(h, "count done")
    /\ UNCHANGED <<task, assignment, chat, request, overlaps>>

\* Counts before the task itself is saved as DONE.
checkRequestCompletion(h) ==
    LET total == {t \in Tasks : Live(t)}
        done == {t \in total : task[t].status = "DONE"}
    IN
    /\ At(h, "count done")
    /\ Goto(h, IF total # {} /\ done = total THEN "complete request" ELSE "diff")
    /\ UNCHANGED <<board, overlaps>>

CompleteRequest(h) ==
    /\ At(h, "complete request")
    /\ request' = "COMPLETED"
    /\ Goto(h, "diff")
    /\ UNCHANGED <<task, assignment, chat, trust, owed, overlaps>>

Reopen(h) ==
    /\ At(h, "reopen")
    /\ Restate(call[h].on, "COMPLETED", "ASSIGNED")
    /\ Goto(h, "diff")
    /\ UNCHANGED <<task, chat, request, trust, owed, overlaps>>

\* Saves the volunteer's own row, whatever became of it since it was read.
Mark(h) ==
    LET c == call[h] IN
    /\ At(h, "mark")
    /\ assignment' = [assignment EXCEPT ![c.on][c.user] = c.asgs[c.user]]
    /\ Return(h)
    /\ UNCHANGED <<task, chat, request, trust, owed, overlaps>>

SoftDelete(h) ==
    LET t == call[h].on IN
    /\ At(h, "soft delete")
    /\ ~Locked(t)
    /\ task' = [task EXCEPT ![t].life = "deleted"]
    /\ Return(h)
    /\ UNCHANGED <<assignment, chat, request, trust, owed, overlaps>>

\* save() reads the rows again and keeps what differs from the copy.  A row
\* inserted since the copy was made would lose its task_id, which is NOT NULL:
\* the call fails.
Diff(h) ==
    LET c == call[h]
        t == c.on
        loaded == IF LoadsAssignments(c.op) THEN Assigned(assignment[t]) ELSE {}
        cols == {k \in Column : c.row[k] # task[t][k]}
        rows == {u \in loaded : c.asgs[u] # assignment[t][u]}
        orphans == {u \in loaded : c.asgs[u] = "NONE"}
    IN
    /\ At(h, "diff")
    /\ IF orphans # {} \/ (cols = {} /\ rows = {})
       THEN Return(h)
       ELSE call' = [call EXCEPT ![h].step = "write", ![h].cols = cols, ![h].rows = rows]
    /\ UNCHANGED <<board, overlaps>>

\* The UPDATEs of save(), in one transaction: the one of the task waits for its lock.
Write(h) ==
    LET c == call[h]
        t == c.on
    IN
    /\ At(h, "write")
    /\ c.cols # {} => ~Locked(t)
    /\ task' = [task EXCEPT ![t] =
                   [life |-> IF "life" \in c.cols THEN c.row.life ELSE @.life,
                    status |-> IF "status" \in c.cols THEN c.row.status ELSE @.status,
                    chat |-> IF "chat" \in c.cols THEN c.row.chat ELSE @.chat]]
    /\ assignment' = [assignment EXCEPT ![t] =
                         [u \in Users |-> IF u \in c.rows THEN c.asgs[u] ELSE @[u]]]
    /\ owed' = [owed EXCEPT ![t] =
                   @ \/ ("status" \in c.cols /\ c.row.status = "PENDING_REVIEW")]
    /\ Return(h)
    /\ UNCHANGED <<chat, request, trust, overlaps>>

\* A statement fails or the process stops: the call ends, an open transaction
\* is rolled back, and what was written before stays.
Fail(h) ==
    /\ "fail" \in Operations
    /\ call[h] # Idle
    /\ Return(h)
    /\ UNCHANGED <<board, overlaps>>

Continue(h) ==
    \/ RefuseAssignment(h) \/ CommitAssignment(h)
    \/ Withdraw(h) \/ CountRemaining(h) \/ BackToTodo(h)
    \/ Settle(h) \/ boostVolunteerScores(h)
    \/ checkRequestCompletion(h) \/ CompleteRequest(h)
    \/ Reopen(h) \/ Mark(h) \/ SoftDelete(h)
    \/ Diff(h) \/ Write(h)

-----------------------------------------------------------------------------

\* RequestsService.create has made the request and its first task.
Init ==
    /\ task = [t \in Tasks |->
                  [NewRow EXCEPT !.life = IF t = AutoTask THEN "live" ELSE "absent"]]
    /\ assignment = [t \in Tasks |-> NoAssignments]
    /\ chat = [t \in Tasks |-> <<>>]
    /\ request = "OPEN"
    /\ trust = [u \in Users |-> 0]
    /\ owed = [t \in Tasks |-> FALSE]
    /\ call = [h \in Handlers |-> Idle]
    /\ overlaps = 0

Next ==
    \/ \E u \in Users, t \in Tasks : create(u, t)
    \/ \E h \in Handlers, u \in Users, t \in Tasks : Start(h, u, t)
    \/ \E h \in Handlers : Continue(h) \/ Fail(h)

Spec == Init /\ [][Next]_vars

\* The event loop resumes every handler whose statement has come back, and
\* PostgreSQL serves those who wait for a row lock in turn.
FairSpec == Spec /\ \A h \in Handlers : SF_vars(Continue(h))
-----------------------------------------------------------------------------
(* Properties *)

\* Whoever is in a chat of a task is the author of the request or has, or had,
\* an assignment on that very task: no order of calls and no stale save lets
\* anybody else read it (createChatWithAssignments, INSERT INTO chat_participants).
ParticipantsWereAssigned ==
    \A t \in Tasks : \A i \in 1..Len(chat[t]) :
        chat[t][i] \subseteq {Author} \cup Assigned(assignment[t])

\* Everybody who works on a task that has a chat is in that chat, however often
\* volunteers come, go, change status and the task is sent back, cancelled and
\* renewed.  True as long as calls neither overlap nor fail half way.
ActiveInChat ==
    \A t \in Tasks : task[t].chat # 0 =>
        Active(assignment[t]) \subseteq chat[t][task[t].chat]

\* The row lock of assignVolunteer: two volunteers who take a task at the same
\* time meet in one chat.  A chat is made only in a step that finds the task
\* waiting and leaves it in progress in that chat.
ChatOpensWithWork ==
    [][\A t \in Tasks : Len(chat'[t]) # Len(chat[t]) =>
           /\ task[t].status = "TODO"
           /\ task'[t].status = "IN_PROGRESS"
           /\ task'[t].chat = Len(chat'[t])]_vars

\* Nobody joins a task that is finished, cancelled or deleted by the time the
\* assignment becomes visible (the check of assignVolunteer is made under lock).
ClosedTaskTakesNobody ==
    [][\A t \in Tasks, u \in Users :
           assignment[t][u] = "NONE" /\ assignment'[t][u] # "NONE" =>
               Live(t) /\ task[t].status \notin {"DONE", "CANCELLED"}]_vars

\* One reward per review: a trust score rises only for a task that was sent to
\* review since it was last rewarded.  True as long as calls do not overlap.
OneRewardPerReview ==
    [][\A u \in Users : trust'[u] > trust[u] =>
           \E t \in Tasks : owed[t] /\ ~owed'[t]]_vars

\* A withdrawal hands a task back only when nobody works on it any more: what
\* the service's test of withdrawAssignment takes the count of remaining
\* assignments to mean.
WithdrawLeavesOthersTheirTask ==
    [][\A t \in Tasks : task[t].chat # 0 /\ task'[t].chat = 0 =>
           Active(assignment[t]) = {}]_vars

\* "A completed assignment cannot be declined" (withdrawAssignment): once the
\* author has confirmed a task, which completes its assignments, nobody withdraws.
CompletedIsNotDeclined ==
    [][\A t \in Tasks, u \in Users :
           task[t].status = "DONE" /\ assignment[t][u] # "WITHDRAWN" =>
               assignment'[t][u] # "WITHDRAWN"]_vars

\* No call waits for ever: the row lock is always given back, by commit or by
\* rollback, and nothing that waits for it is left behind.
EveryCallReturns ==
    \A h \in Handlers : call[h] # Idle ~> call[h] = Idle

=============================================================================
