---------------------------- MODULE RequestLifecycle ----------------------------
(***************************************************************************)
(* One request from its creation on: RequestsService (requests.service.ts) *)
(* and the row of "requests", with what the task board writes to it.       *)
(*                                                                         *)
(* A method reads the row, changes the copy and save()s it.  save() reads  *)
(* the row again (a deleted one too) and writes, in a later step, every    *)
(* column in which the copy differs: its own changes, and whatever others  *)
(* wrote since the copy was made, set back.  update() also loads the tasks *)
(* with their assignments, which the save cascades to.                     *)
(*                                                                         *)
(* Columns that only ever change together with one of these (title, tags,  *)
(* files, reason and author of the cancellation, location) are left out.   *)
(***************************************************************************)
EXTENDS Calls

CONSTANTS
    Tasks,          \* tasks of the request
    FirstTask,      \* the one RequestsService.create makes
    Additions,      \* ids of entries of additional_info
    EditStatuses,   \* the statuses that edits ask for
    MaxClock        \* bound of the clock

RequestStatus == {"OPEN", "IN_PROGRESS", "PARTIALLY_DONE", "PENDING_REVIEW",
                  "COMPLETED", "CANCELLED"}

ASSUME RequestAssumption ==
    /\ FirstTask \in Tasks /\ MaxClock \in Nat \ {0}
    /\ EditStatuses \subseteq RequestStatus

\* The clock moves when half an hour has passed, and with it every time limit.
VARIABLES
    request,    \* the row of the request
    work,       \* work[t]: the task and the assignment of a volunteer on it
    made,       \* when each addition was made, 0 if it never was
    clock

requestVars == <<request, work, made, clock>>

\* cancelledAt 0 is NULL; info[a] is 0 without the addition, 2 once edited.
RequestRow == [life : {"absent", "live", "deleted"}, status : RequestStatus,
               cancelledAt : 0..MaxClock, info : [Additions -> 0..2]]
Column == {"life", "status", "cancelledAt", "info"}
TaskWork == {"no task", "unassigned", "active", "over"}

SavingMethod == {"update", "addInfo", "updateAdditionalInfo", "removeAdditionalInfo",
                 "markAsPendingReview", "cancel", "confirmCompletion",
                 "returnToProgress"}
RequestMethod == SavingMethod \cup
                 {"create", "remove", "assignVolunteer", "checkRequestCompletion"}
RequestStep == {"first task", "diff", "write", "soft delete", "commit", "complete"}
Caller == {"owner", "admin", "coordinator"}

\* who: who edits (update only); row, work: the copy, changed in memory; cols,
\* tasks: what differs when it is saved; on: the addition or task at hand.
RequestCall == [op : RequestMethod, step : RequestStep, who : {"owner", "admin"},
                alone : BOOLEAN, row : RequestRow, work : [Tasks -> TaskWork],
                cols : SUBSET Column, tasks : SUBSET Tasks,
                on : Additions \cup Tasks]

NewRequest == [life |-> "live", status |-> "OPEN", cancelledAt |-> 0,
               info |-> [a \in Additions |-> 0]]
NoWork == [t \in Tasks |-> "no task"]

RequestTypeOK ==
    /\ request \in RequestRow
    /\ work \in [Tasks -> TaskWork]
    /\ made \in [Additions -> 0..MaxClock]
    /\ clock \in 1..MaxClock
    /\ \A h \in Handlers : call[h] \in RequestCall \cup {Idle}

-----------------------------------------------------------------------------

\* A call of op that has read the row and holds it, changed, as row.
Copying(op, step, row) ==
    [op |-> op, step |-> step, who |-> "admin", alone |-> TRUE, row |-> row,
     work |-> NoWork, cols |-> {}, tasks |-> {}, on |-> FirstTask]

\* A call of op that needs no more of the row than the status.
Entering(op, step) == Copying(op, step, [NewRequest EXCEPT !.status = request.status])

\* findOne does not see deleted rows.
Found == request.life = "live"

AtWork == {t \in Tasks : work[t] = "active"}

BeginRequestCall(h, c) ==
    /\ Begin(h, c)
    /\ UNCHANGED requestVars

\* INSERT of the row; its first task comes in a later statement.
create(h) ==
    /\ request.life = "absent"
    /\ Begin(h, Entering("create", "first task"))
    /\ request' = NewRequest
    /\ UNCHANGED <<work, made, clock>>

CreateFirstTask(h) ==
    /\ At(h, "first task")
    /\ work' = [work EXCEPT ![FirstTask] = "unassigned"]
    /\ WritesAndBecomes(h, Idle)
    /\ UNCHANGED <<request, made, clock>>

\* Mutant: the owner may edit while volunteers are at work.
MayUpdateAnyTime(who) == who \in {"owner", "admin"}

\* Mutant: a coordinator may edit as well.
MayUpdateCoordinating(who) == who # "owner" \/ AtWork = {}

MayUpdate(who) == who = "admin" \/ (who = "owner" /\ AtWork = {})

\* The DTO may name any status.
update(h, who) ==
    /\ Found /\ MayUpdate(who)
    /\ \E status \in EditStatuses \cup {request.status} :
           BeginRequestCall(h, [Copying("update", "diff",
                                        [request EXCEPT !.status = status])
                               EXCEPT !.who = who, !.work = work])

addInfo(h, who, a) ==
    /\ Found /\ who \in {"owner", "admin"}
    /\ made[a] = 0
    /\ Begin(h, [Copying("addInfo", "diff",
                         [request EXCEPT !.info[a] = 1]) EXCEPT !.on = a])
    /\ made' = [made EXCEPT ![a] = clock]
    /\ UNCHANGED <<request, work, clock>>

\* Half an hour after it was made only an administrator changes an addition.
MayChangeInfo(who, a) ==
    /\ Found /\ request.info[a] # 0
    /\ who = "admin" \/ (who = "owner" /\ clock = made[a])

updateAdditionalInfo(h, who, a) ==
    /\ MayChangeInfo(who, a)
    /\ BeginRequestCall(h, [Copying("updateAdditionalInfo", "diff",
                                    [request EXCEPT !.info[a] = 2]) EXCEPT !.on = a])

removeAdditionalInfo(h, who, a) ==
    /\ MayChangeInfo(who, a)
    /\ BeginRequestCall(h, [Copying("removeAdditionalInfo", "diff",
                                    [request EXCEPT !.info[a] = 0]) EXCEPT !.on = a])

\* The owner only while it is new (it was made at 1) and nobody is at work.
remove(h, who) ==
    /\ Found
    /\ who = "admin" \/ (who = "owner" /\ clock = 1 /\ AtWork = {})
    /\ BeginRequestCall(h, Entering("remove", "soft delete"))

-----------------------------------------------------------------------------
(* The status. *)

markAsPendingReview(h, who) ==
    /\ Found /\ who \in {"owner", "admin"}
    /\ BeginRequestCall(h, Copying("markAsPendingReview", "diff",
                                   [request EXCEPT !.status = "PENDING_REVIEW"]))

\* Mutant: a completed request may be cancelled too.
MayCancelCompleted(who) == Found /\ who \in {"owner", "admin", "coordinator"}

MayCancel(who) ==
    /\ Found /\ who \in {"owner", "admin", "coordinator"}
    /\ request.status # "COMPLETED"

cancel(h, who) ==
    /\ MayCancel(who)
    /\ BeginRequestCall(h, Copying("cancel", "diff",
           [request EXCEPT !.status = "CANCELLED", !.cancelledAt = clock]))

confirmCompletion(h, who) ==
    /\ Found /\ who \in {"owner", "admin"}
    /\ BeginRequestCall(h, Copying("confirmCompletion", "diff",
                                   [request EXCEPT !.status = "COMPLETED"]))

\* Mutant: the additions go with the cancellation.
ResumedFromScratch == [NewRequest EXCEPT !.status = "IN_PROGRESS"]

\* Only a return from CANCELLED clears the data of the cancellation.
Resumed ==
    [request EXCEPT !.status = "IN_PROGRESS",
                    !.cancelledAt = IF request.status = "CANCELLED" THEN 0 ELSE @]

\* The ten minutes count for a request that is CANCELLED now.
returnToProgress(h, who) ==
    /\ Found /\ who \in {"owner", "admin"}
    /\ request.status = "CANCELLED" =>
           request.cancelledAt # 0 /\ request.cancelledAt = clock
    /\ BeginRequestCall(h, Copying("returnToProgress", "diff", Resumed))

-----------------------------------------------------------------------------
(* The later steps. *)

\* The database must differ in something, or save() writes nothing.  A new
\* cancellation is always at another time than the one before.  A task or an
\* assignment inserted since the copy was made would lose its parent's id, which
\* is NOT NULL: the call fails.
DiffRequest(h) ==
    LET c == call[h]
        loads == c.op = "update"
        cols == {k \in Column : c.row[k] # request[k]}
                    \cup (IF c.op = "cancel" THEN {"cancelledAt"} ELSE {})
        tasks == IF loads THEN {t \in Tasks : c.work[t] # work[t]} ELSE {}
        orphans == {t \in tasks : \/ c.work[t] = "no task"
                                  \/ c.work[t] = "unassigned"}
    IN
    /\ At(h, "diff") /\ c.op \in SavingMethod
    /\ Becomes(h, IF orphans # {} \/ (cols = {} /\ tasks = {}) THEN Idle
                  ELSE [c EXCEPT !.step = "write", !.cols = cols, !.tasks = tasks])
    /\ UNCHANGED requestVars

WriteRequest(h) ==
    LET c == call[h] IN
    /\ At(h, "write") /\ c.op \in SavingMethod
    /\ request' = [k \in Column |-> IF k \in c.cols THEN c.row[k] ELSE request[k]]
    /\ work' = [t \in Tasks |-> IF t \in c.tasks THEN c.work[t] ELSE work[t]]
    /\ WritesAndBecomes(h, Idle)
    /\ UNCHANGED <<made, clock>>

SoftDeleteRequest(h) ==
    /\ At(h, "soft delete")
    /\ request' = [request EXCEPT !.life = "deleted"]
    /\ WritesAndBecomes(h, Idle)
    /\ UNCHANGED <<work, made, clock>>

-----------------------------------------------------------------------------
(* What the task board does to the request. *)

createTask(t) ==
    /\ Found /\ work[t] = "no task" /\ work[FirstTask] # "no task"
    /\ work' = [work EXCEPT ![t] = "unassigned"]
    /\ Disturbs
    /\ UNCHANGED <<request, made, clock>>

\* Reads the request in the transaction and writes it at its end.
assignVolunteer(h, t) ==
    /\ Found /\ work[t] \in {"unassigned", "over"}
    /\ \A g \in Handlers : ~(InFlight(g) /\ call[g].op = "assignVolunteer"
                             /\ call[g].on = t)
    /\ BeginRequestCall(h, [Entering("assignVolunteer", "commit")
                            EXCEPT !.on = t])

CommitVolunteer(h) ==
    LET c == call[h] IN
    /\ At(h, "commit")
    /\ work' = [work EXCEPT ![c.on] = "active"]
    /\ request' = IF c.row.status = "OPEN"
                  THEN [request EXCEPT !.status = "IN_PROGRESS"] ELSE request
    /\ WritesAndBecomes(h, Idle)
    /\ UNCHANGED <<made, clock>>

\* The volunteer withdraws or has finished.
leaveTask(t) ==
    /\ work[t] = "active"
    /\ work' = [work EXCEPT ![t] = "over"]
    /\ Disturbs
    /\ UNCHANGED <<request, made, clock>>

\* The count found every task DONE; TaskBoard has the statuses.  Neither the count nor
\* the update asks whether the request was removed meanwhile.
checkRequestCompletion(h) ==
    /\ request.life # "absent" /\ work[FirstTask] # "no task"
    /\ BeginRequestCall(h, Entering("checkRequestCompletion", "complete"))

CompleteFromBoard(h) ==
    /\ At(h, "complete")
    /\ request' = [request EXCEPT !.status = "COMPLETED"]
    /\ WritesAndBecomes(h, Idle)
    /\ UNCHANGED <<work, made, clock>>

\* A statement fails or the process stops: what was written stays.
FailRequestCall(h) ==
    /\ InFlight(h) /\ call[h].op \in RequestMethod
    /\ Becomes(h, Idle)
    /\ UNCHANGED requestVars

HalfAnHourPasses ==
    /\ Found /\ clock < MaxClock
    /\ clock' = clock + 1
    /\ UNCHANGED <<request, work, made, flight>>

-----------------------------------------------------------------------------

RequestInit ==
    /\ request = [NewRequest EXCEPT !.life = "absent"]
    /\ work = NoWork
    /\ made = [a \in Additions |-> 0]
    /\ clock = 1
    /\ CallsInit

RequestNext ==
    \/ \E h \in Handlers :
          \/ create(h) \/ CreateFirstTask(h)
          \/ checkRequestCompletion(h) \/ CompleteFromBoard(h)
          \/ CommitVolunteer(h) \/ SoftDeleteRequest(h)
          \/ DiffRequest(h) \/ WriteRequest(h) \/ FailRequestCall(h)
    \/ \E h \in Handlers, who \in Caller :
          \/ update(h, who) \/ remove(h, who) \/ markAsPendingReview(h, who)
          \/ cancel(h, who) \/ confirmCompletion(h, who) \/ returnToProgress(h, who)
    \/ \E h \in Handlers, who \in Caller, a \in Additions :
          \/ addInfo(h, who, a) \/ updateAdditionalInfo(h, who, a)
          \/ removeAdditionalInfo(h, who, a)
    \/ \E h \in Handlers, t \in Tasks : assignVolunteer(h, t)
    \/ \E t \in Tasks : createTask(t) \/ leaveTask(t)
    \/ HalfAnHourPasses

RequestSpec == RequestInit /\ [][RequestNext]_<<requestVars, flight>>

-----------------------------------------------------------------------------
(* Properties *)

\* The columns each method is about.
OwnColumns(c) ==
    CASE c.op = "update" -> {"status"}
      [] c.op \in {"addInfo", "updateAdditionalInfo", "removeAdditionalInfo"} -> {"info"}
      [] c.op \in {"cancel", "returnToProgress"} -> {"status", "cancelledAt"}
      [] OTHER -> {"status"}

\* The save of call h takes place in this step.
Saves(h) == At(h, "write") /\ call[h].op \in SavingMethod /\ ~InFlight(h)'

\* A save that nobody got in the way of touches no column but the method's own,
\* no task and no assignment, revives no deleted row, and an addition it does not
\* name stays as it was (save(request) in every method of requests.service.ts).
SavesOwnColumns ==
    [][\A h \in Handlers : Saves(h) /\ call[h].alone =>
           /\ \A k \in Column \ OwnColumns(call[h]) : request'[k] = request[k]
           /\ work' = work
           /\ \A a \in Additions \ {call[h].on} : request'.info[a] = request.info[a]]_requestVars

\* Nobody cancels a request that is completed: cancel() refuses, so it takes an
\* edit that names the status, or a call that read the request before it was
\* completed and saves after it.
CompletedIsNotCancelled ==
    [][request.status = "COMPLETED" /\ request'.status = "CANCELLED" =>
           \E h \in Handlers : Saves(h) /\ (call[h].op = "update" \/ ~call[h].alone)
      ]_requestVars

\* The owner does not edit a request volunteers are at work on, unless a
\* volunteer came while the edit was under way (the check of update()).
OwnerEditsBeforeWork ==
    [][\A h \in Handlers :
           Saves(h) /\ call[h].op = "update" /\ call[h].who = "owner" =>
               AtWork = {} \/ ~call[h].alone]_requestVars

\* "Time to undo the cancellation has run out.  It can be returned only within ten
\* minutes after the cancellation" (returnToProgress): while a cancellation of
\* longer ago is still on record, no call returns the request to progress.
LateCancellationIsFinal ==
    [][\A h \in Handlers :
           ~InFlight(h) /\ InFlight(h)' /\ call'[h].op = "returnToProgress" =>
               request.cancelledAt \in {0, clock}]_<<requestVars, flight>>

=============================================================================
