------------------------- MODULE TaskBoardInvariants -------------------------
(***************************************************************************)
(* The inductive invariants behind the theorems of TaskBoardProofs.  TLC   *)
(* checks them on the same instances as the properties they imply.         *)
(***************************************************************************)
EXTENDS TaskBoard

-----------------------------------------------------------------------------
(* Calls that overlap and fail: what the row lock and the copies guarantee. *)

\* A handler is idle, or holds the row lock, or neither.
StepsMatch ==
    \A h \in Handlers :
        /\ call[h].op = "idle" <=> call[h] = Idle
        /\ call[h].op = "assignVolunteer" <=> call[h].step = "lock held"

\* Copies grow old, but an assignment is never removed: whoever has one in a
\* copy has one in the database.
CopiesLagBehind ==
    \A h \in Handlers :
        /\ \A u \in Users :
              call[h].asgs[u] # "NONE" => assignment[call[h].on][u] # "NONE"
        /\ call[h].step = "withdraw" => assignment[call[h].on][call[h].user] # "NONE"

\* What save() is about to write of an assignment is a row that exists.
CopiesWritable ==
    \A h \in Handlers :
        /\ call[h].step = "mark" => call[h].asgs[call[h].user] # "NONE"
        /\ \A u \in call[h].rows : call[h].asgs[u] # "NONE"

\* The lock belongs to one call, and keeps the copy of the task row current.
LockHolds ==
    \A h \in Handlers : call[h].op = "assignVolunteer" =>
        /\ call[h].row = task[call[h].on]
        /\ call[h].row.life = "live"
        /\ call[h].row.status \notin {"DONE", "CANCELLED"}
        /\ \A g \in Handlers : call[g].op = "assignVolunteer" /\ call[g].on = call[h].on
               => g = h

\* A task, and every copy of it, points at no chat or at one made for the task.
ChatExists ==
    /\ \A t \in Tasks : task[t].chat \in 0..Len(chat[t])
    /\ \A h \in Handlers : call[h].row.chat \in 0..Len(chat[call[h].on])

\* Relates the chats to the assignments through everything that happens between
\* a copy and the statement that uses it (assignVolunteer, save with cascade).
BoardInv ==
    /\ StepsMatch
    /\ CopiesLagBehind
    /\ CopiesWritable
    /\ LockHolds
    /\ ChatExists
    /\ ParticipantsWereAssigned

-----------------------------------------------------------------------------
(* One call at a time, and none fails: copies are current. *)

OneInFlight ==
    \A g, h \in Handlers : call[g] # Idle /\ call[h] # Idle => g = h

\* The steps of confirmTaskCompletion after it has settled the assignments,
\* and after it has paid the reward.
Settled(c) ==
    /\ c.op = "confirmTaskCompletion"
    /\ c.step \in {"boost", "count done", "complete request", "diff", "write"}
Rewarded(c) == Settled(c) /\ c.step # "boost"

\* The methods that take the steps named.
StepsOfMethods(c) ==
    /\ c.step \in {"settle", "boost", "count done", "complete request"} =>
           c.op = "confirmTaskCompletion"
    /\ c.step = "reopen" => c.op = "rejectTask"
    /\ c.step \in {"withdraw", "count remaining", "back to todo"} =>
           c.op = "withdrawAssignment"

\* The copy of the task is the row, but for the status set in memory.
RowCurrent(c) ==
    /\ c.op # "idle" => task[c.on].life # "absent"
    /\ LoadsAssignments(c.op) \/ c.step \in {"diff", "write"} =>
           c.row.life = task[c.on].life /\ c.row.chat = task[c.on].chat

\* The copies of the assignments are the rows, but for what the call settled.
CopyCurrent(c) ==
    /\ \A u \in Users : c.asgs[u] # "COMPLETED"
    /\ LoadsAssignments(c.op) \/ c.op = "assignVolunteer" =>
           \A u \in Users : \/ assignment[c.on][u] = c.asgs[u]
                            \/ /\ Settled(c) /\ c.asgs[u] = "ASSIGNED"
                               /\ assignment[c.on][u] = "COMPLETED"
    /\ LoadsAssignments(c.op) /\ task[c.on].chat # 0 =>
           Active(c.asgs) \subseteq chat[c.on][task[c.on].chat]
    /\ c.step = "mark" => /\ isActiveAssignmentStatus(assignment[c.on][c.user])
                          /\ isActiveAssignmentStatus(c.asgs[c.user])

\* save() writes every row that its copy and the database disagree on.
SaveComplete(c) ==
    /\ c.rows # {} => LoadsAssignments(c.op)
    /\ c.step = "write" /\ LoadsAssignments(c.op) =>
           \A u \in Users : c.asgs[u] # assignment[c.on][u] => u \in c.rows

\* A confirmation has a reviewed task in hand, owes it a reward until it has
\* paid, and will save it as DONE.
ConfirmPays(c) ==
    c.op = "confirmTaskCompletion" =>
        /\ task[c.on].status = "PENDING_REVIEW"
        /\ c.row.status = "DONE"
        /\ owed[c.on] \/ Rewarded(c)
        /\ c.step = "write" => "status" \in c.cols

CallCurrent(c) ==
    /\ StepsOfMethods(c)
    /\ RowCurrent(c)
    /\ CopyCurrent(c)
    /\ SaveComplete(c)
    /\ ConfirmPays(c)

\* No assignment is COMPLETED in the database unless the call in flight has
\* just settled it, and then save() takes it back.
CompletedBySettling ==
    \A t \in Tasks, u \in Users : assignment[t][u] = "COMPLETED" =>
        \E h \in Handlers : /\ Settled(call[h]) /\ call[h].on = t
                            /\ call[h].asgs[u] = "ASSIGNED"

\* A task in review has its reward ahead, or the call in flight has just paid it.
ReviewIsOwed ==
    \A t \in Tasks : task[t].status = "PENDING_REVIEW" =>
        owed[t] \/ \E h \in Handlers : Rewarded(call[h]) /\ call[h].on = t

\* Nothing happens to a task before it is made.
AbsentUntouched ==
    \A t \in Tasks : task[t].life = "absent" =>
        /\ task[t].status = "TODO" /\ task[t].chat = 0
        /\ \A u \in Users : assignment[t][u] = "NONE"

SerialInv ==
    /\ OneInFlight
    /\ \A h \in Handlers : CallCurrent(call[h])
    /\ CompletedBySettling
    /\ ReviewIsOwed
    /\ AbsentUntouched
    /\ ActiveInChat
=============================================================================
