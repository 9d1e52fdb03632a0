--------------------------- MODULE TaskBoardProofs ---------------------------
(* Theorems about TaskBoard, for every value of its constants. *)
EXTENDS TaskBoardInvariants, SequenceTheorems, TLAPS

LEMMA IdleType == Idle \in CallRecord
BY BoardAssumption DEF Idle, CallRecord, NewRow, TaskRow, TaskStatus, NoAssignments,
   AssignmentRow, AssignmentStatus, Method, Step, Column

LEMMA TypeInit == Init => TypeOK
<1> SUFFICES ASSUME Init PROVE TypeOK
  OBVIOUS
<1>1. task \in [Tasks -> TaskRow]
  BY DEF Init, NewRow, TaskRow, TaskStatus
<1>2. assignment \in [Tasks -> [Users -> AssignmentRow]]
  BY DEF Init, NoAssignments, AssignmentRow
<1>3. chat \in [Tasks -> Seq(SUBSET Users)]
  BY DEF Init
<1>4. call \in [Handlers -> CallRecord]
  BY IdleType DEF Init
<1>5. trust \in [Users -> 0..TrustCap] /\ overlaps \in 0..MaxOverlaps
  BY BoardAssumption DEF Init
<1> QED
  BY <1>1, <1>2, <1>3, <1>4, <1>5 DEF Init, TypeOK, RequestStatus

\* A call starts: the record it begins with is well typed.
LEMMA BeginType ==
    ASSUME TypeOK, NEW h \in Handlers, NEW c \in CallRecord, Begin(h, c)
    PROVE  TypeOK'
BY BoardAssumption DEF TypeOK, Begin, board

LEMMA ReadingType ==
    ASSUME TypeOK, NEW op \in Method, NEW s \in Step, NEW u \in Users, NEW t \in Tasks,
           NEW status \in TaskStatus
    PROVE  Reading(op, s, u, t, status) \in CallRecord
<1>1. [task[t] EXCEPT !.status = status] \in TaskRow
  BY DEF TypeOK, TaskRow
<1>2. assignment[t] \in [Users -> AssignmentRow]
  BY DEF TypeOK
<1> QED
  BY <1>1, <1>2, IdleType DEF Reading, Idle, CallRecord

LEMMA StartType ==
    ASSUME TypeOK, NEW h \in Handlers, NEW u \in Users, NEW t \in Tasks, Start(h, u, t)
    PROVE  TypeOK'
<1> USE DEF Method, Step, TaskStatus
<1>1. CASE update(h, u, t)
  <2>1. task[t].status \in TaskStatus
    BY DEF TypeOK, TaskRow
  <2> QED
    BY <1>1, <2>1, BeginType, ReadingType DEF update
<1>2. CASE deleteTask(h, u, t)
  <2>1. [Idle EXCEPT !.op = "deleteTask", !.step = "soft delete",
                     !.user = u, !.on = t] \in CallRecord
    BY IdleType DEF Idle, CallRecord
  <2> QED
    BY <1>2, <2>1, BeginType DEF deleteTask
<1>3. CASE assignVolunteer(h, u, t)
  <2>1. task[t] \in TaskRow /\ assignment[t] \in [Users -> AssignmentRow]
    BY DEF TypeOK
  <2>2. [Idle EXCEPT !.op = "assignVolunteer", !.step = "lock held",
                     !.user = u, !.on = t, !.row = task[t],
                     !.asgs = assignment[t], !.sawOpen = (request = "OPEN")] \in CallRecord
    BY <2>1, IdleType DEF Idle, CallRecord
  <2> QED
    BY <1>3, <2>2, BeginType DEF assignVolunteer
<1>4. CASE withdrawAssignment(h, u, t)
  <2>1. [Idle EXCEPT !.op = "withdrawAssignment", !.step = "withdraw",
                     !.user = u, !.on = t] \in CallRecord
    BY IdleType DEF Idle, CallRecord
  <2> QED
    BY <1>4, <2>1, BeginType DEF withdrawAssignment
<1>5. CASE completeTask(h, u, t)
  BY <1>5, BeginType, ReadingType DEF completeTask
<1>6. CASE returnToProgress(h, u, t)
  BY <1>6, BeginType, ReadingType DEF returnToProgress
<1>7. CASE confirmTaskCompletion(h, u, t)
  BY <1>7, BeginType, ReadingType DEF confirmTaskCompletion
<1>8. CASE rejectTask(h, u, t)
  BY <1>8, BeginType, ReadingType DEF rejectTask
<1>9. CASE updateTaskStatusAdmin(h, u, t)
  <2>1. PICK status \in TaskStatus :
            Begin(h, Reading("updateTaskStatusAdmin", "diff", u, t, status))
    BY <1>9 DEF updateTaskStatusAdmin
  <2> QED
    BY <2>1, BeginType, ReadingType
<1>10. CASE cancelTask(h, u, t)
  BY <1>10, BeginType, ReadingType DEF cancelTask
<1>11. CASE renewTask(h, u, t)
  BY <1>11, BeginType, ReadingType DEF renewTask
<1>12. CASE updateAssignmentStatus(h, u, t)
  <2>1. PICK status \in {"ASSIGNED", "EN_ROUTE", "ON_SITE"} :
            Begin(h, [Idle EXCEPT !.op = "updateAssignmentStatus", !.step = "mark",
                                  !.user = u, !.on = t,
                     !.asgs = [NoAssignments EXCEPT ![u] = status]])
    BY <1>12 DEF updateAssignmentStatus
  <2>2. [Idle EXCEPT !.op = "updateAssignmentStatus", !.step = "mark",
                     !.user = u, !.on = t,
                     !.asgs = [NoAssignments EXCEPT ![u] = status]] \in CallRecord
    BY IdleType DEF Idle, CallRecord, NoAssignments, AssignmentRow, AssignmentStatus
  <2> QED
    BY <2>1, <2>2, BeginType
<1> QED
  BY <1>1, <1>2, <1>3, <1>4, <1>5, <1>6, <1>7, <1>8, <1>9, <1>10, <1>11, <1>12 DEF Start

-----------------------------------------------------------------------------
(* Type correctness of the later steps. *)

\* The insert into chat_participants keeps the chats a sequence of user sets.
LEMMA JoinChat ==
    ASSUME NEW s \in Seq(SUBSET Users), NEW i \in Nat, NEW u \in Users
    PROVE  /\ [s EXCEPT ![i] = @ \cup {u}] \in Seq(SUBSET Users)
           /\ Len([s EXCEPT ![i] = @ \cup {u}]) = Len(s)
<1>1. CASE i \in 1..Len(s)
  <2>1. s[i] \cup {u} \in SUBSET Users
    BY <1>1
  <2> QED
    BY <1>1, <2>1, ExceptSeq
<1>2. CASE i \notin 1..Len(s)
  <2>1. [s EXCEPT ![i] = @ \cup {u}] = s
    BY <1>2
  <2> QED
    BY <2>1
<1> QED
  BY <1>1, <1>2

\* A step that only moves call h on, or ends it.
LEMMA MoveType ==
    ASSUME TypeOK, NEW h \in Handlers, NEW s \in Step
    PROVE  /\ Goto(h, s) => call' \in [Handlers -> CallRecord]
           /\ Return(h) => call' \in [Handlers -> CallRecord]
<1>1. [call[h] EXCEPT !.step = s] \in CallRecord
  BY DEF TypeOK, CallRecord
<1> QED
  BY <1>1, IdleType DEF TypeOK, Goto, Return

LEMMA CallType ==
    ASSUME TypeOK, NEW h \in Handlers
    PROVE  /\ call[h] \in CallRecord
           /\ call[h].user \in Users /\ call[h].on \in Tasks
           /\ call[h].row \in TaskRow /\ call[h].row.chat \in Nat
           /\ call[h].asgs \in [Users -> AssignmentRow]
           /\ call[h].rows \subseteq Users /\ call[h].cols \subseteq Column
BY DEF TypeOK, CallRecord, TaskRow

LEMMA RestateType ==
    ASSUME TypeOK, NEW t \in Tasks, NEW from \in AssignmentRow, NEW to \in AssignmentRow,
           Restate(t, from, to)
    PROVE  assignment' \in [Tasks -> [Users -> AssignmentRow]]
BY DEF TypeOK, Restate

LEMMA CommitType ==
    ASSUME TypeOK, NEW h \in Handlers, CommitAssignment(h)
    PROVE  TypeOK'
<1> DEFINE c == call[h]
           t == c.on
<1>1. /\ t \in Tasks /\ c.user \in Users /\ c.row.chat \in Nat
      /\ createChatWithAssignments(c) \subseteq Users
  BY CallType, BoardAssumption DEF createChatWithAssignments, Active
<1>2. assignment' \in [Tasks -> [Users -> AssignmentRow]]
  BY <1>1 DEF TypeOK, CommitAssignment, AssignmentRow, AssignmentStatus
<1>3. chat[t] \in Seq(SUBSET Users) /\ Len(chat[t]) + 1 \in Nat
  BY <1>1 DEF TypeOK
<1>4. task' \in [Tasks -> TaskRow]
  BY <1>1, <1>3 DEF TypeOK, CommitAssignment, TaskRow, TaskStatus
<1>5. Append(chat[t], createChatWithAssignments(c)) \in Seq(SUBSET Users)
  BY <1>1, <1>3
<1>6. [chat[t] EXCEPT ![c.row.chat] = @ \cup {c.user}] \in Seq(SUBSET Users)
  BY <1>1, <1>3, JoinChat
<1>7. chat' \in [Tasks -> Seq(SUBSET Users)]
  BY <1>1, <1>5, <1>6 DEF TypeOK, CommitAssignment
<1>8. request' \in RequestStatus
  BY DEF TypeOK, CommitAssignment, RequestStatus
<1>9. call' \in [Handlers -> CallRecord]
  BY MoveType DEF CommitAssignment, Step
<1> QED
  BY <1>2, <1>4, <1>7, <1>8, <1>9 DEF TypeOK, CommitAssignment

LEMMA WriteType ==
    ASSUME TypeOK, NEW h \in Handlers, Write(h)
    PROVE  TypeOK'
<1> DEFINE c == call[h]
           t == c.on
<1>1. t \in Tasks /\ c.row \in TaskRow /\ c.asgs \in [Users -> AssignmentRow]
  BY CallType
<1>2. task[t] \in TaskRow /\ assignment[t] \in [Users -> AssignmentRow]
  BY <1>1 DEF TypeOK
<1>3. task' \in [Tasks -> TaskRow]
  BY <1>1, <1>2 DEF TypeOK, Write, TaskRow
<1>4. assignment' \in [Tasks -> [Users -> AssignmentRow]]
  BY <1>1, <1>2 DEF TypeOK, Write
<1>5. owed' \in [Tasks -> BOOLEAN]
  BY <1>1 DEF TypeOK, Write
<1>6. call' \in [Handlers -> CallRecord]
  BY MoveType DEF Write, Step
<1> QED
  BY <1>3, <1>4, <1>5, <1>6 DEF TypeOK, Write

LEMMA ContinueType ==
    ASSUME TypeOK, NEW h \in Handlers, Continue(h)
    PROVE  TypeOK'
<1> USE DEF Step
<1> DEFINE c == call[h]
<1>0. c.on \in Tasks /\ c.user \in Users /\ c.asgs \in [Users -> AssignmentRow]
  BY CallType
<1>1. CASE RefuseAssignment(h)
  BY <1>1, MoveType DEF RefuseAssignment, TypeOK, board
<1>2. CASE CommitAssignment(h)
  BY <1>2, CommitType
<1>3. CASE Withdraw(h)
  <2>1. assignment' \in [Tasks -> [Users -> AssignmentRow]]
    BY <1>3, <1>0 DEF Withdraw, TypeOK, AssignmentRow, AssignmentStatus
  <2> QED
    BY <1>3, <2>1, MoveType DEF Withdraw, TypeOK
<1>4. CASE CountRemaining(h)
  BY <1>4, MoveType DEF CountRemaining, TypeOK, board
<1>5. CASE BackToTodo(h)
  <2>1. task' \in [Tasks -> TaskRow]
    BY <1>5, <1>0 DEF BackToTodo, TypeOK, TaskRow, TaskStatus
  <2> QED
    BY <1>5, <2>1, MoveType DEF BackToTodo, TypeOK
<1>6. CASE Settle(h)
  <2>1. assignment' \in [Tasks -> [Users -> AssignmentRow]]
    BY <1>6, <1>0, RestateType DEF Settle, AssignmentRow, AssignmentStatus
  <2> QED
    BY <1>6, <2>1, MoveType DEF Settle, TypeOK
<1>7. CASE boostVolunteerScores(h)
  <2>1. trust' \in [Users -> 0..TrustCap]
    <3>1. ASSUME NEW u \in Users
          PROVE  (IF u \in Assigned(c.asgs) THEN Raised(trust[u]) ELSE trust[u])
                     \in 0..TrustCap
      BY BoardAssumption DEF TypeOK, Raised
    <3> QED
      BY <1>7, <3>1 DEF boostVolunteerScores
  <2> QED
    BY <1>7, <1>0, <2>1, MoveType DEF boostVolunteerScores, TypeOK
<1>8. CASE checkRequestCompletion(h)
  BY <1>8, MoveType DEF checkRequestCompletion, TypeOK, board
<1>9. CASE CompleteRequest(h)
  BY <1>9, MoveType DEF CompleteRequest, TypeOK, RequestStatus
<1>10. CASE Reopen(h)
  <2>1. assignment' \in [Tasks -> [Users -> AssignmentRow]]
    BY <1>10, <1>0, RestateType DEF Reopen, AssignmentRow, AssignmentStatus
  <2> QED
    BY <1>10, <2>1, MoveType DEF Reopen, TypeOK
<1>11. CASE Mark(h)
  <2>1. assignment' \in [Tasks -> [Users -> AssignmentRow]]
    BY <1>11, <1>0 DEF Mark, TypeOK
  <2> QED
    BY <1>11, <2>1, MoveType DEF Mark, TypeOK
<1>12. CASE SoftDelete(h)
  <2>1. task' \in [Tasks -> TaskRow]
    BY <1>12, <1>0 DEF SoftDelete, TypeOK, TaskRow
  <2> QED
    BY <1>12, <2>1, MoveType DEF SoftDelete, TypeOK
<1>13. CASE Diff(h)
  <2>1. call' \in [Handlers -> CallRecord]
    <3>1. CASE Return(h)
      BY <3>1, MoveType
    <3>2. CASE ~Return(h)
      <4>1. PICK cols \in SUBSET Column, rows \in SUBSET Users :
              call' = [call EXCEPT ![h].step = "write", ![h].cols = cols, ![h].rows = rows]
        BY <1>13, <3>2 DEF Diff, Assigned
      <4>2. [[[c EXCEPT !.step = "write"] EXCEPT !.cols = cols] EXCEPT !.rows = rows]
                \in CallRecord
        BY CallType DEF CallRecord
      <4> QED
        BY <4>1, <4>2 DEF TypeOK
    <3> QED
      BY <3>1, <3>2
  <2> QED
    BY <1>13, <2>1 DEF Diff, TypeOK, board
<1>14. CASE Write(h)
  BY <1>14, WriteType
<1> QED
  BY <1>1, <1>2, <1>3, <1>4, <1>5, <1>6, <1>7, <1>8, <1>9, <1>10, <1>11, <1>12,
     <1>13, <1>14 DEF Continue

LEMMA CreateType ==
    ASSUME TypeOK, NEW u \in Users, NEW t \in Tasks, create(u, t)
    PROVE  TypeOK'
BY DEF TypeOK, create, NewRow, TaskRow, TaskStatus

LEMMA TypeStep == TypeOK /\ [Next]_vars => TypeOK'
<1> SUFFICES ASSUME TypeOK, [Next]_vars PROVE TypeOK'
  OBVIOUS
<1>1. ASSUME NEW u \in Users, NEW t \in Tasks, create(u, t) PROVE TypeOK'
  BY <1>1, CreateType
<1>2. ASSUME NEW h \in Handlers, NEW u \in Users, NEW t \in Tasks, Start(h, u, t)
      PROVE  TypeOK'
  BY <1>2, StartType
<1>3. ASSUME NEW h \in Handlers, Continue(h) PROVE TypeOK'
  BY <1>3, ContinueType
<1>4. ASSUME NEW h \in Handlers, Fail(h) PROVE TypeOK'
  BY <1>4, MoveType DEF Fail, TypeOK, board, Step
<1>5. CASE UNCHANGED vars
  BY <1>5 DEF TypeOK, vars
<1> QED
  BY <1>1, <1>2, <1>3, <1>4, <1>5 DEF Next

\* Every row, copy and score keeps its type, in particular a trust score never
\* passes its cap (LEAST in boostVolunteerScores), however calls interleave.
THEOREM TypeCorrect == Spec => []TypeOK
BY TypeInit, TypeStep, PTL DEF Spec

-----------------------------------------------------------------------------
(* What one step can do to the copies that calls hold. *)

\* A record a call may begin with, in the present state of the board.
Fresh(c) ==
    /\ c \in CallRecord /\ c.op # "idle"
    /\ c.op = "assignVolunteer" <=> c.step = "lock held"
    /\ c.row.chat \in {0, task[c.on].chat}
    /\ \A u \in Users : c.asgs[u] # "NONE" => assignment[c.on][u] # "NONE"
    /\ c.rows = {}
    /\ c.step = "withdraw" => assignment[c.on][c.user] # "NONE"
    /\ c.step = "mark" => c.asgs[c.user] # "NONE"
    /\ c.op = "assignVolunteer" =>
           /\ ~Locked(c.on) /\ c.row = task[c.on]
           /\ Live(c.on) /\ task[c.on].status \notin {"DONE", "CANCELLED"}

\* What becomes of record c when its call moves on without ending.
Moved(c, d) ==
    /\ d \in CallRecord /\ d.op \notin {"idle", "assignVolunteer"}
    /\ d.on = c.on /\ d.row = c.row /\ d.asgs = c.asgs /\ d.user = c.user
    /\ d.step \notin {"lock held", "mark", "withdraw"}
    /\ \A u \in d.rows : d.asgs[u] # "NONE"

\* The record Reading builds is fresh.
LEMMA ReadingFresh ==
    ASSUME TypeOK, NEW u \in Users, NEW t \in Tasks, NEW status \in TaskStatus,
           NEW op \in Method \ {"idle", "assignVolunteer"},
           NEW s \in Step \ {"lock held", "mark", "withdraw"}
    PROVE  Fresh(Reading(op, s, u, t, status))
<1> DEFINE c == Reading(op, s, u, t, status)
<1>1. c \in CallRecord
  BY ReadingType
<1>2. c.op = op /\ c.step = s /\ c.on = t /\ c.rows = {}
      /\ c.row = [task[t] EXCEPT !.status = status]
      /\ c.asgs = IF LoadsAssignments(op) THEN assignment[t] ELSE NoAssignments
  BY DEF Reading, Idle
<1>3. c.row.chat = task[t].chat
  <2>1. task[t] \in TaskRow
    BY DEF TypeOK
  <2>2. [task[t] EXCEPT !.status = status].chat = task[t].chat
    BY <2>1 DEF TaskRow
  <2> QED
    BY <1>2, <2>2
<1>4. \A v \in Users : c.asgs[v] # "NONE" => assignment[t][v] # "NONE"
  BY <1>2 DEF NoAssignments
<1> QED
  BY <1>1, <1>2, <1>3, <1>4 DEF Fresh

LEMMA StartFresh ==
    ASSUME TypeOK, NEW h \in Handlers, NEW u \in Users, NEW t \in Tasks, Start(h, u, t)
    PROVE  /\ call[h] = Idle /\ UNCHANGED board
           /\ \E c \in CallRecord : Fresh(c) /\ call' = [call EXCEPT ![h] = c]
<1> SUFFICES \E c : Fresh(c) /\ Begin(h, c)
  BY DEF Begin, Fresh
<1> USE DEF Method, Step, TaskStatus
<1>1. CASE update(h, u, t)
  <2>1. task[t].status \in TaskStatus
    BY DEF TypeOK, TaskRow
  <2> QED
    BY <1>1, <2>1, ReadingFresh DEF update
<1>2. CASE deleteTask(h, u, t)
  <2> DEFINE c == [Idle EXCEPT !.op = "deleteTask", !.step = "soft delete",
                               !.user = u, !.on = t]
  <2>1. Fresh(c)
    BY IdleType DEF Idle, CallRecord, Fresh, NewRow, NoAssignments
  <2> QED
    BY <1>2, <2>1 DEF deleteTask
<1>3. CASE assignVolunteer(h, u, t)
  <2> DEFINE c == [Idle EXCEPT !.op = "assignVolunteer", !.step = "lock held",
                     !.user = u, !.on = t, !.row = task[t],
                     !.asgs = assignment[t], !.sawOpen = (request = "OPEN")]
  <2>1. task[t] \in TaskRow /\ assignment[t] \in [Users -> AssignmentRow]
    BY DEF TypeOK
  <2>2. c \in CallRecord
    BY <2>1, IdleType DEF Idle, CallRecord
  <2>3. c.op = "assignVolunteer" /\ c.step = "lock held" /\ c.on = t
        /\ c.row = task[t] /\ c.asgs = assignment[t] /\ c.rows = {}
    BY DEF Idle
  <2>4. Fresh(c)
    BY <1>3, <2>2, <2>3 DEF Fresh, assignVolunteer
  <2> QED
    BY <1>3, <2>4 DEF assignVolunteer
<1>4. CASE withdrawAssignment(h, u, t)
  <2> DEFINE c == [Idle EXCEPT !.op = "withdrawAssignment", !.step = "withdraw",
                               !.user = u, !.on = t]
  <2>1. assignment[t][u] # "NONE"
    BY <1>4 DEF withdrawAssignment
  <2>2. Fresh(c)
    BY <2>1, IdleType DEF Idle, CallRecord, Fresh, NewRow, NoAssignments
  <2> QED
    BY <1>4, <2>2 DEF withdrawAssignment
<1>5. CASE completeTask(h, u, t)
  BY <1>5, ReadingFresh DEF completeTask
<1>6. CASE returnToProgress(h, u, t)
  BY <1>6, ReadingFresh DEF returnToProgress
<1>7. CASE confirmTaskCompletion(h, u, t)
  BY <1>7, ReadingFresh DEF confirmTaskCompletion
<1>8. CASE rejectTask(h, u, t)
  BY <1>8, ReadingFresh DEF rejectTask
<1>9. CASE updateTaskStatusAdmin(h, u, t)
  BY <1>9, ReadingFresh DEF updateTaskStatusAdmin
<1>10. CASE cancelTask(h, u, t)
  BY <1>10, ReadingFresh DEF cancelTask
<1>11. CASE renewTask(h, u, t)
  BY <1>11, ReadingFresh DEF renewTask
<1>12. CASE updateAssignmentStatus(h, u, t)
  <2>1. PICK status \in {"ASSIGNED", "EN_ROUTE", "ON_SITE"} :
            Begin(h, [Idle EXCEPT !.op = "updateAssignmentStatus", !.step = "mark",
                                  !.user = u, !.on = t,
                                  !.asgs = [NoAssignments EXCEPT ![u] = status]])
    BY <1>12 DEF updateAssignmentStatus
  <2> DEFINE a == [NoAssignments EXCEPT ![u] = status]
             c == [Idle EXCEPT !.op = "updateAssignmentStatus", !.step = "mark",
                               !.user = u, !.on = t, !.asgs = a]
  <2>2. /\ a \in [Users -> AssignmentRow] /\ a[u] = status
        /\ \A v \in Users : a[v] # "NONE" => v = u
    BY DEF NoAssignments, AssignmentRow, AssignmentStatus
  <2>3. c \in CallRecord
    BY <2>2, IdleType DEF Idle, CallRecord
  <2>4. /\ c.op = "updateAssignmentStatus" /\ c.step = "mark" /\ c.on = t
        /\ c.user = u /\ c.row = NewRow /\ c.asgs = a /\ c.rows = {}
    BY DEF Idle
  <2>5. assignment[t][u] # "NONE"
    BY <1>12 DEF updateAssignmentStatus, isActiveAssignmentStatus
  <2>6. Fresh(c)
    BY <2>2, <2>3, <2>4, <2>5 DEF Fresh, NewRow
  <2> QED
    BY <2>1, <2>6
<1> QED
  BY <1>1, <1>2, <1>3, <1>4, <1>5, <1>6, <1>7, <1>8, <1>9, <1>10, <1>11, <1>12 DEF Start

\* A call past its first step is neither idle nor in the transaction.
LEMMA Underway ==
    ASSUME StepsMatch, NEW h \in Handlers, call[h].step \notin {"none", "lock held"}
    PROVE  call[h].op \notin {"idle", "assignVolunteer"}
<1>1. Idle.step = "none"
  BY DEF Idle
<1> QED
  BY <1>1 DEF StepsMatch

\* What save() finds to write: of the assignments, rows that exist in the copy.
LEMMA DiffCopy ==
    ASSUME TypeOK, NEW h \in Handlers, Diff(h), ~Return(h)
    PROVE  \E cols \in SUBSET Column, rows \in SUBSET Users :
               /\ call' = [call EXCEPT ![h].step = "write", ![h].cols = cols, ![h].rows = rows]
               /\ \A u \in rows : call[h].asgs[u] # "NONE"
<1> DEFINE c == call[h]
           t == c.on
           loaded == IF LoadsAssignments(c.op) THEN Assigned(assignment[t]) ELSE {}
           cols == {k \in Column : c.row[k] # task[t][k]}
           rows == {u \in loaded : c.asgs[u] # assignment[t][u]}
<1>1. loaded \subseteq Users
  BY DEF Assigned
<1>2. /\ {u \in loaded : c.asgs[u] = "NONE"} = {}
      /\ call' = [call EXCEPT ![h].step = "write", ![h].cols = cols, ![h].rows = rows]
  BY DEF Diff
<1>3. \A u \in rows : c.asgs[u] # "NONE"
  BY <1>2
<1> QED
  BY <1>1, <1>2, <1>3

\* The record of a call that goes on to write.
Writing(c, cols, rows) ==
    [[[c EXCEPT !.step = "write"] EXCEPT !.cols = cols] EXCEPT !.rows = rows]

LEMMA WritingCopy ==
    ASSUME NEW c \in CallRecord, NEW cols \in SUBSET Column, NEW rows \in SUBSET Users
    PROVE  LET d == Writing(c, cols, rows) IN
           /\ d \in CallRecord /\ d.op = c.op /\ d.on = c.on
           /\ d.row = c.row /\ d.asgs = c.asgs /\ d.user = c.user
           /\ d.rows = rows /\ d.step = "write"
BY DEF CallRecord, Step, Writing

LEMMA ContinueCopy ==
    ASSUME TypeOK, StepsMatch, CopiesWritable, NEW h \in Handlers, Continue(h) \/ Fail(h)
    PROVE  \E c \in CallRecord : /\ call' = [call EXCEPT ![h] = c]
                                 /\ c = Idle \/ Moved(call[h], c)
<1>1. CASE Return(h)
  BY <1>1, IdleType DEF Return
<1>2. ASSUME NEW s \in Step \ {"lock held", "mark", "withdraw"}, Goto(h, s),
             call[h].step \notin {"none", "lock held"}
      PROVE  \E c \in CallRecord : call' = [call EXCEPT ![h] = c] /\ Moved(call[h], c)
  <2> DEFINE c == [call[h] EXCEPT !.step = s]
  <2>1. call' = [call EXCEPT ![h] = c]
    BY <1>2 DEF Goto
  <2>2. /\ c \in CallRecord /\ c.op = call[h].op /\ c.on = call[h].on
        /\ c.row = call[h].row /\ c.asgs = call[h].asgs /\ c.user = call[h].user
        /\ c.rows = call[h].rows /\ c.step = s
    BY CallType DEF CallRecord
  <2>3. call[h].op \notin {"idle", "assignVolunteer"}
    BY <1>2, Underway
  <2> QED
    BY <1>2, <2>1, <2>2, <2>3 DEF Moved, CopiesWritable
<1>3. CASE Diff(h) /\ ~Return(h)
  <2>1. PICK cols \in SUBSET Column, rows \in SUBSET Users :
          /\ call' = [call EXCEPT ![h].step = "write", ![h].cols = cols, ![h].rows = rows]
          /\ \A u \in rows : call[h].asgs[u] # "NONE"
    BY <1>3, DiffCopy
  <2> DEFINE d == Writing(call[h], cols, rows)
  <2>2. call' = [call EXCEPT ![h] = d]
    BY <2>1 DEF TypeOK, Writing
  <2>3. /\ d \in CallRecord /\ d.op = call[h].op /\ d.on = call[h].on
        /\ d.row = call[h].row /\ d.asgs = call[h].asgs /\ d.user = call[h].user
        /\ d.rows = rows /\ d.step = "write"
    BY CallType, WritingCopy
  <2>4. call[h].op \notin {"idle", "assignVolunteer"}
    BY <1>3, Underway DEF Diff, At
  <2> QED
    BY <2>1, <2>2, <2>3, <2>4 DEF Moved
<1>4. CASE Withdraw(h)
  BY <1>4, <1>2 DEF Withdraw, At, Step
<1>5. CASE CountRemaining(h)
  BY <1>5, <1>1, <1>2 DEF CountRemaining, At, Step
<1>6. CASE Settle(h)
  BY <1>6, <1>2 DEF Settle, At, Step
<1>7. CASE boostVolunteerScores(h)
  BY <1>7, <1>2 DEF boostVolunteerScores, At, Step
<1>8. CASE checkRequestCompletion(h)
  BY <1>8, <1>2 DEF checkRequestCompletion, At, Step
<1>9. CASE CompleteRequest(h)
  BY <1>9, <1>2 DEF CompleteRequest, At, Step
<1>10. CASE Reopen(h)
  BY <1>10, <1>2 DEF Reopen, At, Step
<1> QED
  BY <1>1, <1>3, <1>4, <1>5, <1>6, <1>7, <1>8, <1>9, <1>10
     DEF Continue, Fail, RefuseAssignment, CommitAssignment, BackToTodo, Mark,
         SoftDelete, Write

-----------------------------------------------------------------------------
(* The board while calls overlap and fail. *)

\* One step changes the record of at most one call.
LEMMA StepCopy ==
    ASSUME TypeOK, StepsMatch, CopiesWritable, [Next]_vars
    PROVE  \/ call' = call
           \/ \E h \in Handlers, c \in CallRecord :
                 /\ call' = [call EXCEPT ![h] = c]
                 /\ \/ c = Idle
                    \/ Moved(call[h], c)
                    \/ call[h] = Idle /\ Fresh(c) /\ UNCHANGED board
<1>1. ASSUME NEW u \in Users, NEW t \in Tasks, create(u, t) PROVE call' = call
  BY <1>1 DEF create
<1>2. ASSUME NEW h \in Handlers, NEW u \in Users, NEW t \in Tasks, Start(h, u, t)
      PROVE  /\ call[h] = Idle /\ UNCHANGED board
             /\ \E c \in CallRecord : Fresh(c) /\ call' = [call EXCEPT ![h] = c]
  BY <1>2, StartFresh
<1>3. ASSUME NEW h \in Handlers, Continue(h) \/ Fail(h)
      PROVE  \E c \in CallRecord : /\ call' = [call EXCEPT ![h] = c]
                                   /\ c = Idle \/ Moved(call[h], c)
  BY <1>3, ContinueCopy
<1>4. CASE UNCHANGED vars
  BY <1>4 DEF vars
<1> QED
  BY <1>1, <1>2, <1>3, <1>4 DEF Next

\* The steps of a call that touch a table of the board, sorted by the table.
LEMMA StepWrites ==
    ASSUME [Next]_vars
    PROVE  /\ \/ UNCHANGED task
              \/ \E u \in Users, t \in Tasks : create(u, t)
              \/ \E h \in Handlers : \/ CommitAssignment(h) \/ BackToTodo(h)
                                     \/ SoftDelete(h) \/ Write(h)
           /\ \/ UNCHANGED assignment
              \/ \E h \in Handlers : \/ CommitAssignment(h) \/ Withdraw(h) \/ Settle(h)
                                     \/ Reopen(h) \/ Mark(h) \/ Write(h)
           /\ \/ UNCHANGED chat
              \/ \E h \in Handlers : CommitAssignment(h)
<1>1. ASSUME NEW u \in Users, NEW t \in Tasks, create(u, t)
      PROVE  UNCHANGED <<assignment, chat>>
  BY <1>1 DEF create
<1>2. ASSUME NEW h \in Handlers, NEW u \in Users, NEW t \in Tasks, Start(h, u, t)
      PROVE  UNCHANGED <<task, assignment, chat>>
  BY <1>2 DEF Start, update, deleteTask, assignVolunteer, withdrawAssignment,
     completeTask, returnToProgress, confirmTaskCompletion, rejectTask,
     updateTaskStatusAdmin, cancelTask, renewTask, updateAssignmentStatus, Begin, board
<1>3. ASSUME NEW h \in Handlers, Continue(h) \/ Fail(h)
      PROVE  /\ \/ UNCHANGED task
                \/ CommitAssignment(h) \/ BackToTodo(h) \/ SoftDelete(h) \/ Write(h)
             /\ \/ UNCHANGED assignment
                \/ CommitAssignment(h) \/ Withdraw(h) \/ Settle(h)
                \/ Reopen(h) \/ Mark(h) \/ Write(h)
             /\ UNCHANGED chat \/ CommitAssignment(h)
  BY <1>3 DEF Continue, Fail, RefuseAssignment, CountRemaining, Withdraw, BackToTodo,
     Settle, boostVolunteerScores, checkRequestCompletion, CompleteRequest, Reopen,
     Mark, SoftDelete, Diff, Write, board
<1>4. CASE UNCHANGED vars
  BY <1>4 DEF vars
<1> QED
  BY <1>1, <1>2, <1>3, <1>4 DEF Next

\* Nothing removes an assignment, not even the save of an old copy.
LEMMA AssignmentsStay ==
    ASSUME TypeOK, CopiesWritable, [Next]_vars, NEW t \in Tasks, NEW u \in Users,
           assignment[t][u] # "NONE"
    PROVE  assignment'[t][u] # "NONE"
<1>1. assignment \in [Tasks -> [Users -> AssignmentRow]]
  BY DEF TypeOK
<1>2. ASSUME NEW h \in Handlers, CommitAssignment(h) PROVE assignment'[t][u] # "NONE"
  BY <1>1, <1>2 DEF CommitAssignment
<1>3. ASSUME NEW h \in Handlers, Withdraw(h) PROVE assignment'[t][u] # "NONE"
  BY <1>1, <1>3 DEF Withdraw
<1>4. ASSUME NEW h \in Handlers, Settle(h) \/ Reopen(h) PROVE assignment'[t][u] # "NONE"
  BY <1>1, <1>4 DEF Settle, Reopen, Restate
<1>5. ASSUME NEW h \in Handlers, Mark(h) PROVE assignment'[t][u] # "NONE"
  BY <1>1, <1>5 DEF Mark, At, CopiesWritable
<1>6. ASSUME NEW h \in Handlers, Write(h) PROVE assignment'[t][u] # "NONE"
  BY <1>1, <1>6 DEF Write, CopiesWritable
<1> QED
  BY StepWrites, <1>2, <1>3, <1>4, <1>5, <1>6

\* No chat disappears.
LEMMA ChatsStay ==
    ASSUME TypeOK, [Next]_vars, NEW t \in Tasks
    PROVE  Len(chat[t]) \in Nat /\ Len(chat'[t]) \in Nat /\ Len(chat'[t]) >= Len(chat[t])
<1>1. chat[t] \in Seq(SUBSET Users) /\ Len(chat[t]) \in Nat
  BY DEF TypeOK
<1>2. ASSUME NEW h \in Handlers, CommitAssignment(h)
      PROVE  \/ chat'[t] = chat[t]
             \/ chat'[t] = Append(chat[t], createChatWithAssignments(call[h]))
             \/ chat'[t] = [chat[t] EXCEPT ![call[h].row.chat] = @ \cup {call[h].user}]
  BY <1>2 DEF CommitAssignment, TypeOK
<1>3. ASSUME NEW h \in Handlers, CommitAssignment(h)
      PROVE  Len(chat'[t]) = Len(chat[t]) \/ Len(chat'[t]) = Len(chat[t]) + 1
  <2>1. call[h].row.chat \in Nat /\ call[h].user \in Users
    BY CallType
  <2>2. Len([chat[t] EXCEPT ![call[h].row.chat] = @ \cup {call[h].user}]) = Len(chat[t])
    BY <1>1, <2>1, JoinChat
  <2>3. createChatWithAssignments(call[h]) \in SUBSET Users
    BY <2>1, BoardAssumption DEF createChatWithAssignments, Active
  <2>4. Len(Append(chat[t], createChatWithAssignments(call[h]))) = Len(chat[t]) + 1
    BY <1>1, <2>3
  <2> QED
    BY <1>2, <1>3, <2>2, <2>4
<1> QED
  BY <1>1, <1>3, StepWrites

\* While a call holds the lock of a task and goes on holding it, the row stays.
LEMMA LockedRowStays ==
    ASSUME TypeOK, BoardInv, [Next]_vars, NEW g \in Handlers,
           call[g].op = "assignVolunteer", call'[g] = call[g]
    PROVE  task'[call[g].on] = task[call[g].on]
<1> DEFINE t == call[g].on
<1>1. t \in Tasks /\ task \in [Tasks -> TaskRow] /\ Locked(t) /\ Live(t)
  BY CallType DEF TypeOK, Locked, BoardInv, LockHolds, Live
<1>2. ASSUME NEW u \in Users, NEW s \in Tasks, create(u, s) PROVE task'[t] = task[t]
  BY <1>1, <1>2 DEF create, Live
<1>3. ASSUME NEW h \in Handlers, CommitAssignment(h) PROVE task'[t] = task[t]
  <2>1. h # g
    <3>1. SUFFICES ASSUME h = g PROVE FALSE
      OBVIOUS
    <3>2. call'[g] = Idle
      BY <1>3, <3>1 DEF CommitAssignment, Return, TypeOK
    <3> QED
      BY <3>2 DEF Idle
  <2>2. call[h].op = "assignVolunteer"
    BY <1>3 DEF CommitAssignment, At, BoardInv, StepsMatch
  <2>3. call[h].on # t
    BY <2>1, <2>2 DEF BoardInv, LockHolds
  <2> QED
    BY <1>1, <1>3, <2>3 DEF CommitAssignment
<1>4. ASSUME NEW h \in Handlers, BackToTodo(h) \/ SoftDelete(h) PROVE task'[t] = task[t]
  BY <1>1, <1>4 DEF BackToTodo, SoftDelete
<1>5. ASSUME NEW h \in Handlers, Write(h) PROVE task'[t] = task[t]
  <2>1. CASE call[h].on # t
    BY <1>1, <1>5, <2>1 DEF Write
  <2>2. CASE call[h].on = t
    <3>1. call[h].cols = {}
      BY <1>1, <1>5, <2>2 DEF Write
    <3>2. task'[t] = [life |-> task[t].life, status |-> task[t].status, chat |-> task[t].chat]
      BY <1>1, <1>5, <2>2, <3>1 DEF Write
    <3>3. task[t] \in TaskRow
      BY <1>1
    <3> QED
      BY <3>2, <3>3 DEF TaskRow
  <2> QED
    BY <2>1, <2>2
<1> QED
  BY StepWrites, <1>2, <1>3, <1>4, <1>5

LEMMA BoardInit == Init => BoardInv
<1> SUFFICES ASSUME Init PROVE BoardInv
  OBVIOUS
<1> USE DEF Init
<1>1. /\ Idle.op = "idle" /\ Idle.step = "none" /\ Idle.row.chat = 0 /\ Idle.rows = {}
      /\ \A u \in Users : Idle.asgs[u] = "NONE"
  BY DEF Idle, NewRow, NoAssignments
<1>2. StepsMatch /\ CopiesLagBehind /\ CopiesWritable /\ LockHolds
  BY <1>1 DEF StepsMatch, CopiesLagBehind, CopiesWritable, LockHolds
<1>3. ChatExists
  <2>1. \A t \in Tasks : task[t].chat = 0 /\ chat[t] = <<>>
    BY DEF NewRow
  <2> QED
    BY <1>1, <2>1, IdleType DEF ChatExists, CallRecord
<1>4. ParticipantsWereAssigned
  BY DEF ParticipantsWereAssigned
<1> QED
  BY <1>2, <1>3, <1>4 DEF BoardInv

\* What is true of the record of each call after a step, and where it comes from.
LEMMA CopyAfter ==
    ASSUME TypeOK, BoardInv, [Next]_vars, NEW g \in Handlers
    PROVE  \/ call'[g] = call[g]
           \/ call'[g] = Idle
           \/ Moved(call[g], call'[g])
           \/ /\ Fresh(call'[g]) /\ UNCHANGED board
              /\ \A f \in Handlers \ {g} : call'[f] = call[f]
BY StepCopy DEF TypeOK, BoardInv

LEMMA CopiesStep == TypeOK /\ BoardInv /\ [Next]_vars =>
                        StepsMatch' /\ CopiesLagBehind' /\ CopiesWritable'
<1> SUFFICES ASSUME TypeOK, BoardInv, [Next]_vars, NEW g \in Handlers
             PROVE  /\ call'[g].op = "idle" <=> call'[g] = Idle
                    /\ call'[g].op = "assignVolunteer" <=> call'[g].step = "lock held"
                    /\ \A u \in Users : call'[g].asgs[u] # "NONE" =>
                                          assignment'[call'[g].on][u] # "NONE"
                    /\ call'[g].step = "withdraw" =>
                          assignment'[call'[g].on][call'[g].user] # "NONE"
                    /\ call'[g].step = "mark" => call'[g].asgs[call'[g].user] # "NONE"
                    /\ \A u \in call'[g].rows : call'[g].asgs[u] # "NONE"
  BY DEF StepsMatch, CopiesLagBehind, CopiesWritable
<1>1. /\ Idle.op = "idle" /\ Idle.step = "none" /\ Idle.rows = {}
      /\ \A u \in Users : Idle.asgs[u] = "NONE"
  BY DEF Idle, NoAssignments
<1>2. StepsMatch /\ CopiesLagBehind /\ CopiesWritable /\ call[g].on \in Tasks
  BY CallType DEF BoardInv
<1>3. CASE call'[g] = call[g]
  <2>1. \A u \in Users : call[g].asgs[u] # "NONE" => assignment'[call[g].on][u] # "NONE"
    BY <1>2, AssignmentsStay DEF CopiesLagBehind
  <2>2. call[g].step = "withdraw" => assignment'[call[g].on][call[g].user] # "NONE"
    BY <1>2, AssignmentsStay, CallType DEF CopiesLagBehind
  <2> QED
    BY <1>2, <1>3, <2>1, <2>2 DEF StepsMatch, CopiesWritable
<1>4. CASE call'[g] = Idle
  BY <1>1, <1>4
<1>5. CASE Moved(call[g], call'[g])
  <2>1. \A u \in Users : call[g].asgs[u] # "NONE" => assignment'[call[g].on][u] # "NONE"
    BY <1>2, AssignmentsStay DEF CopiesLagBehind
  <2> QED
    BY <1>1, <1>5, <2>1 DEF Moved
<1>6. CASE Fresh(call'[g]) /\ UNCHANGED board
  BY <1>1, <1>6 DEF Fresh, board
<1> QED
  BY <1>3, <1>4, <1>5, <1>6, CopyAfter

LEMMA LockStep == TypeOK /\ BoardInv /\ [Next]_vars => LockHolds'
<1> SUFFICES ASSUME TypeOK, BoardInv, [Next]_vars,
                    NEW g \in Handlers, call'[g].op = "assignVolunteer"
             PROVE  /\ call'[g].row = task'[call'[g].on]
                    /\ call'[g].row.life = "live"
                    /\ call'[g].row.status \notin {"DONE", "CANCELLED"}
                    /\ \A f \in Handlers :
                          call'[f].op = "assignVolunteer" /\ call'[f].on = call'[g].on => f = g
  BY DEF LockHolds
<1>1. LockHolds /\ Idle.op = "idle"
  BY DEF BoardInv, Idle
<1>2. \A f \in Handlers : call'[f].op = "assignVolunteer" =>
          \/ call'[f] = call[f]
          \/ /\ Fresh(call'[f]) /\ UNCHANGED board
             /\ \A e \in Handlers \ {f} : call'[e] = call[e]
  BY <1>1, CopyAfter DEF Moved
<1>3. CASE call'[g] = call[g]
  <2>1. task'[call[g].on] = task[call[g].on]
    BY <1>3, LockedRowStays
  <2>2. ASSUME NEW f \in Handlers, f # g,
               call'[f].op = "assignVolunteer", call'[f].on = call'[g].on
        PROVE  FALSE
    <3>1. CASE call'[f] = call[f]
      BY <1>1, <1>3, <2>2, <3>1 DEF LockHolds
    <3>2. CASE Fresh(call'[f])
      BY <1>3, <2>2, <3>2 DEF Fresh, Locked
    <3> QED
      BY <1>2, <2>2, <3>1, <3>2
  <2> QED
    BY <1>1, <1>3, <2>1, <2>2 DEF LockHolds
<1>4. CASE /\ Fresh(call'[g]) /\ UNCHANGED board
           /\ \A e \in Handlers \ {g} : call'[e] = call[e]
  <2>1. /\ call'[g].row = task[call'[g].on] /\ ~Locked(call'[g].on)
        /\ Live(call'[g].on) /\ task[call'[g].on].status \notin {"DONE", "CANCELLED"}
    BY <1>4 DEF Fresh
  <2> QED
    BY <1>4, <2>1 DEF Locked, Live, board
<1> QED
  BY <1>2, <1>3, <1>4

LEMMA ChatExistsStep == TypeOK /\ BoardInv /\ [Next]_vars => ChatExists'
<1> SUFFICES ASSUME TypeOK, BoardInv, [Next]_vars PROVE ChatExists'
  OBVIOUS
<1>1. ChatExists /\ TypeOK'
  BY TypeStep DEF BoardInv
<1>2. ASSUME NEW t \in Tasks PROVE task'[t].chat \in 0..Len(chat'[t])
  <2>1. /\ Len(chat[t]) \in Nat /\ Len(chat'[t]) \in Nat
        /\ Len(chat'[t]) >= Len(chat[t])
        /\ task[t].chat \in 0..Len(chat[t]) /\ task'[t].chat \in Nat
    BY <1>1, ChatsStay DEF ChatExists, TypeOK, TaskRow
  <2>2. CASE task'[t].chat = task[t].chat
    BY <2>1, <2>2
  <2>3. CASE task'[t].chat = 0
    BY <2>1, <2>3
  <2>4. ASSUME NEW h \in Handlers, Write(h), task'[t].chat # task[t].chat
        PROVE  task'[t].chat \in 0..Len(chat'[t])
    <3>1. call[h].on = t /\ task'[t].chat = call[h].row.chat
      BY <2>4 DEF Write, TypeOK
    <3> QED
      BY <1>1, <2>1, <3>1 DEF ChatExists
  <2>5. ASSUME NEW h \in Handlers, CommitAssignment(h), task'[t].chat # task[t].chat
        PROVE  task'[t].chat = Len(chat'[t])
    <3>1. /\ call[h].on = t
          /\ task' = [task EXCEPT ![t].status = "IN_PROGRESS", ![t].chat = Len(chat[t]) + 1]
          /\ chat' = [chat EXCEPT ![t] = Append(@, createChatWithAssignments(call[h]))]
      <4>1. call[h].on = t /\ call[h].row.status = "TODO"
        BY <2>5 DEF CommitAssignment, TypeOK
      <4> QED
        BY <2>5, <4>1 DEF CommitAssignment
    <3>2. chat[t] \in Seq(SUBSET Users) /\ createChatWithAssignments(call[h]) \in SUBSET Users
      BY CallType, BoardAssumption DEF TypeOK, createChatWithAssignments, Active
    <3>3. task'[t].chat = Len(chat[t]) + 1
      BY <3>1 DEF TypeOK, TaskRow
    <3>4. chat'[t] = Append(chat[t], createChatWithAssignments(call[h]))
      BY <3>1 DEF TypeOK
    <3> QED
      BY <3>2, <3>3, <3>4
  <2>6. ASSUME NEW h \in Handlers, BackToTodo(h) \/ SoftDelete(h)
        PROVE  task'[t].chat = task[t].chat \/ task'[t].chat = 0
    <3>1. task[t] \in TaskRow /\ task \in [Tasks -> TaskRow]
      BY DEF TypeOK
    <3>2. CASE call[h].on # t
      BY <2>6, <3>1, <3>2 DEF BackToTodo, SoftDelete
    <3>3. CASE call[h].on = t
      <4>1. CASE BackToTodo(h)
        <5>1. task' = [task EXCEPT ![t].status = "TODO", ![t].chat = 0]
          BY <3>3, <4>1 DEF BackToTodo
        <5> QED
          BY <3>1, <5>1 DEF TaskRow
      <4>2. CASE SoftDelete(h)
        BY <3>1, <3>3, <4>2 DEF SoftDelete, TaskRow
      <4> QED
        BY <2>6, <4>1, <4>2
    <3> QED
      BY <3>2, <3>3
  <2>7. ASSUME NEW u \in Users, NEW s \in Tasks, create(u, s)
        PROVE  task'[t].chat = task[t].chat \/ task'[t].chat = 0
    BY <2>7 DEF create, TypeOK, NewRow
  <2> QED
    BY <2>1, <2>2, <2>3, <2>4, <2>5, <2>6, <2>7, StepWrites
<1>3. ASSUME NEW g \in Handlers PROVE call'[g].row.chat \in 0..Len(chat'[call'[g].on])
  <2>1. call[g].on \in Tasks /\ call'[g].on \in Tasks
    BY <1>1 DEF TypeOK, CallRecord
  <2>2. /\ Len(chat[call[g].on]) \in Nat /\ Len(chat'[call[g].on]) \in Nat
        /\ Len(chat'[call[g].on]) >= Len(chat[call[g].on])
        /\ Len(chat'[call'[g].on]) \in Nat
    BY <2>1, ChatsStay
  <2>3. CASE call'[g].row = call[g].row /\ call'[g].on = call[g].on
    BY <1>1, <2>2, <2>3 DEF ChatExists
  <2>4. CASE call'[g] = Idle
    BY <2>2, <2>4 DEF Idle, NewRow
  <2>5. CASE Fresh(call'[g]) /\ UNCHANGED board
    <3>1. task[call'[g].on].chat \in 0..Len(chat[call'[g].on])
      BY <1>1, <2>1 DEF ChatExists
    <3>2. call'[g].row.chat \in {0, task[call'[g].on].chat}
      BY <2>5 DEF Fresh
    <3>3. chat' = chat
      BY <2>5 DEF board
    <3> QED
      BY <2>2, <3>1, <3>2, <3>3
  <2> QED
    BY <2>3, <2>4, <2>5, CopyAfter DEF Moved
<1> QED
  BY <1>2, <1>3 DEF ChatExists

LEMMA ParticipantsStep == TypeOK /\ BoardInv /\ [Next]_vars => ParticipantsWereAssigned'
<1> SUFFICES ASSUME TypeOK, BoardInv, [Next]_vars,
                    NEW t \in Tasks, NEW i \in 1..Len(chat'[t])
             PROVE  chat'[t][i] \subseteq {Author} \cup Assigned(assignment'[t])
  BY DEF ParticipantsWereAssigned, Assigned
<1>1. Assigned(assignment[t]) \subseteq Assigned(assignment'[t])
  BY AssignmentsStay DEF Assigned, BoardInv
<1>2. /\ chat[t] \in Seq(SUBSET Users)
      /\ \A j \in 1..Len(chat[t]) : chat[t][j] \subseteq {Author} \cup Assigned(assignment[t])
  BY DEF TypeOK, BoardInv, ParticipantsWereAssigned
<1>3. CASE chat'[t] = chat[t]
  BY <1>1, <1>2, <1>3
<1>4. ASSUME NEW h \in Handlers, CommitAssignment(h), call[h].on = t
      PROVE  chat'[t][i] \subseteq {Author} \cup Assigned(assignment'[t])
  <2> DEFINE c == call[h]
  <2>1. c.user \in Assigned(assignment'[t])
    BY <1>4, CallType DEF CommitAssignment, TypeOK, Assigned
  <2>2. Active(c.asgs) \subseteq Assigned(assignment[t])
    BY <1>4 DEF Active, isActiveAssignmentStatus, Assigned, BoardInv, CopiesLagBehind
  <2>3. createChatWithAssignments(c) \subseteq {Author} \cup Assigned(assignment'[t])
    BY <1>1, <2>1, <2>2 DEF createChatWithAssignments
  <2>4. CASE chat'[t] = Append(chat[t], createChatWithAssignments(c))
    <3>1. createChatWithAssignments(c) \in SUBSET Users
      BY CallType, BoardAssumption DEF createChatWithAssignments, Active
    <3>2. CASE i = Len(chat[t]) + 1
      BY <1>2, <2>3, <2>4, <3>1, <3>2
    <3>3. CASE i \in 1..Len(chat[t])
      BY <1>1, <1>2, <2>4, <3>1, <3>3
    <3> QED
      BY <1>2, <2>4, <3>1, <3>2, <3>3
  <2>5. CASE chat'[t] = [chat[t] EXCEPT ![c.row.chat] = @ \cup {c.user}]
    <3>1. Len(chat'[t]) = Len(chat[t])
      BY <1>2, <2>5, JoinChat, CallType
    <3>2. chat'[t][i] \subseteq chat[t][i] \cup {c.user}
      BY <1>2, <2>5, <3>1
    <3> QED
      BY <1>1, <1>2, <2>1, <3>1, <3>2
  <2> QED
    BY <1>3, <1>4, <2>4, <2>5 DEF CommitAssignment, TypeOK
<1>5. ASSUME NEW h \in Handlers, CommitAssignment(h), call[h].on # t
      PROVE  chat'[t] = chat[t]
  BY <1>5 DEF CommitAssignment, TypeOK
<1> QED
  BY <1>3, <1>4, <1>5, StepWrites

LEMMA BoardStep == TypeOK /\ BoardInv /\ [Next]_vars => BoardInv'
BY CopiesStep, LockStep, ChatExistsStep, ParticipantsStep DEF BoardInv

LEMMA BoardCorrect == Spec => [](TypeOK /\ BoardInv)
BY TypeInit, BoardInit, TypeStep, BoardStep, PTL DEF Spec

\* However calls interleave and wherever they are cut off, nobody is in a task's
\* chat who is not the author and never had an assignment on that task.
THEOREM ChatsPrivate == Spec => []ParticipantsWereAssigned
BY BoardCorrect, PTL DEF BoardInv

LEMMA ChatOpensStep ==
    ASSUME TypeOK, BoardInv, [Next]_vars, NEW t \in Tasks, Len(chat'[t]) # Len(chat[t])
    PROVE  /\ task[t].status = "TODO"
           /\ task'[t].status = "IN_PROGRESS"
           /\ task'[t].chat = Len(chat'[t])
<1>1. PICK h \in Handlers : CommitAssignment(h)
  BY StepWrites
<1> DEFINE c == call[h]
<1>2. chat[t] \in Seq(SUBSET Users) /\ task[t] \in TaskRow
  BY DEF TypeOK
<1>3. c.on = t /\ c.row.status = "TODO"
  <2>1. chat'[t] # chat[t]
    OBVIOUS
  <2>2. c.on = t
    BY <1>1, <2>1 DEF CommitAssignment, TypeOK
  <2>3. ASSUME c.row.status # "TODO"
        PROVE  chat'[t] = [chat[t] EXCEPT ![c.row.chat] = @ \cup {c.user}]
    BY <1>1, <2>1, <2>2, <2>3 DEF CommitAssignment, TypeOK
  <2>4. Len([chat[t] EXCEPT ![c.row.chat] = @ \cup {c.user}]) = Len(chat[t])
    BY <1>2, JoinChat, CallType
  <2> QED
    BY <2>2, <2>3, <2>4
<1>4. c.row = task[t]
  BY <1>1, <1>3 DEF CommitAssignment, At, BoardInv, StepsMatch, LockHolds
<1>5. /\ task' = [task EXCEPT ![t].status = "IN_PROGRESS", ![t].chat = Len(chat[t]) + 1]
      /\ chat' = [chat EXCEPT ![t] = Append(@, createChatWithAssignments(c))]
  BY <1>1, <1>3 DEF CommitAssignment
<1>6. task'[t].status = "IN_PROGRESS" /\ task'[t].chat = Len(chat[t]) + 1
  BY <1>2, <1>5 DEF TypeOK, TaskRow
<1>7. chat'[t] = Append(chat[t], createChatWithAssignments(c))
  BY <1>5 DEF TypeOK
<1>8. createChatWithAssignments(c) \in SUBSET Users
  BY CallType, BoardAssumption DEF createChatWithAssignments, Active
<1> QED
  BY <1>2, <1>3, <1>4, <1>6, <1>7, <1>8

\* A chat is made only for a task that waits, and only in the step that puts it
\* in progress: two first volunteers never get a chat each.
THEOREM OneChatPerOpening == Spec => ChatOpensWithWork
<1>1. TypeOK /\ BoardInv /\ [Next]_vars =>
          [\A t \in Tasks : Len(chat'[t]) # Len(chat[t]) =>
               /\ task[t].status = "TODO"
               /\ task'[t].status = "IN_PROGRESS"
               /\ task'[t].chat = Len(chat'[t])]_vars
  BY ChatOpensStep
<1> QED
  BY <1>1, BoardCorrect, PTL DEF Spec, ChatOpensWithWork

\* A volunteer's row appears in no other way than by a commit under the lock.
LEMMA RowAppears ==
    ASSUME TypeOK, BoardInv, [Next]_vars, NEW t \in Tasks, NEW u \in Users,
           assignment[t][u] = "NONE", assignment'[t][u] # "NONE"
    PROVE  \E h \in Handlers : CommitAssignment(h) /\ call[h].on = t
<1>1. /\ assignment \in [Tasks -> [Users -> AssignmentRow]]
      /\ CopiesLagBehind /\ CopiesWritable
  BY DEF TypeOK, BoardInv
<1>2. ASSUME NEW h \in Handlers, CommitAssignment(h) PROVE call[h].on = t
  BY <1>1, <1>2 DEF CommitAssignment
<1>3. ASSUME NEW h \in Handlers, Withdraw(h) PROVE FALSE
  BY <1>1, <1>3 DEF Withdraw, At, CopiesLagBehind
<1>4. ASSUME NEW h \in Handlers, Settle(h) \/ Reopen(h) PROVE FALSE
  BY <1>1, <1>4 DEF Settle, Reopen, Restate
<1>5. ASSUME NEW h \in Handlers, Mark(h) PROVE FALSE
  <2>1. assignment[call[h].on][call[h].user] # "NONE"
    BY <1>1, <1>5, CallType DEF Mark, At, CopiesLagBehind, CopiesWritable
  <2> QED
    BY <1>1, <1>5, <2>1 DEF Mark
<1>6. ASSUME NEW h \in Handlers, Write(h) PROVE FALSE
  <2>1. \A v \in call[h].rows : assignment[call[h].on][v] # "NONE"
    BY <1>1, CallType DEF CopiesLagBehind, CopiesWritable
  <2> QED
    BY <1>1, <1>6, <2>1 DEF Write
<1> QED
  BY StepWrites, <1>2, <1>3, <1>4, <1>5, <1>6

\* The checks of assignVolunteer hold when its assignment becomes visible: no
\* finished, cancelled or deleted task gains a volunteer.
THEOREM NobodyJoinsClosedTask == Spec => ClosedTaskTakesNobody
<1>1. ASSUME TypeOK, BoardInv, [Next]_vars, NEW t \in Tasks, NEW u \in Users,
             assignment[t][u] = "NONE", assignment'[t][u] # "NONE"
      PROVE  Live(t) /\ task[t].status \notin {"DONE", "CANCELLED"}
  <2>1. PICK h \in Handlers : CommitAssignment(h) /\ call[h].on = t
    BY <1>1, RowAppears
  <2> QED
    BY <1>1, <2>1 DEF CommitAssignment, At, BoardInv, StepsMatch, LockHolds, Live
<1>2. TypeOK /\ BoardInv /\ [Next]_vars =>
          [\A t \in Tasks, u \in Users :
               assignment[t][u] = "NONE" /\ assignment'[t][u] # "NONE" =>
                   Live(t) /\ task[t].status \notin {"DONE", "CANCELLED"}]_vars
  BY <1>1
<1> QED
  BY <1>2, BoardCorrect, PTL DEF Spec, ClosedTaskTakesNobody

-----------------------------------------------------------------------------
(* One call at a time, and none fails. *)

\* The board as it is when c is the record of the one call in flight, if any.
BoardCurrent(c) ==
    /\ \A t \in Tasks, u \in Users : assignment[t][u] = "COMPLETED" =>
           Settled(c) /\ c.on = t /\ c.asgs[u] = "ASSIGNED"
    /\ \A t \in Tasks : task[t].status = "PENDING_REVIEW" =>
           owed[t] \/ (Rewarded(c) /\ c.on = t)
    /\ AbsentUntouched
    /\ ActiveInChat

\* Record c after its next step, when that step is s.
Advanced(c, s) == [c EXCEPT !.step = s]

LEMMA AdvancedRecord ==
    ASSUME NEW c \in CallRecord, NEW s \in Step
    PROVE  /\ Advanced(c, s) \in CallRecord /\ Advanced(c, s).step = s
           /\ Advanced(c, s).op = c.op /\ Advanced(c, s).on = c.on
           /\ Advanced(c, s).row = c.row /\ Advanced(c, s).asgs = c.asgs
           /\ Advanced(c, s).user = c.user /\ Advanced(c, s).rows = c.rows
           /\ Advanced(c, s).cols = c.cols
BY DEF CallRecord, Advanced

LEMMA StepNames ==
    /\ "count remaining" \in Step /\ "back to todo" \in Step
    /\ "boost" \in Step /\ "diff" \in Step
BY DEF Step

LEMMA IdleFields ==
    /\ Idle.op = "idle" /\ Idle.step = "none" /\ Idle.rows = {}
    /\ \A u \in Users : Idle.asgs[u] = "NONE"
BY DEF Idle, NoAssignments

\* What holds of an idle handler holds whatever the board is.
LEMMA IdleCurrent == CallCurrent(Idle) /\ CallCurrent(Idle)'
BY IdleFields DEF CallCurrent, StepsOfMethods, RowCurrent, CopyCurrent, SaveComplete,
   ConfirmPays, LoadsAssignments

\* While handler h has a call in flight the others are idle, so the board is
\* what that call's record says.
LEMMA Alone ==
    ASSUME TypeOK, SerialInv, NEW h \in Handlers,
           call[h] # Idle \/ \A g \in Handlers : call[g] = Idle
    PROVE  /\ \A g \in Handlers \ {h} : call[g] = Idle
           /\ call[h] \in CallRecord /\ CallCurrent(call[h]) /\ BoardCurrent(call[h])
<1>1. \A g \in Handlers \ {h} : call[g] = Idle
  BY DEF SerialInv, OneInFlight
<1>2. \A g \in Handlers : Settled(call[g]) => g = h
  BY <1>1, IdleFields DEF Settled
<1>3. BoardCurrent(call[h])
  BY <1>2 DEF SerialInv, BoardCurrent, CompletedBySettling, ReviewIsOwed, Rewarded
<1> QED
  BY <1>1, <1>3, CallType DEF SerialInv

\* Conversely: the step of one call gives the invariant back.
LEMMA Rejoin ==
    ASSUME TypeOK, NEW h \in Handlers, \A g \in Handlers \ {h} : call[g] = Idle,
           NEW d \in CallRecord, call' = [call EXCEPT ![h] = d],
           CallCurrent(d)', BoardCurrent(d)'
    PROVE  SerialInv'
<1>1. call'[h] = d /\ \A g \in Handlers \ {h} : call'[g] = Idle
  BY DEF TypeOK
<1>2. OneInFlight'
  BY <1>1 DEF OneInFlight
<1>3. \A g \in Handlers : CallCurrent(call[g])'
  BY <1>1, IdleCurrent
<1>4. CompletedBySettling' /\ ReviewIsOwed' /\ AbsentUntouched' /\ ActiveInChat'
  BY <1>1 DEF BoardCurrent, CompletedBySettling, ReviewIsOwed
<1> QED
  BY <1>2, <1>3, <1>4 DEF SerialInv

\* Record d is where a step of call h leads, and the invariant with it.
Leads(h, d) ==
    call' = [call EXCEPT ![h] = d] /\ CallCurrent(d)' /\ BoardCurrent(d)'

\* A step of a call touches one task, and that one exists.
LEMMA AbsentStay ==
    ASSUME AbsentUntouched, NEW s, task[s].life # "absent", task'[s].life # "absent",
           \A t \in Tasks \ {s} : task'[t] = task[t] /\ assignment'[t] = assignment[t]
    PROVE  AbsentUntouched'
BY DEF AbsentUntouched

LEMMA WithdrawSerial ==
    ASSUME TypeOK, BoardInv, NEW h \in Handlers, NEW c \in CallRecord, call[h] = c,
           CallCurrent(c), BoardCurrent(c), Withdraw(h)
    PROVE  Leads(h, Advanced(c, "count remaining"))
<1> DEFINE d == Advanced(c, "count remaining")
<1>1. /\ c.step = "withdraw" /\ c.op = "withdrawAssignment" /\ ~Settled(c)
      /\ c.on \in Tasks /\ c.user \in Users /\ task[c.on].life # "absent"
      /\ c.rows = {} /\ ~LoadsAssignments(c.op)
  BY DEF Withdraw, At, CallCurrent, StepsOfMethods, Settled, CallRecord, SaveComplete,
     LoadsAssignments, RowCurrent
<1>2. /\ d.step = "count remaining" /\ d.op = c.op /\ d.on = c.on /\ d.rows = c.rows
      /\ d.asgs = c.asgs
  <2>1. "count remaining" \in Step
    BY StepNames
  <2> QED
    BY <2>1, AdvancedRecord
<1>3. call' = [call EXCEPT ![h] = d] /\ UNCHANGED <<task, chat, owed>>
  BY DEF Withdraw, Goto, Advanced
<1>4. /\ \A t \in Tasks, u \in Users :
            \/ assignment'[t][u] = assignment[t][u]
            \/ t = c.on /\ assignment'[t][u] = "WITHDRAWN"
      /\ \A t \in Tasks \ {c.on} : assignment'[t] = assignment[t]
  BY <1>1 DEF Withdraw, TypeOK
<1>5. CallCurrent(d)'
  BY <1>1, <1>2, <1>3 DEF CallCurrent, StepsOfMethods, RowCurrent, CopyCurrent,
     SaveComplete, ConfirmPays, LoadsAssignments
<1>6. BoardCurrent(d)'
  <2>1. \A t \in Tasks, u \in Users : assignment'[t][u] # "COMPLETED"
    BY <1>1, <1>4 DEF BoardCurrent
  <2>2. \A t \in Tasks : task'[t].status = "PENDING_REVIEW" => owed'[t]
    BY <1>1, <1>3 DEF BoardCurrent, Rewarded
  <2>3. AbsentUntouched'
    BY <1>1, <1>3, <1>4, AbsentStay DEF BoardCurrent
  <2>4. ActiveInChat'
    BY <1>3, <1>4 DEF BoardCurrent, ActiveInChat, Active, isActiveAssignmentStatus
  <2> QED
    BY <2>1, <2>2, <2>3, <2>4 DEF BoardCurrent
<1> QED
  BY <1>3, <1>5, <1>6 DEF Leads

\* A call ends, having left no assignment COMPLETED and no review unpaid.
LEMMA EndSerial ==
    ASSUME NEW h \in Handlers, Return(h),
           \A t \in Tasks, u \in Users : assignment'[t][u] # "COMPLETED",
           \A t \in Tasks : task'[t].status = "PENDING_REVIEW" => owed'[t],
           AbsentUntouched', ActiveInChat'
    PROVE  Leads(h, Idle)
BY IdleCurrent DEF Return, Leads, BoardCurrent

\* A call that is not a confirmation past its first step finds nothing half done.
LEMMA NothingHalfDone ==
    ASSUME NEW c, BoardCurrent(c), ~Settled(c)
    PROVE  /\ \A t \in Tasks, u \in Users : assignment[t][u] # "COMPLETED"
           /\ \A t \in Tasks : task[t].status = "PENDING_REVIEW" => owed[t]
           /\ AbsentUntouched /\ ActiveInChat
BY DEF BoardCurrent, Rewarded

\* A refused assignment, and a withdrawal that finds others: the call only ends.
LEMMA QuietEndSerial ==
    ASSUME NEW h \in Handlers, NEW c, BoardCurrent(c), ~Settled(c),
           Return(h), UNCHANGED board
    PROVE  Leads(h, Idle)
BY NothingHalfDone, EndSerial DEF board, AbsentUntouched, ActiveInChat, Active

LEMMA CommitSerial ==
    ASSUME TypeOK, BoardInv, NEW h \in Handlers, NEW c \in CallRecord, call[h] = c,
           CallCurrent(c), BoardCurrent(c), CommitAssignment(h)
    PROVE  Leads(h, Idle)
<1> DEFINE s == c.on
<1>1. c.op = "assignVolunteer" /\ s \in Tasks /\ c.user \in Users /\ ~Settled(c)
  BY DEF CommitAssignment, At, BoardInv, StepsMatch, CallRecord, Settled
<1>2. /\ c.row = task[s] /\ task[s].life = "live" /\ task[s] \in TaskRow
      /\ task[s].chat \in 0..Len(chat[s]) /\ chat[s] \in Seq(SUBSET Users)
      /\ Len(chat[s]) \in Nat
  BY <1>1 DEF BoardInv, LockHolds, ChatExists, TypeOK
<1>3. \A u \in Users : assignment[s][u] = c.asgs[u]
  BY <1>1 DEF CallCurrent, CopyCurrent
<1>4. /\ \A t \in Tasks \ {s} : /\ task'[t] = task[t] /\ assignment'[t] = assignment[t]
                                /\ chat'[t] = chat[t]
      /\ \A u \in Users : u # c.user => assignment'[s][u] = assignment[s][u]
      /\ assignment'[s][c.user] = "ASSIGNED"
      /\ owed' = owed /\ Return(h)
  BY <1>1 DEF CommitAssignment, TypeOK
<1>5. \A t \in Tasks, u \in Users : assignment'[t][u] # "COMPLETED"
  BY <1>1, <1>4, NothingHalfDone
<1>6. /\ task'[s].life = "live"
      /\ task'[s].status = "IN_PROGRESS" \/ task'[s] = task[s]
      /\ c.row.status # "TODO" => task'[s] = task[s]
      /\ c.row.status = "TODO" => task'[s].chat = Len(chat[s]) + 1
  BY <1>1, <1>2 DEF CommitAssignment, TypeOK, TaskRow
<1>7. \A t \in Tasks : task'[t].status = "PENDING_REVIEW" => owed'[t]
  BY <1>1, <1>4, <1>6, NothingHalfDone
<1>8. AbsentUntouched'
  BY <1>1, <1>2, <1>4, <1>6, AbsentStay DEF BoardCurrent
<1>9. task'[s].chat # 0 => Active(assignment[s])' \subseteq chat'[s][task'[s].chat]
  <2>1. Active(assignment[s])' \subseteq Active(assignment[s]) \cup {c.user}
    BY <1>4 DEF Active
  <2>2. CASE c.row.status = "TODO"
    <3>1. createChatWithAssignments(c) \in SUBSET Users
      BY <1>1, BoardAssumption DEF createChatWithAssignments, Active
    <3>2. chat'[s] = Append(chat[s], createChatWithAssignments(c))
      BY <1>1, <2>2 DEF CommitAssignment, TypeOK
    <3>3. chat'[s][task'[s].chat] = createChatWithAssignments(c)
      BY <1>2, <1>6, <2>2, <3>1, <3>2
    <3>4. Active(c.asgs) = Active(assignment[s])
      BY <1>3 DEF Active
    <3> QED
      BY <2>1, <3>3, <3>4 DEF createChatWithAssignments
  <2>3. CASE c.row.status # "TODO" /\ task[s].chat # 0
    <3>1. chat'[s] = [chat[s] EXCEPT ![task[s].chat] = @ \cup {c.user}]
      BY <1>1, <1>2, <2>3 DEF CommitAssignment, TypeOK
    <3>2. chat'[s][task[s].chat] = chat[s][task[s].chat] \cup {c.user}
      BY <1>2, <2>3, <3>1
    <3>3. Active(assignment[s]) \subseteq chat[s][task[s].chat]
      BY <1>1, <2>3 DEF BoardCurrent, ActiveInChat
    <3> QED
      BY <1>6, <2>1, <2>3, <3>2, <3>3
  <2> QED
    BY <1>2, <1>6, <2>2, <2>3
<1>10. ActiveInChat'
  <2> SUFFICES ASSUME NEW t \in Tasks, task'[t].chat # 0
               PROVE  Active(assignment[t])' \subseteq chat'[t][task'[t].chat]
    BY DEF ActiveInChat, Active
  <2>1. CASE t = s
    BY <1>9, <2>1
  <2>2. CASE t # s
    BY <1>4, <2>2 DEF BoardCurrent, ActiveInChat, Active
  <2> QED
    BY <2>1, <2>2
<1> QED
  BY <1>4, <1>5, <1>7, <1>8, <1>10, EndSerial

LEMMA BackToTodoSerial ==
    ASSUME TypeOK, BoardInv, NEW h \in Handlers, NEW c \in CallRecord, call[h] = c,
           CallCurrent(c), BoardCurrent(c), BackToTodo(h)
    PROVE  Leads(h, Idle)
<1> DEFINE s == c.on
<1>1. /\ s \in Tasks /\ ~Settled(c) /\ task[s].life # "absent" /\ task[s] \in TaskRow
  BY DEF BackToTodo, At, CallCurrent, StepsOfMethods, RowCurrent, Settled, CallRecord, TypeOK
<1>2. /\ \A t \in Tasks \ {s} : task'[t] = task[t]
      /\ task'[s].status = "TODO" /\ task'[s].chat = 0 /\ task'[s].life = task[s].life
      /\ UNCHANGED <<assignment, chat, owed>> /\ Return(h)
  BY <1>1 DEF BackToTodo, TypeOK, TaskRow
<1>3. AbsentUntouched'
  BY <1>1, <1>2, AbsentStay DEF BoardCurrent
<1>4. ActiveInChat'
  BY <1>1, <1>2 DEF BoardCurrent, ActiveInChat, Active
<1> QED
  BY <1>1, <1>2, <1>3, <1>4, NothingHalfDone, EndSerial

LEMMA SoftDeleteSerial ==
    ASSUME TypeOK, BoardInv, NEW h \in Handlers, NEW c \in CallRecord, call[h] = c,
           CallCurrent(c), BoardCurrent(c), SoftDelete(h)
    PROVE  Leads(h, Idle)
<1> DEFINE s == c.on
<1>1. c.op # "idle"
  <2>1. c # Idle
    BY IdleFields DEF SoftDelete, At
  <2> QED
    BY <2>1 DEF BoardInv, StepsMatch
<1>2. /\ s \in Tasks /\ ~Settled(c) /\ task[s].life # "absent" /\ task[s] \in TaskRow
  BY <1>1 DEF SoftDelete, At, CallCurrent, RowCurrent, Settled, CallRecord, TypeOK
<1>3. /\ \A t \in Tasks \ {s} : task'[t] = task[t]
      /\ task'[s].status = task[s].status /\ task'[s].chat = task[s].chat
      /\ task'[s].life = "deleted"
      /\ UNCHANGED <<assignment, chat, owed>> /\ Return(h)
  BY <1>2 DEF SoftDelete, TypeOK, TaskRow
<1>4. AbsentUntouched'
  BY <1>2, <1>3, AbsentStay DEF BoardCurrent
<1>5. \A t \in Tasks : task'[t].chat = task[t].chat /\ task'[t].status = task[t].status
  BY <1>3
<1>6. ActiveInChat'
  BY <1>3, <1>5 DEF BoardCurrent, ActiveInChat, Active
<1> QED
  BY <1>2, <1>3, <1>4, <1>5, <1>6, NothingHalfDone, EndSerial

LEMMA MarkSerial ==
    ASSUME TypeOK, BoardInv, NEW h \in Handlers, NEW c \in CallRecord, call[h] = c,
           CallCurrent(c), BoardCurrent(c), Mark(h)
    PROVE  Leads(h, Idle)
<1> DEFINE s == c.on
<1>1. c.op # "idle"
  <2>1. c # Idle
    BY IdleFields DEF Mark, At
  <2> QED
    BY <2>1 DEF BoardInv, StepsMatch
<1>2. /\ s \in Tasks /\ c.user \in Users /\ ~Settled(c) /\ task[s].life # "absent"
      /\ isActiveAssignmentStatus(assignment[s][c.user])
      /\ isActiveAssignmentStatus(c.asgs[c.user])
  BY <1>1 DEF Mark, At, CallCurrent, RowCurrent, CopyCurrent, Settled, CallRecord
<1>3. /\ \A t \in Tasks \ {s} : assignment'[t] = assignment[t]
      /\ \A u \in Users : u # c.user => assignment'[s][u] = assignment[s][u]
      /\ assignment'[s][c.user] = c.asgs[c.user]
      /\ UNCHANGED <<task, chat, owed>> /\ Return(h)
  BY <1>2 DEF Mark, TypeOK
<1>4. \A t \in Tasks, u \in Users : assignment'[t][u] # "COMPLETED"
  BY <1>2, <1>3, NothingHalfDone DEF isActiveAssignmentStatus
<1>5. AbsentUntouched'
  BY <1>2, <1>3, AbsentStay DEF BoardCurrent
<1>6. \A t \in Tasks : Active(assignment[t])' = Active(assignment[t])
  BY <1>2, <1>3 DEF Active
<1>7. ActiveInChat'
  BY <1>3, <1>6 DEF BoardCurrent, ActiveInChat
<1> QED
  BY <1>2, <1>3, <1>4, <1>5, <1>7, NothingHalfDone, EndSerial

\* A step that moves on without touching the tables, the reward apart.
LEMMA QuietSerial ==
    ASSUME TypeOK, NEW h \in Handlers, NEW c \in CallRecord, call[h] = c,
           CallCurrent(c), BoardCurrent(c), NEW s \in Step, Goto(h, s),
           UNCHANGED <<task, assignment, chat>>,
           \/ owed' = owed
           \/ owed' = [owed EXCEPT ![c.on] = FALSE] /\ Rewarded(Advanced(c, s)),
           s \notin {"write", "mark"},
           StepsOfMethods(Advanced(c, s)),
           s = "diff" => LoadsAssignments(c.op),
           Settled(c) => Settled(Advanced(c, s)),
           Rewarded(c) => Rewarded(Advanced(c, s))
    PROVE  Leads(h, Advanced(c, s))
<1> DEFINE d == Advanced(c, s)
<1>1. /\ d.step = s /\ d.op = c.op /\ d.on = c.on /\ d.rows = c.rows
      /\ d.asgs = c.asgs /\ d.row = c.row /\ d.cols = c.cols
  BY AdvancedRecord
<1>2. call' = [call EXCEPT ![h] = d]
  BY DEF Goto, Advanced
<1>3. c.on \in Tasks /\ owed \in [Tasks -> BOOLEAN]
  BY DEF CallRecord, TypeOK
<1>4. /\ \A t \in Tasks : t # c.on => owed'[t] = owed[t]
      /\ owed'[c.on] = owed[c.on] \/ Rewarded(d)
  BY <1>3
<1>5. RowCurrent(d)'
  BY <1>1 DEF CallCurrent, RowCurrent
<1>6. CopyCurrent(d)'
  BY <1>1 DEF CallCurrent, CopyCurrent
<1>7. SaveComplete(d)'
  BY <1>1 DEF CallCurrent, SaveComplete
<1>8. ConfirmPays(d)'
  BY <1>1, <1>3, <1>4 DEF CallCurrent, ConfirmPays
<1>9. BoardCurrent(d)'
  <2>1. \A t \in Tasks : task'[t].status = "PENDING_REVIEW" =>
             owed'[t] \/ (Rewarded(d) /\ d.on = t)
    BY <1>1, <1>3, <1>4 DEF BoardCurrent
  <2>2. AbsentUntouched' /\ ActiveInChat'
    BY DEF BoardCurrent, AbsentUntouched, ActiveInChat, Active
  <2> QED
    BY <1>1, <2>1, <2>2 DEF BoardCurrent
<1> QED
  BY <1>2, <1>5, <1>6, <1>7, <1>8, <1>9 DEF Leads, CallCurrent, StepsOfMethods

LEMMA CountRemainingSerial ==
    ASSUME TypeOK, BoardInv, NEW h \in Handlers, NEW c \in CallRecord, call[h] = c,
           CallCurrent(c), BoardCurrent(c), CountRemaining(h)
    PROVE  \E d \in CallRecord : Leads(h, d)
<1> DEFINE d == Advanced(c, "back to todo")
<1>1. c.step = "count remaining" /\ c.op = "withdrawAssignment" /\ ~Settled(c)
  BY DEF CountRemaining, At, CallCurrent, StepsOfMethods, Settled
<1>2. CASE Return(h)
  BY <1>1, <1>2, QuietEndSerial, IdleType DEF CountRemaining
<1>3. CASE Goto(h, "back to todo")
  <2>0. "back to todo" \in Step
    BY StepNames
  <2>1. d \in CallRecord /\ d.step = "back to todo" /\ d.op = c.op
    BY <2>0, AdvancedRecord
  <2>2. StepsOfMethods(d) /\ "back to todo" \in Step
    BY <1>1, <2>1 DEF StepsOfMethods, Step
  <2>3. ~Rewarded(c)
    BY <1>1 DEF Rewarded
  <2> QED
    BY <1>1, <1>3, <2>1, <2>2, <2>3, QuietSerial DEF CountRemaining, board
<1> QED
  BY <1>2, <1>3 DEF CountRemaining

\* The reward is paid and the count of finished tasks taken between settling and saving.
LEMMA RewardSerial ==
    ASSUME TypeOK, BoardInv, NEW h \in Handlers, NEW c \in CallRecord, call[h] = c,
           CallCurrent(c), BoardCurrent(c),
           boostVolunteerScores(h) \/ checkRequestCompletion(h) \/ CompleteRequest(h)
    PROVE  \E d \in CallRecord : Leads(h, d)
<1>1. c.op = "confirmTaskCompletion" /\ c.step \in {"boost", "count done", "complete request"}
  BY DEF boostVolunteerScores, checkRequestCompletion, CompleteRequest, At, CallCurrent,
     StepsOfMethods
<1>2. ASSUME NEW s \in {"count done", "complete request", "diff"}
      PROVE  /\ s \in Step /\ Advanced(c, s) \in CallRecord
             /\ Rewarded(Advanced(c, s)) /\ Settled(Advanced(c, s))
             /\ StepsOfMethods(Advanced(c, s))
  <2>1. s \in Step
    BY DEF Step
  <2>2. Advanced(c, s) \in CallRecord /\ Advanced(c, s).step = s /\ Advanced(c, s).op = c.op
    BY <2>1, AdvancedRecord
  <2> QED
    BY <1>1, <2>1, <2>2 DEF Rewarded, Settled, StepsOfMethods
<1>3. PICK s \in {"count done", "complete request", "diff"} :
          /\ Goto(h, s)
          /\ UNCHANGED <<task, assignment, chat>>
          /\ owed' = owed \/ owed' = [owed EXCEPT ![c.on] = FALSE]
  BY DEF boostVolunteerScores, checkRequestCompletion, CompleteRequest, board
<1>4. Leads(h, Advanced(c, s))
  BY <1>1, <1>2, <1>3, QuietSerial DEF LoadsAssignments
<1> QED
  BY <1>2, <1>4

LEMMA SettleSerial ==
    ASSUME TypeOK, BoardInv, NEW h \in Handlers, NEW c \in CallRecord, call[h] = c,
           CallCurrent(c), BoardCurrent(c), Settle(h)
    PROVE  Leads(h, Advanced(c, "boost"))
<1> DEFINE d == Advanced(c, "boost")
           s == c.on
<1>1. c.step = "settle" /\ c.op = "confirmTaskCompletion" /\ ~Settled(c) /\ s \in Tasks
      /\ task[s].life # "absent"
  BY DEF Settle, At, CallCurrent, StepsOfMethods, RowCurrent, Settled, CallRecord
<1>2. /\ d.step = "boost" /\ d.op = c.op /\ d.on = c.on /\ d.rows = c.rows
      /\ d.asgs = c.asgs /\ d.row = c.row /\ d.cols = c.cols
  <2>1. "boost" \in Step
    BY StepNames
  <2> QED
    BY <2>1, AdvancedRecord
<1>3. call' = [call EXCEPT ![h] = d] /\ UNCHANGED <<task, chat, owed>>
  BY DEF Settle, Goto, Advanced
<1>4. \A u \in Users : assignment[s][u] = c.asgs[u] /\ c.asgs[u] # "COMPLETED"
  BY <1>1 DEF CallCurrent, CopyCurrent, LoadsAssignments
<1>5. /\ \A t \in Tasks \ {s} : assignment'[t] = assignment[t]
      /\ \A u \in Users : assignment'[s][u] = IF c.asgs[u] = "ASSIGNED" THEN "COMPLETED"
                                              ELSE c.asgs[u]
  BY <1>1, <1>4 DEF Settle, Restate, TypeOK
<1>6. Settled(d) /\ ~Rewarded(d) /\ ~Rewarded(c)
  BY <1>1, <1>2 DEF Settled, Rewarded
<1>7. StepsOfMethods(d) /\ SaveComplete(d)'
  BY <1>1, <1>2 DEF StepsOfMethods, SaveComplete, CallCurrent
<1>8. RowCurrent(d)' /\ ConfirmPays(d)'
  BY <1>1, <1>2, <1>3, <1>6 DEF RowCurrent, ConfirmPays, CallCurrent
<1>9. CopyCurrent(d)'
  BY <1>1, <1>2, <1>3, <1>4, <1>5, <1>6 DEF CopyCurrent, CallCurrent
<1>10. BoardCurrent(d)'
  <2>1. \A t \in Tasks, u \in Users : assignment'[t][u] = "COMPLETED" =>
           Settled(d) /\ d.on = t /\ d.asgs[u] = "ASSIGNED"
    BY <1>1, <1>2, <1>4, <1>5, <1>6, NothingHalfDone
  <2>2. \A t \in Tasks : task'[t].status = "PENDING_REVIEW" => owed'[t]
    BY <1>1, <1>3, NothingHalfDone
  <2>3. AbsentUntouched'
    BY <1>1, <1>3, <1>5, AbsentStay DEF BoardCurrent
  <2>4. \A t \in Tasks : Active(assignment[t])' \subseteq Active(assignment[t])
    BY <1>4, <1>5 DEF Active, isActiveAssignmentStatus
  <2>5. ActiveInChat'
    BY <1>3, <2>4 DEF BoardCurrent, ActiveInChat
  <2> QED
    BY <2>1, <2>2, <2>3, <2>5 DEF BoardCurrent
<1> QED
  BY <1>3, <1>7, <1>8, <1>9, <1>10 DEF Leads, CallCurrent, StepsOfMethods

LEMMA ReopenSerial ==
    ASSUME TypeOK, BoardInv, NEW h \in Handlers, NEW c \in CallRecord, call[h] = c,
           CallCurrent(c), BoardCurrent(c), Reopen(h)
    PROVE  Leads(h, Advanced(c, "diff"))
<1> DEFINE d == Advanced(c, "diff")
<1>1. c.step = "reopen" /\ c.op = "rejectTask" /\ ~Settled(c) /\ c.on \in Tasks
  BY DEF Reopen, At, CallCurrent, StepsOfMethods, Settled, CallRecord
<1>2. assignment' = assignment
  <2>1. \A u \in Users : assignment[c.on][u] # "COMPLETED"
    BY <1>1, NothingHalfDone
  <2>2. assignment \in [Tasks -> [Users -> AssignmentRow]]
    BY DEF TypeOK
  <2>3. [u \in Users |-> IF assignment[c.on][u] = "COMPLETED" THEN "ASSIGNED"
                         ELSE assignment[c.on][u]] = assignment[c.on]
    BY <1>1, <2>1, <2>2
  <2>4. assignment' = [assignment EXCEPT ![c.on] = assignment[c.on]]
    BY <1>1, <2>2, <2>3 DEF Reopen, Restate
  <2> QED
    BY <1>1, <2>2, <2>4
<1>3. d \in CallRecord /\ d.step = "diff" /\ d.op = c.op /\ "diff" \in Step
  <2>1. "diff" \in Step
    BY StepNames
  <2> QED
    BY <2>1, AdvancedRecord
<1>4. StepsOfMethods(d) /\ ~Rewarded(c) /\ LoadsAssignments(c.op)
  BY <1>1, <1>3 DEF StepsOfMethods, Rewarded, LoadsAssignments
<1> QED
  BY <1>1, <1>2, <1>3, <1>4, QuietSerial DEF Reopen

\* save() looks for differences: it ends without any, and a confirmation always
\* has one, the status.
LEMMA DiffSerial ==
    ASSUME TypeOK, BoardInv, NEW h \in Handlers, NEW c \in CallRecord, call[h] = c,
           CallCurrent(c), BoardCurrent(c), Diff(h)
    PROVE  \E d \in CallRecord : Leads(h, d)
<1> DEFINE s == c.on
           loaded == IF LoadsAssignments(c.op) THEN Assigned(assignment[s]) ELSE {}
<1>c. PICK cols \in SUBSET Column : cols = {k \in Column : c.row[k] # task[s][k]}
  OBVIOUS
<1>r. PICK rows \in SUBSET Users : rows = {u \in loaded : c.asgs[u] # assignment[s][u]}
  BY DEF Assigned
<1> DEFINE d == Writing(c, cols, rows)
<1>1. /\ c.step = "diff" /\ s \in Tasks /\ UNCHANGED board
      /\ c.row \in TaskRow /\ task[s] \in TaskRow
      /\ c.asgs \in [Users -> AssignmentRow]
  BY CallType DEF Diff, At, board, TypeOK
<1>2. ASSUME LoadsAssignments(c.op), NEW u \in loaded PROVE c.asgs[u] # "NONE"
  BY <1>2 DEF CallCurrent, CopyCurrent, Assigned
<1>3. c.op = "confirmTaskCompletion" => "status" \in cols
  BY <1>1, <1>c DEF CallCurrent, ConfirmPays, Column
<1>4. CASE Return(h)
  <2>1. ~Settled(c)
    <3>1. SUFFICES ASSUME Settled(c) PROVE FALSE
      OBVIOUS
    <3>2. c.op = "confirmTaskCompletion" /\ LoadsAssignments(c.op)
      BY <3>1 DEF Settled, LoadsAssignments
    <3>3. \/ \E u \in loaded : c.asgs[u] = "NONE"
          \/ cols = {}
          \/ call' = [call EXCEPT ![h].step = "write", ![h].cols = cols, ![h].rows = rows]
      BY <1>c, <1>r DEF Diff
    <3>4. CASE call' = [call EXCEPT ![h].step = "write", ![h].cols = cols, ![h].rows = rows]
      <4>1. call'[h].step = "write"
        BY <3>4 DEF TypeOK, CallRecord
      <4>2. call'[h] = Idle
        BY <1>4 DEF TypeOK, Return
      <4> QED
        BY <4>1, <4>2, IdleFields
    <3> QED
      BY <1>2, <1>3, <3>2, <3>3, <3>4
  <2> QED
    BY <1>1, <1>4, <2>1, QuietEndSerial, IdleType
<1>5. CASE ~Return(h)
  <2>1. call' = [call EXCEPT ![h].step = "write", ![h].cols = cols, ![h].rows = rows]
    BY <1>5, <1>c, <1>r DEF Diff
  <2>2. call' = [call EXCEPT ![h] = d]
    BY <2>1 DEF TypeOK, Writing
  <2>4. /\ d \in CallRecord /\ d.op = c.op /\ d.on = c.on /\ d.row = c.row
        /\ d.asgs = c.asgs /\ d.user = c.user /\ d.rows = rows /\ d.step = "write"
        /\ d.cols = cols
    <3>1. d.cols = cols
      BY DEF CallRecord, Writing
    <3> QED
      BY <3>1, WritingCopy
  <2>5. (Settled(c) <=> Settled(d)) /\ (Rewarded(c) <=> Rewarded(d))
    BY <1>1, <2>4 DEF Settled, Rewarded
  <2>6. StepsOfMethods(d) /\ RowCurrent(d)'
    BY <1>1, <2>4 DEF StepsOfMethods, RowCurrent, CallCurrent, board
  <2>7. CopyCurrent(d)'
    BY <1>1, <2>4, <2>5 DEF CopyCurrent, CallCurrent, board
  <2>8. SaveComplete(d)'
    <3>1. rows # {} => LoadsAssignments(c.op)
      BY <1>r
    <3>2. ASSUME LoadsAssignments(c.op), NEW u \in Users, c.asgs[u] # assignment[s][u]
          PROVE  u \in rows
      BY <1>r, <3>2 DEF CallCurrent, CopyCurrent, Assigned
    <3> QED
      BY <1>1, <2>4, <3>1, <3>2 DEF SaveComplete, board
  <2>9. ConfirmPays(d)'
    BY <1>1, <1>3, <2>4, <2>5 DEF ConfirmPays, CallCurrent, board
  <2>10. BoardCurrent(d)'
    BY <1>1, <2>4, <2>5 DEF BoardCurrent, board, AbsentUntouched, ActiveInChat, Active
  <2> QED
    BY <2>2, <2>4, <2>6, <2>7, <2>8, <2>9, <2>10 DEF Leads, CallCurrent, StepsOfMethods
<1> QED
  BY <1>4, <1>5

LEMMA WriteSerial ==
    ASSUME TypeOK, BoardInv, NEW h \in Handlers, NEW c \in CallRecord, call[h] = c,
           CallCurrent(c), BoardCurrent(c), Write(h)
    PROVE  Leads(h, Idle)
<1> DEFINE s == c.on
<1>1. c.op # "idle"
  <2>1. c # Idle
    BY IdleFields DEF Write, At
  <2> QED
    BY <2>1 DEF BoardInv, StepsMatch
<1>2. /\ c.step = "write" /\ s \in Tasks /\ task[s].life # "absent"
      /\ c.row.life = task[s].life /\ c.row.chat = task[s].chat
      /\ task[s] \in TaskRow /\ assignment[s] \in [Users -> AssignmentRow]
  BY <1>1, CallType DEF Write, At, CallCurrent, RowCurrent, TypeOK
<1>3. /\ \A t \in Tasks \ {s} : /\ task'[t] = task[t] /\ assignment'[t] = assignment[t]
                                /\ owed'[t] = owed[t]
      /\ task'[s].life = task[s].life /\ task'[s].chat = task[s].chat
      /\ task'[s].status = IF "status" \in c.cols THEN c.row.status ELSE task[s].status
      /\ \A u \in Users : assignment'[s][u] = IF u \in c.rows THEN c.asgs[u]
                                              ELSE assignment[s][u]
      /\ owed'[s] = (owed[s] \/ ("status" \in c.cols /\ c.row.status = "PENDING_REVIEW"))
      /\ chat' = chat /\ Return(h)
  BY <1>2 DEF Write, TypeOK
<1>4. \A t \in Tasks, u \in Users : assignment'[t][u] # "COMPLETED"
  <2> SUFFICES ASSUME NEW t \in Tasks, NEW u \in Users, assignment'[t][u] = "COMPLETED"
               PROVE  FALSE
    OBVIOUS
  <2>1. c.asgs[u] # "COMPLETED"
    BY DEF CallCurrent, CopyCurrent
  <2>2. t = s
    BY <1>3 DEF BoardCurrent
  <2>3. u \notin c.rows /\ assignment[s][u] = "COMPLETED"
    BY <1>3, <2>1, <2>2
  <2>4. Settled(c) /\ c.asgs[u] = "ASSIGNED"
    BY <1>2, <2>3 DEF BoardCurrent
  <2>5. LoadsAssignments(c.op)
    BY <2>4 DEF Settled, LoadsAssignments
  <2> QED
    BY <1>2, <2>3, <2>4, <2>5 DEF CallCurrent, SaveComplete
<1>5. \A t \in Tasks : task'[t].status = "PENDING_REVIEW" => owed'[t]
  <2>1. ASSUME Rewarded(c) PROVE "status" \in c.cols /\ c.row.status = "DONE"
    BY <1>2, <2>1 DEF Rewarded, Settled, CallCurrent, ConfirmPays
  <2>2. \A t \in Tasks : task[t].status = "PENDING_REVIEW" => owed[t] \/ (Rewarded(c) /\ s = t)
    BY DEF BoardCurrent
  <2>3. owed[s] \in BOOLEAN /\ owed'[s] \in BOOLEAN
    BY <1>2, <1>3 DEF TypeOK
  <2>4. task'[s].status = "PENDING_REVIEW" => owed'[s]
    BY <1>2, <1>3, <2>1, <2>2, <2>3
  <2> QED
    BY <1>2, <1>3, <2>2, <2>4
<1>6. AbsentUntouched'
  BY <1>2, <1>3, AbsentStay DEF BoardCurrent
<1>7. task[s].chat # 0 => Active(assignment[s])' \subseteq chat[s][task[s].chat]
  <2>1. c.rows # {} => LoadsAssignments(c.op)
    BY DEF CallCurrent, SaveComplete
  <2>2. Active(assignment[s])' \subseteq Active(assignment[s]) \cup {u \in c.rows : u \in Active(c.asgs)}
    BY <1>3 DEF Active
  <2>3. c.rows # {} /\ task[s].chat # 0 => Active(c.asgs) \subseteq chat[s][task[s].chat]
    BY <2>1 DEF CallCurrent, CopyCurrent
  <2>4. task[s].chat # 0 => Active(assignment[s]) \subseteq chat[s][task[s].chat]
    BY <1>2 DEF BoardCurrent, ActiveInChat
  <2> QED
    BY <2>2, <2>3, <2>4
<1>8. ActiveInChat'
  <2> SUFFICES ASSUME NEW t \in Tasks, task'[t].chat # 0
               PROVE  Active(assignment[t])' \subseteq chat'[t][task'[t].chat]
    BY DEF ActiveInChat, Active
  <2>1. CASE t = s
    BY <1>3, <1>7, <2>1
  <2>2. CASE t # s
    BY <1>3, <2>2 DEF BoardCurrent, ActiveInChat, Active
  <2> QED
    BY <2>1, <2>2
<1> QED
  BY <1>3, <1>4, <1>5, <1>6, <1>8, EndSerial

LEMMA ContinueSerial ==
    ASSUME TypeOK, BoardInv, SerialInv, NEW h \in Handlers, Continue(h)
    PROVE  SerialInv'
<1>1. call[h] # Idle
  BY IdleFields DEF Continue, RefuseAssignment, CommitAssignment, Withdraw, CountRemaining,
     BackToTodo, Settle, boostVolunteerScores, checkRequestCompletion, CompleteRequest,
     Reopen, Mark, SoftDelete, Diff, Write, At
<1>2. /\ \A g \in Handlers \ {h} : call[g] = Idle
      /\ call[h] \in CallRecord /\ CallCurrent(call[h]) /\ BoardCurrent(call[h])
  BY <1>1, Alone
<1>3. PICK c \in CallRecord : c = call[h]
  BY <1>2
<1>4. CallCurrent(c) /\ BoardCurrent(c)
  BY <1>2, <1>3
<1>5. /\ "count remaining" \in Step /\ "boost" \in Step /\ "diff" \in Step
  BY StepNames
<1>6. /\ Advanced(c, "count remaining") \in CallRecord /\ Advanced(c, "boost") \in CallRecord
      /\ Advanced(c, "diff") \in CallRecord
  BY <1>5, AdvancedRecord
<1>7. CASE RefuseAssignment(h)
  <2>1. ~Settled(c)
    BY <1>3, <1>7 DEF RefuseAssignment, At, Settled
  <2> QED
    BY <1>2, <1>4, <1>7, <2>1, QuietEndSerial, Rejoin, IdleType DEF RefuseAssignment, Leads
<1>8. CASE CommitAssignment(h) \/ BackToTodo(h) \/ Mark(h) \/ SoftDelete(h) \/ Write(h)
  <2>1. Leads(h, Idle)
    BY <1>3, <1>4, <1>8, CommitSerial, BackToTodoSerial, MarkSerial, SoftDeleteSerial,
       WriteSerial
  <2> QED
    BY <1>2, <2>1, Rejoin, IdleType DEF Leads
<1>9. CASE Withdraw(h) \/ Settle(h) \/ Reopen(h)
  <2>1. PICK d \in CallRecord : Leads(h, d)
    BY <1>3, <1>4, <1>6, <1>9, WithdrawSerial, SettleSerial, ReopenSerial
  <2> QED
    BY <1>2, <2>1, Rejoin DEF Leads
<1>10. CASE \/ CountRemaining(h) \/ Diff(h)
            \/ boostVolunteerScores(h) \/ checkRequestCompletion(h) \/ CompleteRequest(h)
  <2>1. PICK d \in CallRecord : Leads(h, d)
    BY <1>3, <1>4, <1>10, CountRemainingSerial, DiffSerial, RewardSerial
  <2> QED
    BY <1>2, <2>1, Rejoin DEF Leads
<1> QED
  BY <1>7, <1>8, <1>9, <1>10 DEF Continue

\* A call starts, which it does only when no other is in flight.
LEMMA BeginSerial ==
    ASSUME TypeOK, SerialInv, MaxOverlaps = 0, NEW h \in Handlers,
           NEW c \in CallRecord, Begin(h, c), CallCurrent(c)
    PROVE  SerialInv'
<1>1. \A g \in Handlers : call[g] = Idle
  BY DEF Begin, TypeOK
<1>2. BoardCurrent(Idle) /\ ~Settled(Idle)
  BY <1>1, Alone, IdleFields DEF Settled
<1>3. BoardCurrent(c)
  BY <1>2, NothingHalfDone DEF BoardCurrent
<1>4. BoardCurrent(c)' /\ CallCurrent(c)'
  BY <1>3 DEF Begin, board, BoardCurrent, AbsentUntouched, ActiveInChat, Active,
     CallCurrent, StepsOfMethods, RowCurrent, CopyCurrent, SaveComplete, ConfirmPays
<1> QED
  BY <1>1, <1>4, Rejoin DEF Begin

\* What the methods that read a task read.
LEMMA ReadingCurrent ==
    ASSUME TypeOK, BoardCurrent(Idle), NEW u \in Users, NEW t \in Tasks, Live(t),
           NEW status \in TaskStatus, NEW op \in Method \ {"idle", "assignVolunteer"},
           NEW s \in {"diff", "settle", "reopen"},
           s = "settle" => op = "confirmTaskCompletion",
           s = "reopen" => op = "rejectTask",
           op = "confirmTaskCompletion" =>
               task[t].status = "PENDING_REVIEW" /\ status = "DONE" /\ s = "settle"
    PROVE  CallCurrent(Reading(op, s, u, t, status))
<1>1. PICK c \in CallRecord : c = Reading(op, s, u, t, status)
  <2>1. op \in Method /\ s \in Step
    BY DEF Step
  <2> QED
    BY <2>1, ReadingType
<1>2. /\ c.op = op /\ c.step = s /\ c.on = t /\ c.rows = {}
      /\ c.row = [task[t] EXCEPT !.status = status]
      /\ c.asgs = IF LoadsAssignments(op) THEN assignment[t] ELSE NoAssignments
  BY <1>1 DEF Reading, Idle
<1>3. /\ c.row.life = task[t].life /\ c.row.chat = task[t].chat /\ c.row.status = status
      /\ task[t].life = "live"
  <2>1. task[t] \in TaskRow /\ task[t].life = "live"
    BY DEF TypeOK, Live
  <2> QED
    BY <1>2, <2>1 DEF TaskRow
<1>4. \A v \in Users : /\ assignment[t][v] # "COMPLETED" /\ c.asgs[v] # "COMPLETED"
                       /\ LoadsAssignments(op) => c.asgs[v] = assignment[t][v]
  <2>1. \A v \in Users : assignment[t][v] # "COMPLETED"
    BY NothingHalfDone, IdleFields DEF Settled
  <2>2. CASE LoadsAssignments(op)
    BY <1>2, <2>1, <2>2
  <2>3. CASE ~LoadsAssignments(op)
    BY <1>2, <2>1, <2>3 DEF NoAssignments
  <2> QED
    BY <2>2, <2>3
<1>5. StepsOfMethods(c)
  BY <1>2 DEF StepsOfMethods
<1>6. RowCurrent(c)
  BY <1>2, <1>3 DEF RowCurrent
<1>7. CopyCurrent(c)
  <2>1. LoadsAssignments(op) => Active(c.asgs) = Active(assignment[t])
    BY <1>4 DEF Active
  <2>2. task[t].chat # 0 => Active(assignment[t]) \subseteq chat[t][task[t].chat]
    BY DEF BoardCurrent, ActiveInChat
  <2> QED
    BY <1>2, <1>4, <2>1, <2>2 DEF CopyCurrent
<1>8. SaveComplete(c)
  BY <1>2 DEF SaveComplete
<1>9. ConfirmPays(c)
  <2>1. task[t].status = "PENDING_REVIEW" => owed[t]
    BY NothingHalfDone, IdleFields DEF Settled
  <2> QED
    BY <1>2, <1>3, <2>1 DEF ConfirmPays
<1> QED
  BY <1>1, <1>5, <1>6, <1>7, <1>8, <1>9 DEF CallCurrent

\* What deleteTask, withdrawAssignment and updateAssignmentStatus remember: no
\* row of a task, and of the assignments at most the caller's own.
LEMMA OwnRowCurrent ==
    ASSUME NEW c \in CallRecord,
           \/ c.op = "deleteTask" /\ c.step = "soft delete"
           \/ c.op = "withdrawAssignment" /\ c.step = "withdraw"
           \/ /\ c.op = "updateAssignmentStatus" /\ c.step = "mark"
              /\ isActiveAssignmentStatus(assignment[c.on][c.user])
              /\ isActiveAssignmentStatus(c.asgs[c.user]),
           task[c.on].life # "absent", c.rows = {},
           \A u \in Users : c.asgs[u] # "COMPLETED"
    PROVE  CallCurrent(c)
BY DEF CallCurrent, StepsOfMethods, RowCurrent, CopyCurrent, SaveComplete, ConfirmPays,
   LoadsAssignments

LEMMA StartSerial ==
    ASSUME TypeOK, BoardInv, SerialInv, MaxOverlaps = 0, NEW h \in Handlers,
           NEW u \in Users, NEW t \in Tasks, Start(h, u, t)
    PROVE  SerialInv'
<1>1. BoardCurrent(Idle) /\ ~Settled(Idle)
  <2>1. \A g \in Handlers : call[g] = Idle
    BY DEF Start, update, deleteTask, assignVolunteer, withdrawAssignment,
       completeTask, returnToProgress, confirmTaskCompletion, rejectTask,
       updateTaskStatusAdmin, cancelTask, renewTask, updateAssignmentStatus, Begin, TypeOK
  <2> QED
    BY <2>1, Alone, IdleFields DEF Settled
<1>2. /\ \A v \in Users : assignment[t][v] # "COMPLETED"
      /\ AbsentUntouched
  BY <1>1, NothingHalfDone
<1>3. ASSUME NEW status \in TaskStatus,
             NEW op \in {"update", "completeTask", "returnToProgress", "cancelTask",
                         "renewTask", "updateTaskStatusAdmin"},
             Live(t), Begin(h, Reading(op, "diff", u, t, status))
      PROVE  SerialInv'
  <2>1. op \in Method \ {"idle", "assignVolunteer"} /\ op # "confirmTaskCompletion"
        /\ "diff" \in Step
    BY DEF Method, Step
  <2>2. CallCurrent(Reading(op, "diff", u, t, status))
    BY <1>1, <1>3, <2>1, ReadingCurrent
  <2> QED
    BY <1>3, <2>1, <2>2, ReadingType, BeginSerial
<1>4. CASE update(h, u, t)
  <2>1. task[t].status \in TaskStatus
    BY DEF TypeOK, TaskRow
  <2> QED
    BY <1>3, <1>4, <2>1 DEF update
<1>5. CASE \/ completeTask(h, u, t) \/ returnToProgress(h, u, t) \/ cancelTask(h, u, t)
           \/ renewTask(h, u, t) \/ updateTaskStatusAdmin(h, u, t)
  BY <1>3, <1>5 DEF completeTask, returnToProgress, cancelTask, renewTask,
     updateTaskStatusAdmin, TaskStatus
<1>6. CASE confirmTaskCompletion(h, u, t)
  <2>1. /\ "DONE" \in TaskStatus /\ "settle" \in Step
        /\ "confirmTaskCompletion" \in Method \ {"idle", "assignVolunteer"}
    BY DEF TaskStatus, Step, Method
  <2>2. CallCurrent(Reading("confirmTaskCompletion", "settle", u, t, "DONE"))
    BY <1>1, <1>6, <2>1, ReadingCurrent DEF confirmTaskCompletion
  <2> QED
    BY <1>6, <2>1, <2>2, ReadingType, BeginSerial DEF confirmTaskCompletion
<1>7. CASE rejectTask(h, u, t)
  <2>1. /\ "IN_PROGRESS" \in TaskStatus /\ "reopen" \in Step
        /\ "rejectTask" \in Method \ {"idle", "assignVolunteer"}
    BY DEF TaskStatus, Step, Method
  <2>2. CallCurrent(Reading("rejectTask", "reopen", u, t, "IN_PROGRESS"))
    BY <1>1, <1>7, <2>1, ReadingCurrent DEF rejectTask
  <2> QED
    BY <1>7, <2>1, <2>2, ReadingType, BeginSerial DEF rejectTask
<1>8. CASE deleteTask(h, u, t)
  <2>1. PICK c : c = [Idle EXCEPT !.op = "deleteTask", !.step = "soft delete",
                                  !.user = u, !.on = t]
    OBVIOUS
  <2>2. c \in CallRecord
    BY <2>1, IdleType DEF Idle, CallRecord, Method, Step
  <2>3. /\ c.op = "deleteTask" /\ c.step = "soft delete" /\ c.on = t /\ c.rows = {}
        /\ \A v \in Users : c.asgs[v] # "COMPLETED"
    BY <2>1 DEF Idle, NoAssignments
  <2>4. CallCurrent(c)
    BY <1>8, <2>2, <2>3, OwnRowCurrent DEF deleteTask, Live
  <2> QED
    BY <1>8, <2>1, <2>2, <2>4, BeginSerial DEF deleteTask
<1>9. CASE withdrawAssignment(h, u, t)
  <2>1. PICK c : c = [Idle EXCEPT !.op = "withdrawAssignment", !.step = "withdraw",
                                  !.user = u, !.on = t]
    OBVIOUS
  <2>2. c \in CallRecord
    BY <2>1, IdleType DEF Idle, CallRecord, Method, Step
  <2>3. /\ c.op = "withdrawAssignment" /\ c.step = "withdraw" /\ c.on = t /\ c.rows = {}
        /\ \A v \in Users : c.asgs[v] # "COMPLETED"
    BY <2>1 DEF Idle, NoAssignments
  <2>4. task[t].life # "absent"
    BY <1>2, <1>9 DEF withdrawAssignment, AbsentUntouched
  <2>5. CallCurrent(c)
    BY <2>2, <2>3, <2>4, OwnRowCurrent
  <2> QED
    BY <1>9, <2>1, <2>2, <2>5, BeginSerial DEF withdrawAssignment
<1>10. CASE updateAssignmentStatus(h, u, t)
  <2>1. PICK status \in {"ASSIGNED", "EN_ROUTE", "ON_SITE"} :
            Begin(h, [Idle EXCEPT !.op = "updateAssignmentStatus", !.step = "mark",
                                  !.user = u, !.on = t,
                                  !.asgs = [NoAssignments EXCEPT ![u] = status]])
    BY <1>10 DEF updateAssignmentStatus
  <2>2. PICK a : a = [NoAssignments EXCEPT ![u] = status]
    OBVIOUS
  <2>3. /\ a \in [Users -> AssignmentRow] /\ a[u] = status
        /\ \A v \in Users : a[v] # "COMPLETED"
    BY <2>2 DEF NoAssignments, AssignmentRow, AssignmentStatus
  <2>4. PICK c : c = [Idle EXCEPT !.op = "updateAssignmentStatus", !.step = "mark",
                                  !.user = u, !.on = t, !.asgs = a]
    OBVIOUS
  <2>5. c \in CallRecord
    BY <2>3, <2>4, IdleType DEF Idle, CallRecord, Method, Step
  <2>6. /\ c.op = "updateAssignmentStatus" /\ c.step = "mark" /\ c.on = t
        /\ c.user = u /\ c.asgs = a /\ c.rows = {}
    BY <2>4 DEF Idle
  <2>7. task[t].life # "absent" /\ isActiveAssignmentStatus(assignment[t][u])
    BY <1>2, <1>10 DEF updateAssignmentStatus, AbsentUntouched, isActiveAssignmentStatus
  <2>8. CallCurrent(c)
    BY <2>3, <2>5, <2>6, <2>7, OwnRowCurrent DEF isActiveAssignmentStatus
  <2> QED
    BY <2>1, <2>2, <2>4, <2>5, <2>8, BeginSerial
<1>11. CASE assignVolunteer(h, u, t)
  <2>1. PICK c : c = [Idle EXCEPT !.op = "assignVolunteer", !.step = "lock held",
                             !.user = u, !.on = t, !.row = task[t],
                             !.asgs = assignment[t], !.sawOpen = (request = "OPEN")]
    OBVIOUS
  <2>2. task[t] \in TaskRow /\ assignment[t] \in [Users -> AssignmentRow]
    BY DEF TypeOK
  <2>3. c \in CallRecord
    BY <2>1, <2>2, IdleType DEF Idle, CallRecord, Method, Step
  <2>4. c.op = "assignVolunteer" /\ c.step = "lock held" /\ c.on = t
        /\ c.row = task[t] /\ c.asgs = assignment[t] /\ c.rows = {}
    BY <2>1 DEF Idle
  <2>5. CallCurrent(c)
    BY <1>2, <1>11, <2>4 DEF assignVolunteer, Live, CallCurrent, StepsOfMethods, RowCurrent,
       CopyCurrent, SaveComplete, ConfirmPays, LoadsAssignments
  <2> QED
    BY <1>11, <2>1, <2>3, <2>5, BeginSerial DEF assignVolunteer
<1> QED
  BY <1>4, <1>5, <1>6, <1>7, <1>8, <1>9, <1>10, <1>11 DEF Start

\* A new task changes nothing for the call in flight: it is on another one.
LEMMA CreateSerial ==
    ASSUME TypeOK, BoardInv, SerialInv, NEW u \in Users, NEW t \in Tasks, create(u, t)
    PROVE  SerialInv'
<1>1. /\ task' = [task EXCEPT ![t] = NewRow] /\ task[t].life = "absent"
      /\ task[t].status = "TODO" /\ task[t].chat = 0
      /\ UNCHANGED <<assignment, chat, owed, call>>
  BY DEF create, SerialInv, AbsentUntouched
<1>2. /\ \A s \in Tasks : /\ task'[s].status = task[s].status
                          /\ task'[s].chat = task[s].chat
                          /\ s # t => task'[s] = task[s]
      /\ task'[t].life = "live"
  BY <1>1 DEF TypeOK, NewRow
<1>3. ASSUME NEW h \in Handlers PROVE CallCurrent(call[h])'
  <2>1. PICK c \in CallRecord : c = call[h]
    BY CallType
  <2>2. c.on \in Tasks /\ CallCurrent(c)
    BY <2>1, CallType DEF SerialInv
  <2>3. CASE c.op = "idle"
    <3>1. c = Idle
      BY <2>1, <2>3 DEF BoardInv, StepsMatch
    <3> QED
      BY <1>1, <2>1, <3>1, IdleCurrent
  <2>4. CASE c.op # "idle"
    <3>1. c.on # t
      BY <1>1, <2>2, <2>4 DEF CallCurrent, RowCurrent
    <3>2. task'[c.on] = task[c.on]
      BY <1>2, <2>2, <3>1
    <3>3. CallCurrent(c)'
      BY <1>1, <2>2, <3>2 DEF CallCurrent, StepsOfMethods, RowCurrent, CopyCurrent,
         SaveComplete, ConfirmPays
    <3> QED
      BY <1>1, <2>1, <3>3
  <2> QED
    BY <2>3, <2>4
<1>4. OneInFlight' /\ CompletedBySettling'
  BY <1>1 DEF SerialInv, OneInFlight, CompletedBySettling
<1>5. ReviewIsOwed' /\ AbsentUntouched' /\ ActiveInChat'
  BY <1>1, <1>2 DEF SerialInv, ReviewIsOwed, AbsentUntouched, ActiveInChat, Active
<1> QED
  BY <1>3, <1>4, <1>5 DEF SerialInv

LEMMA SerialInit == Init => SerialInv
<1> SUFFICES ASSUME Init PROVE SerialInv
  OBVIOUS
<1>1. \A h \in Handlers : call[h] = Idle
  BY DEF Init
<1>2. /\ \A t \in Tasks : task[t].status = "TODO" /\ task[t].chat = 0
      /\ \A t \in Tasks, u \in Users : assignment[t][u] = "NONE"
  BY DEF Init, NewRow, NoAssignments
<1> QED
  BY <1>1, <1>2, IdleCurrent DEF SerialInv, OneInFlight, CompletedBySettling,
     ReviewIsOwed, AbsentUntouched, ActiveInChat

LEMMA SerialStep ==
    ASSUME MaxOverlaps = 0, "fail" \notin Operations
    PROVE  TypeOK /\ BoardInv /\ SerialInv /\ [Next]_vars => SerialInv'
<1> SUFFICES ASSUME TypeOK, BoardInv, SerialInv, [Next]_vars PROVE SerialInv'
  OBVIOUS
<1>1. CASE UNCHANGED vars
  <2>1. ASSUME NEW h \in Handlers PROVE CallCurrent(call[h])'
    <3>1. PICK c : c = call[h] /\ CallCurrent(c)
      BY DEF SerialInv
    <3>2. CallCurrent(c)' /\ call'[h] = c
      BY <1>1, <3>1 DEF vars, CallCurrent, StepsOfMethods, RowCurrent, CopyCurrent,
         SaveComplete, ConfirmPays
    <3> QED
      BY <3>2
  <2>2. OneInFlight' /\ CompletedBySettling' /\ ReviewIsOwed'
    BY <1>1 DEF vars, SerialInv, OneInFlight, CompletedBySettling, ReviewIsOwed
  <2>3. AbsentUntouched' /\ ActiveInChat'
    BY <1>1 DEF vars, SerialInv, AbsentUntouched, ActiveInChat, Active
  <2> QED
    BY <2>1, <2>2, <2>3 DEF SerialInv
<1>2. ASSUME NEW h \in Handlers PROVE ~Fail(h)
  BY DEF Fail
<1> QED
  BY <1>1, <1>2, CreateSerial, StartSerial, ContinueSerial DEF Next

\* While calls neither overlap nor fail half way, the copy in the hands of the one
\* call in flight is the database's, but for what the call did itself.
THEOREM SerialCorrect ==
    ASSUME MaxOverlaps = 0, "fail" \notin Operations
    PROVE  Spec => [](TypeOK /\ BoardInv /\ SerialInv)
<1>1. Init => TypeOK /\ BoardInv /\ SerialInv
  BY TypeInit, BoardInit, SerialInit
<1>2. TypeOK /\ BoardInv /\ SerialInv /\ [Next]_vars => (TypeOK /\ BoardInv /\ SerialInv)'
  BY TypeStep, BoardStep, SerialStep
<1> QED
  BY <1>1, <1>2, PTL DEF Spec

\* As long as calls neither overlap nor fail half way, everybody who works on a
\* task that has a chat is in that chat.
THEOREM WorkersShareTheChat ==
    ASSUME MaxOverlaps = 0, "fail" \notin Operations
    PROVE  Spec => []ActiveInChat
<1>1. SerialInv => ActiveInChat
  BY DEF SerialInv
<1> QED
  BY <1>1, SerialCorrect, PTL

\* As long as calls neither overlap nor fail half way, confirmTaskCompletion takes
\* back what it did: an assignment is COMPLETED only until the save of the same
\* call, and none is when no call is in flight.
THEOREM CompletionIsTakenBack ==
    ASSUME MaxOverlaps = 0, "fail" \notin Operations
    PROVE  Spec => [](\A t \in Tasks, u \in Users :
                          assignment[t][u] = "COMPLETED" =>
                              \E h \in Handlers : Settled(call[h]) /\ call[h].on = t)
<1>1. SerialInv => \A t \in Tasks, u \in Users :
          assignment[t][u] = "COMPLETED" =>
              \E h \in Handlers : Settled(call[h]) /\ call[h].on = t
  BY DEF SerialInv, CompletedBySettling
<1> QED
  BY <1>1, SerialCorrect, PTL

\* A score rises in one step only, and there the invariant has the reward owed.
LEMMA RewardIsOwed ==
    ASSUME TypeOK, BoardInv, SerialInv, [Next]_vars, NEW u \in Users, trust'[u] > trust[u]
    PROVE  \E t \in Tasks : owed[t] /\ ~owed'[t]
<1>1. trust' # trust
  BY BoardAssumption DEF TypeOK
<1>2. PICK h \in Handlers : boostVolunteerScores(h)
  <2>1. ASSUME NEW v \in Users, NEW t \in Tasks, create(v, t) PROVE UNCHANGED trust
    BY <2>1 DEF create
  <2>2. ASSUME NEW h \in Handlers, NEW v \in Users, NEW t \in Tasks, Start(h, v, t)
        PROVE  UNCHANGED trust
    BY <2>2 DEF Start, update, deleteTask, assignVolunteer, withdrawAssignment,
       completeTask, returnToProgress, confirmTaskCompletion, rejectTask,
       updateTaskStatusAdmin, cancelTask, renewTask, updateAssignmentStatus, Begin, board
  <2>3. ASSUME NEW h \in Handlers, Continue(h) \/ Fail(h), ~boostVolunteerScores(h)
        PROVE  UNCHANGED trust
    BY <2>3 DEF Continue, Fail, RefuseAssignment, CommitAssignment, CountRemaining,
       Withdraw, BackToTodo, Settle, checkRequestCompletion, CompleteRequest, Reopen,
       Mark, SoftDelete, Diff, Write, board
  <2> QED
    BY <1>1, <2>1, <2>2, <2>3 DEF Next, vars
<1>3. /\ call[h].op = "confirmTaskCompletion" /\ ~Rewarded(call[h])
      /\ call[h].on \in Tasks
  BY <1>2, CallType DEF boostVolunteerScores, At, SerialInv, CallCurrent, StepsOfMethods,
     Rewarded
<1>4. owed[call[h].on]
  BY <1>3 DEF SerialInv, CallCurrent, ConfirmPays
<1>5. ~owed'[call[h].on]
  BY <1>2, <1>3 DEF boostVolunteerScores, TypeOK
<1> QED
  BY <1>3, <1>4, <1>5

\* As long as calls neither overlap nor fail half way, a review is rewarded once.
THEOREM ReviewRewardedOnce ==
    ASSUME MaxOverlaps = 0, "fail" \notin Operations
    PROVE  Spec => OneRewardPerReview
<1>1. TypeOK /\ BoardInv /\ SerialInv /\ [Next]_vars =>
          [\A u \in Users : trust'[u] > trust[u] => \E t \in Tasks : owed[t] /\ ~owed'[t]]_vars
  BY RewardIsOwed
<1> QED
  BY <1>1, SerialCorrect, PTL DEF Spec, OneRewardPerReview
=============================================================================
