------------------------- MODULE RequestLifecycleProofs -------------------------
(***************************************************************************)
(* Theorems about RequestLifecycle, for any number of calls in flight, of  *)
(* tasks and of additions.                                                 *)
(*                                                                         *)
(* The strengthening: while nobody has written since a call began, its     *)
(* copy agrees with the row outside the columns its method is about, and   *)
(* what the method checked is still so.                                    *)
(***************************************************************************)
EXTENDS RequestLifecycle, TLAPS

\* What the method made of the status.
StatusOfMethod(c) ==
    /\ c.op = "markAsPendingReview" => c.row.status = "PENDING_REVIEW"
    /\ c.op = "confirmCompletion" => c.row.status = "COMPLETED"
    /\ c.op = "returnToProgress" => c.row.status = "IN_PROGRESS"

Agrees(c) ==
    /\ \A k \in Column \ OwnColumns(c) : c.row[k] = request[k]
    /\ \A a \in Additions \ {c.on} : c.row.info[a] = request.info[a]
    /\ c.tasks = {}
    /\ c.op = "update" => c.work = work
    /\ c.op = "update" /\ c.who = "owner" => AtWork = {}
    /\ c.op = "cancel" => request.status # "COMPLETED"

CallHolds(c) ==
    /\ c \in RequestCall
    /\ c.row.life = "live"
    /\ StatusOfMethod(c)
    /\ c.op \in SavingMethod /\ c.alone => Agrees(c)

SavesInv ==
    /\ RequestTypeOK
    /\ call = [g \in Handlers |-> call[g]]
    /\ \A h \in Handlers :
           InFlight(h) => request.life # "absent" /\ CallHolds(call[h])

LEMMA IdleIsNoCall == Idle \notin RequestCall
BY DEF RequestCall, Idle, RequestMethod, SavingMethod

LEMMA NewRequestIsRow == NewRequest \in RequestRow /\ NoWork \in [Tasks -> TaskWork]
BY RequestAssumption DEF NewRequest, NoWork, RequestRow, RequestStatus, TaskWork

LEMMA SavesInvInit == RequestInit => SavesInv
<1> SUFFICES ASSUME RequestInit PROVE SavesInv
  OBVIOUS
<1>1. request \in RequestRow /\ work \in [Tasks -> TaskWork]
  BY NewRequestIsRow DEF RequestInit, NewRequest, RequestRow
<1>2. made \in [Additions -> 0..MaxClock] /\ clock \in 1..MaxClock
  BY RequestAssumption DEF RequestInit
<1>3. \A h \in Handlers : call[h] = Idle
  BY DEF RequestInit, CallsInit
<1> QED
  BY <1>1, <1>2, <1>3 DEF SavesInv, RequestTypeOK, InFlight, RequestInit, CallsInit

-----------------------------------------------------------------------------
(* The two kinds of steps: those that write the rows, and those that do not. *)

\* Only handler h moves, and neither the request nor its tasks change.
LEMMA QuietStep ==
    ASSUME SavesInv, NEW h \in Handlers, NEW c,
           call' = [call EXCEPT ![h] = c], UNCHANGED <<request, work>>,
           made' \in [Additions -> 0..MaxClock], clock' \in 1..MaxClock,
           c = Idle \/ (request.life # "absent" /\ CallHolds(c))
    PROVE  SavesInv'
<1>1. /\ call' = [g \in Handlers |-> IF g = h THEN c ELSE call[g]]
      /\ \A g \in Handlers : call'[g] = IF g = h THEN c ELSE call[g]
  BY DEF SavesInv
<1>2. RequestTypeOK'
  BY <1>1 DEF SavesInv, RequestTypeOK, CallHolds
<1>3. ASSUME NEW g \in Handlers, InFlight(g)'
      PROVE  (request.life # "absent" /\ CallHolds(call[g]))'
  <2>1. request.life # "absent" /\ CallHolds(call'[g])
    BY <1>1, <1>3 DEF SavesInv, InFlight
  <2> QED
    BY <2>1 DEF CallHolds, Agrees, AtWork
<1>4. (call = [g \in Handlers |-> call[g]])'
  BY <1>1
<1> QED
  BY <1>2, <1>3, <1>4 DEF SavesInv

\* The rows change: every call but h is no longer alone, and h (if there is one)
\* goes on as a method that does not save.
LEMMA WritingStep ==
    ASSUME SavesInv,
           request' \in RequestRow,
           request.life # "absent" => request'.life # "absent",
           work' \in [Tasks -> TaskWork],
           made' \in [Additions -> 0..MaxClock], clock' \in 1..MaxClock,
           call' = [g \in Handlers |-> call'[g]],
           \A g \in Handlers : call'[g] \in {Idle, Disturbed(g)}
    PROVE  SavesInv'
<1>1. ASSUME NEW g \in Handlers, InFlight(g)'
      PROVE  (request.life # "absent" /\ CallHolds(call[g]))'
  <2>1. InFlight(g) /\ call'[g] = [call[g] EXCEPT !.alone = FALSE]
    BY <1>1 DEF Disturbed, InFlight
  <2>2. /\ CallHolds(call[g]) /\ call[g] \in RequestCall
        /\ request.life # "absent"
    BY <2>1 DEF SavesInv, CallHolds
  <2>3. call'[g] \in RequestCall /\ ~call'[g].alone
    BY <2>1, <2>2 DEF RequestCall
  <2>4. call'[g].row = call[g].row /\ call'[g].op = call[g].op
    BY <2>1, <2>2 DEF RequestCall
  <2> QED
    BY <2>2, <2>3, <2>4 DEF CallHolds, StatusOfMethod
<1>2. RequestTypeOK'
  BY <1>1 DEF RequestTypeOK, InFlight, CallHolds
<1> QED
  BY <1>1, <1>2 DEF SavesInv

-----------------------------------------------------------------------------
(* The calls that begin. *)

LEMMA CopyingIsCall ==
    ASSUME NEW op \in RequestMethod, NEW step \in RequestStep, NEW row \in RequestRow
    PROVE  /\ Copying(op, step, row) \in RequestCall
           /\ Copying(op, step, row).op = op
           /\ Copying(op, step, row).row = row
           /\ Copying(op, step, row).tasks = {}
BY NewRequestIsRow, RequestAssumption DEF Copying, RequestCall, NoWork

\* A method that only remembers the status keeps nothing to agree with.
LEMMA EnteringHolds ==
    ASSUME SavesInv, NEW op \in RequestMethod \ SavingMethod, NEW step \in RequestStep
    PROVE  CallHolds(Entering(op, step))
<1> DEFINE row == [NewRequest EXCEPT !.status = request.status]
<1>1. row \in RequestRow /\ row.life = "live"
  BY NewRequestIsRow DEF SavesInv, RequestTypeOK, NewRequest, RequestRow
<1>2. op \in RequestMethod
  OBVIOUS
<1> DEFINE c == Copying(op, step, row)
<1>3. c \in RequestCall /\ c.op = op /\ c.row = row
  BY <1>1, <1>2, CopyingIsCall
<1>4. StatusOfMethod(c)
  BY <1>3 DEF StatusOfMethod, SavingMethod
<1>5. c.row.life = "live" /\ c.op \notin SavingMethod
  BY <1>1, <1>3
<1> HIDE DEF c
<1>6. CallHolds(c)
  BY <1>3, <1>4, <1>5 DEF CallHolds
<1> QED
  BY <1>6 DEF Entering, c

\* A method that saves has changed its own columns of the copy.
LEMMA CopyHolds ==
    ASSUME SavesInv, Found, NEW c \in RequestCall, c.op \in SavingMethod,
           c.row.life = "live", StatusOfMethod(c), c.tasks = {},
           \A k \in Column \ OwnColumns(c) : c.row[k] = request[k],
           \A a \in Additions \ {c.on} : c.row.info[a] = request.info[a],
           c.op = "update" => c.work = work,
           c.op = "update" /\ c.who = "owner" => AtWork = {},
           c.op = "cancel" => request.status # "COMPLETED"
    PROVE  CallHolds(c)
BY DEF CallHolds, Agrees

LEMMA BeginKeeps ==
    ASSUME SavesInv, NEW h \in Handlers, NEW c, BeginRequestCall(h, c),
           request.life # "absent", CallHolds(c)
    PROVE  SavesInv'
BY QuietStep DEF BeginRequestCall, Begin, requestVars, SavesInv, RequestTypeOK

\* A change of the status alone.
LEMMA StatusCopy ==
    ASSUME SavesInv, Found, NEW status \in RequestStatus,
           NEW op \in SavingMethod
    PROVE  LET row == [request EXCEPT !.status = status]
           IN  /\ row \in RequestRow
               /\ row.life = "live" /\ row.status = status
               /\ row.cancelledAt = request.cancelledAt
               /\ row.info = request.info
BY DEF SavesInv, RequestTypeOK, RequestRow, Found

LEMMA CreateKeeps ==
    ASSUME SavesInv, NEW h \in Handlers, create(h)
    PROVE  SavesInv'
<1>1. PICK c : c = Entering("create", "first task")
  OBVIOUS
<1>2. CallHolds(c) /\ c.op = "create"
  BY <1>1, EnteringHolds, CopyingIsCall, NewRequestIsRow
     DEF RequestMethod, SavingMethod, RequestStep, Entering, Copying
<1>3. call' = [g \in Handlers |-> IF g = h THEN c ELSE call[g]]
  BY <1>1 DEF create, Begin, SavesInv
<1>4. \A g \in Handlers : InFlight(g)' => call'[g] = c
  BY <1>3 DEF InFlight, create, SavesInv
<1>5. RequestTypeOK'
  <2>1. \A g \in Handlers : call'[g] \in RequestCall \cup {Idle}
    BY <1>2, <1>3 DEF SavesInv, RequestTypeOK, CallHolds
  <2> QED
    BY <2>1, NewRequestIsRow DEF create, SavesInv, RequestTypeOK
<1>6. \A g \in Handlers : InFlight(g)' => CallHolds(call[g])'
  BY <1>2, <1>4 DEF CallHolds, SavingMethod, StatusOfMethod
<1>7. request'.life # "absent"
  BY DEF create, NewRequest
<1>8. (call = [g \in Handlers |-> call[g]])'
  BY <1>3
<1> QED
  BY <1>5, <1>6, <1>7, <1>8 DEF SavesInv

\* An edit of the row.
LEMMA UpdateKeeps ==
    ASSUME SavesInv, NEW h \in Handlers, NEW who \in Caller, update(h, who)
    PROVE  SavesInv'
<1>1. PICK status \in EditStatuses \cup {request.status} :
          BeginRequestCall(h, [Copying("update", "diff",
                                       [request EXCEPT !.status = status])
                              EXCEPT !.who = who, !.work = work])
  BY DEF update
<1>2. status \in RequestStatus
  BY RequestAssumption DEF SavesInv, RequestTypeOK, RequestRow
<1>3. PICK row : row = [request EXCEPT !.status = status]
  OBVIOUS
<1>4. PICK c : c = [Copying("update", "diff", row) EXCEPT !.who = who, !.work = work]
  OBVIOUS
<1>5. /\ row \in RequestRow /\ row.life = "live"
      /\ row.cancelledAt = request.cancelledAt /\ row.info = request.info
      /\ Found /\ MayUpdate(who)
  BY <1>2, <1>3, StatusCopy DEF update, SavingMethod
<1>6. who \in {"owner", "admin"}
  BY <1>5 DEF MayUpdate
<1>7. /\ c \in RequestCall /\ c.op = "update" /\ c.row = row
      /\ c.tasks = {} /\ c.work = work /\ c.who = who
  <2>1. Copying("update", "diff", row) \in RequestCall
    BY <1>5, CopyingIsCall DEF RequestMethod, SavingMethod, RequestStep
  <2> QED
    BY <1>4, <1>6, <2>1 DEF SavesInv, RequestTypeOK, RequestCall, Copying
<1>8. CallHolds(c)
  <2>1. OwnColumns(c) = {"status"}
    BY <1>7 DEF OwnColumns
  <2>2. \A k \in Column \ OwnColumns(c) : c.row[k] = request[k]
    BY <1>5, <1>7, <2>1 DEF Column, Found
  <2>3. c.op \in SavingMethod /\ StatusOfMethod(c)
    BY <1>7 DEF SavingMethod, StatusOfMethod
  <2>4. c.who = "owner" => AtWork = {}
    BY <1>5, <1>7 DEF MayUpdate
  <2> QED
    BY <1>5, <1>7, <2>2, <2>3, <2>4, CopyHolds
<1> QED
  BY <1>1, <1>3, <1>4, <1>5, <1>8, BeginKeeps DEF Found

InfoMethod == {"addInfo", "updateAdditionalInfo", "removeAdditionalInfo"}

\* The copy of a method that edits the additions.
LEMMA InfoCopyHolds ==
    ASSUME SavesInv, Found, NEW a \in Additions, NEW v \in 0..2,
           NEW op \in InfoMethod,
           NEW c, c = [Copying(op, "diff", [request EXCEPT !.info[a] = v])
                       EXCEPT !.on = a]
    PROVE  CallHolds(c)
<1>1. PICK row : row = [request EXCEPT !.info[a] = v]
  OBVIOUS
<1>2. /\ row \in RequestRow /\ row.life = "live"
      /\ row.status = request.status /\ row.cancelledAt = request.cancelledAt
      /\ \A b \in Additions \ {a} : row.info[b] = request.info[b]
  BY <1>1 DEF SavesInv, RequestTypeOK, RequestRow, Found
<1>3. /\ c \in RequestCall /\ c.op = op /\ c.row = row
      /\ c.tasks = {} /\ c.on = a
  <2>1. op \in RequestMethod /\ "diff" \in RequestStep
    BY DEF InfoMethod, RequestMethod, SavingMethod, RequestStep
  <2>2. Copying(op, "diff", row) \in RequestCall
    BY <1>2, <2>1, CopyingIsCall
  <2> QED
    BY <1>1, <2>2 DEF RequestCall, Copying
<1>4. OwnColumns(c) = {"info"}
  BY <1>3 DEF OwnColumns, InfoMethod
<1>5. \A k \in Column \ OwnColumns(c) : c.row[k] = request[k]
  BY <1>2, <1>3, <1>4 DEF Column, Found
<1>6. /\ c.op \in SavingMethod /\ StatusOfMethod(c)
      /\ c.op # "update" /\ c.op # "cancel"
  BY <1>3 DEF SavingMethod, StatusOfMethod, InfoMethod
<1> QED
  BY <1>2, <1>3, <1>5, <1>6, CopyHolds

LEMMA InfoKeeps ==
    ASSUME SavesInv, NEW h \in Handlers, NEW who \in Caller, NEW a \in Additions,
           \/ addInfo(h, who, a)
           \/ updateAdditionalInfo(h, who, a)
           \/ removeAdditionalInfo(h, who, a)
    PROVE  SavesInv'
<1>1. CASE addInfo(h, who, a)
  <2>1. PICK c : c = [Copying("addInfo", "diff", [request EXCEPT !.info[a] = 1])
                      EXCEPT !.on = a]
    OBVIOUS
  <2>2. CallHolds(c)
    <3>1. 1 \in 0..2 /\ "addInfo" \in InfoMethod /\ Found
      BY <1>1 DEF InfoMethod, addInfo
    <3> QED
      BY <2>1, <3>1, InfoCopyHolds
  <2>3. made' \in [Additions -> 0..MaxClock] /\ clock' \in 1..MaxClock
    BY <1>1, RequestAssumption DEF addInfo, SavesInv, RequestTypeOK
  <2> QED
    BY <1>1, <2>1, <2>2, <2>3, QuietStep DEF addInfo, Begin, Found
<1>2. CASE updateAdditionalInfo(h, who, a)
  <2>1. PICK c : c = [Copying("updateAdditionalInfo", "diff",
                              [request EXCEPT !.info[a] = 2]) EXCEPT !.on = a]
    OBVIOUS
  <2>2. Found /\ CallHolds(c)
    <3>1. 2 \in 0..2 /\ "updateAdditionalInfo" \in InfoMethod /\ Found
      BY <1>2 DEF InfoMethod, updateAdditionalInfo, MayChangeInfo
    <3> QED
      BY <2>1, <3>1, InfoCopyHolds
  <2> QED
    BY <1>2, <2>1, <2>2, BeginKeeps DEF updateAdditionalInfo, Found
<1>3. CASE removeAdditionalInfo(h, who, a)
  <2>1. PICK c : c = [Copying("removeAdditionalInfo", "diff",
                              [request EXCEPT !.info[a] = 0]) EXCEPT !.on = a]
    OBVIOUS
  <2>2. Found /\ CallHolds(c)
    <3>1. 0 \in 0..2 /\ "removeAdditionalInfo" \in InfoMethod /\ Found
      BY <1>3 DEF InfoMethod, removeAdditionalInfo, MayChangeInfo
    <3> QED
      BY <2>1, <3>1, InfoCopyHolds
  <2> QED
    BY <1>3, <2>1, <2>2, BeginKeeps DEF removeAdditionalInfo, Found
<1> QED
  BY <1>1, <1>2, <1>3

\* The copy of a method that sets the status, and perhaps the cancellation.
LEMMA StatusCopyHolds ==
    ASSUME SavesInv, Found,
           NEW op \in {"markAsPendingReview", "confirmCompletion", "cancel",
                      "returnToProgress"},
           NEW row \in RequestRow, row.life = "live", row.info = request.info,
           op \notin {"cancel", "returnToProgress"} =>
               row.cancelledAt = request.cancelledAt,
           op = "markAsPendingReview" => row.status = "PENDING_REVIEW",
           op = "confirmCompletion" => row.status = "COMPLETED",
           op = "returnToProgress" => row.status = "IN_PROGRESS",
           op = "cancel" => request.status # "COMPLETED",
           NEW c, c = Copying(op, "diff", row)
    PROVE  CallHolds(c)
<1>1. /\ c \in RequestCall /\ c.op = op /\ c.row = row /\ c.tasks = {}
  <2>1. op \in RequestMethod /\ "diff" \in RequestStep
    BY DEF RequestMethod, SavingMethod, RequestStep
  <2> QED
    BY <2>1, CopyingIsCall
<1>2. OwnColumns(c) = IF op \in {"cancel", "returnToProgress"}
                      THEN {"status", "cancelledAt"} ELSE {"status"}
  BY <1>1 DEF OwnColumns
<1>3. \A k \in Column \ OwnColumns(c) : c.row[k] = request[k]
  BY <1>1, <1>2 DEF Column, Found
<1>4. c.op \in SavingMethod /\ StatusOfMethod(c) /\ c.op # "update"
  BY <1>1 DEF SavingMethod, StatusOfMethod
<1> QED
  BY <1>1, <1>3, <1>4, CopyHolds

LEMMA StatusKeeps ==
    ASSUME SavesInv, NEW h \in Handlers, NEW who \in Caller,
           \/ markAsPendingReview(h, who) \/ confirmCompletion(h, who)
           \/ cancel(h, who) \/ returnToProgress(h, who)
    PROVE  SavesInv'
<1> USE DEF SavesInv, RequestTypeOK
<1>1. CASE markAsPendingReview(h, who)
  <2>1. PICK row : row = [request EXCEPT !.status = "PENDING_REVIEW"]
    OBVIOUS
  <2>2. /\ Found /\ row \in RequestRow /\ row.life = "live" /\ row.info = request.info
        /\ row.cancelledAt = request.cancelledAt /\ row.status = "PENDING_REVIEW"
    BY <1>1, <2>1 DEF RequestRow, RequestStatus, Found, markAsPendingReview
  <2>3. PICK c : c = Copying("markAsPendingReview", "diff", row)
    OBVIOUS
  <2>4. CallHolds(c)
    BY <2>2, <2>3, StatusCopyHolds
  <2> QED
    BY <1>1, <2>1, <2>2, <2>3, <2>4, BeginKeeps DEF markAsPendingReview, Found
<1>2. CASE confirmCompletion(h, who)
  <2>1. PICK row : row = [request EXCEPT !.status = "COMPLETED"]
    OBVIOUS
  <2>2. /\ Found /\ row \in RequestRow /\ row.life = "live" /\ row.info = request.info
        /\ row.cancelledAt = request.cancelledAt /\ row.status = "COMPLETED"
    BY <1>2, <2>1 DEF RequestRow, RequestStatus, Found, confirmCompletion
  <2>3. PICK c : c = Copying("confirmCompletion", "diff", row)
    OBVIOUS
  <2>4. CallHolds(c)
    BY <2>2, <2>3, StatusCopyHolds
  <2> QED
    BY <1>2, <2>1, <2>2, <2>3, <2>4, BeginKeeps DEF confirmCompletion, Found
<1>3. CASE cancel(h, who)
  <2>1. PICK row : row = [request EXCEPT !.status = "CANCELLED", !.cancelledAt = clock]
    OBVIOUS
  <2>2. /\ Found /\ row \in RequestRow /\ row.life = "live" /\ row.info = request.info
        /\ request.status # "COMPLETED"
    <3>1. Found /\ request.status # "COMPLETED" /\ clock \in 0..MaxClock
      BY <1>3, RequestAssumption DEF cancel, MayCancel
    <3> QED
      BY <2>1, <3>1 DEF RequestRow, RequestStatus, Found
  <2>3. PICK c : c = Copying("cancel", "diff", row)
    OBVIOUS
  <2>4. CallHolds(c)
    BY <2>2, <2>3, StatusCopyHolds
  <2> QED
    BY <1>3, <2>1, <2>2, <2>3, <2>4, BeginKeeps DEF cancel, Found
<1>4. CASE returnToProgress(h, who)
  <2>1. PICK row : row = Resumed
    OBVIOUS
  <2>2. /\ Found /\ row \in RequestRow /\ row.life = "live" /\ row.info = request.info
        /\ row.status = "IN_PROGRESS"
    <3>1. PICK at \in 0..MaxClock :
              at = IF request.status = "CANCELLED" THEN 0 ELSE request.cancelledAt
      BY RequestAssumption DEF RequestRow
    <3>2. row = [request EXCEPT !.status = "IN_PROGRESS", !.cancelledAt = at]
      BY <2>1, <3>1 DEF Resumed, RequestRow
    <3>3. Found
      BY <1>4 DEF returnToProgress
    <3> QED
      BY <3>2, <3>3 DEF RequestRow, RequestStatus, Found
  <2>3. PICK c : c = Copying("returnToProgress", "diff", row)
    OBVIOUS
  <2>4. CallHolds(c)
    BY <2>2, <2>3, StatusCopyHolds
  <2> QED
    BY <1>4, <2>1, <2>2, <2>3, <2>4, BeginKeeps DEF returnToProgress, Found
<1> QED
  BY <1>1, <1>2, <1>3, <1>4

\* The methods that need no more than the status.
LEMMA EnteringKeeps ==
    ASSUME SavesInv, NEW h \in Handlers,
           \/ \E who \in Caller : remove(h, who)
           \/ \E t \in Tasks : assignVolunteer(h, t)
           \/ checkRequestCompletion(h)
    PROVE  SavesInv'
<1>1. CASE \E who \in Caller : remove(h, who)
  <2>1. PICK c : c = Entering("remove", "soft delete")
    OBVIOUS
  <2>2. CallHolds(c)
    BY <2>1, EnteringHolds DEF RequestMethod, SavingMethod, RequestStep
  <2> QED
    BY <1>1, <2>1, <2>2, BeginKeeps DEF remove, Found
<1>2. CASE checkRequestCompletion(h)
  <2>1. PICK c : c = Entering("checkRequestCompletion", "complete")
    OBVIOUS
  <2>2. CallHolds(c)
    BY <2>1, EnteringHolds DEF RequestMethod, SavingMethod, RequestStep
  <2> QED
    BY <1>2, <2>1, <2>2, BeginKeeps DEF checkRequestCompletion
<1>3. CASE \E t \in Tasks : assignVolunteer(h, t)
  <2>1. PICK t \in Tasks : assignVolunteer(h, t)
    BY <1>3
  <2>2. PICK e : e = Entering("assignVolunteer", "commit")
    OBVIOUS
  <2>3. CallHolds(e) /\ e.op = "assignVolunteer"
    BY <2>2, EnteringHolds, CopyingIsCall, NewRequestIsRow
       DEF RequestMethod, SavingMethod, RequestStep, Entering, Copying
  <2>4. PICK c : c = [e EXCEPT !.on = t]
    OBVIOUS
  <2>5. c \in RequestCall /\ c.op = "assignVolunteer" /\ c.row = e.row
    BY <2>3, <2>4 DEF CallHolds, RequestCall
  <2>6. CallHolds(c)
    BY <2>3, <2>5 DEF CallHolds, StatusOfMethod, SavingMethod
  <2> QED
    BY <2>1, <2>2, <2>4, <2>6, BeginKeeps DEF assignVolunteer, Found
<1> QED
  BY <1>1, <1>2, <1>3

-----------------------------------------------------------------------------
(* The later steps. *)

\* What save() finds to write of a call that is still alone is no task.
LEMMA DiffKeeps ==
    ASSUME SavesInv, NEW h \in Handlers, DiffRequest(h)
    PROVE  SavesInv'
<1>1. PICK c : c = call[h]
  OBVIOUS
<1>2. CallHolds(c) /\ c.op \in SavingMethod /\ request.life # "absent"
  BY <1>1 DEF DiffRequest, At, SavesInv
<1>2a. PICK cols \in SUBSET Column, tasks \in SUBSET Tasks : \E d :
          /\ call' = [call EXCEPT ![h] = d]
          /\ d = Idle \/ d = [c EXCEPT !.step = "write", !.cols = cols, !.tasks = tasks]
          /\ tasks = IF c.op = "update" THEN {t \in Tasks : c.work[t] # work[t]} ELSE {}
  <2>1. PICK cols : cols = {k \in Column : c.row[k] # request[k]}
                              \cup (IF c.op = "cancel" THEN {"cancelledAt"} ELSE {})
    OBVIOUS
  <2>2. PICK tasks : tasks = IF c.op = "update"
                             THEN {t \in Tasks : c.work[t] # work[t]} ELSE {}
    OBVIOUS
  <2>3. cols \in SUBSET Column /\ tasks \in SUBSET Tasks
    BY <2>1, <2>2 DEF Column
  <2>4. PICK d : d = IF {t \in tasks : \/ c.work[t] = "no task"
                                      \/ c.work[t] = "unassigned"} # {}
                        \/ (cols = {} /\ tasks = {})
                     THEN Idle
                     ELSE [c EXCEPT !.step = "write", !.cols = cols, !.tasks = tasks]
    OBVIOUS
  <2>5. call' = [call EXCEPT ![h] = d]
    BY <1>1, <2>1, <2>2, <2>4 DEF DiffRequest, Becomes
  <2> QED
    BY <2>2, <2>3, <2>4, <2>5
<1>3. PICK d :
          /\ call' = [call EXCEPT ![h] = d]
          /\ d = Idle \/ d = [c EXCEPT !.step = "write", !.cols = cols, !.tasks = tasks]
          /\ tasks = IF c.op = "update" THEN {t \in Tasks : c.work[t] # work[t]} ELSE {}
  BY <1>2a
<1>4. c \in RequestCall
  BY <1>2 DEF CallHolds
<1>5. ASSUME d # Idle PROVE CallHolds(d)
  <2>1. /\ d \in RequestCall /\ d.op = c.op /\ d.row = c.row /\ d.alone = c.alone
        /\ d.tasks = tasks /\ d.work = c.work /\ d.who = c.who /\ d.on = c.on
    BY <1>3, <1>4, <1>5 DEF RequestCall, RequestStep
  <2>2. OwnColumns(d) = OwnColumns(c)
    BY <2>1 DEF OwnColumns
  <2>3. ASSUME c.alone PROVE Agrees(d)
    <3>1. Agrees(c)
      BY <1>2, <2>3 DEF CallHolds
    <3>2. tasks = {}
      BY <1>3, <3>1 DEF Agrees
    <3> QED
      BY <2>1, <2>2, <3>1, <3>2 DEF Agrees
  <2> QED
    BY <1>2, <2>1, <2>3 DEF CallHolds, StatusOfMethod
<1> QED
  BY <1>2, <1>3, <1>5, QuietStep DEF DiffRequest, requestVars, SavesInv, RequestTypeOK

LEMMA FailKeeps ==
    ASSUME SavesInv, NEW h \in Handlers, FailRequestCall(h)
    PROVE  SavesInv'
BY QuietStep DEF FailRequestCall, Becomes, requestVars, SavesInv, RequestTypeOK

\* What a step of a handler that writes does to the calls.
LEMMA WrittenCalls ==
    ASSUME NEW h \in Handlers, WritesAndBecomes(h, Idle)
    PROVE  /\ call' = [g \in Handlers |-> call'[g]]
           /\ \A g \in Handlers : call'[g] \in {Idle, Disturbed(g)}
BY DEF WritesAndBecomes

LEMMA WriteKeeps ==
    ASSUME SavesInv, NEW h \in Handlers, WriteRequest(h)
    PROVE  SavesInv'
<1>1. PICK c : c = call[h]
  OBVIOUS
<1>2. /\ c \in RequestCall /\ c.row \in RequestRow /\ c.row.life = "live"
      /\ c.work \in [Tasks -> TaskWork] /\ request.life # "absent"
      /\ request \in RequestRow /\ work \in [Tasks -> TaskWork]
  BY <1>1 DEF WriteRequest, At, SavesInv, CallHolds, RequestCall, RequestTypeOK
<1>3. request' \in RequestRow
  BY <1>1, <1>2 DEF WriteRequest, RequestRow, Column
<1>4. work' \in [Tasks -> TaskWork]
  BY <1>1, <1>2 DEF WriteRequest
<1>5. request'.life # "absent"
  BY <1>1, <1>2 DEF WriteRequest, Column
<1> QED
  BY <1>3, <1>4, <1>5, WrittenCalls, WritingStep
     DEF WriteRequest, SavesInv, RequestTypeOK

LEMMA OtherWritesKeep ==
    ASSUME SavesInv, NEW h \in Handlers,
           \/ CreateFirstTask(h) \/ SoftDeleteRequest(h)
           \/ CommitVolunteer(h) \/ CompleteFromBoard(h)
    PROVE  SavesInv'
<1>1. /\ request \in RequestRow /\ work \in [Tasks -> TaskWork]
      /\ made' \in [Additions -> 0..MaxClock] /\ clock' \in 1..MaxClock
      /\ request.life # "absent"
  BY DEF CreateFirstTask, SoftDeleteRequest, CommitVolunteer, CompleteFromBoard,
         At, SavesInv, RequestTypeOK
<1>2. /\ call' = [g \in Handlers |-> call'[g]]
      /\ \A g \in Handlers : call'[g] \in {Idle, Disturbed(g)}
  BY WrittenCalls DEF CreateFirstTask, SoftDeleteRequest, CommitVolunteer,
                      CompleteFromBoard
<1>3. work' \in [Tasks -> TaskWork]
  BY <1>1 DEF CreateFirstTask, SoftDeleteRequest, CommitVolunteer, CompleteFromBoard,
              TaskWork
<1>4. request' \in RequestRow /\ request'.life # "absent"
  <2>1. CASE CreateFirstTask(h)
    BY <1>1, <2>1 DEF CreateFirstTask
  <2>2. CASE SoftDeleteRequest(h)
    BY <1>1, <2>2 DEF SoftDeleteRequest, RequestRow
  <2>3. CASE CommitVolunteer(h)
    BY <1>1, <2>3 DEF CommitVolunteer, RequestRow, RequestStatus
  <2>4. CASE CompleteFromBoard(h)
    BY <1>1, <2>4 DEF CompleteFromBoard, RequestRow, RequestStatus
  <2> QED
    BY <2>1, <2>2, <2>3, <2>4
<1> QED
  BY <1>1, <1>2, <1>3, <1>4, WritingStep

LEMMA BoardStatementsKeep ==
    ASSUME SavesInv, NEW t \in Tasks, createTask(t) \/ leaveTask(t)
    PROVE  SavesInv'
<1>1. /\ call' = [g \in Handlers |-> call'[g]]
      /\ \A g \in Handlers : call'[g] \in {Idle, Disturbed(g)}
  BY DEF createTask, leaveTask, Disturbs
<1>2. work' \in [Tasks -> TaskWork]
  BY DEF createTask, leaveTask, TaskWork, SavesInv, RequestTypeOK
<1> QED
  BY <1>1, <1>2, WritingStep DEF createTask, leaveTask, SavesInv, RequestTypeOK

\* Only the clock moves, if anything does.
LEMMA ClockKeeps ==
    ASSUME SavesInv, UNCHANGED <<request, work, made, call>>, clock' \in 1..MaxClock
    PROVE  SavesInv'
<1>1. RequestTypeOK' /\ (call = [g \in Handlers |-> call[g]])'
  BY DEF SavesInv, RequestTypeOK
<1>2. \A g \in Handlers :
          (InFlight(g) => request.life # "absent" /\ CallHolds(call[g]))'
  BY DEF SavesInv, InFlight, CallHolds, Agrees, AtWork
<1> QED
  BY <1>1, <1>2 DEF SavesInv

LEMMA SavesInvNext ==
    ASSUME SavesInv, [RequestNext]_<<requestVars, flight>>
    PROVE  SavesInv'
<1>1. CASE \E h \in Handlers :
              \/ create(h) \/ CreateFirstTask(h)
              \/ checkRequestCompletion(h) \/ CompleteFromBoard(h)
              \/ CommitVolunteer(h) \/ SoftDeleteRequest(h)
              \/ DiffRequest(h) \/ WriteRequest(h) \/ FailRequestCall(h)
  BY <1>1, CreateKeeps, EnteringKeeps, OtherWritesKeep, DiffKeeps, WriteKeeps, FailKeeps
<1>2. CASE \E h \in Handlers, who \in Caller :
              \/ update(h, who) \/ remove(h, who) \/ markAsPendingReview(h, who)
              \/ cancel(h, who) \/ confirmCompletion(h, who) \/ returnToProgress(h, who)
  BY <1>2, UpdateKeeps, EnteringKeeps, StatusKeeps
<1>3. CASE \E h \in Handlers, who \in Caller, a \in Additions :
              \/ addInfo(h, who, a) \/ updateAdditionalInfo(h, who, a)
              \/ removeAdditionalInfo(h, who, a)
  BY <1>3, InfoKeeps
<1>4. CASE \E h \in Handlers, t \in Tasks : assignVolunteer(h, t)
  BY <1>4, EnteringKeeps
<1>5. CASE \E t \in Tasks : createTask(t) \/ leaveTask(t)
  BY <1>5, BoardStatementsKeep
<1>6. CASE HalfAnHourPasses
  BY <1>6, ClockKeeps, RequestAssumption
     DEF HalfAnHourPasses, flight, SavesInv, RequestTypeOK
<1>7. CASE UNCHANGED <<requestVars, flight>>
  BY <1>7, ClockKeeps DEF requestVars, flight, SavesInv, RequestTypeOK
<1> QED
  BY <1>1, <1>2, <1>3, <1>4, <1>5, <1>6, <1>7 DEF RequestNext

-----------------------------------------------------------------------------
(* The properties. *)

LEMMA DisturbedIsInFlight ==
    ASSUME SavesInv, NEW h \in Handlers, InFlight(h)
    PROVE  Disturbed(h) # Idle
<1>1. call[h] \in RequestCall
  BY DEF SavesInv, CallHolds
<1>2. [call[h] EXCEPT !.alone = FALSE] \in RequestCall
  BY <1>1 DEF RequestCall
<1> QED
  BY <1>2, IdleIsNoCall DEF Disturbed

\* A step of another handler does not end h.
LEMMA OthersGoOn ==
    ASSUME SavesInv, NEW h \in Handlers, InFlight(h), NEW g \in Handlers, NEW c,
           \/ Begin(g, c)
           \/ g # h /\ (Becomes(g, c) \/ WritesAndBecomes(g, c))
    PROVE  InFlight(h)'
<1>1. CASE Begin(g, c)
  BY <1>1 DEF Begin, InFlight, SavesInv
<1>2. CASE g # h /\ Becomes(g, c)
  BY <1>2 DEF Becomes, InFlight, SavesInv
<1>3. CASE g # h /\ WritesAndBecomes(g, c)
  BY <1>3, DisturbedIsInFlight DEF WritesAndBecomes, InFlight
<1> QED
  BY <1>1, <1>2, <1>3

\* A call that is about to write ends with the write or with a failure.
LEMMA WhoEnds ==
    ASSUME SavesInv, RequestNext, NEW h \in Handlers, Saves(h)
    PROVE  WriteRequest(h) \/ FailRequestCall(h)
<1>1. InFlight(h) /\ call[h].step = "write" /\ ~InFlight(h)'
  BY DEF Saves, At
<1>2. ASSUME NEW g \in Handlers,
             \/ create(g) \/ CreateFirstTask(g)
             \/ checkRequestCompletion(g) \/ CompleteFromBoard(g)
             \/ CommitVolunteer(g) \/ SoftDeleteRequest(g)
             \/ DiffRequest(g) \/ WriteRequest(g) \/ FailRequestCall(g)
      PROVE  WriteRequest(h) \/ FailRequestCall(h)
  <2>1. CASE create(g) \/ checkRequestCompletion(g)
    BY <1>1, <2>1, OthersGoOn DEF create, checkRequestCompletion, BeginRequestCall
  <2>2. CASE CreateFirstTask(g) \/ CompleteFromBoard(g)
    BY <1>1, <2>2, OthersGoOn DEF CreateFirstTask, CompleteFromBoard, At
  <2>3. CASE CommitVolunteer(g) \/ SoftDeleteRequest(g)
    BY <1>1, <2>3, OthersGoOn DEF CommitVolunteer, SoftDeleteRequest, At
  <2>4. CASE DiffRequest(g)
    BY <1>1, <2>4, OthersGoOn DEF DiffRequest, At
  <2>5. CASE WriteRequest(g) \/ FailRequestCall(g)
    BY <1>1, <2>5, OthersGoOn DEF WriteRequest, FailRequestCall
  <2> QED
    BY <1>2, <2>1, <2>2, <2>3, <2>4, <2>5
<1>3. ASSUME NEW g \in Handlers, NEW who \in Caller,
             \/ update(g, who) \/ remove(g, who) \/ markAsPendingReview(g, who)
             \/ cancel(g, who) \/ confirmCompletion(g, who)
             \/ returnToProgress(g, who)
      PROVE  FALSE
  BY <1>1, <1>3, OthersGoOn
     DEF update, remove, markAsPendingReview, cancel, confirmCompletion,
         returnToProgress, BeginRequestCall
<1>4. ASSUME NEW g \in Handlers, NEW who \in Caller, NEW a \in Additions,
             \/ addInfo(g, who, a) \/ updateAdditionalInfo(g, who, a)
             \/ removeAdditionalInfo(g, who, a)
      PROVE  FALSE
  BY <1>1, <1>4, OthersGoOn
     DEF addInfo, updateAdditionalInfo, removeAdditionalInfo, BeginRequestCall
<1>5. ASSUME NEW g \in Handlers, NEW t \in Tasks, assignVolunteer(g, t)
      PROVE  FALSE
  BY <1>1, <1>5, OthersGoOn DEF assignVolunteer, BeginRequestCall
<1>6. ASSUME NEW t \in Tasks, createTask(t) \/ leaveTask(t)
      PROVE  FALSE
  <2>1. call'[h] = Disturbed(h)
    BY <1>6 DEF createTask, leaveTask, Disturbs
  <2> QED
    BY <1>1, <2>1, DisturbedIsInFlight DEF InFlight
<1>7. ~HalfAnHourPasses
  BY <1>1 DEF HalfAnHourPasses, flight, InFlight
<1> QED
  BY <1>2, <1>3, <1>4, <1>5, <1>6, <1>7 DEF RequestNext

\* A write of a call that is alone.
LEMMA AloneWrites ==
    ASSUME SavesInv, NEW h \in Handlers, WriteRequest(h), call[h].alone
    PROVE  /\ \A k \in Column \ OwnColumns(call[h]) : request'[k] = request[k]
           /\ work' = work
           /\ \A a \in Additions \ {call[h].on} : request'.info[a] = request.info[a]
<1>1. PICK c : c = call[h]
  OBVIOUS
<1>2. Agrees(c)
  BY <1>1 DEF WriteRequest, At, SavesInv, CallHolds
<1>3. request' = [k \in Column |-> IF k \in c.cols THEN c.row[k] ELSE request[k]]
  BY <1>1 DEF WriteRequest
<1>4. \A k \in Column \ OwnColumns(c) : request'[k] = request[k]
  BY <1>2, <1>3 DEF Agrees
<1>5. work' = work
  <2>1. work' = [t \in Tasks |-> work[t]]
    BY <1>1, <1>2 DEF WriteRequest, Agrees
  <2> QED
    BY <2>1 DEF SavesInv, RequestTypeOK
<1>6. \A a \in Additions \ {c.on} : request'.info[a] = request.info[a]
  BY <1>2, <1>3 DEF Agrees, Column
<1> QED
  BY <1>1, <1>4, <1>5, <1>6

\* A call that is alone and no edit does not turn COMPLETED into CANCELLED.
LEMMA CompletedStays ==
    ASSUME SavesInv, RequestNext,
           request.status = "COMPLETED", request'.status = "CANCELLED"
    PROVE  \E h \in Handlers : Saves(h) /\ (call[h].op = "update" \/ ~call[h].alone)
<1>1. PICK h \in Handlers : WriteRequest(h)
  <2>1. request \in RequestRow /\ request' # request
    BY DEF SavesInv, RequestTypeOK
  <2>2. ASSUME NEW h \in Handlers, create(h) \/ CommitVolunteer(h)
                                    \/ CompleteFromBoard(h) \/ SoftDeleteRequest(h)
        PROVE  FALSE
    <3>1. CASE create(h)
      BY <3>1 DEF create, NewRequest
    <3>2. CASE CommitVolunteer(h)
      <4>1. request'.status \in {"IN_PROGRESS", request.status}
        BY <2>1, <3>2 DEF CommitVolunteer, RequestRow
      <4> QED
        BY <4>1
    <3>3. CASE CompleteFromBoard(h)
      BY <2>1, <3>3 DEF CompleteFromBoard, RequestRow
    <3>4. CASE SoftDeleteRequest(h)
      BY <2>1, <3>4 DEF SoftDeleteRequest, RequestRow
    <3> QED
      BY <2>2, <3>1, <3>2, <3>3, <3>4
  <2>3. ASSUME NEW h \in Handlers, CreateFirstTask(h) \/ checkRequestCompletion(h)
                                    \/ DiffRequest(h) \/ FailRequestCall(h)
        PROVE  FALSE
    BY <2>1, <2>3 DEF CreateFirstTask, checkRequestCompletion, DiffRequest,
                      FailRequestCall, BeginRequestCall, requestVars
  <2>4. ASSUME NEW h \in Handlers, NEW who \in Caller,
               \/ update(h, who) \/ remove(h, who) \/ markAsPendingReview(h, who)
               \/ cancel(h, who) \/ confirmCompletion(h, who)
               \/ returnToProgress(h, who)
        PROVE  FALSE
    BY <2>1, <2>4 DEF update, remove, markAsPendingReview, cancel,
                      confirmCompletion, returnToProgress, BeginRequestCall, requestVars
  <2>5. ASSUME NEW h \in Handlers, NEW who \in Caller, NEW a \in Additions,
               \/ addInfo(h, who, a) \/ updateAdditionalInfo(h, who, a)
               \/ removeAdditionalInfo(h, who, a)
        PROVE  FALSE
    BY <2>1, <2>5 DEF addInfo, updateAdditionalInfo, removeAdditionalInfo,
                      BeginRequestCall, requestVars
  <2>6. ASSUME NEW t \in Tasks,
               createTask(t) \/ leaveTask(t)
               \/ \E h \in Handlers : assignVolunteer(h, t)
        PROVE  FALSE
    BY <2>1, <2>6 DEF createTask, leaveTask, assignVolunteer, BeginRequestCall,
                      requestVars
  <2>7. ~HalfAnHourPasses
    BY <2>1 DEF HalfAnHourPasses
  <2> QED
    BY <2>2, <2>3, <2>4, <2>5, <2>6, <2>7 DEF RequestNext
<1>2. Saves(h)
  BY <1>1 DEF WriteRequest, Saves, WritesAndBecomes, InFlight
<1>3. ASSUME call[h].alone, call[h].op # "update" PROVE FALSE
  <2>1. PICK c : c = call[h]
    OBVIOUS
  <2>2. /\ Agrees(c) /\ StatusOfMethod(c) /\ c.op \in SavingMethod
    BY <1>1, <1>3, <2>1 DEF WriteRequest, At, SavesInv, CallHolds
  <2>3. c.row.status = "CANCELLED"
    BY <1>1, <2>1 DEF WriteRequest, Column
  <2>4. CASE "status" \in OwnColumns(c)
    BY <1>3, <2>1, <2>2, <2>3, <2>4
       DEF Agrees, StatusOfMethod, SavingMethod, OwnColumns
  <2>5. CASE "status" \notin OwnColumns(c)
    BY <2>2, <2>3, <2>5 DEF Agrees, Column
  <2> QED
    BY <2>4, <2>5
<1> QED
  BY <1>2, <1>3

\* The strengthening holds throughout.
THEOREM SavesInvHolds == RequestSpec => []SavesInv
<1>1. RequestInit => SavesInv
  BY SavesInvInit
<1>2. SavesInv /\ [RequestNext]_<<requestVars, flight>> => SavesInv'
  BY SavesInvNext
<1> QED
  BY <1>1, <1>2, PTL DEF RequestSpec

\* What the row, its tasks and the calls in flight can be.
THEOREM RequestTypes == RequestSpec => []RequestTypeOK
<1>1. SavesInv => RequestTypeOK
  BY DEF SavesInv
<1> QED
  BY <1>1, SavesInvHolds, PTL

\* A save that nobody got in the way of writes what its method is about.
THEOREM SavesWriteTheirOwn == RequestSpec => SavesOwnColumns
<1> DEFINE Own ==
      \A h \in Handlers : Saves(h) /\ call[h].alone =>
          /\ \A k \in Column \ OwnColumns(call[h]) : request'[k] = request[k]
          /\ work' = work
          /\ \A a \in Additions \ {call[h].on} : request'.info[a] = request.info[a]
<1>1. SavesInv /\ [RequestNext]_<<requestVars, flight>> => [Own]_requestVars
  <2> SUFFICES ASSUME SavesInv, RequestNext,
                      NEW h \in Handlers, Saves(h), call[h].alone
               PROVE  /\ \A k \in Column \ OwnColumns(call[h]) : request'[k] = request[k]
                      /\ work' = work
                      /\ \A a \in Additions \ {call[h].on} :
                             request'.info[a] = request.info[a]
    BY DEF requestVars, flight
  <2>1. CASE WriteRequest(h)
    BY <2>1, AloneWrites
  <2>2. CASE FailRequestCall(h)
    BY <2>2 DEF FailRequestCall, requestVars
  <2> QED
    BY <2>1, <2>2, WhoEnds
<1> QED
  BY <1>1, SavesInvHolds, PTL DEF RequestSpec, SavesOwnColumns

\* A completed request is cancelled by an edit or by a call that others overtook.
THEOREM CompletedKept == RequestSpec => CompletedIsNotCancelled
<1>1. SavesInv /\ [RequestNext]_<<requestVars, flight>> =>
        [request.status = "COMPLETED" /\ request'.status = "CANCELLED" =>
             \E h \in Handlers :
                 Saves(h) /\ (call[h].op = "update" \/ ~call[h].alone)]_requestVars
  BY CompletedStays DEF requestVars, flight
<1> QED
  BY <1>1, SavesInvHolds, PTL DEF RequestSpec, CompletedIsNotCancelled

\* An edit of the owner that nobody got in the way of meets no volunteer at work.
THEOREM OwnersEditBeforeWork == RequestSpec => OwnerEditsBeforeWork
<1>1. SavesInv => \A h \in Handlers :
          Saves(h) /\ call[h].op = "update" /\ call[h].who = "owner" =>
              AtWork = {} \/ ~call[h].alone
  BY DEF SavesInv, CallHolds, Agrees, Saves, At
<1> QED
  BY <1>1, SavesInvHolds, PTL DEF RequestSpec, OwnerEditsBeforeWork

=============================================================================
