------------------------------ MODULE Delegation ------------------------------
(***************************************************************************)
(* Handing the tasks of ONE request to other organisations: delegateTask,  *)
(* acceptDelegation, unacceptDelegation and declineDelegation of           *)
(* tasks.service.ts, the rows of "task_delegations" and the column         *)
(* managing_organization_id of the request, which RequestsService.update   *)
(* writes too.                                                             *)
(*                                                                         *)
(* Nothing here is locked: a handler reads, decides, and writes in later   *)
(* steps, with the steps of other handlers in between.  save() writes one  *)
(* column of a row that is never removed, so it is one step.               *)
(*                                                                         *)
(* Who may call what is decided by memberships that this module leaves     *)
(* out: a refused call changes nothing, so any organisation may call.      *)
(***************************************************************************)
EXTENDS Naturals, FiniteSets

CONSTANTS
    Tasks,      \* the tasks of the request
    Orgs,       \* the organisations tasks are delegated to
    NoOrg,      \* managing_organization_id IS NULL
    Handlers    \* how many calls can be in flight at once

ASSUME DelegationAssumption ==
    /\ NoOrg \notin Orgs
    /\ IsFiniteSet(Orgs) /\ IsFiniteSet(Handlers)

VARIABLES
    delegation,  \* is_accepted of each row: NULL is "waiting", no row is "none"
    managing,    \* managing_organization_id of the request
    deleted,     \* tasks with deleted_at set
    call         \* what each handler remembers between two steps

vars == <<delegation, managing, deleted, call>>

DelegationRow == {"none", "waiting", "accepted", "declined"}
Method == {"idle", "delegateTask", "acceptDelegation", "unacceptDelegation",
           "declineDelegation", "updateRequest"}
Step == {"none", "upsert", "look for another", "save", "manage", "save request"}

\* hasTask: the relation 'task' came with the row (a deleted task does not).
CallRecord == [op : Method, step : Step, on : Tasks, org : Orgs \cup {NoOrg},
               hasTask : BOOLEAN]
Idle == [op |-> "idle", step |-> "none"]

TypeOK ==
    /\ delegation \in [Tasks -> [Orgs -> DelegationRow]]
    /\ managing \in Orgs \cup {NoOrg}
    /\ deleted \subseteq Tasks
    /\ call \in [Handlers -> CallRecord \cup {Idle}]

Accepted(t) == {o \in Orgs : delegation[t][o] = "accepted"}

Begin(h, op, step, t, o) ==
    /\ call[h] = Idle
    /\ call' = [call EXCEPT ![h] = [op |-> op, step |-> step, on |-> t, org |-> o,
                                    hasTask |-> t \notin deleted]]
    /\ UNCHANGED <<delegation, managing, deleted>>

Goto(h, s) == call' = [call EXCEPT ![h].step = s]
Return(h) == call' = [call EXCEPT ![h] = Idle]
At(h, s) == call[h].step = s

-----------------------------------------------------------------------------
(* The first step of each method. *)

\* The check the comment calls the main protection of an accepted row.
delegateTask(h, t, o) ==
    /\ t \notin deleted
    /\ delegation[t][o] # "accepted"
    /\ Begin(h, "delegateTask", "upsert", t, o)

acceptDelegation(h, t, o) ==
    /\ delegation[t][o] # "none"
    /\ Begin(h, "acceptDelegation", "look for another", t, o)

unacceptDelegation(h, t, o) ==
    /\ delegation[t][o] = "accepted"
    /\ Begin(h, "unacceptDelegation", "save", t, o)

\* Declines a row that is accepted as well as one that waits.
declineDelegation(h, t, o) ==
    /\ delegation[t][o] # "none"
    /\ Begin(h, "declineDelegation", "save", t, o)

\* The author's edit of the request: it saves the organisation it names, or the
\* one it read.
updateRequest(h, t, o) ==
    /\ o \in Orgs \cup {managing}
    /\ Begin(h, "updateRequest", "save request", t, o)

-----------------------------------------------------------------------------
(* The later steps. *)

\* INSERT ... ON CONFLICT DO UPDATE SET is_accepted = NULL, whatever it was.
Upsert(h) ==
    LET c == call[h] IN
    /\ At(h, "upsert")
    /\ delegation' = [delegation EXCEPT ![c.on][c.org] = "waiting"]
    /\ Return(h)
    /\ UNCHANGED <<managing, deleted>>

\* Mutant: nobody looks whether another organisation has the task.
AcceptUnseen(h) ==
    /\ At(h, "look for another")
    /\ Goto(h, "save")
    /\ UNCHANGED <<delegation, managing, deleted>>

\* Finds one accepted row of the task, any of them, and refuses if it is another
\* organisation's.
LookForAnother(h) ==
    LET c == call[h] IN
    /\ At(h, "look for another")
    /\ \/ Accepted(c.on) \ {c.org} # {} /\ Return(h)
       \/ (Accepted(c.on) = {} \/ c.org \in Accepted(c.on)) /\ Goto(h, "save")
    /\ UNCHANGED <<delegation, managing, deleted>>

\* Mutant: true and false are swapped.
SavedAsSwapped(op) == CASE op = "acceptDelegation" -> "declined"
                        [] op = "unacceptDelegation" -> "waiting"
                        [] op = "declineDelegation" -> "accepted"

\* What each method stores in is_accepted.
SavedAs(op) == CASE op = "acceptDelegation" -> "accepted"
                 [] op = "unacceptDelegation" -> "waiting"
                 [] op = "declineDelegation" -> "declined"

Save(h) ==
    LET c == call[h] IN
    /\ At(h, "save")
    /\ delegation' = [delegation EXCEPT ![c.on][c.org] = SavedAs(c.op)]
    /\ IF c.op = "acceptDelegation" /\ c.hasTask THEN Goto(h, "manage") ELSE Return(h)
    /\ UNCHANGED <<managing, deleted>>

\* The organisation that accepted a task manages the whole request.
Manage(h) ==
    /\ At(h, "manage")
    /\ managing' = call[h].org
    /\ Return(h)
    /\ UNCHANGED <<delegation, deleted>>

SaveRequest(h) ==
    /\ At(h, "save request")
    /\ managing' = call[h].org
    /\ Return(h)
    /\ UNCHANGED <<delegation, deleted>>

\* deleteTask of TaskBoard.
SoftDelete(t) ==
    /\ t \notin deleted
    /\ deleted' = deleted \cup {t}
    /\ UNCHANGED <<delegation, managing, call>>

\* A statement fails or the process stops between two steps.
Fail(h) ==
    /\ call[h] # Idle
    /\ Return(h)
    /\ UNCHANGED <<delegation, managing, deleted>>

-----------------------------------------------------------------------------

Start(h, t, o) ==
    \/ delegateTask(h, t, o)
    \/ acceptDelegation(h, t, o)
    \/ unacceptDelegation(h, t, o)
    \/ declineDelegation(h, t, o)

Continue(h) ==
    \/ Upsert(h) \/ LookForAnother(h) \/ Save(h) \/ Manage(h)
    \/ SaveRequest(h) \/ Fail(h)

Init ==
    /\ delegation = [t \in Tasks |-> [o \in Orgs |-> "none"]]
    /\ managing \in Orgs \cup {NoOrg}
    /\ deleted = {}
    /\ call = [h \in Handlers |-> Idle]

Next ==
    \/ \E h \in Handlers, t \in Tasks, o \in Orgs : Start(h, t, o)
    \/ \E h \in Handlers, t \in Tasks, o \in Orgs \cup {NoOrg} : updateRequest(h, t, o)
    \/ \E h \in Handlers : Continue(h)
    \/ \E t \in Tasks : SoftDelete(t)

Spec == Init /\ [][Next]_vars
-----------------------------------------------------------------------------
(* Properties *)

\* Call h has found task t free, or its own, and goes on to accept it.
Promised(h, t) ==
    call[h].step = "save" /\ call[h].op = "acceptDelegation" /\ call[h].on = t

\* Organisations that hold a task or have been told that they may have it.
Claimants(t) ==
    Accepted(t) \cup {o \in Orgs : \E h \in Handlers : Promised(h, t) /\ call[h].org = o}

\* What a call in flight is, and on whose behalf.
StepsMatch ==
    \A h \in Handlers : LET c == call[h] IN
        /\ c.step \in {"upsert", "look for another", "save", "manage"} => c.org \in Orgs
        /\ c.step = "look for another" => c.op = "acceptDelegation"
        /\ c.step = "save" =>
              c.op \in {"acceptDelegation", "unacceptDelegation", "declineDelegation"}
        /\ c.step # "none" => c \in CallRecord

\* Every organisation beyond the first that comes to hold a task costs a call in
\* flight at the same time as the others: however the calls of acceptDelegation,
\* delegateTask, unacceptDelegation and declineDelegation interleave, no more
\* organisations hold or are promised a task than there are calls at once.
ClaimsBounded ==
    \A t \in Tasks : Cardinality(Claimants(t)) <= Cardinality(Handlers)

DelegationInv == TypeOK /\ StepsMatch /\ ClaimsBounded

\* Delegation keeps the promise of TaskOwnership with the number of calls in
\* flight for its limit: one call at a time means one owner of each task.
Ownership == INSTANCE TaskOwnership
    WITH owners <- [t \in Tasks |-> Accepted(t)], Limit <- Cardinality(Handlers)
KeepsOwnership == Ownership!Spec

\* "Prevent double acceptance by another organization": a task has one owner.
OneOwner == \A t \in Tasks : Cardinality(Accepted(t)) <= 1
=============================================================================
