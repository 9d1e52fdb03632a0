------------------------------ MODULE Clearance ------------------------------
(***************************************************************************)
(* Vouches and clearance: UsersService (users.service.ts), the rows of     *)
(* "trust_vouches" and the columns clearance_level,                        *)
(* frontline_granted_by_admin, is_blocked and is_email_verified of         *)
(* "users".  A change of a vouch is followed by recalculateClearance of    *)
(* the vouchee, a chain of statements with nothing to hold it together:    *)
(* other handlers may run between any two, and a failure ends the chain.   *)
(*                                                                         *)
(* The assignments a lost FRONTLINE level ends are known by their tasks;   *)
(* TaskBoard has their statuses.  Trust scores, roles, profiles, vehicles  *)
(* and the telephone are left out.                                         *)
(***************************************************************************)
EXTENDS Naturals, FiniteSets

CONSTANTS
    Users,              \* everybody with an account
    Admins,             \* SystemRole.ADMIN
    Presentable,        \* have an avatar and an identity checked by an admin
    Created,            \* accounts made by an administrator (createUser)
    Workers,            \* users who take tasks
    Tasks,              \* tasks people work on
    FrontlineVouches,   \* FRONTLINE_VOUCHES_REQUIRED
    Handlers            \* how many calls can be in flight at once

ASSUME ClearanceAssumption ==
    /\ Admins \subseteq Users /\ Presentable \subseteq Users
    /\ Created \subseteq Users /\ Workers \subseteq Users
    /\ IsFiniteSet(Users)
    /\ FrontlineVouches \in Nat \ {0}

VARIABLES
    level,      \* clearance_level
    granted,    \* frontline_granted_by_admin
    blocked,    \* is_blocked
    verified,   \* is_email_verified
    vouch,      \* vouch[u][v]: the row of voucher v for vouchee u
    work,       \* the tasks on which each user has an active assignment
    appointed,  \* users whose level is an administrator's choice (history)
    call        \* what each handler remembers between two steps

rows == <<level, granted, blocked, verified, vouch, work, appointed>>
vars == <<level, granted, blocked, verified, vouch, work, appointed, call>>

Level == {"LOCAL", "INTERNATIONAL", "FRONTLINE"}
VouchRow == {"none", "active", "suspended"}
Method == {"blockUser", "vouchForUser", "restoreVouch", "revokeVouchPermanently"}
Step == {"suspend", "find affected", "insert", "restore", "revoke",
         "next", "count", "read", "list work", "withdraw", "write"}

\* on: the vouchee at hand; voucher: the other party; todo: vouchees to come;
\* count, new: what recalculateClearance found and decided; listed: assignments.
CallRecord == [op : Method, step : Step, on : Users, voucher : Users,
               todo : SUBSET Users, count : 0..Cardinality(Users), new : Level,
               listed : SUBSET Tasks]
Idle == [op |-> "idle", step |-> "none"]

TypeOK ==
    /\ level \in [Users -> Level]
    /\ granted \subseteq Users /\ blocked \subseteq Users
    /\ verified \subseteq Users /\ appointed \subseteq Users
    /\ vouch \in [Users -> [Users -> VouchRow]]
    /\ work \in [Users -> SUBSET Tasks]
    /\ call \in [Handlers -> CallRecord \cup {Idle}]

-----------------------------------------------------------------------------

Carrying(u) == {v \in Users : vouch[u][v] = "active"}

\* The level that n active vouches carry.
Earned(n, isVerified) ==
    IF n >= FrontlineVouches /\ isVerified THEN "FRONTLINE"
    ELSE IF n >= 1 THEN "INTERNATIONAL" ELSE "LOCAL"

Begin(h, op, step, u, v) ==
    /\ call[h] = Idle
    /\ call' = [call EXCEPT ![h] =
                   [op |-> op, step |-> step, on |-> u, voucher |-> v, todo |-> {},
                    count |-> 0, new |-> "LOCAL", listed |-> {}]]

At(h, s) == call[h].step = s
Goto(h, s) == call' = [call EXCEPT ![h].step = s]
Return(h) == call' = [call EXCEPT ![h] = Idle]

\* A method of one step also occupies a handler.
Free == \E h \in Handlers : call[h] = Idle

\* Some administrator can call: JwtStrategy refuses the blocked.
AdminCalls == Admins \ blocked # {}

-----------------------------------------------------------------------------
(* The first step of each method. *)

\* Its first statement blocks the user.
blockUser(h, v) ==
    /\ AdminCalls
    /\ Begin(h, "blockUser", "suspend", v, v)
    /\ blocked' = blocked \cup {v}
    /\ UNCHANGED <<level, granted, verified, vouch, work, appointed>>

\* Vouches stay suspended: restoreVouch is for the administrator to call.
unblockUser(v) ==
    /\ Free /\ AdminCalls
    /\ blocked' = blocked \ {v}
    /\ UNCHANGED <<level, granted, verified, vouch, work, appointed, call>>

\* Mutant: a lower level leaves the flag as it was.
FlagKept(u, newLevel) ==
    IF newLevel = "FRONTLINE" THEN granted \cup {u} ELSE granted

FlagSetBy(u, newLevel) ==
    IF newLevel = "FRONTLINE" THEN granted \cup {u} ELSE granted \ {u}

\* One UPDATE sets the level and the flag; nobody is withdrawn from work.
updateClearance(u, newLevel) ==
    /\ Free /\ AdminCalls
    /\ level' = [level EXCEPT ![u] = newLevel]
    /\ granted' = FlagSetBy(u, newLevel)
    /\ appointed' = appointed \cup {u}
    /\ UNCHANGED <<blocked, verified, vouch, work, call>>

\* Mutant: nothing keeps a user from vouching for himself.
MayVouchForSelf(u, v) ==
    /\ level[v] = "FRONTLINE" \/ v \in Admins
    /\ v \in (verified \cap Presentable) \ blocked

MayVouch(u, v) ==
    /\ u # v
    /\ level[v] = "FRONTLINE" \/ v \in Admins
    /\ v \in (verified \cap Presentable) \ blocked

vouchForUser(h, u, v) ==
    /\ MayVouch(u, v) /\ vouch[u][v] = "none"
    /\ Begin(h, "vouchForUser", "insert", u, v)
    /\ UNCHANGED rows

restoreVouch(h, u, v) ==
    /\ AdminCalls
    /\ vouch[u][v] = "suspended" /\ v \notin blocked
    /\ Begin(h, "restoreVouch", "restore", u, v)
    /\ UNCHANGED rows

revokeVouchPermanently(h, u, v) ==
    /\ AdminCalls
    /\ vouch[u][v] # "none"
    /\ Begin(h, "revokeVouchPermanently", "revoke", u, v)
    /\ UNCHANGED rows

-----------------------------------------------------------------------------
(* The later steps: what the method does to the vouches. *)

Suspend(h) ==
    LET v == call[h].voucher IN
    /\ At(h, "suspend")
    /\ vouch' = [u \in Users |->
                    IF vouch[u][v] = "active" THEN [vouch[u] EXCEPT ![v] = "suspended"]
                                              ELSE vouch[u]]
    /\ Goto(h, "find affected")
    /\ UNCHANGED <<level, granted, blocked, verified, work, appointed>>

\* Mutant: looks for the vouches that are active, after they were suspended.
AffectedByActive(v) == {u \in Users : vouch[u][v] = "active"}

\* Everybody the voucher ever vouched for, suspended before or just now.
Affected(v) == {u \in Users : vouch[u][v] # "none"}

FindAffected(h) ==
    /\ At(h, "find affected")
    /\ call' = [call EXCEPT ![h].step = "next", ![h].todo = Affected(call[h].voucher)]
    /\ UNCHANGED rows

\* UNIQUE (vouchee_id, voucher_id) refuses a second row.
InsertVouch(h) ==
    LET c == call[h] IN
    /\ At(h, "insert")
    /\ IF vouch[c.on][c.voucher] = "none"
       THEN /\ vouch' = [vouch EXCEPT ![c.on][c.voucher] = "active"]
            /\ Goto(h, "count")
       ELSE Return(h) /\ UNCHANGED vouch
    /\ UNCHANGED <<level, granted, blocked, verified, work, appointed>>

Restore(h) ==
    /\ At(h, "restore")
    /\ vouch' = [vouch EXCEPT ![call[h].on][call[h].voucher] = "active"]
    /\ Goto(h, "count")
    /\ UNCHANGED <<level, granted, blocked, verified, work, appointed>>

\* Restore and Revoke name the row by its id: the statement of another call
\* about to restore or delete the same row will find nothing to change.
Revoke(h) ==
    LET u == call[h].on
        v == call[h].voucher
    IN
    /\ At(h, "revoke")
    /\ vouch' = [vouch EXCEPT ![u][v] = "none"]
    /\ call' = [g \in Handlers |->
                   IF /\ call[g].step \in {"restore", "revoke"}
                      /\ call[g].on = u /\ call[g].voucher = v
                   THEN [call[g] EXCEPT !.step = "count"] ELSE call[g]]
    /\ UNCHANGED <<level, granted, blocked, verified, work, appointed>>

-----------------------------------------------------------------------------
(* The later steps: recalculateClearance. *)

\* blockUser goes on to the next vouchee; the other methods have only one.
NextVouchee(h) ==
    /\ At(h, "next")
    /\ IF call[h].todo = {}
       THEN Return(h)
       ELSE \E u \in call[h].todo :
                call' = [call EXCEPT ![h].step = "count", ![h].on = u,
                                     ![h].todo = @ \ {u}]
    /\ UNCHANGED rows

CountVouches(h) ==
    /\ At(h, "count")
    /\ call' = [call EXCEPT ![h].step = "read",
                            ![h].count = Cardinality(Carrying(call[h].on))]
    /\ UNCHANGED rows

\* Mutant: the flag of the administrator is not looked at.
GrantIgnored(u) == FALSE

\* FRONTLINE given by an administrator is not taken back automatically.
KeptByGrant(u) == u \in granted /\ level[u] = "FRONTLINE"

ReadUser(h) ==
    LET u == call[h].on
        new == Earned(call[h].count, u \in verified)
    IN
    /\ At(h, "read")
    /\ IF KeptByGrant(u)
       THEN Goto(h, "next") /\ UNCHANGED appointed
       ELSE IF level[u] = new
       THEN Goto(h, "next") /\ appointed' = appointed \ {u}
       ELSE /\ call' = [call EXCEPT ![h].new = new, ![h].step =
                           IF level[u] = "FRONTLINE" THEN "list work" ELSE "write"]
            /\ UNCHANGED appointed
    /\ UNCHANGED <<level, granted, blocked, verified, vouch, work>>

\* Mutant: the list of assignments comes back empty.
NoAssignments(u) == {}

ActiveAssignments(u) == work[u]

\* withdrawFromActiveTasks works on the assignments it lists first.
ListWork(h) ==
    LET listed == ActiveAssignments(call[h].on) IN
    /\ At(h, "list work")
    /\ call' = [call EXCEPT ![h].listed = listed,
                            ![h].step = IF listed = {} THEN "write" ELSE "withdraw"]
    /\ UNCHANGED rows

WithdrawFromTask(h) ==
    /\ At(h, "withdraw")
    /\ \E t \in call[h].listed :
          /\ work' = [work EXCEPT ![call[h].on] = @ \ {t}]
          /\ call' = [call EXCEPT ![h].listed = @ \ {t},
                          ![h].step = IF call[h].listed = {t} THEN "write" ELSE "withdraw"]
    /\ UNCHANGED <<level, granted, blocked, verified, vouch, appointed>>

WriteLevel(h) ==
    /\ At(h, "write")
    /\ level' = [level EXCEPT ![call[h].on] = call[h].new]
    /\ appointed' = appointed \ {call[h].on}
    /\ Goto(h, "next")
    /\ UNCHANGED <<granted, blocked, verified, vouch, work>>

\* A statement fails or the process stops between two steps.
Fail(h) ==
    /\ call[h] # Idle
    /\ Return(h)
    /\ UNCHANGED rows

-----------------------------------------------------------------------------
(* The other services. *)

\* AuthService.verifyEmail does not recalculate.
verifyEmail(u) ==
    /\ Free /\ u \notin verified
    /\ verified' = verified \cup {u}
    /\ UNCHANGED <<level, granted, blocked, vouch, work, appointed, call>>

\* assignVolunteer and the ways in which an assignment ends (TaskBoard).
TakeTask(u, t) ==
    /\ Free /\ u \notin blocked /\ t \notin work[u]
    /\ work' = [work EXCEPT ![u] = @ \cup {t}]
    /\ UNCHANGED <<level, granted, blocked, verified, vouch, appointed, call>>

LeaveTask(u, t) ==
    /\ Free /\ t \in work[u]
    /\ work' = [work EXCEPT ![u] = @ \ {t}]
    /\ UNCHANGED <<level, granted, blocked, verified, vouch, appointed, call>>

-----------------------------------------------------------------------------

Continue(h) ==
    \/ Suspend(h) \/ FindAffected(h) \/ InsertVouch(h) \/ Restore(h) \/ Revoke(h)
    \/ NextVouchee(h) \/ CountVouches(h) \/ ReadUser(h)
    \/ ListWork(h) \/ WithdrawFromTask(h) \/ WriteLevel(h)

\* Whoever registered is LOCAL; createUser gives the level the administrator
\* chose, without the flag, and takes the email for verified.
Init ==
    /\ level \in {l \in [Users -> Level] : \A u \in Users \ Created : l[u] = "LOCAL"}
    /\ appointed = Created
    /\ granted = {} /\ blocked = {}
    /\ verified = Created \cup Presentable
    /\ vouch = [u \in Users |-> [v \in Users |-> "none"]]
    /\ work = [u \in Users |-> {}]
    /\ call = [h \in Handlers |-> Idle]

Next ==
    \/ \E h \in Handlers, v \in Users : blockUser(h, v)
    \/ \E v \in Users : unblockUser(v)
    \/ \E u \in Users, newLevel \in Level : updateClearance(u, newLevel)
    \/ \E h \in Handlers, u, v \in Users :
          \/ vouchForUser(h, u, v)
          \/ restoreVouch(h, u, v)
          \/ revokeVouchPermanently(h, u, v)
    \/ \E h \in Handlers : Continue(h) \/ Fail(h)
    \/ \E u \in Users : verifyEmail(u)
    \/ \E u \in Workers, t \in Tasks : TakeTask(u, t) \/ LeaveTask(u, t)

Spec == Init /\ [][Next]_vars

-----------------------------------------------------------------------------
(* Properties. *)

\* The vouches and the email justify the level, or an administrator chose it.
\* (verifyEmail does not promote: three vouches may leave INTERNATIONAL.)
LevelFollows(u) ==
    \/ u \in appointed
    \/ /\ level[u] = "LOCAL" <=> Carrying(u) = {}
       /\ level[u] = "FRONTLINE" =>
             u \in verified /\ Cardinality(Carrying(u)) >= FrontlineVouches

\* Everybody whose vouches a call changes or found changed.
Touched(c) ==
    IF c.op = "blockUser" THEN {u \in Users : vouch[u][c.voucher] # "none"} ELSE {c.on}

-----------------------------------------------------------------------------
(* Invariants, on which the action properties rest. *)

\* Each step belongs to its methods; who is about to restore or to delete a row
\* has a row.
StepMatches(c) ==
    /\ c.step \in {"suspend", "find affected"} => c.op = "blockUser"
    /\ c.step \in {"insert", "restore", "revoke"} => c.op # "blockUser"
    /\ c.step = "insert" => c.on # c.voucher
    /\ c.step \in {"restore", "revoke"} => vouch[c.on][c.voucher] # "none"

\* For any number of calls: nobody carries a vouch of his own, and no statement
\* is executed for a method or a row it was not meant for (vouchForUser,
\* restoreVouch, revokeVouchPermanently).
ClearanceInv ==
    /\ TypeOK
    /\ \A u \in Users : vouch[u][u] = "none"
    /\ \A h \in Handlers : StepMatches(call[h])

Deciding == {"list work", "withdraw", "write"}
Recalculating == {"count", "read"} \cup Deciding

\* What recalculateClearance read is still so when it acts on it.
DecisionHolds(c) ==
    /\ c.step = "read" => c.count = Cardinality(Carrying(c.on))
    /\ c.step \in Deciding =>
          /\ ~ KeptByGrant(c.on)
          /\ c.new = Earned(Cardinality(Carrying(c.on)), c.on \in verified)
    /\ c.step = "withdraw" => c.listed = work[c.on]
    /\ c.step = "write" /\ level[c.on] = "FRONTLINE" => work[c.on] = {}

\* The vouchees that blockUser has gone through have a level that follows.
RestIsSettled(c) ==
    /\ c.step \in Recalculating \cup {"next"} =>
          \A u \in Touched(c) \ c.todo :
             LevelFollows(u) \/ (u = c.on /\ c.step \in Recalculating)
    /\ c.op = "blockUser" /\ c.step \in Recalculating \cup {"find affected", "next"} =>
          \A u \in Users : vouch[u][c.voucher] # "active"

\* With one call at a time, whatever statements of earlier calls failed, the
\* chain of recalculateClearance never acts on what is no longer so, and a flag
\* stands only beside the level it protects (recalculateClearance,
\* updateClearance, blockUser).
SerialInv ==
    /\ \A u \in granted : level[u] = "FRONTLINE" /\ u \in appointed
    /\ \A h \in Handlers : DecisionHolds(call[h]) /\ RestIsSettled(call[h])

\* Partial failure and retry: whatever earlier calls left undone when one of
\* their statements failed, a call that runs to its end leaves each vouchee it
\* touches with a level that the vouches justify; blockUser leaves no vouch of
\* the blocked user active, so a second blockUser repairs a first that died
\* half-way (blockUser, recalculateClearance).  For one call at a time.
CallSettlesClearance ==
    [][\A h \in Handlers :
          call[h] # Idle /\ At(h, "next") /\ call'[h] = Idle /\ call[h].todo = {} =>
              /\ \A u \in Touched(call[h]) : LevelFollows(u)
              /\ call[h].op = "blockUser" =>
                    \A u \in Users : vouch[u][call[h].voucher] # "active"
      ]_vars

\* recalculateClearance lowers nobody who still works: every active assignment
\* is withdrawn before the level is written, also when the same loss was begun
\* by a call that failed.  For one call at a time: an assignment that
\* begins after the list was read is not seen.
LostFrontlineEndsWork ==
    [][\A h \in Handlers, u \in Users :
          WriteLevel(h) /\ level[u] = "FRONTLINE" /\ level'[u] # "FRONTLINE" =>
              work[u] = {}
      ]_vars

\* "If an administrator granted FRONTLINE by hand, it is not lowered
\* automatically" (recalculateClearance): a flagged level is lowered only
\* together with its flag.  For one call at a time.
GrantKept ==
    [][\A u \in Users :
          u \in granted /\ level[u] = "FRONTLINE" /\ level'[u] # "FRONTLINE" =>
              u \notin granted'
      ]_vars

\* The same comment taken at its word, for every FRONTLINE level that an
\* administrator chose, in createUser too.  Violated: createUser sets the level
\* and not the flag, and the first vouch lowers it.
AppointedFrontlineKept ==
    [][\A h \in Handlers, u \in Users :
          WriteLevel(h) /\ u \in appointed /\ level[u] = "FRONTLINE" =>
              level'[u] = "FRONTLINE"
      ]_vars
=============================================================================
