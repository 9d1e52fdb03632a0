------------------------------- MODULE Membership -------------------------------
(***************************************************************************)
(* One organisation: OrganizationsService (organizations.service.ts), its  *)
(* row, its members, the requests to join it, one subgroup, one hub.       *)
(*                                                                         *)
(* findById loads the organisation with members, settings, subgroups and   *)
(* hubs, and save() writes the whole copy: a member deleted since is       *)
(* inserted again, a role changed since is set back, a subgroup or hub     *)
(* that came since loses its parent.  A member or settings that came since *)
(* cannot lose theirs (NOT NULL), so the save fails.                       *)
(*                                                                         *)
(* A check of the caller followed by one statement (addMember and the like)*)
(* is one step: UNIQUE decides what the check missed.                      *)
(***************************************************************************)
EXTENDS Calls

CONSTANT MaxJoins       \* bound on the requests to join

ASSUME JoinAssumption == MaxJoins \in Nat

VARIABLES
    org,        \* the row of "organizations" and whether its settings exist
    member,     \* the rows of "organization_members"
    join,       \* the rows of "organization_join_requests"
    subgroup,   \* an organisation with this one as parent_org_id
    hub,        \* a hub of the organisation
    fate        \* what became of each request to join; no column of the code

orgVars == <<org, member, join, subgroup, hub>>
membershipVars == <<orgVars, fate>>

OrgRole == {"LEADER", "COORDINATOR", "MEMBER"}
\* details stands for what update() edits, chat for chat_id.
OrgRow == [life : {"absent", "live", "removed"}, details : {0, 1},
           chat : BOOLEAN, settings : BOOLEAN]
MemberRow == [role : OrgRole \cup {"none"}, deputy : BOOLEAN]
Verdicts == {"approved", "rejected"}
JoinRow == [user : Users, status : {"pending"} \cup Verdicts]
\* The verdicts that were saved, and whether the applicant became a member or
\* could not be made one.
Fate == Verdicts \cup {"admitted", "dropped"}
Attachment == {"none", "attached", "detached"}

NewOrg == [life |-> "live", details |-> 0, chat |-> FALSE, settings |-> FALSE]
NoMember == [role |-> "none", deputy |-> FALSE]
NoJoin == [status |-> "none"]
JoinIds == 1..MaxJoins      \* in the order they were made

OrgSave == {"updateOrg", "createOrgChat", "createOrg"}
OrgMethod == OrgSave \cup {"delete", "leave", "updateMemberRole", "updateHub",
                           "createJoinRequest", "handleJoinRequest"}
OrgStep == {"settings", "creator", "chat", "diff", "write", "remove", "leave",
            "role", "hub", "join", "decide", "admit"}
OrgColumn == {"life", "details", "chat", "settings"}

\* org, member, subgroup, hub: the copy, changed in memory; diff, upd, ins: the
\* columns, columns of members, and members to insert when it is saved; on: the
\* user at hand; id, new: the request to join and its verdict; fresh: members
\* inserted since the call began.
OrgCall == [op : OrgMethod, step : OrgStep, alone : BOOLEAN, org : OrgRow,
            member : [Users -> MemberRow], subgroup : Attachment, hub : Attachment,
            diff : SUBSET (OrgColumn \cup {"subgroup", "hub"}),
            upd : SUBSET (Users \X {"role", "deputy"}), ins : SUBSET Users,
            on : Users, id : 0..MaxJoins, new : Verdicts,
            fresh : SUBSET Users]

MembershipTypeOK ==
    /\ org \in OrgRow
    /\ member \in [Users -> MemberRow]
    /\ join \in [JoinIds -> JoinRow \cup {NoJoin}]
    /\ fate \in [JoinIds -> SUBSET Fate]
    /\ subgroup \in Attachment /\ hub \in Attachment
    /\ \A h \in Handlers :
           InFlight(h) /\ call[h].op \in OrgMethod => call[h] \in OrgCall

-----------------------------------------------------------------------------
(* Helpers *)

IsMember(u) == member[u].role # "none"
Leaders == {u \in Users : member[u].role = "LEADER"}

LeadsOrAdmin(u) == u \in Admins \/ member[u].role \in {"LEADER", "COORDINATOR"}

\* OrganizationRoleGuard: a deputy passes wherever LEADER does.
GuardPasses(u, roles) ==
    \/ u \in Admins
    \/ member[u].role \in roles
    \/ "LEADER" \in roles /\ member[u].deputy

\* What a call of op by or about u remembers before it copies anything.
OrgCalling(op, step, u) ==
    [op |-> op, step |-> step, alone |-> TRUE, org |-> NewOrg,
     member |-> [v \in Users |-> NoMember], subgroup |-> "none", hub |-> "none",
     diff |-> {}, upd |-> {}, ins |-> {}, on |-> u, id |-> 0,
     new |-> "approved", fresh |-> {}]

\* Mutant: the subgroups of the copy are an empty list.
FoundWithoutSubgroups(op, step, u) ==
    [OrgCalling(op, step, u) EXCEPT !.org = org, !.member = member, !.hub = hub]

\* findById: the row with everything that belongs to it.
Found(op, step, u) ==
    [OrgCalling(op, step, u) EXCEPT !.org = org, !.member = member,
                                    !.subgroup = subgroup, !.hub = hub]

BeginOrgCall(h, c) == Begin(h, c) /\ UNCHANGED membershipVars

MemberCame(g, new) ==
    IF InFlight(g) THEN [call[g] EXCEPT !.alone = FALSE, !.fresh = @ \cup new] ELSE Idle

\* A step of call h that inserts the rows of members.
InsertsMembers(h, c, new) ==
    /\ call' = [g \in Handlers |-> IF g = h THEN c ELSE MemberCame(g, new)]
    /\ UNCHANGED overlaps

JoinedAs(u, role) == [member EXCEPT ![u] = [role |-> role, deputy |-> FALSE]]

-----------------------------------------------------------------------------
(* Founding an organisation: one statement after another. *)

createOrg(h, by) ==
    /\ org.life = "absent"
    /\ Begin(h, OrgCalling("createOrg", "settings", by))
    /\ org' = NewOrg
    /\ UNCHANGED <<member, join, subgroup, hub, fate>>

CreateSettings(h) ==
    /\ At(h, "settings") /\ org.life = "live" /\ ~org.settings
    /\ org' = [org EXCEPT !.settings = TRUE]
    /\ WritesAndBecomes(h, [call[h] EXCEPT !.step = "creator"])
    /\ UNCHANGED <<member, join, subgroup, hub, fate>>

AddCreator(h) ==
    LET u == call[h].on IN
    /\ At(h, "creator") /\ org.life = "live" /\ ~IsMember(u)
    /\ member' = JoinedAs(u, "LEADER")
    /\ InsertsMembers(h, [call[h] EXCEPT !.step = "chat"], {u})
    /\ UNCHANGED <<org, join, subgroup, hub, fate>>

\* create() with parentOrgId, which anybody may.
createSubgroup ==
    /\ org.life = "live" /\ subgroup = "none"
    /\ subgroup' = "attached"
    /\ Disturbs
    /\ UNCHANGED <<org, member, join, hub, fate>>

\* Settings that are missing are made when they are first read or updated.
getSettings(by) ==
    /\ org.life = "live" /\ ~org.settings
    /\ GuardPasses(by, {"LEADER", "COORDINATOR"})
    /\ org' = [org EXCEPT !.settings = TRUE]
    /\ Disturbs
    /\ UNCHANGED <<member, join, subgroup, hub, fate>>

-----------------------------------------------------------------------------
(* Saving and removing the organisation. *)

updateOrg(h, by) ==
    /\ org.life = "live" /\ GuardPasses(by, {"LEADER"})
    /\ BeginOrgCall(h, [Found("updateOrg", "diff", by) EXCEPT !.org.details = 1 - @])

createOrgChat(h, by) ==
    /\ org.life = "live" /\ ~org.chat
    /\ GuardPasses(by, {"LEADER", "COORDINATOR"}) /\ LeadsOrAdmin(by)
    /\ BeginOrgCall(h, Found("createOrgChat", "chat", by))

\* ChatService makes the room; nobody else knows it yet.
AddChat(h) ==
    /\ At(h, "chat")
    /\ Becomes(h, [call[h] EXCEPT !.step = "diff", !.org.chat = TRUE])
    /\ UNCHANGED membershipVars

\* The copy of createOrg has no members, settings, subgroups or hubs to compare.
Loads(c) == c.op # "createOrg"

\* An attachment differs if the row is there and only one of the two has it.
Rebinds(copy, now) == now # "none" /\ (copy = "attached") # (now = "attached")

Differs(c) ==
    {k \in {"life", "details", "chat"} : c.org[k] # org[k]}
    \cup {k \in {"settings"} : Loads(c) /\ c.org.settings /\ ~org.settings}
    \cup {k \in {"subgroup"} : Loads(c) /\ Rebinds(c.subgroup, subgroup)}
    \cup {k \in {"hub"} : Loads(c) /\ Rebinds(c.hub, hub)}

MembersDiffer(c) ==
    {p \in {u \in Users : IsMember(u) /\ c.member[u] # NoMember} \X {"role", "deputy"} :
        c.member[p[1]][p[2]] # member[p[1]][p[2]]}

\* Rows that came since the copy was made and cannot do without the organisation.
Orphans(c) ==
    Loads(c) /\ ((\E u \in c.fresh : IsMember(u)) \/ (org.settings /\ ~c.org.settings))

DiffOrg(h) ==
    LET c == call[h]
        ins == {u \in Users : Loads(c) /\ c.member[u] # NoMember /\ ~IsMember(u)}
    IN
    /\ At(h, "diff")
    /\ Becomes(h, IF Orphans(c) \/ (Differs(c) = {} /\ MembersDiffer(c) = {} /\ ins = {})
                  THEN Idle
                  ELSE [c EXCEPT !.step = "write", !.diff = Differs(c),
                                 !.upd = MembersDiffer(c), !.ins = ins])
    /\ UNCHANGED membershipVars

\* A row of the plan was inserted by another meanwhile, or the parent is gone.
Clashes(c) ==
    \/ \E u \in c.ins : IsMember(u)
    \/ "life" \in c.diff /\ org.life = "live"
    \/ "settings" \in c.diff /\ org.settings
    \/ "life" \notin c.diff /\ org.life # "live"

Rebound(c, k, now) ==
    IF k \in c.diff /\ now # "none"
    THEN IF c[k] = "attached" THEN "attached" ELSE "detached" ELSE now

WriteOrg(h) ==
    LET c == call[h] IN
    /\ At(h, "write") /\ ~Clashes(c)
    /\ org' = [k \in OrgColumn |-> IF k \in c.diff THEN c.org[k] ELSE org[k]]
    /\ member' = [u \in Users |->
                     IF u \in c.ins THEN c.member[u]
                     ELSE IF ~IsMember(u) THEN NoMember
                     ELSE [k \in {"role", "deputy"} |->
                              IF <<u, k>> \in c.upd THEN c.member[u][k] ELSE member[u][k]]]
    /\ subgroup' = Rebound(c, "subgroup", subgroup)
    /\ hub' = Rebound(c, "hub", hub)
    /\ InsertsMembers(h, Idle, c.ins)
    /\ UNCHANGED <<join, fate>>

\* Mutant: subgroups do not stand in the way.
MayDeleteAny(by) == org.life = "live" /\ GuardPasses(by, {"LEADER"}) /\ LeadsOrAdmin(by)

MayDelete(by) ==
    /\ org.life = "live" /\ GuardPasses(by, {"LEADER"}) /\ LeadsOrAdmin(by)
    /\ subgroup # "attached"

deleteOrg(h, by) ==
    /\ MayDelete(by)
    /\ BeginOrgCall(h, OrgCalling("delete", "remove", by))

\* ON DELETE CASCADE and SET NULL.
RemoveOrg(h) ==
    /\ At(h, "remove")
    /\ org' = [NewOrg EXCEPT !.life = "removed"]
    /\ member' = [u \in Users |-> NoMember]
    /\ join' = [j \in JoinIds |-> NoJoin]
    /\ subgroup' = (IF subgroup = "attached" THEN "detached" ELSE subgroup)
    /\ hub' = (IF hub = "attached" THEN "detached" ELSE hub)
    /\ WritesAndBecomes(h, Idle)
    /\ UNCHANGED fate

-----------------------------------------------------------------------------
(* Members *)

addMember(by, u, role) ==
    /\ org.life = "live" /\ LeadsOrAdmin(by) /\ ~IsMember(u)
    /\ member' = JoinedAs(u, role)
    /\ call' = [g \in Handlers |-> MemberCame(g, {u})]
    /\ Overlaps
    /\ UNCHANGED <<org, join, subgroup, hub, fate>>

\* Nothing spares the last leader.
removeMember(by, u) ==
    /\ LeadsOrAdmin(by) /\ IsMember(u)
    /\ member' = [member EXCEPT ![u] = NoMember]
    /\ Disturbs
    /\ UNCHANGED <<org, join, subgroup, hub, fate>>

\* Mutant: the last leader may leave.
MayAlwaysLeave(u) == IsMember(u)

MayLeave(u) == IsMember(u) /\ (u \in Leaders => Cardinality(Leaders) > 1)

leave(h, u) ==
    /\ MayLeave(u)
    /\ BeginOrgCall(h, OrgCalling("leave", "leave", u))

\* The row goes by its id: one that was added anew is another.
Leave(h) ==
    LET c == call[h] IN
    /\ At(h, "leave")
    /\ member' = IF c.on \in c.fresh THEN member ELSE [member EXCEPT ![c.on] = NoMember]
    /\ WritesAndBecomes(h, Idle)
    /\ UNCHANGED <<org, join, subgroup, hub, fate>>

updateMemberRole(h, by, u, role, deputy) ==
    /\ GuardPasses(by, {"LEADER"}) /\ IsMember(u)
    /\ BeginOrgCall(h, [OrgCalling("updateMemberRole", "role", u) EXCEPT
           !.member[u] = [role |-> role, deputy |-> deputy /\ role # "LEADER"]])

\* save() inserts a row that was deleted since.
SaveRole(h) ==
    LET c == call[h] IN
    /\ At(h, "role") /\ org.life = "live" /\ (c.on \in c.fresh => ~IsMember(c.on))
    /\ member' = [member EXCEPT ![c.on] = c.member[c.on]]
    /\ InsertsMembers(h, Idle, IF IsMember(c.on) THEN {} ELSE {c.on})
    /\ UNCHANGED <<org, join, subgroup, hub, fate>>

-----------------------------------------------------------------------------
(* Requests to join *)

Pending(u) == {j \in JoinIds : join[j].status = "pending" /\ join[j].user = u}

\* Mutant: a request that waits does not matter.
MayAskAgain(u) == org.life = "live" /\ ~IsMember(u)

MayAsk(u) == org.life = "live" /\ ~IsMember(u) /\ Pending(u) = {}

createJoinRequest(h, u) ==
    /\ MayAsk(u)
    /\ BeginOrgCall(h, OrgCalling("createJoinRequest", "join", u))

InsertJoinRequest(h, j) ==
    /\ At(h, "join") /\ org.life = "live"
    /\ j - 1 = Cardinality({k \in JoinIds : join[k] # NoJoin})
    /\ join' = [join EXCEPT ![j] = [user |-> call[h].on, status |-> "pending"]]
    /\ WritesAndBecomes(h, Idle)
    /\ UNCHANGED <<org, member, subgroup, hub, fate>>

MayDecide(j) == join[j].status = "pending"

\* The guard looks at the organisation of the URL, the service loads the request by
\* its own id and never compares the two: whoever leads some organisation, and
\* anybody may found one, decides on the requests of all.
handleJoinRequest(h, j, verdict) ==
    /\ MayDecide(j)
    /\ BeginOrgCall(h, [OrgCalling("handleJoinRequest", "decide", join[j].user)
                        EXCEPT !.id = j, !.new = verdict])

\* Mutant: the applicant is admitted whatever the verdict.
AdmitAnyway(c) == [c EXCEPT !.step = "admit"]

AfterVerdict(c) == IF c.new = "approved" THEN [c EXCEPT !.step = "admit"] ELSE Idle

\* The row is gone only with the organisation: then save() fails.
Decide(h) ==
    LET c == call[h] IN
    /\ At(h, "decide") /\ join[c.id] # NoJoin
    /\ join' = [join EXCEPT ![c.id].status = c.new]
    /\ fate' = [fate EXCEPT ![c.id] = @ \cup {c.new}]
    /\ WritesAndBecomes(h, AfterVerdict(c))
    /\ UNCHANGED <<org, member, subgroup, hub>>

\* Fails for somebody who is a member already: the request stays approved.
Admit(h) ==
    LET u == call[h].on IN
    /\ At(h, "admit") /\ org.life = "live" /\ ~IsMember(u)
    /\ member' = JoinedAs(u, "MEMBER")
    /\ fate' = [fate EXCEPT ![call[h].id] = @ \cup {"admitted"}]
    /\ InsertsMembers(h, Idle, {u})
    /\ UNCHANGED <<org, join, subgroup, hub>>

-----------------------------------------------------------------------------
(* Hubs *)

createHub(by) ==
    /\ org.life = "live" /\ LeadsOrAdmin(by) /\ hub = "none"
    /\ hub' = "attached"
    /\ Disturbs
    /\ UNCHANGED <<org, member, join, subgroup, fate>>

updateHub(h, by) ==
    /\ hub = "attached" /\ GuardPasses(by, {"LEADER", "COORDINATOR"}) /\ LeadsOrAdmin(by)
    /\ BeginOrgCall(h, OrgCalling("updateHub", "hub", by))

\* save() inserts a hub that was deleted, and attaches one that was detached.
SaveHub(h) ==
    /\ At(h, "hub") /\ org.life = "live"
    /\ hub' = "attached"
    /\ WritesAndBecomes(h, Idle)
    /\ UNCHANGED <<org, member, join, subgroup, fate>>

deleteHub(by) ==
    /\ hub = "attached" /\ GuardPasses(by, {"LEADER", "COORDINATOR"})
    /\ LeadsOrAdmin(by)
    /\ hub' = "none"
    /\ Disturbs
    /\ UNCHANGED <<org, member, join, subgroup, fate>>

\* A statement fails, a check of the database refuses, or the process stops.
FailOrgCall(h) ==
    /\ InFlight(h) /\ call[h].op \in OrgMethod
    /\ Becomes(h, Idle)
    /\ fate' = IF At(h, "admit")
               THEN [fate EXCEPT ![call[h].id] = @ \cup
                        {IF IsMember(call[h].on) THEN "admitted" ELSE "dropped"}]
               ELSE fate
    /\ UNCHANGED orgVars

-----------------------------------------------------------------------------

MembershipInit ==
    /\ org = [NewOrg EXCEPT !.life = "absent"]
    /\ member = [u \in Users |-> NoMember]
    /\ join = [j \in JoinIds |-> NoJoin]
    /\ subgroup = "none" /\ hub = "none"
    /\ fate = [j \in JoinIds |-> {}]

FoundingNext ==
    \E h \in Handlers :
        \/ CreateSettings(h) \/ AddCreator(h) \/ AddChat(h) \/ DiffOrg(h) \/ WriteOrg(h)
        \/ FailOrgCall(h)
        \/ \E by \in Users : createOrg(h, by)

EditingNext ==
    \/ \E h \in Handlers, by \in Users :
          updateOrg(h, by) \/ createOrgChat(h, by) \/ updateHub(h, by)
    \/ \E h \in Handlers : SaveHub(h)
    \/ \E by \in Users : getSettings(by) \/ createHub(by) \/ deleteHub(by)
    \/ createSubgroup

RolesNext ==
    \/ \E h \in Handlers, by, u \in Users, role \in OrgRole, deputy \in BOOLEAN :
          updateMemberRole(h, by, u, role, deputy)
    \/ \E h \in Handlers : SaveRole(h)

ComingAndGoingNext ==
    \/ \E h \in Handlers, u \in Users : leave(h, u) \/ deleteOrg(h, u)
    \/ \E h \in Handlers : Leave(h) \/ RemoveOrg(h)
    \/ \E by, u \in Users :
          removeMember(by, u) \/ \E role \in OrgRole : addMember(by, u, role)

JoiningNext ==
    \/ \E h \in Handlers, u \in Users : createJoinRequest(h, u)
    \/ \E h \in Handlers, j \in JoinIds :
          \/ InsertJoinRequest(h, j)
          \/ \E verdict \in Verdicts : handleJoinRequest(h, j, verdict)
    \/ \E h \in Handlers : Decide(h) \/ Admit(h)

MembershipNext ==
    FoundingNext \/ EditingNext \/ RolesNext \/ ComingAndGoingNext \/ JoiningNext

MembershipSpec ==
    MembershipInit /\ CallsInit /\ [][MembershipNext]_<<membershipVars, flight>>

-----------------------------------------------------------------------------
(* Properties *)

Ends(h, step) == At(h, step) /\ ~InFlight(h)'

\* Editing an organisation writes its own columns only, as long as nobody wrote
\* in between: no member comes, goes or changes role, subgroups and hubs stay,
\* nothing that was removed comes back (update, createOrgChat, save(org)).
EditKeepsTheRest ==
    [][\A h \in Handlers : Ends(h, "write") /\ call[h].alone =>
           /\ UNCHANGED <<member, join, subgroup, hub>>
           /\ org' = [org EXCEPT !.details = org'.details, !.chat = org'.chat]
           /\ org.chat => org'.chat]_orgVars

\* "You are the last leader": leave() never takes the last leader away, unless
\* another call changed the members after the count.
LeaveKeepsALeader ==
    [][\A h \in Handlers : Ends(h, "leave") /\ call[h].alone /\ Leaders # {} =>
           Leaders' # {}]_orgVars

\* A second request to join waits beside the first one only if two calls of
\* createJoinRequest ran into each other: nothing in the table forbids it.
OnePendingEach ==
    [][\A h \in Handlers, u \in Users :
           Ends(h, "join") /\ call[h].on = u /\ call[h].alone =>
               Cardinality(Pending(u)') <= 1]_orgVars

\* Whatever reviewers decide at once and wherever handleJoinRequest stops: the
\* applicant of an approved request became a member, is about to, or an admission
\* of his failed; the applicant of a rejected one became a member through it only
\* if another reviewer had approved it, whose verdict was then overwritten.
VerdictCarriedOut ==
    \A j \in JoinIds :
        /\ join[j].status = "approved" =>
               \/ fate[j] \cap {"admitted", "dropped"} # {}
               \/ \E h \in Handlers : At(h, "admit") /\ call[h].id = j
        /\ join[j].status = "rejected" /\ "admitted" \in fate[j] => "approved" \in fate[j]

\* An organisation that has subgroups is not deleted, unless one was founded after
\* deleteOrg looked: the subgroup then loses its parent.
DeleteSparesSubgroups ==
    [][\A h \in Handlers : Ends(h, "remove") /\ call[h].alone =>
           subgroup' = subgroup]_orgVars

=============================================================================
