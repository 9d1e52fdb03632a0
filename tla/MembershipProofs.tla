---------------------------- MODULE MembershipProofs ----------------------------
(***************************************************************************)
(* Theorems about Membership, for any number of people, calls in flight    *)
(* and requests to join.                                                   *)
(*                                                                         *)
(* The strengthening: while nobody has written since a call began, its     *)
(* copy of the organisation differs from the rows in what its method is    *)
(* about, and what the method checked is still so.                         *)
(***************************************************************************)
EXTENDS Membership, FiniteSetTheorems, TLAPS

\* The row of a member has a role, or there is no row.
WellFormed(rows) == \A u \in Users : rows[u].role = "none" => rows[u] = NoMember

\* Requests to join are numbered without gaps.
JoinsAreNumbered ==
    \E n \in 0..MaxJoins : \A j \in JoinIds : join[j] # NoJoin <=> j <= n

OrgRowsHold ==
    /\ org \in OrgRow
    /\ member \in [Users -> MemberRow] /\ WellFormed(member)
    /\ join \in [JoinIds -> JoinRow \cup {NoJoin}] /\ JoinsAreNumbered
    /\ subgroup \in Attachment /\ hub \in Attachment

\* Before it is founded there is nothing to call anything on.
NothingYet ==
    org.life = "absent" =>
        /\ \A h \in Handlers : ~InFlight(h)
        /\ \A u \in Users : ~IsMember(u)
        /\ \A j \in JoinIds : join[j] = NoJoin
        /\ hub = "none"

\* A method that loaded the organisation has changed details or chat of the copy.
CopyIsRow(c) ==
    /\ org.life = "live" /\ c.org.settings = org.settings
    /\ c.member = member /\ c.subgroup = subgroup /\ c.hub = hub
    /\ c.op = "updateOrg" => c.org.chat = org.chat
    /\ c.op = "createOrgChat" => c.org.details = org.details

\* create() compares the row with what it inserted.
RowIsNew == org.life = "live" /\ org.details = 0

WhileAlone(c) ==
    /\ c.op \in {"updateOrg", "createOrgChat"} => CopyIsRow(c)
    /\ c.op = "createOrg" => RowIsNew
    /\ c.step = "write" => c.diff \subseteq {"details", "chat"} /\ c.upd = {} /\ c.ins = {}
    /\ c.step = "leave" => Leaders # {c.on}
    /\ c.step = "remove" => subgroup # "attached"
    /\ c.step = "join" => Pending(c.on) = {}
    /\ c.step = "decide" => join[c.id].status = "pending"

\* What the method made of its copy.
OrgCallHolds(c) ==
    /\ c \in OrgCall /\ WellFormed(c.member) /\ c.org.life = "live"
    /\ c.step \in {"settings", "creator"} => c.op = "createOrg"
    /\ c.step = "chat" => c.op \in {"createOrg", "createOrgChat"}
    /\ c.step \in {"diff", "write"} =>
           c.op \in OrgSave /\ (c.op # "updateOrg" => c.org.chat)
    /\ c.op = "createOrg" => c.org.details = 0 /\ \A u \in Users : c.member[u] = NoMember
    /\ c.step = "write" =>
           \A u \in Users, k \in {"role", "deputy"} :
               <<u, k>> \in c.upd => c.member[u].role # "none"
    /\ c.step = "role" => c.member[c.on].role # "none"
    /\ c.step \in {"decide", "admit"} => c.id \in JoinIds
    /\ c.alone => WhileAlone(c)

OrgCallsHold ==
    /\ call = [g \in Handlers |-> call[g]]
    /\ \A h \in Handlers : InFlight(h) => OrgCallHolds(call[h])

MembersInv == OrgRowsHold /\ NothingYet /\ OrgCallsHold

LEMMA NewRows ==
    /\ NewOrg \in OrgRow /\ NewOrg.life = "live"
    /\ NoMember \in MemberRow /\ NoMember.role = "none"
    /\ NoJoin \notin JoinRow /\ NoJoin.status = "none"
BY DEF NewOrg, OrgRow, NoMember, MemberRow, NoJoin, JoinRow

LEMMA MembersInvInit == MembershipInit /\ CallsInit => MembersInv
<1> SUFFICES ASSUME MembershipInit, CallsInit PROVE MembersInv
  OBVIOUS
<1>1. org \in OrgRow
  BY NewRows DEF MembershipInit, NewOrg, OrgRow
<1>2. member \in [Users -> MemberRow] /\ WellFormed(member)
  BY NewRows DEF MembershipInit, WellFormed
<1>3. join \in [JoinIds -> JoinRow \cup {NoJoin}] /\ JoinsAreNumbered
  <2>1. 0 \in 0..MaxJoins /\ \A j \in JoinIds : ~(j <= 0)
    BY JoinAssumption DEF JoinIds
  <2> QED
    BY <2>1 DEF MembershipInit, JoinsAreNumbered
<1>4. \A h \in Handlers : ~InFlight(h)
  BY DEF CallsInit, InFlight
<1>5. NothingYet
  BY <1>4, NewRows DEF NothingYet, MembershipInit, IsMember
<1>6. OrgCallsHold
  BY <1>4 DEF OrgCallsHold, CallsInit
<1> QED
  BY <1>1, <1>2, <1>3, <1>5, <1>6 DEF MembersInv, OrgRowsHold, MembershipInit, Attachment


-----------------------------------------------------------------------------
(* The calls in flight. *)

LEMMA NoOrgCallIsIdle == Idle \notin OrgCall
BY DEF OrgCall, Idle, OrgMethod, OrgSave

\* Only handler h moves, and nothing is written.
LEMMA QuietOrgStep ==
    ASSUME MembersInv, NEW h \in Handlers, NEW c, UNCHANGED orgVars,
           call' = [call EXCEPT ![h] = c],
           c = Idle \/ (OrgCallHolds(c) /\ org.life # "absent")
    PROVE  MembersInv'
<1>1. /\ call' = [g \in Handlers |-> IF g = h THEN c ELSE call[g]]
      /\ \A g \in Handlers : call'[g] = IF g = h THEN c ELSE call[g]
  BY DEF MembersInv, OrgCallsHold
<1>2. ASSUME NEW g \in Handlers, InFlight(g)'
      PROVE  OrgCallHolds(call[g])'
  <2>1. OrgCallHolds(call'[g])
    BY <1>1, <1>2 DEF MembersInv, OrgCallsHold, InFlight
  <2> QED
    BY <2>1 DEF OrgCallHolds, WhileAlone, CopyIsRow, RowIsNew, Leaders, Pending, orgVars
<1>3. OrgCallsHold'
  BY <1>1, <1>2 DEF OrgCallsHold
<1>4. OrgRowsHold'
  BY DEF MembersInv, OrgRowsHold, JoinsAreNumbered, orgVars
<1>5. NothingYet'
  BY <1>1 DEF MembersInv, NothingYet, IsMember, InFlight, orgVars
<1> QED
  BY <1>3, <1>4, <1>5 DEF MembersInv

\* What becomes of a call when others write.
Overtaken(g) ==
    \/ call'[g] = Idle
    \/ InFlight(g) /\ \E new \in SUBSET Users :
           call'[g] \in {[call[g] EXCEPT !.alone = FALSE],
                         [call[g] EXCEPT !.alone = FALSE, !.fresh = @ \cup new]}

\* Every call but some goes on overtaken, those as calls of their own.
LEMMA WritingOrgStep ==
    ASSUME MembersInv, OrgRowsHold', org'.life # "absent",
           call' = [g \in Handlers |-> call'[g]],
           \A g \in Handlers : Overtaken(g) \/ OrgCallHolds(call[g])'
    PROVE  MembersInv'
<1>1. ASSUME NEW g \in Handlers, InFlight(g)'
      PROVE  OrgCallHolds(call[g])'
  <2>1. CASE Overtaken(g)
    <3>1. InFlight(g) /\ OrgCallHolds(call[g]) /\ call[g] \in OrgCall
      BY <1>1, <2>1 DEF Overtaken, InFlight, MembersInv, OrgCallsHold, OrgCallHolds
    <3>2. PICK c : c = call[g]
      OBVIOUS
    <3>3. /\ call'[g] \in OrgCall /\ ~call'[g].alone
          /\ call'[g].op = c.op /\ call'[g].step = c.step
          /\ call'[g].on = c.on /\ call'[g].id = c.id
          /\ call'[g].org = c.org /\ call'[g].member = c.member /\ call'[g].upd = c.upd
      <4>1. PICK new \in SUBSET Users :
                \/ call'[g] = [c EXCEPT !.alone = FALSE]
                \/ call'[g] = [c EXCEPT !.alone = FALSE, !.fresh = @ \cup new]
        BY <1>1, <2>1, <3>2 DEF Overtaken, InFlight
      <4>2. c \in OrgCall /\ c.fresh \in SUBSET Users
        BY <3>1, <3>2 DEF OrgCall
      <4>3. CASE call'[g] = [c EXCEPT !.alone = FALSE]
        BY <4>2, <4>3 DEF OrgCall
      <4>4. CASE call'[g] = [c EXCEPT !.alone = FALSE, !.fresh = @ \cup new]
        <5>1. PICK fresh \in SUBSET Users : fresh = c.fresh \cup new
          BY <4>2
        <5>2. call'[g] = [c EXCEPT !.alone = FALSE, !.fresh = fresh]
          BY <4>2, <4>4, <5>1 DEF OrgCall
        <5> QED
          BY <4>2, <5>2 DEF OrgCall
      <4> QED
        BY <4>1, <4>3, <4>4
    <3> QED
      BY <3>1, <3>2, <3>3 DEF OrgCallHolds, WellFormed
  <2> QED
    BY <2>1
<1> QED
  BY <1>1 DEF MembersInv, OrgCallsHold, NothingYet

-----------------------------------------------------------------------------
(* The calls that begin. *)

LEMMA OrgCallingIsCall ==
    ASSUME NEW op \in OrgMethod, NEW step \in OrgStep, NEW u \in Users,
           NEW c, c = OrgCalling(op, step, u)
    PROVE  /\ c \in OrgCall /\ c.op = op /\ c.step = step /\ c.on = u
           /\ c.org = NewOrg /\ c.member = [v \in Users |-> NoMember]
           /\ WellFormed(c.member) /\ c.org.life = "live"
<1>1. [v \in Users |-> NoMember] \in [Users -> MemberRow] /\ 0 \in 0..MaxJoins
  BY NewRows, JoinAssumption
<1>2. /\ c \in OrgCall /\ c.op = op /\ c.step = step /\ c.on = u
      /\ c.org = NewOrg /\ c.member = [v \in Users |-> NoMember]
  BY <1>1, NewRows DEF OrgCalling, OrgCall, Attachment, Verdicts
<1> QED
  BY <1>2, NewRows DEF WellFormed

LEMMA OrgWords ==
    /\ \A op \in {"updateOrg", "createOrgChat", "createOrg", "delete", "leave",
                  "updateMemberRole", "updateHub", "createJoinRequest",
                  "handleJoinRequest"} : op \in OrgMethod
    /\ \A step \in {"settings", "creator", "chat", "diff", "write", "remove", "leave",
                    "role", "hub", "join", "decide", "admit"} : step \in OrgStep
BY DEF OrgMethod, OrgSave, OrgStep

LEMMA BeginOrgKeeps ==
    ASSUME MembersInv, NEW h \in Handlers, NEW c, BeginOrgCall(h, c),
           OrgCallHolds(c), org.life # "absent"
    PROVE  MembersInv'
BY QuietOrgStep DEF BeginOrgCall, Begin, membershipVars

\* The calls that copy nothing.
LEMMA CheckingCallsKeep ==
    ASSUME MembersInv, NEW h \in Handlers, NEW u \in Users,
           \/ leave(h, u) \/ deleteOrg(h, u) \/ createJoinRequest(h, u) \/ updateHub(h, u)
    PROVE  MembersInv'
<1>1. CASE leave(h, u)
  <2>1. PICK c : c = OrgCalling("leave", "leave", u)
    OBVIOUS
  <2>2. /\ c \in OrgCall /\ c.op = "leave" /\ c.step = "leave" /\ c.on = u
        /\ WellFormed(c.member) /\ c.org.life = "live"
    BY <2>1, OrgWords, OrgCallingIsCall
  <2>3. org.life # "absent"
    BY <1>1 DEF leave, MayLeave, MembersInv, NothingYet
  <2>4. Leaders # {u}
    <3>1. Cardinality({u}) = 1
      BY FS_Singleton
    <3>2. u \in Leaders => Cardinality(Leaders) > 1
      BY <1>1 DEF leave, MayLeave
    <3> QED
      BY <3>1, <3>2
  <2>5. OrgCallHolds(c)
    BY <2>2, <2>4 DEF OrgCallHolds, WhileAlone
  <2> QED
    BY <1>1, <2>1, <2>3, <2>5, BeginOrgKeeps DEF leave
<1>2. CASE deleteOrg(h, u)
  <2>1. PICK c : c = OrgCalling("delete", "remove", u)
    OBVIOUS
  <2>2. /\ c \in OrgCall /\ c.op = "delete" /\ c.step = "remove"
        /\ WellFormed(c.member) /\ c.org.life = "live"
    BY <2>1, OrgWords, OrgCallingIsCall
  <2>3. subgroup # "attached" /\ org.life # "absent"
    BY <1>2 DEF deleteOrg, MayDelete
  <2>4. OrgCallHolds(c)
    BY <2>2, <2>3 DEF OrgCallHolds, WhileAlone
  <2> QED
    BY <1>2, <2>1, <2>3, <2>4, BeginOrgKeeps DEF deleteOrg
<1>3. CASE createJoinRequest(h, u)
  <2>1. PICK c : c = OrgCalling("createJoinRequest", "join", u)
    OBVIOUS
  <2>2. /\ c \in OrgCall /\ c.op = "createJoinRequest" /\ c.step = "join" /\ c.on = u
        /\ WellFormed(c.member) /\ c.org.life = "live"
    BY <2>1, OrgWords, OrgCallingIsCall
  <2>3. Pending(u) = {} /\ org.life # "absent"
    BY <1>3 DEF createJoinRequest, MayAsk
  <2>4. OrgCallHolds(c)
    BY <2>2, <2>3 DEF OrgCallHolds, WhileAlone
  <2> QED
    BY <1>3, <2>1, <2>3, <2>4, BeginOrgKeeps DEF createJoinRequest
<1>4. CASE updateHub(h, u)
  <2>1. PICK c : c = OrgCalling("updateHub", "hub", u)
    OBVIOUS
  <2>2. /\ c \in OrgCall /\ c.op = "updateHub" /\ c.step = "hub"
        /\ WellFormed(c.member) /\ c.org.life = "live"
    BY <2>1, OrgWords, OrgCallingIsCall
  <2>3. org.life # "absent"
    BY <1>4 DEF updateHub, MembersInv, NothingYet
  <2>4. OrgCallHolds(c)
    BY <2>2 DEF OrgCallHolds, WhileAlone
  <2> QED
    BY <1>4, <2>1, <2>3, <2>4, BeginOrgKeeps DEF updateHub
<1> QED
  BY <1>1, <1>2, <1>3, <1>4

LEMMA DecidingCallKeeps ==
    ASSUME MembersInv, NEW h \in Handlers, NEW j \in JoinIds,
           NEW verdict \in Verdicts, handleJoinRequest(h, j, verdict)
    PROVE  MembersInv'
<1>1. join[j].status = "pending" /\ join[j] \in JoinRow
  BY NewRows DEF handleJoinRequest, MayDecide, MembersInv, OrgRowsHold
<1>2. join[j].user \in Users /\ join[j] # NoJoin
  BY <1>1, NewRows DEF JoinRow
<1>3. PICK b : b = OrgCalling("handleJoinRequest", "decide", join[j].user)
  OBVIOUS
<1>4. /\ b \in OrgCall /\ b.op = "handleJoinRequest" /\ b.step = "decide"
      /\ WellFormed(b.member) /\ b.org.life = "live"
  BY <1>2, <1>3, OrgWords, OrgCallingIsCall
<1>5. PICK c : c = [b EXCEPT !.id = j, !.new = verdict]
  OBVIOUS
<1>6. j \in 0..MaxJoins
  BY JoinAssumption DEF JoinIds
<1>7. /\ c \in OrgCall /\ c.op = "handleJoinRequest" /\ c.step = "decide" /\ c.id = j
      /\ c.member = b.member /\ c.org = b.org
  BY <1>4, <1>5, <1>6 DEF OrgCall
<1>8. OrgCallHolds(c)
  BY <1>1, <1>4, <1>7 DEF OrgCallHolds, WhileAlone
<1>9. org.life # "absent"
  BY <1>2 DEF MembersInv, NothingYet
<1> QED
  BY <1>3, <1>5, <1>8, <1>9, BeginOrgKeeps DEF handleJoinRequest

LEMMA RoleCallKeeps ==
    ASSUME MembersInv, NEW h \in Handlers, NEW by \in Users, NEW u \in Users,
           NEW role \in OrgRole, NEW deputy \in BOOLEAN,
           updateMemberRole(h, by, u, role, deputy)
    PROVE  MembersInv'
<1>1. PICK b : b = OrgCalling("updateMemberRole", "role", u)
  OBVIOUS
<1>2. /\ b \in OrgCall /\ b.op = "updateMemberRole" /\ b.step = "role" /\ b.on = u
      /\ WellFormed(b.member) /\ b.org.life = "live"
  BY <1>1, OrgWords, OrgCallingIsCall
<1>3. PICK row : row = [role |-> role, deputy |-> deputy /\ role # "LEADER"]
  OBVIOUS
<1>4. row \in MemberRow /\ row.role = role /\ role # "none"
  BY <1>3 DEF MemberRow, OrgRole
<1>5. PICK c : c = [b EXCEPT !.member[u] = row]
  OBVIOUS
<1>6. /\ c \in OrgCall /\ c.op = "updateMemberRole" /\ c.step = "role" /\ c.on = u
      /\ c.org = b.org /\ c.member[u] = row
      /\ \A v \in Users \ {u} : c.member[v] = b.member[v]
  BY <1>2, <1>4, <1>5 DEF OrgCall
<1>7. WellFormed(c.member)
  BY <1>2, <1>4, <1>6 DEF WellFormed
<1>8. OrgCallHolds(c)
  BY <1>2, <1>4, <1>6, <1>7 DEF OrgCallHolds, WhileAlone
<1>9. org.life # "absent"
  BY DEF updateMemberRole, MembersInv, NothingYet
<1> QED
  BY <1>1, <1>3, <1>5, <1>8, <1>9, BeginOrgKeeps DEF updateMemberRole

\* The copy that findById makes.
LEMMA FoundIsCopy ==
    ASSUME MembersInv, NEW op \in {"updateOrg", "createOrgChat"}, NEW step \in OrgStep,
           NEW u \in Users, NEW c, c = Found(op, step, u)
    PROVE  /\ c \in OrgCall /\ c.op = op /\ c.step = step
           /\ c.org = org /\ c.member = member /\ c.subgroup = subgroup /\ c.hub = hub
<1>1. PICK b : b = OrgCalling(op, step, u)
  OBVIOUS
<1>2. op \in OrgMethod
  BY OrgWords
<1>3. b \in OrgCall /\ b.op = op /\ b.step = step
  BY <1>1, <1>2, OrgCallingIsCall
<1>4. c = [b EXCEPT !.org = org, !.member = member, !.subgroup = subgroup, !.hub = hub]
  BY <1>1 DEF Found
<1> QED
  BY <1>3, <1>4 DEF OrgCall, MembersInv, OrgRowsHold

LEMMA SavingCallsKeep ==
    ASSUME MembersInv, NEW h \in Handlers, NEW by \in Users,
           updateOrg(h, by) \/ createOrgChat(h, by)
    PROVE  MembersInv'
<1>1. org.life = "live" /\ org \in OrgRow /\ WellFormed(member)
  BY DEF updateOrg, createOrgChat, MembersInv, OrgRowsHold
<1>2. CASE updateOrg(h, by)
  <2>1. PICK b : b = Found("updateOrg", "diff", by)
    OBVIOUS
  <2>2. /\ b \in OrgCall /\ b.op = "updateOrg" /\ b.step = "diff" /\ b.org = org
        /\ b.member = member /\ b.subgroup = subgroup /\ b.hub = hub
    BY <2>1, OrgWords, FoundIsCopy
  <2>3. PICK row : row = [org EXCEPT !.details = 1 - org.details]
    OBVIOUS
  <2>4. /\ row \in OrgRow /\ row.life = "live" /\ row.chat = org.chat
        /\ row.settings = org.settings
    BY <1>1, <2>3 DEF OrgRow
  <2>5. PICK c : c = [b EXCEPT !.org = row]
    OBVIOUS
  <2>6. c = [b EXCEPT !.org.details = 1 - @]
    BY <2>2, <2>3, <2>5 DEF OrgCall
  <2>7. /\ c \in OrgCall /\ c.op = "updateOrg" /\ c.step = "diff" /\ c.org = row
        /\ c.member = member /\ c.subgroup = subgroup /\ c.hub = hub
    BY <2>2, <2>4, <2>5 DEF OrgCall
  <2>8. OrgCallHolds(c)
    BY <1>1, <2>4, <2>7 DEF OrgCallHolds, WhileAlone, CopyIsRow, OrgSave
  <2>9. BeginOrgCall(h, c)
    BY <1>2, <2>1, <2>6 DEF updateOrg
  <2> QED
    BY <1>1, <2>8, <2>9, BeginOrgKeeps
<1>3. CASE createOrgChat(h, by)
  <2>1. PICK c : c = Found("createOrgChat", "chat", by)
    OBVIOUS
  <2>2. /\ c \in OrgCall /\ c.op = "createOrgChat" /\ c.step = "chat" /\ c.org = org
        /\ c.member = member /\ c.subgroup = subgroup /\ c.hub = hub
    BY <2>1, OrgWords, FoundIsCopy
  <2>3. OrgCallHolds(c)
    BY <1>1, <2>2 DEF OrgCallHolds, WhileAlone, CopyIsRow
  <2> QED
    BY <1>1, <1>3, <2>1, <2>3, BeginOrgKeeps DEF createOrgChat
<1> QED
  BY <1>2, <1>3

-----------------------------------------------------------------------------
(* Founding, and the steps that write nothing. *)

LEMMA FoundingKeeps ==
    ASSUME MembersInv, NEW h \in Handlers, NEW by \in Users, createOrg(h, by)
    PROVE  MembersInv'
<1>1. PICK c : c = OrgCalling("createOrg", "settings", by)
  OBVIOUS
<1>2. /\ c \in OrgCall /\ c.op = "createOrg" /\ c.step = "settings"
      /\ c.org = NewOrg /\ c.member = [v \in Users |-> NoMember]
      /\ WellFormed(c.member) /\ c.org.life = "live"
  BY <1>1, OrgWords, OrgCallingIsCall
<1>3. call' = [g \in Handlers |-> IF g = h THEN c ELSE call[g]]
  BY <1>1 DEF createOrg, Begin, MembersInv, OrgCallsHold
<1>4. \A g \in Handlers : InFlight(g)' => call'[g] = c
  BY <1>3 DEF InFlight, createOrg, MembersInv, NothingYet
<1>5. org' = NewOrg /\ UNCHANGED <<member, join, subgroup, hub>>
  BY DEF createOrg
<1>6. OrgRowsHold'
  BY <1>5, NewRows DEF MembersInv, OrgRowsHold, JoinsAreNumbered
<1>7. \A g \in Handlers : InFlight(g)' => OrgCallHolds(call[g])'
  <2>1. NewOrg.details = 0
    BY DEF NewOrg
  <2>2. WhileAlone(c)'
    BY <1>2, <1>5, <2>1, NewRows DEF WhileAlone, RowIsNew
  <2>3. ASSUME NEW g \in Handlers, call'[g] = c PROVE OrgCallHolds(call[g])'
    BY <1>2, <2>1, <2>2, <2>3 DEF OrgCallHolds, WhileAlone, CopyIsRow, RowIsNew,
                                  Leaders, Pending
  <2> QED
    BY <1>4, <2>3
<1>8. NothingYet'
  BY <1>5, NewRows DEF NothingYet
<1>9. OrgCallsHold'
  BY <1>3, <1>7 DEF OrgCallsHold
<1> QED
  BY <1>6, <1>8, <1>9 DEF MembersInv

LEMMA ChatAndFailureKeep ==
    ASSUME MembersInv, NEW h \in Handlers, AddChat(h) \/ FailOrgCall(h)
    PROVE  MembersInv'
<1>1. CASE AddChat(h)
  <2>1. PICK c : c = call[h]
    OBVIOUS
  <2>2. OrgCallHolds(c) /\ c \in OrgCall /\ c.step = "chat" /\ org.life # "absent"
    BY <1>1, <2>1 DEF AddChat, At, MembersInv, OrgCallsHold, NothingYet, OrgCallHolds
  <2>3. PICK row : row = [c.org EXCEPT !.chat = TRUE]
    OBVIOUS
  <2>4. /\ row \in OrgRow /\ row.life = c.org.life /\ row.details = c.org.details
        /\ row.settings = c.org.settings /\ row.chat
    BY <2>2, <2>3 DEF OrgCall, OrgRow
  <2>5. PICK d : d = [c EXCEPT !.step = "diff", !.org = row]
    OBVIOUS
  <2>6. d = [c EXCEPT !.step = "diff", !.org.chat = TRUE]
    BY <2>2, <2>3, <2>5 DEF OrgCall
  <2>7. /\ d \in OrgCall /\ d.step = "diff" /\ d.org = row /\ d.op = c.op
        /\ d.member = c.member /\ d.subgroup = c.subgroup /\ d.hub = c.hub
        /\ d.alone = c.alone
    BY <2>2, <2>4, <2>5, OrgWords DEF OrgCall
  <2>8. d.op \in {"createOrg", "createOrgChat"}
    BY <2>2, <2>7 DEF OrgCallHolds
  <2>9. d.alone => WhileAlone(d)
    BY <2>2, <2>4, <2>7, <2>8 DEF OrgCallHolds, WhileAlone, CopyIsRow
  <2>10. OrgCallHolds(d)
    BY <2>2, <2>4, <2>7, <2>8, <2>9 DEF OrgCallHolds, OrgSave
  <2> QED
    BY <1>1, <2>1, <2>2, <2>6, <2>10, QuietOrgStep DEF AddChat, Becomes, membershipVars
<1>2. CASE FailOrgCall(h)
  BY <1>2, QuietOrgStep DEF FailOrgCall, Becomes
<1> QED
  BY <1>1, <1>2

\* What save() of a call that is still alone finds to write.
LEMMA DiffOfAlone ==
    ASSUME OrgRowsHold, NEW c, OrgCallHolds(c), c.step = "diff", c.alone,
           NEW ins, ins = {u \in Users : Loads(c) /\ c.member[u] # NoMember /\ ~IsMember(u)}
    PROVE  /\ Differs(c) \subseteq {"details", "chat"}
           /\ MembersDiffer(c) = {} /\ ins = {}
<1>1. c.op \in OrgSave /\ c.org.life = "live" /\ WhileAlone(c)
  BY DEF OrgCallHolds
<1>2. CASE c.op = "createOrg"
  <2>1. org.life = "live" /\ ~Loads(c) /\ \A u \in Users : c.member[u] = NoMember
    BY <1>1, <1>2 DEF WhileAlone, RowIsNew, Loads, OrgCallHolds
  <2>2. Differs(c) \subseteq {"details", "chat"}
    BY <1>1, <2>1 DEF Differs
  <2>3. MembersDiffer(c) = {} /\ ins = {}
    BY <2>1 DEF MembersDiffer
  <2> QED
    BY <2>2, <2>3
<1>3. CASE c.op # "createOrg"
  <2>1. CopyIsRow(c)
    BY <1>1, <1>3 DEF WhileAlone, OrgSave
  <2>2. Differs(c) \subseteq {"details", "chat"}
    BY <1>1, <2>1 DEF CopyIsRow, Differs, Rebinds
  <2>3. ins = {}
    BY <2>1 DEF CopyIsRow, IsMember, OrgRowsHold, WellFormed
  <2>4. MembersDiffer(c) = {}
    BY <2>1 DEF CopyIsRow, MembersDiffer
  <2> QED
    BY <2>2, <2>3, <2>4
<1> QED
  BY <1>2, <1>3

LEMMA DiffOrgKeeps ==
    ASSUME MembersInv, NEW h \in Handlers, DiffOrg(h)
    PROVE  MembersInv'
<1>1. PICK c : c = call[h]
  OBVIOUS
<1>2. OrgCallHolds(c) /\ c \in OrgCall /\ c.step = "diff" /\ org.life # "absent"
  BY <1>1 DEF DiffOrg, At, MembersInv, OrgCallsHold, NothingYet, OrgCallHolds
<1>3. PICK ins : ins = {u \in Users : Loads(c) /\ c.member[u] # NoMember /\ ~IsMember(u)}
  OBVIOUS
<1>4. PICK diff, upd : diff = Differs(c) /\ upd = MembersDiffer(c)
  OBVIOUS
<1>5. PICK d : d = [c EXCEPT !.step = "write", !.diff = diff, !.upd = upd, !.ins = ins]
  OBVIOUS
<1>6. /\ diff \in SUBSET (OrgColumn \cup {"subgroup", "hub"}) /\ ins \in SUBSET Users
      /\ upd \in SUBSET (Users \X {"role", "deputy"})
  BY <1>3, <1>4 DEF Differs, MembersDiffer, OrgColumn
<1>7. /\ d \in OrgCall /\ d.step = "write" /\ d.org = c.org /\ d.op = c.op
      /\ d.member = c.member /\ d.subgroup = c.subgroup /\ d.hub = c.hub
      /\ d.alone = c.alone /\ d.diff = diff /\ d.upd = upd /\ d.ins = ins
  BY <1>2, <1>5, <1>6, OrgWords DEF OrgCall
<1>8. d.alone => WhileAlone(d)
  <2> SUFFICES ASSUME c.alone PROVE WhileAlone(d)
    BY <1>7
  <2>1. diff \subseteq {"details", "chat"} /\ upd = {} /\ ins = {}
    BY <1>2, <1>3, <1>4, DiffOfAlone DEF MembersInv
  <2>2. WhileAlone(c)
    BY <1>2 DEF OrgCallHolds
  <2> QED
    BY <1>7, <2>1, <2>2 DEF WhileAlone, CopyIsRow
<1>9. OrgCallHolds(d)
  <2>1. \A u \in Users, k \in {"role", "deputy"} :
            <<u, k>> \in upd => c.member[u].role # "none"
    BY <1>2, <1>4 DEF MembersDiffer, OrgCallHolds, WellFormed
  <2> QED
    BY <1>2, <1>7, <1>8, <2>1 DEF OrgCallHolds
<1>10. call' = [call EXCEPT ![h] = d] \/ call' = [call EXCEPT ![h] = Idle]
  BY <1>1, <1>3, <1>4, <1>5 DEF DiffOrg, Becomes
<1> QED
  BY <1>2, <1>9, <1>10, QuietOrgStep DEF DiffOrg, membershipVars

-----------------------------------------------------------------------------
(* The steps that write. *)

LEMMA OthersAreOvertaken ==
    ASSUME NEW g \in Handlers,
           \/ call'[g] = Disturbed(g)
           \/ \E new \in SUBSET Users : call'[g] = MemberCame(g, new)
    PROVE  Overtaken(g)
<1>1. CASE call'[g] = Disturbed(g)
  BY <1>1 DEF Disturbed, Overtaken
<1>2. CASE \E new \in SUBSET Users : call'[g] = MemberCame(g, new)
  BY <1>2 DEF MemberCame, Overtaken
<1> QED
  BY <1>1, <1>2

\* A step of call h, which ends it or leaves it as c.
LEMMA WriterKeeps ==
    ASSUME MembersInv, OrgRowsHold', org'.life # "absent", NEW h \in Handlers, NEW c,
           \/ WritesAndBecomes(h, c)
           \/ \E new \in SUBSET Users : InsertsMembers(h, c, new),
           c = Idle \/ (call'[h] = c => OrgCallHolds(call[h])')
    PROVE  MembersInv'
<1>1. CASE WritesAndBecomes(h, c)
  <2>1. /\ call' = [g \in Handlers |-> IF g = h THEN c ELSE Disturbed(g)]
        /\ \A g \in Handlers : call'[g] = IF g = h THEN c ELSE Disturbed(g)
    BY <1>1 DEF WritesAndBecomes
  <2>2. call' = [g \in Handlers |-> call'[g]]
    BY <2>1
  <2>3. \A g \in Handlers : Overtaken(g) \/ OrgCallHolds(call[g])'
    BY <2>1, OthersAreOvertaken DEF Overtaken
  <2> QED
    BY <2>2, <2>3, WritingOrgStep
<1>2. ASSUME NEW new \in SUBSET Users, InsertsMembers(h, c, new) PROVE MembersInv'
  <2>1. /\ call' = [g \in Handlers |-> IF g = h THEN c ELSE MemberCame(g, new)]
        /\ \A g \in Handlers : call'[g] = IF g = h THEN c ELSE MemberCame(g, new)
    BY <1>2 DEF InsertsMembers
  <2>2. call' = [g \in Handlers |-> call'[g]]
    BY <2>1
  <2>3. \A g \in Handlers : Overtaken(g) \/ OrgCallHolds(call[g])'
    BY <2>1, OthersAreOvertaken DEF Overtaken
  <2> QED
    BY <2>2, <2>3, WritingOrgStep
<1> QED
  BY <1>1, <1>2

\* A call of one statement.
LEMMA BriefKeeps ==
    ASSUME MembersInv, OrgRowsHold', org'.life # "absent",
           \/ Disturbs
           \/ \E new \in SUBSET Users : call' = [g \in Handlers |-> MemberCame(g, new)]
    PROVE  MembersInv'
<1>1. CASE Disturbs
  <2>1. /\ call' = [g \in Handlers |-> call'[g]]
        /\ \A g \in Handlers : call'[g] = Disturbed(g)
    BY <1>1 DEF Disturbs
  <2> QED
    BY <2>1, OthersAreOvertaken, WritingOrgStep
<1>2. ASSUME NEW new \in SUBSET Users, call' = [g \in Handlers |-> MemberCame(g, new)]
      PROVE  MembersInv'
  <2>1. /\ call' = [g \in Handlers |-> call'[g]]
        /\ \A g \in Handlers : call'[g] = MemberCame(g, new)
    BY <1>2
  <2> QED
    BY <2>1, OthersAreOvertaken, WritingOrgStep
<1> QED
  BY <1>1, <1>2

\* One row of the members changes.
LEMMA MemberRowsHold ==
    ASSUME OrgRowsHold, NEW u \in Users, NEW row \in MemberRow,
           row.role = "none" => row = NoMember,
           member' = [member EXCEPT ![u] = row], UNCHANGED <<org, join, subgroup, hub>>
    PROVE  OrgRowsHold'
<1>1. member' \in [Users -> MemberRow] /\ WellFormed(member)'
  BY DEF OrgRowsHold, WellFormed
<1> QED
  BY <1>1 DEF OrgRowsHold, JoinsAreNumbered

LEMMA JoiningRowsHold ==
    ASSUME OrgRowsHold, NEW u \in Users, NEW role \in OrgRole, member' = JoinedAs(u, role),
           UNCHANGED <<org, join, subgroup, hub>>
    PROVE  OrgRowsHold'
<1>1. PICK row : row = [role |-> role, deputy |-> FALSE]
  OBVIOUS
<1>2. row \in MemberRow /\ row.role # "none"
  BY <1>1 DEF MemberRow, OrgRole
<1> QED
  BY <1>1, <1>2, MemberRowsHold DEF JoinedAs

\* Settings, subgroups, hubs.
LEMMA LinkedRowsHold ==
    ASSUME OrgRowsHold, org' \in OrgRow, subgroup' \in Attachment, hub' \in Attachment,
           UNCHANGED <<member, join>>
    PROVE  OrgRowsHold'
BY DEF OrgRowsHold, WellFormed, JoinsAreNumbered

LEMMA BriefCallsKeep ==
    ASSUME MembersInv, NEW by \in Users,
           \/ getSettings(by) \/ createHub(by) \/ deleteHub(by)
    PROVE  MembersInv'
<1>1. OrgRowsHold'
  <2>1. org' \in OrgRow /\ UNCHANGED <<member, join>>
    BY DEF getSettings, createHub, deleteHub, MembersInv, OrgRowsHold, OrgRow
  <2>2. subgroup' \in Attachment /\ hub' \in Attachment
    BY DEF getSettings, createHub, deleteHub, MembersInv, OrgRowsHold,
           Attachment
  <2> QED
    BY <2>1, <2>2, LinkedRowsHold DEF MembersInv
<1>2. org'.life # "absent"
  BY DEF getSettings, createHub, deleteHub, MembersInv, NothingYet,
         OrgRowsHold, OrgRow
<1> QED
  BY <1>1, <1>2, BriefKeeps DEF getSettings, createHub, deleteHub

LEMMA SubgroupKeeps ==
    ASSUME MembersInv, createSubgroup
    PROVE  MembersInv'
<1>1. /\ org' \in OrgRow /\ org'.life # "absent" /\ UNCHANGED <<member, join>>
      /\ subgroup' \in Attachment /\ hub' \in Attachment
  BY DEF createSubgroup, MembersInv, OrgRowsHold, Attachment
<1>2. OrgRowsHold'
  BY <1>1, LinkedRowsHold DEF MembersInv
<1> QED
  BY <1>1, <1>2, BriefKeeps DEF createSubgroup

LEMMA MembersComeAndGo ==
    ASSUME MembersInv, NEW by \in Users, NEW u \in Users,
           removeMember(by, u) \/ \E role \in OrgRole : addMember(by, u, role)
    PROVE  MembersInv'
<1>1. CASE removeMember(by, u)
  <2>1. OrgRowsHold'
    BY <1>1, NewRows, MemberRowsHold DEF removeMember, MembersInv
  <2>2. org'.life # "absent"
    BY <1>1 DEF removeMember, MembersInv, NothingYet
  <2> QED
    BY <1>1, <2>1, <2>2, BriefKeeps DEF removeMember
<1>2. ASSUME NEW role \in OrgRole, addMember(by, u, role) PROVE MembersInv'
  <2>1. OrgRowsHold'
    BY <1>2, JoiningRowsHold DEF addMember, MembersInv
  <2>2. org'.life # "absent"
    BY <1>2 DEF addMember
  <2>3. {u} \in SUBSET Users
    OBVIOUS
  <2> QED
    BY <1>2, <2>1, <2>2, <2>3, BriefKeeps DEF addMember
<1> QED
  BY <1>1, <1>2

LEMMA CreateSettingsKeeps ==
    ASSUME MembersInv, NEW h \in Handlers, CreateSettings(h)
    PROVE  MembersInv'
<1>1. PICK c, d : c = call[h] /\ d = [call[h] EXCEPT !.step = "creator"]
  OBVIOUS
<1>2. OrgCallHolds(c) /\ c \in OrgCall /\ c.step = "settings"
  BY <1>1 DEF CreateSettings, At, MembersInv, OrgCallsHold, OrgCallHolds
<1>3. /\ d \in OrgCall /\ d.step = "creator" /\ d.op = c.op /\ d.org = c.org
      /\ d.member = c.member /\ d.alone = c.alone /\ c.op = "createOrg"
  BY <1>1, <1>2, OrgWords DEF OrgCall, OrgCallHolds
<1>4. /\ org' = [org EXCEPT !.settings = TRUE] /\ org \in OrgRow /\ org.life = "live"
      /\ UNCHANGED <<member, join, subgroup, hub>> /\ WritesAndBecomes(h, d)
  BY <1>1 DEF CreateSettings, MembersInv, OrgRowsHold
<1>5. org' \in OrgRow /\ org'.life = "live" /\ org'.details = org.details
  BY <1>4 DEF OrgRow
<1>6. OrgRowsHold'
  BY <1>4, <1>5, LinkedRowsHold DEF MembersInv, OrgRowsHold
<1>7. c.alone => RowIsNew
  BY <1>2, <1>3 DEF OrgCallHolds, WhileAlone
<1>8. d.alone => WhileAlone(d)'
  BY <1>3, <1>5, <1>7 DEF WhileAlone, RowIsNew
<1>9. ASSUME call'[h] = d PROVE OrgCallHolds(call[h])'
  <2>1. WhileAlone(d)' => WhileAlone(call[h])'
    BY <1>9 DEF WhileAlone, CopyIsRow, RowIsNew, Leaders, Pending
  <2> QED
    BY <1>2, <1>3, <1>8, <1>9, <2>1 DEF OrgCallHolds
<1>10. org'.life # "absent"
  BY <1>5
<1> QED
  BY <1>4, <1>6, <1>9, <1>10, WriterKeeps

LEMMA AddCreatorKeeps ==
    ASSUME MembersInv, NEW h \in Handlers, AddCreator(h)
    PROVE  MembersInv'
<1>1. PICK c, d : c = call[h] /\ d = [call[h] EXCEPT !.step = "chat"]
  OBVIOUS
<1>2. OrgCallHolds(c) /\ c \in OrgCall /\ c.step = "creator"
  BY <1>1 DEF AddCreator, At, MembersInv, OrgCallsHold, OrgCallHolds
<1>3. /\ d \in OrgCall /\ d.step = "chat" /\ d.op = c.op /\ d.org = c.org
      /\ d.member = c.member /\ d.alone = c.alone /\ c.op = "createOrg"
  BY <1>1, <1>2, OrgWords DEF OrgCall, OrgCallHolds
<1>4. /\ member' = JoinedAs(c.on, "LEADER") /\ c.on \in Users
      /\ UNCHANGED <<org, join, subgroup, hub>> /\ org.life = "live"
      /\ InsertsMembers(h, d, {c.on})
  BY <1>1, <1>2 DEF AddCreator, OrgCall
<1>5. OrgRowsHold'
  <2>1. "LEADER" \in OrgRole
    BY DEF OrgRole
  <2> QED
    BY <1>4, <2>1, JoiningRowsHold DEF MembersInv
<1>6. c.alone => RowIsNew
  BY <1>2, <1>3 DEF OrgCallHolds, WhileAlone
<1>7. d.alone => WhileAlone(d)'
  BY <1>3, <1>4, <1>6 DEF WhileAlone, RowIsNew
<1>8. ASSUME call'[h] = d PROVE OrgCallHolds(call[h])'
  <2>1. WhileAlone(d)' => WhileAlone(call[h])'
    BY <1>8 DEF WhileAlone, CopyIsRow, RowIsNew, Leaders, Pending
  <2> QED
    BY <1>2, <1>3, <1>7, <1>8, <2>1 DEF OrgCallHolds
<1>9. {c.on} \in SUBSET Users /\ org'.life # "absent"
  BY <1>4
<1> QED
  BY <1>4, <1>5, <1>8, <1>9, WriterKeeps

\* save() writes rows that are still of their tables.
LEMMA WriteOrgKeeps ==
    ASSUME MembersInv, NEW h \in Handlers, WriteOrg(h)
    PROVE  MembersInv'
<1>1. PICK c : c = call[h]
  OBVIOUS
<1>2. OrgCallHolds(c) /\ c \in OrgCall /\ c.step = "write" /\ ~Clashes(c)
  BY <1>1 DEF WriteOrg, At, MembersInv, OrgCallsHold, OrgCallHolds
<1>3. /\ org' = [k \in OrgColumn |-> IF k \in c.diff THEN c.org[k] ELSE org[k]]
      /\ member' = [u \in Users |->
                     IF u \in c.ins THEN c.member[u]
                     ELSE IF ~IsMember(u) THEN NoMember
                     ELSE [k \in {"role", "deputy"} |->
                              IF <<u, k>> \in c.upd THEN c.member[u][k] ELSE member[u][k]]]
      /\ subgroup' = Rebound(c, "subgroup", subgroup) /\ hub' = Rebound(c, "hub", hub)
      /\ InsertsMembers(h, Idle, c.ins) /\ UNCHANGED join
  BY <1>1 DEF WriteOrg
<1>4. c.org \in OrgRow /\ org \in OrgRow /\ c.org.life = "live"
  BY <1>2 DEF OrgCallHolds, OrgCall, MembersInv, OrgRowsHold
<1>5. org' \in OrgRow /\ org'.life = "live"
  <2>1. \A k \in OrgColumn : org'[k] = IF k \in c.diff THEN c.org[k] ELSE org[k]
    BY <1>3
  <2>2. org' = [life |-> org'.life, details |-> org'.details,
                chat |-> org'.chat, settings |-> org'.settings]
    BY <1>3, Zenon DEF OrgColumn
  <2>3. org'.life = "live"
    BY <1>2, <1>4, <2>1 DEF Clashes, OrgColumn
  <2>4. org'.details \in {0, 1} /\ org'.chat \in BOOLEAN /\ org'.settings \in BOOLEAN
    BY <1>4, <2>1 DEF OrgColumn, OrgRow
  <2> QED
    BY <2>2, <2>3, <2>4 DEF OrgRow
<1>6. /\ c.member \in [Users -> MemberRow] /\ WellFormed(c.member)
      /\ member \in [Users -> MemberRow] /\ WellFormed(member)
  BY <1>2 DEF OrgCallHolds, OrgCall, MembersInv, OrgRowsHold
<1>7. ASSUME NEW u \in Users
      PROVE  member'[u] \in MemberRow /\ (member'[u].role = "none" => member'[u] = NoMember)
  <2>1. CASE u \in c.ins
    BY <1>3, <1>6, <2>1 DEF WellFormed
  <2>2. CASE u \notin c.ins /\ ~IsMember(u)
    BY <1>3, <2>2, NewRows
  <2>3. CASE u \notin c.ins /\ IsMember(u)
    <3>1. PICK row : row = [k \in {"role", "deputy"} |->
                              IF <<u, k>> \in c.upd THEN c.member[u][k] ELSE member[u][k]]
      OBVIOUS
    <3>2. row = [role |-> row.role, deputy |-> row.deputy]
      BY <3>1, Zenon
    <3>3. c.member[u] \in MemberRow /\ member[u] \in MemberRow /\ member[u].role # "none"
      BY <1>6, <2>3 DEF IsMember
    <3>4. row.role \in {c.member[u].role, member[u].role}
          /\ row.deputy \in {c.member[u].deputy, member[u].deputy}
      BY <3>1
    <3>5. row.role # "none"
      BY <1>2, <3>1, <3>3 DEF OrgCallHolds
    <3>6. row.role \in OrgRole \cup {"none"} /\ row.deputy \in BOOLEAN
      BY <3>3, <3>4 DEF MemberRow
    <3>7. row \in MemberRow
      BY <3>2, <3>6 DEF MemberRow
    <3>8. member'[u] = row
      BY <1>3, <2>3, <3>1
    <3> QED
      BY <3>5, <3>7, <3>8
  <2> QED
    BY <2>1, <2>2, <2>3
<1>8. subgroup' \in Attachment /\ hub' \in Attachment
  BY <1>3 DEF Rebound, MembersInv, OrgRowsHold, Attachment
<1>9. OrgRowsHold'
  <2>1. member' = [u \in Users |-> member'[u]]
    BY <1>3
  <2>2. member' \in [Users -> MemberRow] /\ WellFormed(member)'
    BY <1>7, <2>1 DEF WellFormed
  <2> QED
    BY <1>3, <1>5, <1>8, <2>2 DEF MembersInv, OrgRowsHold, JoinsAreNumbered
<1>10. c.ins \in SUBSET Users /\ org'.life # "absent"
  BY <1>2, <1>5 DEF OrgCall
<1> QED
  BY <1>3, <1>9, <1>10, WriterKeeps

LEMMA RemoveOrgKeeps ==
    ASSUME MembersInv, NEW h \in Handlers, RemoveOrg(h)
    PROVE  MembersInv'
<1>1. org' \in OrgRow /\ org'.life = "removed"
  BY NewRows DEF RemoveOrg, OrgRow
<1>2. member' \in [Users -> MemberRow] /\ WellFormed(member)'
  BY NewRows DEF RemoveOrg, WellFormed
<1>3. join' \in [JoinIds -> JoinRow \cup {NoJoin}] /\ JoinsAreNumbered'
  <2>1. 0 \in 0..MaxJoins /\ \A j \in JoinIds : ~(j <= 0)
    BY JoinAssumption DEF JoinIds
  <2> QED
    BY <2>1 DEF RemoveOrg, JoinsAreNumbered
<1>4. subgroup' \in Attachment /\ hub' \in Attachment
  BY DEF RemoveOrg, MembersInv, OrgRowsHold, Attachment
<1>5. OrgRowsHold'
  BY <1>1, <1>2, <1>3, <1>4 DEF OrgRowsHold
<1>6. org'.life # "absent"
  BY <1>1
<1> QED
  BY <1>5, <1>6, WriterKeeps DEF RemoveOrg

LEMMA LeaveKeeps ==
    ASSUME MembersInv, NEW h \in Handlers, Leave(h)
    PROVE  MembersInv'
<1>1. PICK u : u = call[h].on
  OBVIOUS
<1>2. u \in Users /\ org.life # "absent"
  BY <1>1 DEF Leave, At, MembersInv, OrgCallsHold, NothingYet, OrgCallHolds, OrgCall
<1>3. OrgRowsHold'
  <2>1. CASE member' = member
    BY <2>1 DEF Leave, MembersInv, OrgRowsHold, JoinsAreNumbered
  <2>2. CASE member' = [member EXCEPT ![u] = NoMember]
    BY <1>2, <2>2, NewRows, MemberRowsHold DEF Leave, MembersInv
  <2> QED
    BY <1>1, <2>1, <2>2 DEF Leave
<1> QED
  BY <1>2, <1>3, WriterKeeps DEF Leave

LEMMA SaveRoleKeeps ==
    ASSUME MembersInv, NEW h \in Handlers, SaveRole(h)
    PROVE  MembersInv'
<1>1. PICK c : c = call[h]
  OBVIOUS
<1>2. OrgCallHolds(c) /\ c \in OrgCall /\ c.step = "role"
  BY <1>1 DEF SaveRole, At, MembersInv, OrgCallsHold, OrgCallHolds
<1>3. PICK u, row : u = c.on /\ row = c.member[u]
  OBVIOUS
<1>4. u \in Users /\ row \in MemberRow /\ row.role # "none"
  BY <1>2, <1>3 DEF OrgCall, OrgCallHolds
<1>5. OrgRowsHold'
  BY <1>1, <1>3, <1>4, MemberRowsHold DEF SaveRole, MembersInv
<1>6. \E new \in SUBSET Users : InsertsMembers(h, Idle, new)
  BY <1>1, <1>3, <1>4 DEF SaveRole
<1>7. org'.life # "absent"
  BY DEF SaveRole
<1> QED
  BY <1>5, <1>6, <1>7, WriterKeeps

LEMMA SaveHubKeeps ==
    ASSUME MembersInv, NEW h \in Handlers, SaveHub(h)
    PROVE  MembersInv'
<1>1. /\ org' \in OrgRow /\ org'.life # "absent" /\ UNCHANGED <<member, join>>
      /\ subgroup' \in Attachment /\ hub' \in Attachment
  BY DEF SaveHub, MembersInv, OrgRowsHold, Attachment
<1>2. OrgRowsHold'
  BY <1>1, LinkedRowsHold DEF MembersInv
<1> QED
  BY <1>1, <1>2, WriterKeeps DEF SaveHub

-----------------------------------------------------------------------------
(* Requests to join *)

\* The next number is free: those in use have none but smaller ones.
LEMMA NextNumberIsFree ==
    ASSUME MembersInv, NEW h \in Handlers, NEW j \in JoinIds, InsertJoinRequest(h, j)
    PROVE  join[j] = NoJoin /\ \A k \in JoinIds : join[k] # NoJoin <=> k < j
<1>1. PICK n \in 0..MaxJoins : \A k \in JoinIds : join[k] # NoJoin <=> k <= n
  BY DEF MembersInv, OrgRowsHold, JoinsAreNumbered
<1>2. n \in Nat /\ MaxJoins \in Nat /\ j \in Nat /\ 1 <= j /\ j <= MaxJoins
  BY <1>1, JoinAssumption DEF JoinIds
<1>3. {k \in JoinIds : join[k] # NoJoin} = 1..n
  BY <1>1, <1>2 DEF JoinIds
<1>4. Cardinality(1..n) = n
  <2>1. 1 \in Int /\ n \in Int
    BY <1>2
  <2>2. Cardinality(1..n) = IF 1 > n THEN 0 ELSE n - 1 + 1
    BY <2>1, FS_Interval
  <2> QED
    BY <1>2, <2>2
<1>5. j = n + 1
  <2>1. j - 1 = Cardinality({k \in JoinIds : join[k] # NoJoin})
    BY DEF InsertJoinRequest
  <2>2. j - 1 = n
    BY <1>3, <1>4, <2>1, Zenon
  <2> QED
    BY <1>2, <2>2
<1>6. \A k \in JoinIds : k <= n <=> k < j
  BY <1>2, <1>5 DEF JoinIds
<1> QED
  BY <1>1, <1>2, <1>6

LEMMA InsertJoinKeeps ==
    ASSUME MembersInv, NEW h \in Handlers, NEW j \in JoinIds, InsertJoinRequest(h, j)
    PROVE  MembersInv'
<1>1. PICK u, row : u = call[h].on /\ row = [user |-> u, status |-> "pending"]
  OBVIOUS
<1>2. u \in Users
  BY <1>1 DEF InsertJoinRequest, At, MembersInv, OrgCallsHold, OrgCallHolds, OrgCall
<1>3. row \in JoinRow /\ row # NoJoin
  BY <1>1, <1>2, NewRows DEF JoinRow
<1>4. join' = [join EXCEPT ![j] = row] /\ join \in [JoinIds -> JoinRow \cup {NoJoin}]
  BY <1>1 DEF InsertJoinRequest, MembersInv, OrgRowsHold
<1>5. JoinsAreNumbered'
  <2>1. \A k \in JoinIds : join[k] # NoJoin <=> k < j
    BY NextNumberIsFree
  <2>2. j \in 0..MaxJoins /\ \A k \in JoinIds : k <= j <=> k < j \/ k = j
    BY JoinAssumption DEF JoinIds
  <2>3. \A k \in JoinIds : join'[k] # NoJoin <=> k <= j
    BY <1>3, <1>4, <2>1, <2>2
  <2> QED
    BY <2>2, <2>3 DEF JoinsAreNumbered
<1>6. join' \in [JoinIds -> JoinRow \cup {NoJoin}]
  BY <1>3, <1>4
<1>7. OrgRowsHold' /\ org'.life # "absent"
  BY <1>5, <1>6 DEF InsertJoinRequest, MembersInv, OrgRowsHold, WellFormed
<1> QED
  BY <1>7, WriterKeeps DEF InsertJoinRequest

LEMMA DecideKeeps ==
    ASSUME MembersInv, NEW h \in Handlers, Decide(h)
    PROVE  MembersInv'
<1>1. PICK c : c = call[h]
  OBVIOUS
<1>2. OrgCallHolds(c) /\ c \in OrgCall /\ c.step = "decide" /\ c.id \in JoinIds
  BY <1>1 DEF Decide, At, MembersInv, OrgCallsHold, OrgCallHolds
<1>3. PICK d : d = [c EXCEPT !.step = "admit"]
  OBVIOUS
<1>4. /\ d \in OrgCall /\ d.step = "admit" /\ d.op = c.op /\ d.org = c.org /\ d.id = c.id
      /\ d.member = c.member /\ d.alone = c.alone
      /\ d.subgroup = c.subgroup /\ d.hub = c.hub
  BY <1>2, <1>3, OrgWords DEF OrgCall
<1>5. /\ join' = [join EXCEPT ![c.id].status = c.new]
      /\ join \in [JoinIds -> JoinRow \cup {NoJoin}] /\ join[c.id] # NoJoin
      /\ c.new \in Verdicts /\ UNCHANGED <<org, member, subgroup, hub>>
  BY <1>1, <1>2 DEF Decide, OrgCall, MembersInv, OrgRowsHold
<1>6. PICK row : row = [join[c.id] EXCEPT !.status = c.new]
  OBVIOUS
<1>7. row \in JoinRow /\ row # NoJoin
  BY <1>2, <1>5, <1>6, NewRows DEF JoinRow
<1>8. /\ join'[c.id] = row /\ \A k \in JoinIds \ {c.id} : join'[k] = join[k]
      /\ join' \in [JoinIds -> JoinRow \cup {NoJoin}]
  BY <1>2, <1>5, <1>6, <1>7
<1>9. JoinsAreNumbered'
  <2>1. \A k \in JoinIds : join'[k] # NoJoin <=> join[k] # NoJoin
    BY <1>5, <1>7, <1>8
  <2> QED
    BY <2>1 DEF MembersInv, OrgRowsHold, JoinsAreNumbered
<1>10. OrgRowsHold'
  BY <1>5, <1>8, <1>9 DEF MembersInv, OrgRowsHold, WellFormed
<1>11. org'.life # "absent"
  BY <1>1, <1>5 DEF Decide, At, MembersInv, NothingYet
<1>12. PICK e : e = (IF c.new = "approved" THEN d ELSE Idle)
  OBVIOUS
<1>13. WritesAndBecomes(h, e)
  BY <1>1, <1>3, <1>12 DEF Decide, AfterVerdict
<1>14. ASSUME call'[h] = d PROVE OrgCallHolds(call[h])'
  <2>1. d.alone => WhileAlone(d)'
    BY <1>2, <1>4, <1>5 DEF OrgCallHolds, WhileAlone, CopyIsRow, RowIsNew, Leaders
  <2>2. WhileAlone(d)' => WhileAlone(call[h])'
    BY <1>14 DEF WhileAlone, CopyIsRow, RowIsNew, Leaders, Pending
  <2> QED
    BY <1>2, <1>4, <1>14, <2>1, <2>2 DEF OrgCallHolds
<1> QED
  BY <1>10, <1>11, <1>12, <1>13, <1>14, WriterKeeps

LEMMA AdmitKeeps ==
    ASSUME MembersInv, NEW h \in Handlers, Admit(h)
    PROVE  MembersInv'
<1>1. PICK u : u = call[h].on
  OBVIOUS
<1>2. u \in Users
  BY <1>1 DEF Admit, At, MembersInv, OrgCallsHold, OrgCallHolds, OrgCall
<1>3. OrgRowsHold'
  <2>1. "MEMBER" \in OrgRole
    BY DEF OrgRole
  <2> QED
    BY <1>1, <1>2, <2>1, JoiningRowsHold DEF Admit, MembersInv
<1>4. {u} \in SUBSET Users /\ org'.life # "absent" /\ InsertsMembers(h, Idle, {u})
  BY <1>1, <1>2 DEF Admit
<1> QED
  BY <1>3, <1>4, WriterKeeps

-----------------------------------------------------------------------------
(* The inductive invariant. *)

LEMMA MembersInvNext == MembersInv /\ [MembershipNext]_<<membershipVars, flight>> => MembersInv'
<1> SUFFICES ASSUME MembersInv, [MembershipNext]_<<membershipVars, flight>> PROVE MembersInv'
  OBVIOUS
<1>1. CASE FoundingNext
  BY <1>1, CreateSettingsKeeps, AddCreatorKeeps, ChatAndFailureKeep, DiffOrgKeeps,
     WriteOrgKeeps, FoundingKeeps DEF FoundingNext
<1>2. CASE EditingNext
  BY <1>2, SavingCallsKeep, CheckingCallsKeep, SaveHubKeeps, BriefCallsKeep,
     SubgroupKeeps DEF EditingNext
<1>3. CASE RolesNext
  BY <1>3, RoleCallKeeps, SaveRoleKeeps DEF RolesNext
<1>4. CASE ComingAndGoingNext
  BY <1>4, CheckingCallsKeep, LeaveKeeps, RemoveOrgKeeps, MembersComeAndGo
     DEF ComingAndGoingNext
<1>5. CASE JoiningNext
  BY <1>5, CheckingCallsKeep, InsertJoinKeeps, DecidingCallKeeps, DecideKeeps, AdmitKeeps
     DEF JoiningNext
<1>6. CASE UNCHANGED <<membershipVars, flight>>
  BY <1>6 DEF MembersInv, OrgRowsHold, JoinsAreNumbered, NothingYet, IsMember, InFlight,
              OrgCallsHold, OrgCallHolds, WhileAlone, CopyIsRow, RowIsNew, Leaders, Pending,
              orgVars, membershipVars, flight
<1> QED
  BY <1>1, <1>2, <1>3, <1>4, <1>5, <1>6 DEF MembershipNext

\* The strengthening holds throughout.
THEOREM MembersInvHolds == MembershipSpec => []MembersInv
BY MembersInvInit, MembersInvNext, PTL DEF MembershipSpec

-----------------------------------------------------------------------------
(* What a step may not do. *)

\* The steps of call h that write.
OrgStepWrites(h) ==
    \/ CreateSettings(h) \/ AddCreator(h) \/ WriteOrg(h) \/ RemoveOrg(h) \/ Leave(h)
    \/ SaveRole(h) \/ SaveHub(h) \/ Decide(h) \/ Admit(h)
    \/ \E j \in JoinIds : InsertJoinRequest(h, j)

\* A call that others overtake goes on.
LEMMA OvertakenGoesOn ==
    ASSUME MembersInv, NEW h \in Handlers, InFlight(h),
           \/ call'[h] = Disturbed(h)
           \/ \E new \in SUBSET Users : call'[h] = MemberCame(h, new)
    PROVE  InFlight(h)'
<1>1. PICK c : c = call[h]
  OBVIOUS
<1>2. c \in OrgCall /\ c.op \in OrgMethod
  BY <1>1 DEF MembersInv, OrgCallsHold, OrgCallHolds, OrgCall
<1>3. c.op # "idle" /\ Idle.op = "idle"
  BY <1>2 DEF OrgMethod, OrgSave, Idle
<1>4. CASE call'[h] = Disturbed(h)
  <2>1. call'[h].op = c.op
    BY <1>1, <1>2, <1>4 DEF Disturbed, OrgCall
  <2> QED
    BY <1>3, <2>1 DEF InFlight
<1>5. ASSUME NEW new \in SUBSET Users, call'[h] = MemberCame(h, new) PROVE InFlight(h)'
  <2>1. call'[h] = [c EXCEPT !.alone = FALSE, !.fresh = @ \cup new]
    BY <1>1, <1>5 DEF MemberCame
  <2>2. call'[h].op = c.op
    BY <1>2, <2>1 DEF OrgCall
  <2> QED
    BY <1>3, <2>2 DEF InFlight
<1> QED
  BY <1>4, <1>5

LEMMA OthersGoOn ==
    ASSUME MembersInv, NEW h \in Handlers, NEW g \in Handlers, g # h, InFlight(h), NEW c,
           \/ WritesAndBecomes(g, c)
           \/ \E new \in SUBSET Users : InsertsMembers(g, c, new)
    PROVE  InFlight(h)'
BY OvertakenGoesOn DEF WritesAndBecomes, InsertsMembers

LEMMA WriterMoves ==
    ASSUME MembersInv, NEW g \in Handlers, OrgStepWrites(g)
    PROVE  \E c : \/ WritesAndBecomes(g, c)
                  \/ \E new \in SUBSET Users : InsertsMembers(g, c, new)
<1>1. call[g] \in OrgCall
  BY DEF OrgStepWrites, CreateSettings, AddCreator, WriteOrg, RemoveOrg, Leave, SaveRole,
         SaveHub, Decide, Admit, InsertJoinRequest, At, MembersInv, OrgCallsHold, OrgCallHolds
<1>2. call[g].on \in Users /\ call[g].ins \in SUBSET Users
  BY <1>1 DEF OrgCall
<1>3. {call[g].on} \in SUBSET Users /\ {} \in SUBSET Users
  BY <1>2
<1>4. CASE AddCreator(g) \/ WriteOrg(g) \/ SaveRole(g) \/ Admit(g)
  BY <1>2, <1>3, <1>4 DEF AddCreator, WriteOrg, SaveRole, Admit
<1>5. CASE CreateSettings(g) \/ RemoveOrg(g) \/ Leave(g) \/ SaveHub(g) \/ Decide(g)
           \/ \E j \in JoinIds : InsertJoinRequest(g, j)
  BY <1>5 DEF CreateSettings, RemoveOrg, Leave, SaveHub, Decide, InsertJoinRequest
<1> QED
  BY <1>4, <1>5 DEF OrgStepWrites

\* The rows change by calls of one statement and by steps of calls in flight.
LEMMA OnlyCallsEnd ==
    ASSUME MembersInv, MembershipNext
    PROVE  \/ UNCHANGED orgVars
           \/ org.life = "absent"
           \/ Disturbs
           \/ \E new \in SUBSET Users : call' = [g \in Handlers |-> MemberCame(g, new)]
           \/ \E g \in Handlers : OrgStepWrites(g)
<1>1. CASE FoundingNext
  BY <1>1 DEF FoundingNext, AddChat, DiffOrg, FailOrgCall, createOrg, OrgStepWrites,
              membershipVars
<1>2. CASE EditingNext
  BY <1>2 DEF EditingNext, updateOrg, createOrgChat, updateHub, BeginOrgCall, getSettings,
              createHub, deleteHub, createSubgroup, OrgStepWrites, membershipVars
<1>3. CASE RolesNext
  BY <1>3 DEF RolesNext, updateMemberRole, BeginOrgCall, OrgStepWrites, membershipVars
<1>4. CASE ComingAndGoingNext
  BY <1>4 DEF ComingAndGoingNext, leave, deleteOrg, BeginOrgCall, removeMember, addMember,
              OrgStepWrites, membershipVars
<1>5. CASE JoiningNext
  BY <1>5 DEF JoiningNext, createJoinRequest, handleJoinRequest, BeginOrgCall, OrgStepWrites,
              membershipVars
<1> QED
  BY <1>1, <1>2, <1>3, <1>4, <1>5 DEF MembershipNext

\* A call ends by a writing step of its own, or the rows stay as they are.
LEMMA WhoEndsOrgCall ==
    ASSUME MembersInv, [MembershipNext]_<<membershipVars, flight>>, NEW h \in Handlers,
           InFlight(h), ~InFlight(h)'
    PROVE  UNCHANGED orgVars \/ OrgStepWrites(h)
<1>1. CASE UNCHANGED <<membershipVars, flight>>
  BY <1>1 DEF membershipVars
<1>2. CASE MembershipNext
  <2>1. org.life # "absent"
    BY DEF MembersInv, NothingYet
  <2>2. CASE Disturbs
    BY <2>2, OvertakenGoesOn DEF Disturbs
  <2>3. CASE \E new \in SUBSET Users : call' = [g \in Handlers |-> MemberCame(g, new)]
    BY <2>3, OvertakenGoesOn
  <2>4. ASSUME NEW g \in Handlers, OrgStepWrites(g), g # h PROVE FALSE
    BY <2>4, WriterMoves, OthersGoOn
  <2> QED
    BY <1>2, <2>1, <2>2, <2>3, <2>4, OnlyCallsEnd
<1> QED
  BY <1>1, <1>2

\* save() of an organisation nobody else touched.
LEMMA EditOfAlone ==
    ASSUME MembersInv, NEW h \in Handlers, WriteOrg(h), call[h].alone
    PROVE  /\ UNCHANGED <<member, join, subgroup, hub>>
           /\ org' = [org EXCEPT !.details = org'.details, !.chat = org'.chat]
           /\ org.chat => org'.chat
<1>1. PICK c : c = call[h]
  OBVIOUS
<1>2. OrgCallHolds(c) /\ c.step = "write" /\ c.alone
  BY <1>1 DEF WriteOrg, At, MembersInv, OrgCallsHold
<1>3. /\ WhileAlone(c) /\ c.diff \subseteq {"details", "chat"} /\ c.upd = {} /\ c.ins = {}
      /\ c.op \in OrgSave /\ (c.op # "updateOrg" => c.org.chat)
  BY <1>2 DEF OrgCallHolds, WhileAlone
<1>4. /\ org' = [k \in OrgColumn |-> IF k \in c.diff THEN c.org[k] ELSE org[k]]
      /\ member' = [u \in Users |->
                     IF u \in c.ins THEN c.member[u]
                     ELSE IF ~IsMember(u) THEN NoMember
                     ELSE [k \in {"role", "deputy"} |->
                              IF <<u, k>> \in c.upd THEN c.member[u][k] ELSE member[u][k]]]
      /\ subgroup' = Rebound(c, "subgroup", subgroup) /\ hub' = Rebound(c, "hub", hub)
      /\ UNCHANGED join
  BY <1>1 DEF WriteOrg
<1>5. UNCHANGED <<subgroup, hub>>
  BY <1>3, <1>4 DEF Rebound
<1>6. /\ org \in OrgRow /\ member \in [Users -> MemberRow] /\ WellFormed(member)
  BY DEF MembersInv, OrgRowsHold
<1>7. ASSUME NEW u \in Users PROVE member'[u] = member[u]
  <2>1. CASE ~IsMember(u)
    BY <1>3, <1>4, <1>6, <2>1 DEF IsMember, WellFormed
  <2>2. CASE IsMember(u)
    <3>1. member'[u] = [k \in {"role", "deputy"} |-> member[u][k]]
      BY <1>3, <1>4, <2>2
    <3>2. PICK row : row = member[u]
      OBVIOUS
    <3>3. row \in MemberRow /\ row = [role |-> row.role, deputy |-> row.deputy]
      BY <1>6, <3>2 DEF MemberRow
    <3>4. PICK copy : copy = [k \in {"role", "deputy"} |-> row[k]]
      OBVIOUS
    <3>5. copy = [role |-> copy.role, deputy |-> copy.deputy]
      BY <3>4, Zenon
    <3>6. copy.role = row.role /\ copy.deputy = row.deputy
      BY <3>4
    <3> QED
      BY <3>1, <3>2, <3>3, <3>4, <3>5, <3>6
  <2> QED
    BY <2>1, <2>2
<1>8. member' = member
  <2>1. member' = [u \in Users |-> member'[u]] /\ member = [u \in Users |-> member[u]]
    BY <1>4, <1>6
  <2> QED
    BY <1>7, <2>1
<1>9. \A k \in OrgColumn : org'[k] = IF k \in c.diff THEN c.org[k] ELSE org[k]
  BY <1>4
<1>10. org' = [org EXCEPT !.details = org'.details, !.chat = org'.chat]
  <2>1. org' = [life |-> org'.life, details |-> org'.details,
                chat |-> org'.chat, settings |-> org'.settings]
    BY <1>4, Zenon DEF OrgColumn
  <2>2. org'.life = org.life /\ org'.settings = org.settings
    BY <1>3, <1>9 DEF OrgColumn
  <2>3. org = [life |-> org.life, details |-> org.details,
               chat |-> org.chat, settings |-> org.settings]
    BY <1>6 DEF OrgRow
  <2> QED
    BY <2>1, <2>2, <2>3
<1>11. org.chat => org'.chat
  <2>1. org'.chat = IF "chat" \in c.diff THEN c.org.chat ELSE org.chat
    BY <1>9 DEF OrgColumn
  <2>2. c.op = "updateOrg" => c.org.chat = org.chat
    BY <1>3 DEF WhileAlone, CopyIsRow
  <2> QED
    BY <1>3, <2>1, <2>2
<1> QED
  BY <1>4, <1>5, <1>8, <1>10, <1>11

\* A save nobody interfered with leaves members, subgroups and hubs alone.
THEOREM EditKeeps == MembershipSpec => EditKeepsTheRest
<1>1. MembersInv /\ [MembershipNext]_<<membershipVars, flight>> =>
        [\A h \in Handlers : Ends(h, "write") /\ call[h].alone =>
           /\ UNCHANGED <<member, join, subgroup, hub>>
           /\ org' = [org EXCEPT !.details = org'.details, !.chat = org'.chat]
           /\ org.chat => org'.chat]_orgVars
  <2> SUFFICES ASSUME MembersInv, [MembershipNext]_<<membershipVars, flight>>, orgVars' # orgVars,
                      NEW h \in Handlers, Ends(h, "write"), call[h].alone
               PROVE  /\ UNCHANGED <<member, join, subgroup, hub>>
                      /\ org' = [org EXCEPT !.details = org'.details, !.chat = org'.chat]
                      /\ org.chat => org'.chat
    OBVIOUS
  <2>1. OrgStepWrites(h)
    BY WhoEndsOrgCall DEF Ends, At
  <2>2. WriteOrg(h)
    BY <2>1 DEF Ends, OrgStepWrites, CreateSettings, AddCreator, RemoveOrg, Leave,
                SaveRole, SaveHub, Decide, Admit, InsertJoinRequest, At
  <2> QED
    BY <2>2, EditOfAlone
<1> QED
  BY <1>1, MembersInvHolds, PTL DEF MembershipSpec, EditKeepsTheRest

\* leave() that nobody interfered with leaves a leader behind.
THEOREM LeaderStays == MembershipSpec => LeaveKeepsALeader
<1>1. MembersInv /\ [MembershipNext]_<<membershipVars, flight>> =>
        [\A h \in Handlers : Ends(h, "leave") /\ call[h].alone /\ Leaders # {} =>
           Leaders' # {}]_orgVars
  <2> SUFFICES ASSUME MembersInv, [MembershipNext]_<<membershipVars, flight>>, orgVars' # orgVars,
                      NEW h \in Handlers, Ends(h, "leave"), call[h].alone, Leaders # {}
               PROVE  Leaders' # {}
    OBVIOUS
  <2>1. OrgStepWrites(h)
    BY WhoEndsOrgCall DEF Ends, At
  <2>2. Leave(h)
    BY <2>1 DEF Ends, OrgStepWrites, CreateSettings, AddCreator, WriteOrg, RemoveOrg,
                SaveRole, SaveHub, Decide, Admit, InsertJoinRequest, At
  <2>3. Leaders # {call[h].on}
    BY DEF Ends, At, MembersInv, OrgCallsHold, OrgCallHolds, WhileAlone
  <2>4. PICK l \in Leaders : l # call[h].on
    BY <2>3
  <2>5. l \in Users /\ member[l].role = "LEADER" /\ member'[l] = member[l]
    BY <2>2, <2>4 DEF Leaders, Leave, MembersInv, OrgRowsHold
  <2> QED
    BY <2>5 DEF Leaders
<1> QED
  BY <1>1, MembersInvHolds, PTL DEF MembershipSpec, LeaveKeepsALeader

\* Two requests to join wait only if two calls made them at once.
THEOREM OnePending == MembershipSpec => OnePendingEach
<1>1. MembersInv /\ [MembershipNext]_<<membershipVars, flight>> =>
        [\A h \in Handlers, u \in Users :
           Ends(h, "join") /\ call[h].on = u /\ call[h].alone =>
               Cardinality(Pending(u)') <= 1]_orgVars
  <2> SUFFICES ASSUME MembersInv, [MembershipNext]_<<membershipVars, flight>>, orgVars' # orgVars,
                      NEW h \in Handlers, NEW u \in Users,
                      Ends(h, "join"), call[h].on = u, call[h].alone
               PROVE  Cardinality(Pending(u)') <= 1
    OBVIOUS
  <2>1. OrgStepWrites(h)
    BY WhoEndsOrgCall DEF Ends, At
  <2>2. PICK j \in JoinIds : InsertJoinRequest(h, j)
    BY <2>1 DEF Ends, OrgStepWrites, CreateSettings, AddCreator, WriteOrg, RemoveOrg, Leave,
                SaveRole, SaveHub, Decide, Admit, At
  <2>3. Pending(u) = {}
    BY DEF Ends, At, MembersInv, OrgCallsHold, OrgCallHolds, WhileAlone
  <2>4. Pending(u)' \subseteq {j}
    BY <2>2, <2>3 DEF Pending, InsertJoinRequest, MembersInv, OrgRowsHold
  <2>5. Pending(u)' = {} \/ Pending(u)' = {j}
    BY <2>4
  <2>6. Cardinality({}) = 0 /\ Cardinality({j}) = 1
    BY FS_EmptySet, FS_Singleton
  <2> QED
    BY <2>5, <2>6
<1> QED
  BY <1>1, MembersInvHolds, PTL DEF MembershipSpec, OnePendingEach

\* deleteOrg() that nobody interfered with detaches no subgroup.
THEOREM SubgroupsSpared == MembershipSpec => DeleteSparesSubgroups
<1>1. MembersInv /\ [MembershipNext]_<<membershipVars, flight>> =>
        [\A h \in Handlers : Ends(h, "remove") /\ call[h].alone =>
           subgroup' = subgroup]_orgVars
  <2> SUFFICES ASSUME MembersInv, [MembershipNext]_<<membershipVars, flight>>, orgVars' # orgVars,
                      NEW h \in Handlers, Ends(h, "remove"), call[h].alone
               PROVE  subgroup' = subgroup
    OBVIOUS
  <2>1. OrgStepWrites(h)
    BY WhoEndsOrgCall DEF Ends, At
  <2>2. RemoveOrg(h)
    BY <2>1 DEF Ends, OrgStepWrites, CreateSettings, AddCreator, WriteOrg, Leave,
                SaveRole, SaveHub, Decide, Admit, InsertJoinRequest, At
  <2>3. subgroup # "attached"
    BY DEF Ends, At, MembersInv, OrgCallsHold, OrgCallHolds, WhileAlone
  <2> QED
    BY <2>2, <2>3 DEF RemoveOrg
<1> QED
  BY <1>1, MembersInvHolds, PTL DEF MembershipSpec, DeleteSparesSubgroups

-----------------------------------------------------------------------------
(* Verdicts and what became of them. *)

FatesHold == fate \in [JoinIds -> SUBSET Fate]

Admitting(j) == \E h \in Handlers : At(h, "admit") /\ call[h].id = j

\* The verdict of a row was saved; nobody is admitted, or about to be, without an
\* approval; and no approval is forgotten.
FateInv ==
    /\ FatesHold
    /\ \A j \in JoinIds :
          /\ join[j].status \in Verdicts => join[j].status \in fate[j]
          /\ "admitted" \in fate[j] => "approved" \in fate[j]
          /\ "approved" \in fate[j] =>
                fate[j] \cap {"admitted", "dropped"} # {} \/ Admitting(j)
    /\ \A h \in Handlers : At(h, "admit") => "approved" \in fate[call[h].id]

LEMMA FateInvInit == MembershipInit /\ CallsInit => FateInv
BY NewRows DEF MembershipInit, CallsInit, FateInv, FatesHold, Verdicts, At, InFlight

LEMMA MembersInvTypes == MembersInv /\ FatesHold => MembershipTypeOK
BY DEF MembersInv, OrgRowsHold, OrgCallsHold, OrgCallHolds, FatesHold, MembershipTypeOK

\* The call is about to admit somebody if it was before.
SameAdmission(g) ==
    /\ At(g, "admit") <=> At(g, "admit")'
    /\ At(g, "admit") => call'[g].id = call[g].id

LEMMA OvertakenAdmits ==
    ASSUME MembersInv, NEW g \in Handlers,
           \/ call'[g] = Disturbed(g)
           \/ \E new \in SUBSET Users : call'[g] = MemberCame(g, new)
    PROVE  SameAdmission(g)
<1>1. CASE ~InFlight(g)
  BY <1>1 DEF Disturbed, MemberCame, InFlight, At, SameAdmission
<1>2. CASE InFlight(g)
  <2>1. PICK c : c = call[g]
    OBVIOUS
  <2>2. c \in OrgCall
    BY <1>2, <2>1 DEF MembersInv, OrgCallsHold, OrgCallHolds
  <2>3. InFlight(g)'
    BY <1>2, OvertakenGoesOn
  <2>4. call'[g].step = c.step /\ call'[g].id = c.id
    <3>1. CASE call'[g] = Disturbed(g)
      BY <1>2, <2>1, <2>2, <3>1 DEF Disturbed, OrgCall
    <3>2. ASSUME NEW new \in SUBSET Users, call'[g] = MemberCame(g, new)
          PROVE  call'[g].step = c.step /\ call'[g].id = c.id
      <4>1. call'[g] = [c EXCEPT !.alone = FALSE, !.fresh = @ \cup new]
        BY <1>2, <2>1, <3>2 DEF MemberCame
      <4> QED
        BY <2>2, <4>1 DEF OrgCall
    <3> QED
      BY <3>1, <3>2
  <2> QED
    BY <1>2, <2>1, <2>3, <2>4 DEF At, SameAdmission
<1> QED
  BY <1>1, <1>2

\* A call that neither admits nor comes to it moves, or one of a single statement.
LEMMA OtherCallsAdmit ==
    ASSUME MembersInv, NEW h \in Handlers, NEW c,
           \/ call' = [call EXCEPT ![h] = c]
           \/ WritesAndBecomes(h, c)
           \/ \E new \in SUBSET Users : InsertsMembers(h, c, new)
    PROVE  /\ \A g \in Handlers \ {h} : SameAdmission(g)
           /\ call'[h] = c
<1>1. CASE call' = [call EXCEPT ![h] = c]
  BY <1>1 DEF MembersInv, OrgCallsHold, SameAdmission, At, InFlight
<1>2. CASE WritesAndBecomes(h, c)
  BY <1>2, OvertakenAdmits DEF WritesAndBecomes
<1>3. CASE \E new \in SUBSET Users : InsertsMembers(h, c, new)
  BY <1>3, OvertakenAdmits DEF InsertsMembers
<1> QED
  BY <1>1, <1>2, <1>3

LEMMA FateStays ==
    ASSUME FateInv, UNCHANGED fate, \A g \in Handlers : SameAdmission(g),
           \A j \in JoinIds : join'[j].status \in Verdicts => join'[j] = join[j]
    PROVE  FateInv'
BY DEF FateInv, FatesHold, Admitting, SameAdmission, At

\* A call moves that does not admit, before or after.
LEMMA FateStaysOfCall ==
    ASSUME MembersInv, FateInv, UNCHANGED fate, NEW h \in Handlers, NEW c,
           \/ call' = [call EXCEPT ![h] = c]
           \/ WritesAndBecomes(h, c)
           \/ \E new \in SUBSET Users : InsertsMembers(h, c, new),
           ~At(h, "admit"), c = Idle \/ c.step # "admit",
           \A j \in JoinIds : join'[j].status \in Verdicts => join'[j] = join[j]
    PROVE  FateInv'
<1>1. (\A g \in Handlers \ {h} : SameAdmission(g)) /\ call'[h] = c
  BY OtherCallsAdmit
<1>2. SameAdmission(h)
  BY <1>1 DEF SameAdmission, At, InFlight
<1> QED
  BY <1>1, <1>2, FateStays

\* What the calls that begin are about to do.
LEMMA BegunCallsDoNotAdmit ==
    /\ \A op, u : \A step \in OrgStep \ {"admit"} :
          OrgCalling(op, step, u).step # "admit" /\ Found(op, step, u).step # "admit"
BY DEF OrgCalling, Found

LEMMA FateInvOfBeginning ==
    ASSUME MembersInv, FateInv, NEW h \in Handlers, NEW c, c.step # "admit",
           Begin(h, c), UNCHANGED <<join, fate>>
    PROVE  FateInv'
BY FateStaysOfCall DEF Begin, At

LEMMA FateInvBegin ==
    ASSUME MembersInv, FateInv, NEW h \in Handlers,
           \/ \E u \in Users :
                 \/ leave(h, u) \/ deleteOrg(h, u) \/ createJoinRequest(h, u)
                 \/ createOrg(h, u) \/ updateOrg(h, u) \/ createOrgChat(h, u)
                 \/ updateHub(h, u)
           \/ \E by, u \in Users, role \in OrgRole, deputy \in BOOLEAN :
                 updateMemberRole(h, by, u, role, deputy)
           \/ \E j \in JoinIds, verdict \in Verdicts : handleJoinRequest(h, j, verdict)
    PROVE  FateInv'
<1>1. CASE \E u \in Users :
              \/ leave(h, u) \/ deleteOrg(h, u) \/ createJoinRequest(h, u)
              \/ createOrg(h, u) \/ createOrgChat(h, u) \/ updateHub(h, u)
  BY <1>1, FateInvOfBeginning
     DEF leave, deleteOrg, createJoinRequest, createOrg, createOrgChat, updateHub,
         BeginOrgCall, membershipVars, orgVars, OrgCalling, Found
<1>2. CASE \E u \in Users : updateOrg(h, u)
  BY <1>2, FateInvOfBeginning
     DEF updateOrg, BeginOrgCall, membershipVars, orgVars, OrgCalling, Found
<1>3. CASE \E by, u \in Users, role \in OrgRole, deputy \in BOOLEAN :
              updateMemberRole(h, by, u, role, deputy)
  BY <1>3, FateInvOfBeginning
     DEF updateMemberRole, BeginOrgCall, membershipVars, orgVars, OrgCalling
<1>4. CASE \E j \in JoinIds, verdict \in Verdicts : handleJoinRequest(h, j, verdict)
  BY <1>4, FateInvOfBeginning
     DEF handleJoinRequest, BeginOrgCall, membershipVars, orgVars, OrgCalling
<1> QED
  BY <1>1, <1>2, <1>3, <1>4

LEMMA FateInvBrief ==
    ASSUME MembersInv, FateInv, UNCHANGED <<join, fate>>,
           \/ Disturbs
           \/ \E new \in SUBSET Users : call' = [g \in Handlers |-> MemberCame(g, new)]
    PROVE  FateInv'
<1>1. \A g \in Handlers : SameAdmission(g)
  BY OvertakenAdmits DEF Disturbs
<1> QED
  BY <1>1, FateStays

\* The steps of calls that have nothing to do with a verdict.
LEMMA FateInvSteps ==
    ASSUME MembersInv, FateInv, NEW h \in Handlers,
           \/ CreateSettings(h) \/ AddCreator(h) \/ AddChat(h) \/ DiffOrg(h) \/ WriteOrg(h)
           \/ RemoveOrg(h) \/ Leave(h) \/ SaveRole(h) \/ SaveHub(h)
           \/ \E j \in JoinIds : InsertJoinRequest(h, j)
    PROVE  FateInv'
<1>1. call[h] \in OrgCall /\ ~At(h, "admit")
  BY DEF CreateSettings, AddCreator, AddChat, DiffOrg, WriteOrg, RemoveOrg, Leave,
         SaveRole, SaveHub, InsertJoinRequest, At, MembersInv, OrgCallsHold, OrgCallHolds
<1>2. call[h].on \in Users /\ call[h].ins \in SUBSET Users
  BY <1>1 DEF OrgCall
<1>3. CASE CreateSettings(h) \/ AddCreator(h)
  <2>1. /\ [call[h] EXCEPT !.step = "creator"].step # "admit"
        /\ [call[h] EXCEPT !.step = "chat"].step # "admit"
    BY <1>1 DEF OrgCall
  <2>2. {call[h].on} \in SUBSET Users
    BY <1>2
  <2> QED
    BY <1>1, <1>3, <2>1, <2>2, FateStaysOfCall DEF CreateSettings, AddCreator
<1>4. CASE AddChat(h)
  <2>1. [call[h] EXCEPT !.step = "diff", !.org.chat = TRUE].step # "admit"
    BY <1>1 DEF OrgCall
  <2> QED
    BY <1>1, <1>4, <2>1, FateStaysOfCall DEF AddChat, Becomes, membershipVars, orgVars
<1>5. CASE DiffOrg(h)
  <2>1. PICK d : /\ call' = [call EXCEPT ![h] = d]
                 /\ d = Idle \/ \E diff, upd, ins :
                        d = [call[h] EXCEPT !.step = "write", !.diff = diff,
                                            !.upd = upd, !.ins = ins]
    BY <1>5 DEF DiffOrg, Becomes
  <2>2. d = Idle \/ d.step # "admit"
    BY <1>1, <2>1 DEF OrgCall
  <2> QED
    BY <1>1, <1>5, <2>1, <2>2, FateStaysOfCall DEF DiffOrg, membershipVars, orgVars
<1>6. CASE WriteOrg(h) \/ Leave(h) \/ SaveHub(h)
  BY <1>1, <1>2, <1>6, FateStaysOfCall DEF WriteOrg, Leave, SaveHub
<1>7. CASE SaveRole(h)
  <2>1. {call[h].on} \in SUBSET Users /\ {} \in SUBSET Users
    BY <1>2
  <2> QED
    BY <1>1, <1>7, <2>1, FateStaysOfCall DEF SaveRole
<1>8. CASE RemoveOrg(h)
  <2>1. \A j \in JoinIds : join'[j].status \notin Verdicts
    BY <1>8, NewRows DEF RemoveOrg, Verdicts
  <2> QED
    BY <1>1, <1>8, <2>1, FateStaysOfCall DEF RemoveOrg
<1>9. ASSUME NEW j \in JoinIds, InsertJoinRequest(h, j) PROVE FateInv'
  <2>1. \A k \in JoinIds : join'[k].status \in Verdicts => join'[k] = join[k]
    BY <1>9 DEF InsertJoinRequest, Verdicts, MembersInv, OrgRowsHold
  <2> QED
    BY <1>1, <1>9, <2>1, FateStaysOfCall DEF InsertJoinRequest
<1> QED
  BY <1>3, <1>4, <1>5, <1>6, <1>7, <1>8, <1>9

\* A verdict is saved: an approval goes on to the admission.
LEMMA FateInvDecide ==
    ASSUME MembersInv, FateInv, NEW h \in Handlers, Decide(h)
    PROVE  FateInv'
<1>1. PICK c, j : c = call[h] /\ j = c.id
  OBVIOUS
<1>2. c \in OrgCall /\ j \in JoinIds /\ c.new \in Verdicts /\ c.step = "decide"
  BY <1>1 DEF Decide, At, MembersInv, OrgCallsHold, OrgCallHolds, OrgCall
<1>3. PICK d : d = AfterVerdict(c)
  OBVIOUS
<1>4. /\ c.new = "approved" => d # Idle /\ d.step = "admit" /\ d.id = j
      /\ c.new # "approved" => d = Idle
  <2>1. [c EXCEPT !.step = "admit"] \in OrgCall /\ [c EXCEPT !.step = "admit"].id = j
        /\ [c EXCEPT !.step = "admit"].step = "admit"
    BY <1>1, <1>2, OrgWords DEF OrgCall
  <2> QED
    BY <1>3, <2>1, NoOrgCallIsIdle DEF AfterVerdict
<1>5. (\A g \in Handlers \ {h} : SameAdmission(g)) /\ call'[h] = d
  BY <1>1, <1>3, OtherCallsAdmit DEF Decide
<1>6. ~At(h, "admit") /\ (At(h, "admit")' <=> c.new = "approved")
      /\ (c.new = "approved" => call'[h].id = j)
  BY <1>1, <1>2, <1>4, <1>5 DEF At, InFlight
<1>7. /\ fate' = [fate EXCEPT ![j] = @ \cup {c.new}] /\ FatesHold
      /\ join' = [join EXCEPT ![j].status = c.new] /\ join[j] \in JoinRow
      /\ join \in [JoinIds -> JoinRow \cup {NoJoin}]
  BY <1>1, <1>2, NewRows DEF Decide, FateInv, MembersInv, OrgRowsHold
<1>8. /\ fate'[j] = fate[j] \cup {c.new} /\ join'[j].status = c.new
      /\ \A k \in JoinIds \ {j} : fate'[k] = fate[k] /\ join'[k] = join[k]
  BY <1>2, <1>7 DEF FatesHold, JoinRow
<1>9. FatesHold'
  BY <1>2, <1>7 DEF FatesHold, Fate
<1>10. \A k \in JoinIds : Admitting(k) => Admitting(k)'
  BY <1>5, <1>6 DEF Admitting, SameAdmission
<1>11. c.new = "approved" => Admitting(j)'
  BY <1>6 DEF Admitting
<1>12. ASSUME NEW k \in JoinIds
       PROVE  /\ join'[k].status \in Verdicts => join'[k].status \in fate'[k]
              /\ "admitted" \in fate'[k] => "approved" \in fate'[k]
              /\ "approved" \in fate'[k] =>
                    fate'[k] \cap {"admitted", "dropped"} # {} \/ Admitting(k)'
  BY <1>2, <1>8, <1>10, <1>11 DEF FateInv, Verdicts
<1>13. ASSUME NEW g \in Handlers, At(g, "admit")' PROVE "approved" \in fate'[call'[g].id]
  <2>1. CASE g = h
    BY <1>6, <1>8, <1>13, <2>1
  <2>2. CASE g # h
    <3>1. At(g, "admit") /\ call'[g].id = call[g].id
      BY <1>5, <1>13, <2>2 DEF SameAdmission
    <3>2. call[g].id \in JoinIds /\ "approved" \in fate[call[g].id]
      BY <3>1 DEF FateInv, At, MembersInv, OrgCallsHold, OrgCallHolds
    <3> QED
      BY <1>8, <3>1, <3>2
  <2> QED
    BY <2>1, <2>2
<1> QED
  BY <1>9, <1>12, <1>13 DEF FateInv

\* An admission ends, one way or the other.
LEMMA FateInvSettled ==
    ASSUME MembersInv, FateInv, NEW h \in Handlers, At(h, "admit"), call'[h] = Idle,
           \A g \in Handlers \ {h} : SameAdmission(g), UNCHANGED join,
           NEW end \in {"admitted", "dropped"},
           fate' = [fate EXCEPT ![call[h].id] = @ \cup {end}]
    PROVE  FateInv'
<1>1. PICK j : j = call[h].id
  OBVIOUS
<1>2. j \in JoinIds /\ "approved" \in fate[j] /\ FatesHold
  BY <1>1 DEF FateInv, At, MembersInv, OrgCallsHold, OrgCallHolds
<1>3. /\ fate'[j] = fate[j] \cup {end}
      /\ \A k \in JoinIds \ {j} : fate'[k] = fate[k]
  BY <1>1, <1>2 DEF FatesHold
<1>4. FatesHold'
  BY <1>1, <1>2 DEF FatesHold, Fate
<1>5. \A k \in JoinIds \ {j} : Admitting(k) => Admitting(k)'
  BY <1>1 DEF Admitting, SameAdmission
<1>6. ASSUME NEW k \in JoinIds
      PROVE  /\ join'[k].status \in Verdicts => join'[k].status \in fate'[k]
             /\ "admitted" \in fate'[k] => "approved" \in fate'[k]
             /\ "approved" \in fate'[k] =>
                   fate'[k] \cap {"admitted", "dropped"} # {} \/ Admitting(k)'
  <2>1. CASE k = j
    BY <1>2, <1>3, <2>1 DEF FateInv
  <2>2. CASE k # j
    BY <1>3, <1>5, <2>2 DEF FateInv
  <2> QED
    BY <2>1, <2>2
<1>7. ASSUME NEW g \in Handlers, At(g, "admit")' PROVE "approved" \in fate'[call'[g].id]
  <2>1. g # h
    BY <1>7 DEF At, InFlight
  <2>2. At(g, "admit") /\ call'[g].id = call[g].id
    BY <1>7, <2>1 DEF SameAdmission
  <2>3. call[g].id \in JoinIds /\ "approved" \in fate[call[g].id]
    BY <2>2 DEF FateInv, At, MembersInv, OrgCallsHold, OrgCallHolds
  <2> QED
    BY <1>3, <2>2, <2>3
<1> QED
  BY <1>4, <1>6, <1>7 DEF FateInv

LEMMA FateInvAdmit ==
    ASSUME MembersInv, FateInv, NEW h \in Handlers, Admit(h)
    PROVE  FateInv'
<1>1. {call[h].on} \in SUBSET Users
  BY DEF Admit, At, MembersInv, OrgCallsHold, OrgCallHolds, OrgCall
<1>2. (\A g \in Handlers \ {h} : SameAdmission(g)) /\ call'[h] = Idle
  BY <1>1, OtherCallsAdmit DEF Admit
<1> QED
  BY <1>2, FateInvSettled DEF Admit

LEMMA FateInvFail ==
    ASSUME MembersInv, FateInv, NEW h \in Handlers, FailOrgCall(h)
    PROVE  FateInv'
<1>1. (\A g \in Handlers \ {h} : SameAdmission(g)) /\ call'[h] = Idle
  BY OtherCallsAdmit DEF FailOrgCall, Becomes
<1>2. UNCHANGED join
  BY DEF FailOrgCall, orgVars
<1>3. CASE At(h, "admit")
  <2>1. PICK end \in {"admitted", "dropped"} :
            end = (IF IsMember(call[h].on) THEN "admitted" ELSE "dropped")
    OBVIOUS
  <2>2. fate' = [fate EXCEPT ![call[h].id] = @ \cup {end}]
    BY <1>3, <2>1 DEF FailOrgCall
  <2> QED
    BY <1>1, <1>2, <1>3, <2>2, FateInvSettled
<1>4. CASE ~At(h, "admit")
  BY <1>2, <1>4, FateStaysOfCall DEF FailOrgCall, Becomes
<1> QED
  BY <1>3, <1>4

LEMMA FateInvNext ==
    ASSUME MembersInv, FateInv, [MembershipNext]_<<membershipVars, flight>>
    PROVE  FateInv'
<1>1. CASE FoundingNext
  BY <1>1, FateInvSteps, FateInvFail, FateInvBegin DEF FoundingNext
<1>2. CASE EditingNext
  <2>1. CASE \/ \E by \in Users : getSettings(by) \/ createHub(by) \/ deleteHub(by)
             \/ createSubgroup
    BY <2>1, FateInvBrief DEF getSettings, createHub, deleteHub, createSubgroup
  <2> QED
    BY <1>2, <2>1, FateInvSteps, FateInvBegin DEF EditingNext
<1>3. CASE RolesNext
  BY <1>3, FateInvSteps, FateInvBegin DEF RolesNext
<1>4. CASE ComingAndGoingNext
  <2>1. ASSUME NEW by \in Users, NEW u \in Users,
               removeMember(by, u) \/ \E role \in OrgRole : addMember(by, u, role)
        PROVE  FateInv'
    <3>1. {u} \in SUBSET Users
      OBVIOUS
    <3> QED
      BY <2>1, <3>1, FateInvBrief DEF removeMember, addMember
  <2> QED
    BY <1>4, <2>1, FateInvSteps, FateInvBegin DEF ComingAndGoingNext
<1>5. CASE JoiningNext
  BY <1>5, FateInvSteps, FateInvBegin, FateInvDecide, FateInvAdmit DEF JoiningNext
<1>6. CASE UNCHANGED <<membershipVars, flight>>
  <2>1. UNCHANGED <<join, fate, call>>
    BY <1>6 DEF membershipVars, orgVars, flight
  <2> QED
    BY <2>1 DEF FateInv, FatesHold, Admitting, At, InFlight
<1> QED
  BY <1>1, <1>2, <1>3, <1>4, <1>5, <1>6 DEF MembershipNext

LEMMA FateInvHolds == MembershipSpec => []FateInv
BY FateInvInit, FateInvNext, MembersInvHolds, PTL DEF MembershipSpec

LEMMA FateInvCarriesOut == FateInv => VerdictCarriedOut
BY DEF FateInv, VerdictCarriedOut, Admitting, Verdicts

\* No approval is forgotten and nobody is admitted without one, however many
\* reviewers decide at once and whichever of their statements fail.
THEOREM VerdictsCarriedOut == MembershipSpec => []VerdictCarriedOut
BY FateInvHolds, FateInvCarriesOut, PTL

\* The rows stay rows of their tables, the calls calls of theirs.
THEOREM MembershipTypes == MembershipSpec => []MembershipTypeOK
<1>1. FateInv => FatesHold
  BY DEF FateInv
<1> QED
  BY <1>1, MembersInvHolds, FateInvHolds, MembersInvTypes, PTL

=============================================================================
