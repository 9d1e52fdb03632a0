--------------------------- MODULE ClearanceProofs ---------------------------
(***************************************************************************)
(* Theorems about Clearance: the invariant for any number of calls in      *)
(* flight, and what recalculateClearance guarantees while only one is.     *)
(***************************************************************************)
EXTENDS Clearance, FiniteSetTheorems, TLAPS

\* A handler has no call or one with a step; the two are told apart by the step.
LEMMA CallKinds ==
    ASSUME TypeOK, NEW h \in Handlers
    PROVE  /\ call[h] \in CallRecord \cup {Idle}
           /\ Idle.step = "none"
           /\ call[h].step # "none" => call[h] \in CallRecord
BY DEF TypeOK, Idle

\* The level that n vouches carry is justified by n vouches.
LEMMA EarnedJustified ==
    ASSUME NEW S \in SUBSET Users, NEW b \in BOOLEAN
    PROVE  /\ Cardinality(S) \in 0..Cardinality(Users)
           /\ Earned(Cardinality(S), b) \in Level
           /\ Earned(Cardinality(S), b) = "LOCAL" <=> S = {}
           /\ Earned(Cardinality(S), b) = "FRONTLINE" =>
                 b /\ Cardinality(S) >= FrontlineVouches
<1>1. IsFiniteSet(S) /\ Cardinality(S) <= Cardinality(Users)
  BY FS_Subset, ClearanceAssumption
<1>2. Cardinality(S) \in Nat /\ Cardinality(Users) \in Nat
  BY <1>1, FS_CardinalityType, ClearanceAssumption
<1>3. Cardinality(S) = 0 <=> S = {}
  BY <1>1, FS_EmptySet
<1> QED
  BY <1>1, <1>2, <1>3, ClearanceAssumption DEF Earned, Level

-----------------------------------------------------------------------------
(* The invariant of any number of calls. *)

LEMMA ClearanceInit == Init => ClearanceInv
<1> SUFFICES ASSUME Init PROVE ClearanceInv
  OBVIOUS
<1>1. TypeOK
  BY ClearanceAssumption DEF Init, TypeOK, VouchRow
<1> QED
  BY <1>1 DEF Init, ClearanceInv, StepMatches, Idle

\* A call that begins.
LEMMA BeginStep ==
    ASSUME ClearanceInv, NEW h \in Handlers, NEW op \in Method, NEW s \in Step,
           NEW u \in Users, NEW v \in Users, Begin(h, op, s, u, v), UNCHANGED vouch,
           StepMatches([op |-> op, step |-> s, on |-> u, voucher |-> v])
    PROVE  /\ call' \in [Handlers -> CallRecord \cup {Idle}]
           /\ \A g \in Handlers : StepMatches(call[g])'
<1> DEFINE c == [op |-> op, step |-> s, on |-> u, voucher |-> v, todo |-> {},
                 count |-> 0, new |-> "LOCAL", listed |-> {}]
<1>1. 0 \in 0..Cardinality(Users)
  BY FS_CardinalityType, ClearanceAssumption
<1>2. c \in CallRecord
  BY <1>1 DEF CallRecord, Level
<1>3. call' = [call EXCEPT ![h] = c]
  BY DEF Begin
<1>4. StepMatches(c)
  BY DEF StepMatches
<1> HIDE DEF c
<1>5. ASSUME NEW g \in Handlers PROVE StepMatches(call[g])'
  BY <1>3, <1>4 DEF ClearanceInv, TypeOK, StepMatches
<1> QED
  BY <1>2, <1>3, <1>5 DEF ClearanceInv, TypeOK

\* A call that moves on or returns, while no row of a vouch disappears.
LEMMA MoveStep ==
    ASSUME ClearanceInv, NEW h \in Handlers, NEW d \in CallRecord \cup {Idle},
           call' = [call EXCEPT ![h] = d],
           \/ d.step \in Recalculating \cup {"none", "next"}
           \/ d.step = "find affected" /\ d.op = "blockUser",
           \A u, v \in Users : vouch[u][v] # "none" => vouch'[u][v] # "none"
    PROVE  /\ call' \in [Handlers -> CallRecord \cup {Idle}]
           /\ \A g \in Handlers : StepMatches(call[g])'
<1>1. call' \in [Handlers -> CallRecord \cup {Idle}]
  BY DEF ClearanceInv, TypeOK
<1>2. ASSUME NEW g \in Handlers PROVE StepMatches(call[g])'
  <2>1. CASE g = h
    BY <2>1 DEF ClearanceInv, TypeOK, StepMatches, Recalculating, Deciding
  <2>2. CASE g # h
    <3>1. call'[g] = call[g] /\ StepMatches(call[g])
      BY <2>2 DEF ClearanceInv, TypeOK
    <3>2. call[g].step # "none" => call[g].on \in Users /\ call[g].voucher \in Users
      BY CallKinds DEF ClearanceInv, CallRecord
    <3> QED
      BY <3>1, <3>2 DEF StepMatches
  <2> QED
    BY <2>1, <2>2
<1> QED
  BY <1>1, <1>2

\* The calls that begin, and the methods of one step.
LEMMA StartStep ==
    ASSUME ClearanceInv,
           \/ \E h \in Handlers, v \in Users : blockUser(h, v)
           \/ \E v \in Users : unblockUser(v)
           \/ \E u \in Users, newLevel \in Level : updateClearance(u, newLevel)
           \/ \E h \in Handlers, u, v \in Users :
                 \/ vouchForUser(h, u, v)
                 \/ restoreVouch(h, u, v)
                 \/ revokeVouchPermanently(h, u, v)
           \/ \E u \in Users : verifyEmail(u)
           \/ \E u \in Workers, t \in Tasks : TakeTask(u, t) \/ LeaveTask(u, t)
    PROVE  ClearanceInv'
<1> USE DEF ClearanceInv
<1>1. ASSUME NEW h \in Handlers, NEW v \in Users, blockUser(h, v) PROVE ClearanceInv'
  <2>1. StepMatches([op |-> "blockUser", step |-> "suspend", on |-> v, voucher |-> v])
    BY DEF StepMatches
  <2>2. /\ call' \in [Handlers -> CallRecord \cup {Idle}]
        /\ \A g \in Handlers : StepMatches(call[g])'
    BY <1>1, <2>1, BeginStep DEF blockUser, Method, Step
  <2> QED
    BY <1>1, <2>2 DEF blockUser, TypeOK
<1>2. ASSUME NEW h \in Handlers, NEW u \in Users, NEW v \in Users, vouchForUser(h, u, v)
      PROVE  ClearanceInv'
  <2>1. StepMatches([op |-> "vouchForUser", step |-> "insert", on |-> u, voucher |-> v])
    BY <1>2 DEF StepMatches, vouchForUser, MayVouch
  <2>2. /\ call' \in [Handlers -> CallRecord \cup {Idle}]
        /\ \A g \in Handlers : StepMatches(call[g])'
    BY <1>2, <2>1, BeginStep DEF vouchForUser, rows, Method, Step
  <2> QED
    BY <1>2, <2>2 DEF vouchForUser, rows, TypeOK
<1>3. ASSUME NEW h \in Handlers, NEW u \in Users, NEW v \in Users, restoreVouch(h, u, v)
      PROVE  ClearanceInv'
  <2>1. StepMatches([op |-> "restoreVouch", step |-> "restore", on |-> u, voucher |-> v])
    BY <1>3 DEF StepMatches, restoreVouch
  <2>2. /\ call' \in [Handlers -> CallRecord \cup {Idle}]
        /\ \A g \in Handlers : StepMatches(call[g])'
    BY <1>3, <2>1, BeginStep DEF restoreVouch, rows, Method, Step
  <2> QED
    BY <1>3, <2>2 DEF restoreVouch, rows, TypeOK
<1>4. ASSUME NEW h \in Handlers, NEW u \in Users, NEW v \in Users,
             revokeVouchPermanently(h, u, v)
      PROVE  ClearanceInv'
  <2>1. StepMatches([op |-> "revokeVouchPermanently", step |-> "revoke",
                     on |-> u, voucher |-> v])
    BY <1>4 DEF StepMatches, revokeVouchPermanently
  <2>2. /\ call' \in [Handlers -> CallRecord \cup {Idle}]
        /\ \A g \in Handlers : StepMatches(call[g])'
    BY <1>4, <2>1, BeginStep DEF revokeVouchPermanently, rows, Method, Step
  <2> QED
    BY <1>4, <2>2 DEF revokeVouchPermanently, rows, TypeOK
<1>5. ASSUME UNCHANGED <<vouch, call>> PROVE \A g \in Handlers : StepMatches(call[g])'
  BY <1>5 DEF StepMatches
<1>6. ASSUME NEW v \in Users, unblockUser(v) PROVE ClearanceInv'
  BY <1>5, <1>6 DEF unblockUser, TypeOK
<1>7. ASSUME NEW u \in Users, NEW newLevel \in Level, updateClearance(u, newLevel)
      PROVE  ClearanceInv'
  BY <1>5, <1>7 DEF updateClearance, FlagSetBy, TypeOK
<1>8. ASSUME NEW u \in Users, verifyEmail(u) PROVE ClearanceInv'
  BY <1>5, <1>8 DEF verifyEmail, TypeOK
<1>9. ASSUME NEW u \in Workers, NEW t \in Tasks, TakeTask(u, t) \/ LeaveTask(u, t)
      PROVE  ClearanceInv'
  BY <1>5, <1>9, ClearanceAssumption DEF TakeTask, LeaveTask, TypeOK
<1> QED
  BY <1>1, <1>2, <1>3, <1>4, <1>6, <1>7, <1>8, <1>9

\* The later steps of a call.
LEMMA ContinueStep ==
    ASSUME ClearanceInv, NEW h \in Handlers, Continue(h) \/ Fail(h)
    PROVE  ClearanceInv'
<1> DEFINE c == call[h]
<1> USE DEF ClearanceInv
<1>1. Idle \in CallRecord \cup {Idle} /\ Idle.step = "none"
  BY DEF Idle
<1>2. ASSUME At(h, "suspend") \/ At(h, "find affected") \/ At(h, "insert")
             \/ At(h, "restore") \/ At(h, "revoke") \/ c.step \in Recalculating \cup {"next"}
      PROVE  /\ c \in CallRecord /\ c.on \in Users /\ c.voucher \in Users
             /\ c.todo \subseteq Users /\ c.listed \subseteq Tasks /\ c.new \in Level
             /\ \A s \in Step : [c EXCEPT !.step = s] \in CallRecord
  <2>1. c.step # "none"
    BY <1>2 DEF At, Recalculating, Deciding
  <2>2. c \in CallRecord
    BY <2>1, CallKinds
  <2> QED
    BY <2>2 DEF CallRecord
<1>3. ASSUME Return(h), UNCHANGED vouch PROVE
             /\ call' \in [Handlers -> CallRecord \cup {Idle}]
             /\ \A g \in Handlers : StepMatches(call[g])'
  BY <1>1, <1>3, MoveStep DEF Return
<1>4. CASE Suspend(h)
  <2> DEFINE d == [c EXCEPT !.step = "find affected"]
  <2>1. c \in CallRecord /\ c.voucher \in Users /\ c.op = "blockUser" /\ d \in CallRecord
    BY <1>2, <1>4 DEF Suspend, At, StepMatches, Step
  <2>2. d.step = "find affected" /\ d.op = "blockUser"
    BY <2>1 DEF CallRecord
  <2>3. call' = [call EXCEPT ![h] = d]
    BY <1>4 DEF Suspend, Goto
  <2>4. vouch' \in [Users -> [Users -> VouchRow]]
    BY <1>4, <2>1 DEF Suspend, TypeOK, VouchRow
  <2>5. \A u, v \in Users : vouch[u][v] # "none" <=> vouch'[u][v] # "none"
    BY <1>4, <2>1 DEF Suspend, TypeOK
  <2> HIDE DEF d
  <2>6. /\ call' \in [Handlers -> CallRecord \cup {Idle}]
        /\ \A g \in Handlers : StepMatches(call[g])'
    BY <2>1, <2>2, <2>3, <2>5, MoveStep
  <2> QED
    BY <1>4, <2>4, <2>5, <2>6 DEF Suspend, TypeOK
<1>5. CASE FindAffected(h)
  <2> DEFINE d == [c EXCEPT !.step = "next", !.todo = Affected(c.voucher)]
  <2>1. c \in CallRecord
    BY <1>2, <1>5 DEF FindAffected
  <2>2. d \in CallRecord /\ d.step = "next"
    BY <2>1 DEF CallRecord, Step, Affected
  <2>3. call' = [call EXCEPT ![h] = d]
    BY <1>5 DEF FindAffected
  <2> HIDE DEF d
  <2> QED
    BY <1>5, <2>2, <2>3, MoveStep DEF FindAffected, rows, TypeOK
<1>6. CASE InsertVouch(h)
  <2>1. c \in CallRecord /\ c.on \in Users /\ c.voucher \in Users /\ c.on # c.voucher
    BY <1>2, <1>6 DEF InsertVouch, At, StepMatches
  <2>2. CASE vouch[c.on][c.voucher] = "none"
    <3> DEFINE d == [c EXCEPT !.step = "count"]
    <3>1. d \in CallRecord /\ d.step = "count"
      BY <2>1 DEF CallRecord, Step
    <3>2. call' = [call EXCEPT ![h] = d]
      BY <1>6, <2>2 DEF InsertVouch, Goto
    <3>3. vouch' = [vouch EXCEPT ![c.on][c.voucher] = "active"]
      BY <1>6, <2>2 DEF InsertVouch
    <3>4. /\ vouch' \in [Users -> [Users -> VouchRow]]
          /\ \A u \in Users : vouch'[u][u] = "none"
          /\ \A u, v \in Users : vouch[u][v] # "none" => vouch'[u][v] # "none"
      BY <2>1, <3>3 DEF TypeOK, VouchRow
    <3> HIDE DEF d
    <3>5. /\ call' \in [Handlers -> CallRecord \cup {Idle}]
          /\ \A g \in Handlers : StepMatches(call[g])'
      BY <3>1, <3>2, <3>4, MoveStep DEF Recalculating
    <3> QED
      BY <1>6, <3>4, <3>5 DEF InsertVouch, TypeOK
  <2>3. CASE vouch[c.on][c.voucher] # "none"
    BY <1>3, <1>6, <2>3 DEF InsertVouch, TypeOK
  <2> QED
    BY <2>2, <2>3
<1>7. CASE Restore(h)
  <2> DEFINE d == [c EXCEPT !.step = "count"]
  <2>1. /\ c \in CallRecord /\ c.on \in Users /\ c.voucher \in Users
        /\ vouch[c.on][c.voucher] # "none"
    BY <1>2, <1>7 DEF Restore, At, StepMatches
  <2>2. d \in CallRecord /\ d.step = "count"
    BY <2>1 DEF CallRecord, Step
  <2>3. call' = [call EXCEPT ![h] = d]
    BY <1>7 DEF Restore, Goto
  <2>4. /\ vouch' \in [Users -> [Users -> VouchRow]]
        /\ \A u \in Users : vouch'[u][u] = "none"
        /\ \A u, v \in Users : vouch[u][v] # "none" => vouch'[u][v] # "none"
    BY <1>7, <2>1 DEF Restore, TypeOK, VouchRow
  <2> HIDE DEF d
  <2>5. /\ call' \in [Handlers -> CallRecord \cup {Idle}]
        /\ \A g \in Handlers : StepMatches(call[g])'
    BY <2>2, <2>3, <2>4, MoveStep DEF Recalculating
  <2> QED
    BY <1>7, <2>4, <2>5 DEF Restore, TypeOK
<1>8. CASE Revoke(h)
  <2>1. c \in CallRecord /\ c.on \in Users /\ c.voucher \in Users /\ c.step = "revoke"
    BY <1>2, <1>8 DEF Revoke, At
  <2>2. /\ vouch' \in [Users -> [Users -> VouchRow]]
        /\ \A u \in Users : vouch'[u][u] = "none"
        /\ \A u, v \in Users : u # c.on \/ v # c.voucher => vouch'[u][v] = vouch[u][v]
    BY <1>8, <2>1 DEF Revoke, TypeOK, VouchRow
  <2>3. ASSUME NEW g \in Handlers
        PROVE  call'[g] \in CallRecord \cup {Idle} /\ StepMatches(call[g])'
    <3> DEFINE d == [call[g] EXCEPT !.step = "count"]
    <3>1. call[g].step # "none" =>
             /\ call[g] \in CallRecord /\ call[g].on \in Users /\ call[g].voucher \in Users
             /\ d \in CallRecord /\ d.step = "count"
      BY CallKinds DEF CallRecord, Step
    <3>2. CASE /\ call[g].step \in {"restore", "revoke"}
               /\ call[g].on = c.on /\ call[g].voucher = c.voucher
      <4>1. call'[g] = d
        BY <1>8, <3>2 DEF Revoke
      <4> HIDE DEF d
      <4> QED
        BY <3>1, <3>2, <4>1 DEF StepMatches
    <3>3. CASE ~ (/\ call[g].step \in {"restore", "revoke"}
                  /\ call[g].on = c.on /\ call[g].voucher = c.voucher)
      <4>1. call'[g] = call[g]
        BY <1>8, <3>3 DEF Revoke
      <4>2. StepMatches(call[g])
        OBVIOUS
      <4>3. call[g].step \in {"restore", "revoke"} =>
               vouch'[call[g].on][call[g].voucher] # "none"
        BY <2>2, <3>1, <3>3, <4>2 DEF StepMatches
      <4> QED
        BY <4>1, <4>2, <4>3 DEF StepMatches, TypeOK
    <3> QED
      BY <3>2, <3>3
  <2>4. call' \in [Handlers -> CallRecord \cup {Idle}]
    <3>1. call' = [g \in Handlers |-> call'[g]]
      BY <1>8 DEF Revoke
    <3> QED
      BY <2>3, <3>1
  <2> QED
    BY <1>8, <2>2, <2>3, <2>4 DEF Revoke, TypeOK
<1>9. CASE NextVouchee(h)
  <2>1. c \in CallRecord /\ c.todo \subseteq Users
    BY <1>2, <1>9 DEF NextVouchee, At
  <2>2. CASE c.todo = {}
    BY <1>3, <1>9, <2>2 DEF NextVouchee, rows, TypeOK
  <2>3. CASE c.todo # {}
    <3>1. PICK u \in c.todo : call' = [call EXCEPT ![h].step = "count", ![h].on = u,
                                                  ![h].todo = @ \ {u}]
      BY <1>9, <2>3 DEF NextVouchee
    <3> DEFINE d == [c EXCEPT !.step = "count", !.on = u, !.todo = @ \ {u}]
    <3>2. d \in CallRecord /\ d.step = "count"
      BY <2>1 DEF CallRecord, Step
    <3>3. call' = [call EXCEPT ![h] = d]
      BY <3>1
    <3> HIDE DEF d
    <3> QED
      BY <1>9, <3>2, <3>3, MoveStep DEF NextVouchee, rows, TypeOK, Recalculating
  <2> QED
    BY <2>2, <2>3
<1>10. CASE CountVouches(h)
  <2> DEFINE d == [c EXCEPT !.step = "read", !.count = Cardinality(Carrying(c.on))]
  <2>1. c \in CallRecord
    BY <1>2, <1>10 DEF CountVouches, Recalculating, At
  <2>2. Cardinality(Carrying(c.on)) \in 0..Cardinality(Users)
    BY EarnedJustified DEF Carrying
  <2>3. d \in CallRecord /\ d.step = "read"
    BY <2>1, <2>2 DEF CallRecord, Step
  <2>4. call' = [call EXCEPT ![h] = d]
    BY <1>10 DEF CountVouches
  <2> HIDE DEF d
  <2> QED
    BY <1>10, <2>3, <2>4, MoveStep DEF CountVouches, rows, TypeOK, Recalculating
<1>11. CASE ReadUser(h)
  <2>1. /\ c \in CallRecord
        /\ \A s \in Step : [c EXCEPT !.step = s] \in CallRecord /\ [c EXCEPT !.step = s].step = s
    BY <1>2, <1>11 DEF ReadUser, Recalculating, CallRecord, At
  <2> DEFINE new == Earned(c.count, c.on \in verified)
  <2>2. new \in Level
    BY DEF Earned, Level
  <2>3. CASE Goto(h, "next")
    <3> DEFINE d == [c EXCEPT !.step = "next"]
    <3>1. d \in CallRecord /\ d.step = "next" /\ call' = [call EXCEPT ![h] = d]
      BY <2>1, <2>3 DEF Goto, Step
    <3> HIDE DEF d
    <3>2. appointed' \subseteq Users
      BY <1>11 DEF ReadUser, TypeOK
    <3> QED
      BY <1>11, <3>1, <3>2, MoveStep DEF ReadUser, TypeOK
  <2>4. CASE /\ call' = [call EXCEPT ![h].new = new, ![h].step =
                            IF level[c.on] = "FRONTLINE" THEN "list work" ELSE "write"]
             /\ UNCHANGED appointed
    <3> DEFINE s == IF level[c.on] = "FRONTLINE" THEN "list work" ELSE "write"
               d == [c EXCEPT !.new = new, !.step = s]
    <3>1. d \in CallRecord /\ d.step \in Recalculating
      BY <2>1, <2>2 DEF CallRecord, Step, Recalculating, Deciding
    <3>2. call' = [call EXCEPT ![h] = d]
      BY <2>4
    <3> HIDE DEF d
    <3> QED
      BY <1>11, <2>4, <3>1, <3>2, MoveStep DEF ReadUser, TypeOK
  <2> QED
    BY <1>11, <2>3, <2>4 DEF ReadUser
<1>12. CASE ListWork(h)
  <2> DEFINE s == IF work[c.on] = {} THEN "write" ELSE "withdraw"
             d == [c EXCEPT !.listed = work[c.on], !.step = s]
  <2>1. c \in CallRecord /\ c.on \in Users
    BY <1>2, <1>12 DEF ListWork, Recalculating, Deciding, At
  <2>2. d \in CallRecord /\ d.step \in Recalculating
    BY <2>1 DEF CallRecord, Step, Recalculating, Deciding, TypeOK
  <2>3. call' = [call EXCEPT ![h] = d]
    BY <1>12 DEF ListWork, ActiveAssignments
  <2> HIDE DEF d
  <2> QED
    BY <1>12, <2>2, <2>3, MoveStep DEF ListWork, rows, TypeOK
<1>13. CASE WithdrawFromTask(h)
  <2>1. c \in CallRecord /\ c.on \in Users
    BY <1>2, <1>13 DEF WithdrawFromTask, Recalculating, Deciding, At
  <2>2. PICK t \in c.listed :
           /\ work' = [work EXCEPT ![c.on] = @ \ {t}]
           /\ call' = [call EXCEPT ![h].listed = @ \ {t},
                          ![h].step = IF c.listed = {t} THEN "write" ELSE "withdraw"]
    BY <1>13 DEF WithdrawFromTask
  <2> DEFINE s == IF c.listed = {t} THEN "write" ELSE "withdraw"
             d == [c EXCEPT !.listed = @ \ {t}, !.step = s]
  <2>3. d \in CallRecord /\ d.step \in Recalculating
    BY <2>1 DEF CallRecord, Step, Recalculating, Deciding
  <2>4. call' = [call EXCEPT ![h] = d]
    BY <2>2
  <2> HIDE DEF d
  <2>5. work' \in [Users -> SUBSET Tasks]
    BY <2>1, <2>2 DEF TypeOK
  <2> QED
    BY <1>13, <2>3, <2>4, <2>5, MoveStep DEF WithdrawFromTask, TypeOK
<1>14. CASE WriteLevel(h)
  <2> DEFINE d == [c EXCEPT !.step = "next"]
  <2>1. c \in CallRecord /\ c.new \in Level
    BY <1>2, <1>14 DEF WriteLevel, Recalculating, Deciding, At
  <2>2. d \in CallRecord /\ d.step = "next"
    BY <2>1 DEF CallRecord, Step
  <2>3. call' = [call EXCEPT ![h] = d]
    BY <1>14 DEF WriteLevel, Goto
  <2> HIDE DEF d
  <2>4. level' \in [Users -> Level] /\ appointed' \subseteq Users
    BY <1>14, <2>1 DEF WriteLevel, TypeOK
  <2> QED
    BY <1>14, <2>2, <2>3, <2>4, MoveStep DEF WriteLevel, TypeOK
<1>15. CASE Fail(h)
  BY <1>3, <1>15 DEF Fail, rows, TypeOK
<1> QED
  BY <1>4, <1>5, <1>6, <1>7, <1>8, <1>9, <1>10, <1>11, <1>12, <1>13, <1>14, <1>15
  DEF Continue

\* Whatever calls interleave and fail, the data stay of their types, nobody
\* carries a vouch of his own, and no statement runs for a method or a row it
\* was not meant for (vouchForUser, restoreVouch, revokeVouchPermanently).
THEOREM ClearanceIsInvariant == Spec => []ClearanceInv
<1>1. ClearanceInv /\ [Next]_vars => ClearanceInv'
  <2> SUFFICES ASSUME ClearanceInv, [Next]_vars PROVE ClearanceInv'
    OBVIOUS
  <2>1. CASE UNCHANGED vars
    BY <2>1 DEF vars, ClearanceInv, TypeOK, StepMatches
  <2>2. CASE \E h \in Handlers : Continue(h) \/ Fail(h)
    BY <2>2, ContinueStep
  <2>3. CASE Next /\ ~ \E h \in Handlers : Continue(h) \/ Fail(h)
    BY <2>3, StartStep DEF Next
  <2> QED
    BY <2>1, <2>2, <2>3
<1> QED
  BY <1>1, ClearanceInit, PTL DEF Spec

-----------------------------------------------------------------------------
(* One call at a time. *)

\* While the only call moves on, only its own promises can change.
LEMMA OnlyCall ==
    ASSUME ClearanceInv, \A g, k \in Handlers : g = k, NEW h \in Handlers, NEW d,
           call' = [call EXCEPT ![h] = d]
    PROVE  \A g \in Handlers : call'[g] = d
BY DEF ClearanceInv, TypeOK

\* The first statements, and the methods of one step.
LEMMA SerialStart ==
    ASSUME ClearanceInv, SerialInv, \A g, k \in Handlers : g = k,
           \/ \E h \in Handlers, v \in Users : blockUser(h, v)
           \/ \E v \in Users : unblockUser(v)
           \/ \E u \in Users, newLevel \in Level : updateClearance(u, newLevel)
           \/ \E h \in Handlers, u, v \in Users :
                 \/ vouchForUser(h, u, v)
                 \/ restoreVouch(h, u, v)
                 \/ revokeVouchPermanently(h, u, v)
           \/ \E u \in Users : verifyEmail(u)
           \/ \E u \in Workers, t \in Tasks : TakeTask(u, t) \/ LeaveTask(u, t)
    PROVE  SerialInv'
<1>1. ASSUME NEW h \in Handlers, NEW op \in Method, NEW s \in Step, NEW u, NEW v,
             s \in {"suspend", "insert", "restore", "revoke"}, Begin(h, op, s, u, v)
      PROVE  \A g \in Handlers : DecisionHolds(call[g])' /\ RestIsSettled(call[g])'
  <2> DEFINE d == [op |-> op, step |-> s, on |-> u, voucher |-> v, todo |-> {},
                   count |-> 0, new |-> "LOCAL", listed |-> {}]
  <2>1. call' = [call EXCEPT ![h] = d] /\ d.step = s
    BY <1>1 DEF Begin
  <2> HIDE DEF d
  <2>2. \A g \in Handlers : call'[g] = d
    BY <2>1, OnlyCall
  <2> QED
    BY <1>1, <2>1, <2>2 DEF DecisionHolds, RestIsSettled, Recalculating, Deciding
<1>2. ASSUME NEW h \in Handlers, NEW u \in Users, NEW v \in Users,
             \/ blockUser(h, v) \/ vouchForUser(h, u, v)
             \/ restoreVouch(h, u, v) \/ revokeVouchPermanently(h, u, v)
      PROVE  SerialInv'
  <2>1. \A g \in Handlers : DecisionHolds(call[g])' /\ RestIsSettled(call[g])'
    BY <1>1, <1>2 DEF blockUser, vouchForUser, restoreVouch, revokeVouchPermanently,
                      Method, Step
  <2>2. UNCHANGED <<level, granted, appointed>>
    BY <1>2 DEF blockUser, vouchForUser, restoreVouch, revokeVouchPermanently, rows
  <2> QED
    BY <2>1, <2>2 DEF SerialInv
<1>3. ASSUME Free, UNCHANGED call
      PROVE  \A g \in Handlers : DecisionHolds(call[g])' /\ RestIsSettled(call[g])'
  <2>1. \A g \in Handlers : call'[g].step = "none"
    BY <1>3 DEF Free, Idle
  <2> QED
    BY <2>1 DEF DecisionHolds, RestIsSettled, Recalculating, Deciding
<1>4. ASSUME NEW u \in Users, NEW newLevel \in Level, updateClearance(u, newLevel)
      PROVE  SerialInv'
  BY <1>3, <1>4 DEF updateClearance, FlagSetBy, SerialInv, ClearanceInv, TypeOK
<1>5. ASSUME \/ \E u \in Users : unblockUser(u) \/ verifyEmail(u)
             \/ \E u \in Workers, t \in Tasks : TakeTask(u, t) \/ LeaveTask(u, t)
      PROVE  SerialInv'
  BY <1>3, <1>5 DEF unblockUser, verifyEmail, TakeTask, LeaveTask, SerialInv
<1> QED
  BY <1>2, <1>4, <1>5

\* The later steps.
LEMMA SerialContinue ==
    ASSUME ClearanceInv, ClearanceInv', SerialInv, \A g, k \in Handlers : g = k,
           NEW h \in Handlers, Continue(h) \/ Fail(h)
    PROVE  SerialInv'
<1> DEFINE c == call[h]
<1> USE DEF Recalculating, Deciding
<1>1. /\ StepMatches(c) /\ DecisionHolds(c) /\ RestIsSettled(c)
      /\ \A u \in granted : level[u] = "FRONTLINE" /\ u \in appointed
      /\ call \in [Handlers -> CallRecord \cup {Idle}]
  BY DEF ClearanceInv, SerialInv, TypeOK
<1>2. c.step # "none" => c \in CallRecord /\ c.on \in Users /\ c.voucher \in Users
  <2>1. c.step # "none" => c \in CallRecord
    BY CallKinds DEF ClearanceInv
  <2> QED
    BY <2>1 DEF CallRecord
<1>3. ASSUME DecisionHolds(c)', RestIsSettled(c)',
             \A u \in granted' : level'[u] = "FRONTLINE" /\ u \in appointed'
      PROVE  SerialInv'
  <2>1. \A g \in Handlers : g = h
    OBVIOUS
  <2> QED
    BY <1>3, <2>1 DEF SerialInv
<1>4. ASSUME Return(h), UNCHANGED <<level, granted, appointed>> PROVE SerialInv'
  <2>1. call'[h].step = "none"
    BY <1>1, <1>4 DEF Return, Idle
  <2>2. DecisionHolds(c)' /\ RestIsSettled(c)'
    BY <2>1 DEF DecisionHolds, RestIsSettled
  <2> QED
    BY <1>1, <1>3, <1>4, <2>2
<1>5. CASE Suspend(h)
  <2>1. /\ call'[h].step = "find affected" /\ call'[h].voucher = c.voucher
        /\ c.voucher \in Users
    BY <1>1, <1>2, <1>5 DEF Suspend, Goto, At, CallRecord
  <2>2. \A u \in Users : vouch'[u][c.voucher] # "active"
    BY <1>5, <2>1 DEF Suspend, ClearanceInv, TypeOK
  <2> QED
    BY <1>1, <1>3, <1>5, <2>1, <2>2 DEF Suspend, DecisionHolds, RestIsSettled
<1>6. CASE FindAffected(h)
  <2>1. c \in CallRecord /\ c.op = "blockUser"
    BY <1>1, <1>2, <1>6 DEF FindAffected, At, StepMatches
  <2>2. /\ call'[h].step = "next" /\ call'[h].op = "blockUser"
        /\ call'[h].voucher = c.voucher /\ call'[h].todo = Affected(c.voucher)
    BY <1>1, <1>6, <2>1 DEF FindAffected, CallRecord
  <2>3. (Touched(c) \ c.todo)' = {}
    BY <1>6, <2>2 DEF FindAffected, rows, Touched, Affected
  <2>4. \A u \in Users : vouch'[u][c.voucher] # "active"
    BY <1>1, <1>6, <2>1 DEF FindAffected, At, rows, RestIsSettled
  <2> QED
    BY <1>1, <1>3, <1>6, <2>2, <2>3, <2>4 DEF FindAffected, rows, DecisionHolds, RestIsSettled
<1>7. ASSUME call'[h].step = "count", call'[h].op # "blockUser",
             UNCHANGED <<level, granted, appointed>>
      PROVE  SerialInv'
  BY <1>1, <1>3, <1>7 DEF DecisionHolds, RestIsSettled, Touched
<1>8. CASE InsertVouch(h) \/ Restore(h) \/ Revoke(h)
  <2>1. c \in CallRecord /\ c.op # "blockUser"
    BY <1>1, <1>2, <1>8 DEF InsertVouch, Restore, Revoke, At, StepMatches
  <2>2. CASE Return(h)
    BY <1>4, <1>8, <2>2 DEF InsertVouch, Restore, Revoke
  <2>3. CASE Goto(h, "count")
    <3>1. call'[h].step = "count" /\ call'[h].op = c.op
      BY <1>1, <2>1, <2>3 DEF Goto, CallRecord
    <3> QED
      BY <1>7, <1>8, <2>1, <3>1 DEF InsertVouch, Restore, Revoke
  <2>4. CASE Revoke(h)
    <3>1. call'[h] = [c EXCEPT !.step = "count"]
      BY <2>4 DEF Revoke, At
    <3>2. call'[h].step = "count" /\ call'[h].op = c.op
      BY <2>1, <3>1 DEF CallRecord
    <3> QED
      BY <1>7, <2>1, <2>4, <3>2 DEF Revoke
  <2> QED
    BY <1>8, <2>2, <2>3, <2>4 DEF InsertVouch, Restore
<1>9. CASE NextVouchee(h)
  <2>1. c \in CallRecord /\ c.step = "next"
    BY <1>2, <1>9 DEF NextVouchee, At
  <2>2. CASE c.todo = {}
    BY <1>4, <1>9, <2>2 DEF NextVouchee, rows
  <2>3. CASE c.todo # {}
    <3>1. PICK u \in c.todo : call' = [call EXCEPT ![h].step = "count", ![h].on = u,
                                                  ![h].todo = @ \ {u}]
      BY <1>9, <2>3 DEF NextVouchee
    <3>2. /\ call'[h].step = "count" /\ call'[h].op = c.op /\ call'[h].on = u
          /\ call'[h].voucher = c.voucher /\ call'[h].todo = c.todo \ {u}
      BY <1>1, <2>1, <3>1 DEF CallRecord
    <3>3. UNCHANGED <<level, granted, verified, vouch, appointed>>
      BY <1>9 DEF NextVouchee, rows
    <3>4. Touched(c)' \ c.todo \subseteq Touched(c) \cup {u}
      BY <3>2, <3>3 DEF Touched
    <3>5. \A w \in Touched(c) \ c.todo : LevelFollows(w)'
      BY <1>1, <2>1, <3>3 DEF RestIsSettled, LevelFollows, Carrying
    <3>6. \A w \in (Touched(c) \ c.todo)' : LevelFollows(w)' \/ w = u
      BY <3>2, <3>4, <3>5
    <3>7. c.op = "blockUser" => \A w \in Users : vouch'[w][c.voucher] # "active"
      BY <1>1, <2>1, <3>3 DEF RestIsSettled
    <3>8. DecisionHolds(c)' /\ RestIsSettled(c)'
      BY <3>2, <3>6, <3>7 DEF DecisionHolds, RestIsSettled
    <3> QED
      BY <1>1, <1>3, <3>3, <3>8
  <2> QED
    BY <2>2, <2>3
<1>10. ASSUME NEW s \in Step, Goto(h, s), c.step # "none"
       PROVE  /\ call'[h].step = s /\ call'[h].op = c.op /\ call'[h].on = c.on
              /\ call'[h].voucher = c.voucher /\ call'[h].todo = c.todo
              /\ call'[h].new = c.new
  BY <1>1, <1>2, <1>10 DEF Goto, CallRecord
<1>11. ASSUME c.step \in Recalculating, call'[h].step \in Recalculating,
              call'[h].op = c.op, call'[h].on = c.on,
              call'[h].voucher = c.voucher, call'[h].todo = c.todo,
              UNCHANGED <<level, verified, vouch, appointed>>
       PROVE  RestIsSettled(c)'
  <2>1. Touched(c)' = Touched(c)
    BY <1>11 DEF Touched
  <2>2. \A w \in Touched(c) \ c.todo : LevelFollows(w)' \/ w = c.on
    BY <1>1, <1>11 DEF RestIsSettled, LevelFollows, Carrying
  <2>3. c.op = "blockUser" => \A w \in Users : vouch'[w][c.voucher] # "active"
    BY <1>1, <1>11 DEF RestIsSettled
  <2> QED
    BY <1>11, <2>1, <2>2, <2>3 DEF RestIsSettled
<1>12. ASSUME c.step \in Recalculating, Goto(h, "next"), LevelFollows(c.on)',
              \A w \in Users : w # c.on /\ LevelFollows(w) => LevelFollows(w)',
              UNCHANGED vouch
       PROVE  DecisionHolds(c)' /\ RestIsSettled(c)'
  <2>1. /\ call'[h].step = "next" /\ call'[h].op = c.op /\ call'[h].on = c.on
        /\ call'[h].voucher = c.voucher /\ call'[h].todo = c.todo
    BY <1>10, <1>12 DEF Step
  <2>2. Touched(c)' = Touched(c) /\ Touched(c) \subseteq Users
    BY <1>2, <1>12, <2>1 DEF Touched
  <2>3. \A w \in Touched(c) \ c.todo : LevelFollows(w)'
    BY <1>1, <1>12, <2>1, <2>2 DEF RestIsSettled
  <2>4. c.op = "blockUser" => \A w \in Users : vouch'[w][c.voucher] # "active"
    BY <1>1, <1>12 DEF RestIsSettled
  <2> QED
    BY <2>1, <2>2, <2>3, <2>4 DEF DecisionHolds, RestIsSettled
<1>13. CASE CountVouches(h)
  <2>1. c \in CallRecord /\ c.step = "count"
    BY <1>2, <1>13 DEF CountVouches, At
  <2>2. /\ call'[h].step = "read" /\ call'[h].op = c.op /\ call'[h].on = c.on
        /\ call'[h].voucher = c.voucher /\ call'[h].todo = c.todo
        /\ call'[h].count = Cardinality(Carrying(c.on))
    BY <1>1, <1>13, <2>1 DEF CountVouches, CallRecord
  <2>3. UNCHANGED <<level, granted, verified, vouch, appointed>>
    BY <1>13 DEF CountVouches, rows
  <2>4. RestIsSettled(c)'
    BY <1>11, <2>1, <2>2, <2>3
  <2>5. DecisionHolds(c)'
    BY <2>2, <2>3 DEF DecisionHolds, Carrying
  <2> QED
    BY <1>1, <1>3, <2>3, <2>4, <2>5
<1>14. CASE ListWork(h)
  <2>1. c \in CallRecord /\ c.step = "list work"
    BY <1>2, <1>14 DEF ListWork, At
  <2>2. /\ call'[h].step = IF work[c.on] = {} THEN "write" ELSE "withdraw"
        /\ call'[h].op = c.op /\ call'[h].on = c.on
        /\ call'[h].voucher = c.voucher /\ call'[h].todo = c.todo
        /\ call'[h].new = c.new /\ call'[h].listed = work[c.on]
    BY <1>1, <1>14, <2>1 DEF ListWork, ActiveAssignments, CallRecord
  <2>3. UNCHANGED <<level, granted, verified, vouch, appointed, work>>
    BY <1>14 DEF ListWork, rows
  <2>4. RestIsSettled(c)'
    BY <1>11, <2>1, <2>2, <2>3
  <2>5. DecisionHolds(c)'
    BY <1>1, <2>1, <2>2, <2>3 DEF DecisionHolds, Carrying, KeptByGrant
  <2> QED
    BY <1>1, <1>3, <2>3, <2>4, <2>5
<1>15. CASE WithdrawFromTask(h)
  <2>1. c \in CallRecord /\ c.step = "withdraw" /\ c.on \in Users
    BY <1>2, <1>15 DEF WithdrawFromTask, At
  <2>2. PICK t \in c.listed :
           /\ work' = [work EXCEPT ![c.on] = @ \ {t}]
           /\ call' = [call EXCEPT ![h].listed = @ \ {t},
                          ![h].step = IF c.listed = {t} THEN "write" ELSE "withdraw"]
    BY <1>15 DEF WithdrawFromTask
  <2>3. /\ call'[h].step = IF c.listed = {t} THEN "write" ELSE "withdraw"
        /\ call'[h].op = c.op /\ call'[h].on = c.on
        /\ call'[h].voucher = c.voucher /\ call'[h].todo = c.todo
        /\ call'[h].new = c.new /\ call'[h].listed = c.listed \ {t}
    BY <1>1, <2>1, <2>2 DEF CallRecord
  <2>4. UNCHANGED <<level, granted, verified, vouch, appointed>>
    BY <1>15 DEF WithdrawFromTask
  <2>5. work'[c.on] = work[c.on] \ {t} /\ c.listed = work[c.on]
    BY <1>1, <2>1, <2>2 DEF DecisionHolds, ClearanceInv, TypeOK
  <2>6. RestIsSettled(c)'
    BY <1>11, <2>1, <2>3, <2>4
  <2>7. DecisionHolds(c)'
    BY <1>1, <2>1, <2>3, <2>4, <2>5 DEF DecisionHolds, Carrying, KeptByGrant
  <2> QED
    BY <1>1, <1>3, <2>4, <2>6, <2>7
<1>16. c.step # "none" =>
          LET n == Earned(Cardinality(Carrying(c.on)), c.on \in verified) IN
          /\ n = "LOCAL" <=> Carrying(c.on) = {}
          /\ n = "FRONTLINE" =>
                c.on \in verified /\ Cardinality(Carrying(c.on)) >= FrontlineVouches
  <2>1. Carrying(c.on) \in SUBSET Users /\ (c.on \in verified) \in BOOLEAN
    BY DEF Carrying
  <2> QED
    BY <2>1, EarnedJustified
<1>17. CASE ReadUser(h)
  <2>1. /\ c.step = "read" /\ c.on \in Users
        /\ c.count = Cardinality(Carrying(c.on))
    BY <1>1, <1>2, <1>17 DEF ReadUser, At, DecisionHolds
  <2> DEFINE new == Earned(c.count, c.on \in verified)
  <2>2. UNCHANGED <<level, granted, verified, vouch, work>>
    BY <1>17 DEF ReadUser
  <2>3. CASE KeptByGrant(c.on)
    <3>1. Goto(h, "next") /\ UNCHANGED appointed
      BY <1>17, <2>3 DEF ReadUser
    <3>2. LevelFollows(c.on)'
      BY <1>1, <1>10, <2>1, <2>3, <3>1 DEF KeptByGrant, LevelFollows, Step
    <3>3. \A w \in Users : LevelFollows(w) => LevelFollows(w)'
      BY <2>2, <3>1 DEF LevelFollows, Carrying
    <3>4. DecisionHolds(c)' /\ RestIsSettled(c)'
      BY <1>12, <2>1, <2>2, <3>1, <3>2, <3>3
    <3> QED
      BY <1>1, <1>3, <2>2, <3>1, <3>4
  <2>4. CASE ~ KeptByGrant(c.on) /\ level[c.on] = new
    <3>1. Goto(h, "next") /\ appointed' = appointed \ {c.on}
      BY <1>17, <2>4 DEF ReadUser
    <3>2. LevelFollows(c.on)'
      BY <1>10, <1>16, <2>1, <2>2, <2>4, <3>1 DEF LevelFollows, Carrying, Step
    <3>3. \A w \in Users : w # c.on /\ LevelFollows(w) => LevelFollows(w)'
      BY <2>2, <3>1 DEF LevelFollows, Carrying
    <3>4. DecisionHolds(c)' /\ RestIsSettled(c)'
      BY <1>12, <2>1, <2>2, <3>1, <3>2, <3>3
    <3> QED
      BY <1>1, <1>3, <2>2, <2>4, <3>1, <3>4 DEF KeptByGrant
  <2>5. CASE ~ KeptByGrant(c.on) /\ level[c.on] # new
    <3>1. /\ call' = [call EXCEPT ![h].new = new, ![h].step =
                          IF level[c.on] = "FRONTLINE" THEN "list work" ELSE "write"]
          /\ UNCHANGED appointed
      BY <1>17, <2>5 DEF ReadUser
    <3>2. c \in CallRecord
      BY <1>2, <2>1
    <3>3. /\ call'[h].step = IF level[c.on] = "FRONTLINE" THEN "list work" ELSE "write"
          /\ call'[h].op = c.op /\ call'[h].on = c.on
          /\ call'[h].voucher = c.voucher /\ call'[h].todo = c.todo
          /\ call'[h].new = new
      BY <1>1, <3>1, <3>2 DEF CallRecord
    <3>4. RestIsSettled(c)'
      BY <1>11, <2>1, <2>2, <3>1, <3>3
    <3>5. DecisionHolds(c)'
      BY <2>1, <2>2, <2>5, <3>3 DEF DecisionHolds, Carrying, KeptByGrant
    <3> QED
      BY <1>1, <1>3, <2>2, <3>1, <3>4, <3>5
  <2> QED
    BY <2>3, <2>4, <2>5
<1>18. CASE WriteLevel(h)
  <2>1. /\ c.step = "write" /\ c.on \in Users /\ ~ KeptByGrant(c.on)
        /\ c.new = Earned(Cardinality(Carrying(c.on)), c.on \in verified)
    BY <1>1, <1>2, <1>18 DEF WriteLevel, At, DecisionHolds
  <2>2. /\ level' = [level EXCEPT ![c.on] = c.new] /\ appointed' = appointed \ {c.on}
        /\ Goto(h, "next") /\ UNCHANGED <<granted, verified, vouch>>
    BY <1>18 DEF WriteLevel
  <2>3. level'[c.on] = c.new /\ \A w \in Users : w # c.on => level'[w] = level[w]
    BY <2>1, <2>2 DEF ClearanceInv, TypeOK
  <2>4. LevelFollows(c.on)'
    BY <1>10, <1>16, <2>1, <2>2, <2>3 DEF LevelFollows, Carrying, Step
  <2>5. \A w \in Users : w # c.on /\ LevelFollows(w) => LevelFollows(w)'
    BY <2>2, <2>3 DEF LevelFollows, Carrying
  <2>6. DecisionHolds(c)' /\ RestIsSettled(c)'
    BY <1>12, <2>1, <2>2, <2>4, <2>5
  <2>7. \A u \in granted' : level'[u] = "FRONTLINE" /\ u \in appointed'
    BY <1>1, <2>1, <2>2, <2>3 DEF KeptByGrant, ClearanceInv, TypeOK
  <2> QED
    BY <1>3, <2>6, <2>7
<1>19. CASE Fail(h)
  BY <1>4, <1>19 DEF Fail, rows
<1> QED
  BY <1>5, <1>6, <1>8, <1>9, <1>13, <1>14, <1>15, <1>17, <1>18, <1>19 DEF Continue

LEMMA SerialInit == Init => SerialInv
<1> SUFFICES ASSUME Init PROVE SerialInv
  OBVIOUS
<1>1. granted = {} /\ \A h \in Handlers : call[h].step = "none"
  BY DEF Init, Idle
<1>2. ASSUME NEW h \in Handlers PROVE DecisionHolds(call[h]) /\ RestIsSettled(call[h])
  BY <1>1 DEF DecisionHolds, RestIsSettled, Recalculating, Deciding
<1> QED
  BY <1>1, <1>2 DEF SerialInv

LEMMA SerialStep ==
    ASSUME \A g, k \in Handlers : g = k,
           ClearanceInv, ClearanceInv', SerialInv, [Next]_vars
    PROVE  SerialInv'
<1>1. CASE UNCHANGED vars
  <2>1. UNCHANGED <<level, granted, verified, vouch, work, appointed, call>>
    BY <1>1 DEF vars
  <2>2. ASSUME NEW h \in Handlers PROVE DecisionHolds(call[h])'
    BY <2>1 DEF SerialInv, DecisionHolds, Carrying, KeptByGrant
  <2>3. ASSUME NEW h \in Handlers PROVE RestIsSettled(call[h])'
    <3>1. Touched(call[h])' = Touched(call[h])
      BY <2>1 DEF Touched
    <3>2. \A u : LevelFollows(u)' <=> LevelFollows(u)
      BY <2>1 DEF LevelFollows, Carrying
    <3> QED
      BY <2>1, <3>1, <3>2 DEF SerialInv, RestIsSettled
  <2> QED
    BY <2>1, <2>2, <2>3 DEF SerialInv
<1>2. CASE \E h \in Handlers : Continue(h) \/ Fail(h)
  BY <1>2, SerialContinue
<1>3. CASE Next /\ ~ \E h \in Handlers : Continue(h) \/ Fail(h)
  BY <1>3, SerialStart DEF Next
<1> QED
  BY <1>1, <1>2, <1>3

\* One call at a time, and any statement of it may fail: recalculateClearance
\* never acts on what is no longer so, and the flag of an administrator stands
\* only beside FRONTLINE (recalculateClearance, updateClearance, blockUser).
THEOREM SerialIsInvariant ==
    ASSUME \A g, k \in Handlers : g = k
    PROVE  Spec => []SerialInv
<1>1. SerialInv /\ ClearanceInv /\ ClearanceInv' /\ [Next]_vars => SerialInv'
  BY SerialStep
<1> QED
  BY <1>1, SerialInit, ClearanceIsInvariant, PTL DEF Spec

\* One call at a time: a call that runs to its end leaves every vouchee it
\* touched with a level the vouches justify, whatever earlier calls left undone
\* (blockUser, vouchForUser, restoreVouch, revokeVouchPermanently).
THEOREM CallSettles ==
    ASSUME \A g, k \in Handlers : g = k
    PROVE  Spec => CallSettlesClearance
<1>1. ASSUME ClearanceInv, SerialInv, NEW h \in Handlers,
             At(h, "next"), call[h].todo = {}
      PROVE  /\ \A u \in Touched(call[h]) : LevelFollows(u)
             /\ call[h].op = "blockUser" =>
                   \A u \in Users : vouch[u][call[h].voucher] # "active"
  BY <1>1 DEF SerialInv, RestIsSettled, At, Recalculating, Deciding
<1>2. ClearanceInv /\ SerialInv /\ [Next]_vars =>
        [\A h \in Handlers :
          call[h] # Idle /\ At(h, "next") /\ call'[h] = Idle /\ call[h].todo = {} =>
              /\ \A u \in Touched(call[h]) : LevelFollows(u)
              /\ call[h].op = "blockUser" =>
                    \A u \in Users : vouch[u][call[h].voucher] # "active"
        ]_vars
  BY <1>1
<1> QED
  BY <1>2, SerialIsInvariant, ClearanceIsInvariant, PTL DEF Spec, CallSettlesClearance

\* One call at a time: whoever loses FRONTLINE has no active assignment left
\* (recalculateClearance, withdrawFromActiveTasks).
THEOREM LostFrontline ==
    ASSUME \A g, k \in Handlers : g = k
    PROVE  Spec => LostFrontlineEndsWork
<1>1. ClearanceInv /\ SerialInv /\ [Next]_vars =>
        [\A h \in Handlers, u \in Users :
          WriteLevel(h) /\ level[u] = "FRONTLINE" /\ level'[u] # "FRONTLINE" =>
              work[u] = {}
        ]_vars
  <2> SUFFICES ASSUME ClearanceInv, SerialInv, NEW h \in Handlers, NEW u \in Users,
                      WriteLevel(h), level[u] = "FRONTLINE", level'[u] # "FRONTLINE"
               PROVE  work[u] = {}
    OBVIOUS
  <2>1. u = call[h].on /\ call[h].step = "write"
    BY DEF WriteLevel, At, ClearanceInv, TypeOK
  <2> QED
    BY <2>1 DEF SerialInv, DecisionHolds
<1> QED
  BY <1>1, SerialIsInvariant, ClearanceIsInvariant, PTL DEF Spec, LostFrontlineEndsWork

\* One call at a time: FRONTLINE granted by an administrator is lowered only
\* together with its flag (recalculateClearance, updateClearance).
THEOREM GrantIsKept ==
    ASSUME \A g, k \in Handlers : g = k
    PROVE  Spec => GrantKept
<1>1. ASSUME ClearanceInv, SerialInv, [Next]_vars, NEW u \in Users,
             u \in granted, level[u] = "FRONTLINE", level'[u] # "FRONTLINE"
      PROVE  u \notin granted'
  <2>1. CASE level' # level /\ \E h \in Handlers : WriteLevel(h)
    <3>1. PICK h \in Handlers : WriteLevel(h)
      BY <2>1
    <3>2. u = call[h].on /\ call[h].step = "write"
      BY <1>1, <3>1 DEF WriteLevel, At, ClearanceInv, TypeOK
    <3> QED
      BY <1>1, <3>2 DEF SerialInv, DecisionHolds, KeptByGrant, Deciding
  <2>2. CASE \E w \in Users, newLevel \in Level : updateClearance(w, newLevel)
    BY <1>1, <2>2 DEF updateClearance, FlagSetBy, ClearanceInv, TypeOK
  <2>3. \/ UNCHANGED level
        \/ \E h \in Handlers : WriteLevel(h)
        \/ \E w \in Users, newLevel \in Level : updateClearance(w, newLevel)
    <3>1. ASSUME NEW h \in Handlers, Continue(h) \/ Fail(h)
          PROVE  UNCHANGED level \/ WriteLevel(h)
      BY <3>1 DEF Continue, Fail, rows, Suspend, FindAffected, InsertVouch, Restore, Revoke,
                  NextVouchee, CountVouches, ReadUser, ListWork, WithdrawFromTask
    <3>2. ASSUME NEW h \in Handlers, NEW w \in Users, NEW v \in Users,
                 \/ blockUser(h, v) \/ vouchForUser(h, w, v)
                 \/ restoreVouch(h, w, v) \/ revokeVouchPermanently(h, w, v)
                 \/ unblockUser(v) \/ verifyEmail(v)
          PROVE  UNCHANGED level
      BY <3>2 DEF blockUser, vouchForUser, restoreVouch, revokeVouchPermanently,
                  unblockUser, verifyEmail, rows
    <3>3. ASSUME NEW w \in Workers, NEW t \in Tasks, TakeTask(w, t) \/ LeaveTask(w, t)
          PROVE  UNCHANGED level
      BY <3>3 DEF TakeTask, LeaveTask
    <3>4. CASE \E v \in Users : unblockUser(v) \/ verifyEmail(v)
      BY <3>4 DEF unblockUser, verifyEmail
    <3> QED
      BY <1>1, <3>1, <3>2, <3>3, <3>4 DEF Next, vars
  <2> QED
    BY <1>1, <2>1, <2>2, <2>3
<1>2. ClearanceInv /\ SerialInv /\ [Next]_vars =>
        [\A u \in Users :
          u \in granted /\ level[u] = "FRONTLINE" /\ level'[u] # "FRONTLINE" =>
              u \notin granted'
        ]_vars
  BY <1>1
<1> QED
  BY <1>2, SerialIsInvariant, ClearanceIsInvariant, PTL DEF Spec, GrantKept

=============================================================================
