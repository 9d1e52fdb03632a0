--------------------------- MODULE DelegationProofs ---------------------------
(* Theorems about Delegation, for every number of calls in flight. *)
EXTENDS Delegation, FiniteSetTheorems, TLAPS

LEMMA DelegationInit == Init => DelegationInv
<1> SUFFICES ASSUME Init PROVE DelegationInv
  OBVIOUS
<1>1. TypeOK
  BY DEF Init, TypeOK, DelegationRow
<1>2. Idle.step = "none" /\ Idle.step # "save"
  BY DEF Idle
<1>3. StepsMatch
  BY <1>2 DEF Init, StepsMatch
<1>4. ASSUME NEW t \in Tasks PROVE Claimants(t) = {}
  BY <1>2 DEF Init, Claimants, Accepted, Promised
<1>5. Cardinality({}) = 0 /\ Cardinality(Handlers) \in Nat
  BY FS_EmptySet, FS_CardinalityType, DelegationAssumption
<1>6. ClaimsBounded
  BY <1>4, <1>5 DEF ClaimsBounded
<1> QED
  BY <1>1, <1>3, <1>6 DEF DelegationInv

-----------------------------------------------------------------------------
(* The invariant is kept. *)

\* What a step does to the records: a call begins, moves on, ends, or none does.
LEMMA CallStep ==
    ASSUME TypeOK, StepsMatch, [Next]_vars
    PROVE  TypeOK' /\ StepsMatch'
<1> USE DEF Method, Step, DelegationRow
<1>0. Idle.step = "none"
  BY DEF Idle
<1>1. ASSUME NEW h \in Handlers, NEW t \in Tasks, NEW o \in Orgs, Start(h, t, o)
      PROVE  TypeOK' /\ StepsMatch'
  <2>1. CASE delegateTask(h, t, o)
    BY <2>1 DEF TypeOK, StepsMatch, CallRecord, delegateTask, Begin
  <2>2. CASE acceptDelegation(h, t, o)
    BY <2>2 DEF TypeOK, StepsMatch, CallRecord, acceptDelegation, Begin
  <2>3. CASE unacceptDelegation(h, t, o)
    BY <2>3 DEF TypeOK, StepsMatch, CallRecord, unacceptDelegation, Begin
  <2>4. CASE declineDelegation(h, t, o)
    BY <2>4 DEF TypeOK, StepsMatch, CallRecord, declineDelegation, Begin
  <2> QED
    BY <1>1, <2>1, <2>2, <2>3, <2>4 DEF Start
<1>2. ASSUME NEW h \in Handlers, NEW t \in Tasks, NEW o \in Orgs \cup {NoOrg},
             updateRequest(h, t, o)
      PROVE  TypeOK' /\ StepsMatch'
  BY <1>2 DEF TypeOK, StepsMatch, CallRecord, updateRequest, Begin
<1>3. ASSUME NEW t \in Tasks, SoftDelete(t) PROVE TypeOK' /\ StepsMatch'
  BY <1>3 DEF TypeOK, StepsMatch, SoftDelete
<1>4. ASSUME NEW h \in Handlers, Continue(h) PROVE TypeOK' /\ StepsMatch'
  <2> DEFINE c == call[h]
  <2>1. ASSUME NEW s \in {"save", "manage"}, Goto(h, s), c.step # "none",
               c.op = "acceptDelegation", c.org \in Orgs
        PROVE  call' \in [Handlers -> CallRecord \cup {Idle}] /\ StepsMatch'
    <3>1. c \in CallRecord
      BY <2>1 DEF StepsMatch
    <3> DEFINE d == [c EXCEPT !.step = s]
    <3>2. d \in CallRecord /\ d.step = s /\ d.op = "acceptDelegation" /\ d.org \in Orgs
      BY <2>1, <3>1 DEF CallRecord
    <3>3. call' = [call EXCEPT ![h] = d]
      BY <2>1 DEF Goto
    <3> HIDE DEF d
    <3> QED
      BY <2>1, <3>2, <3>3 DEF TypeOK, StepsMatch
  <2>2. ASSUME Return(h)
        PROVE  call' \in [Handlers -> CallRecord \cup {Idle}] /\ StepsMatch'
    BY <1>0, <2>2 DEF TypeOK, StepsMatch, Return
  <2>3. CASE Upsert(h)
    <3>1. c.org \in Orgs /\ c.on \in Tasks
      BY <2>3 DEF Upsert, At, StepsMatch, CallRecord
    <3> QED
      BY <2>2, <2>3, <3>1 DEF Upsert, TypeOK
  <2>4. CASE LookForAnother(h)
    BY <2>1, <2>2, <2>4 DEF LookForAnother, At, TypeOK, StepsMatch
  <2>5. CASE Save(h)
    <3>1. c.org \in Orgs /\ c.on \in Tasks /\ SavedAs(c.op) \in DelegationRow
      BY <2>5 DEF Save, At, StepsMatch, CallRecord, SavedAs
    <3> QED
      BY <2>1, <2>2, <2>5, <3>1 DEF Save, At, TypeOK
  <2>6. CASE Manage(h)
    BY <2>2, <2>6 DEF Manage, At, TypeOK, StepsMatch
  <2>7. CASE SaveRequest(h)
    <3>1. c.org \in Orgs \cup {NoOrg}
      BY <2>7 DEF SaveRequest, At, StepsMatch, CallRecord
    <3> QED
      BY <2>2, <2>7, <3>1 DEF SaveRequest, TypeOK
  <2>8. CASE Fail(h)
    BY <2>2, <2>8 DEF Fail, TypeOK
  <2> QED
    BY <1>4, <2>3, <2>4, <2>5, <2>6, <2>7, <2>8 DEF Continue
<1>5. CASE UNCHANGED vars
  BY <1>5 DEF TypeOK, StepsMatch, vars
<1> QED
  BY <1>1, <1>2, <1>3, <1>4, <1>5 DEF Next

\* Organisations on whose behalf calls are made are at most as many as the calls.
LEMMA OneOrgPerCall ==
    ASSUME NEW r, NEW T \in SUBSET Orgs, \A o \in T : \E h \in Handlers : r[h].org = o
    PROVE  Cardinality(T) <= Cardinality(Handlers)
<1> DEFINE S == {h \in Handlers : r[h].org \in T}
           f == [h \in S |-> r[h].org]
<1>1. f \in Surjection(S, T)
  BY DEF Surjection
<1>2. IsFiniteSet(S) /\ Cardinality(S) <= Cardinality(Handlers)
  BY FS_Subset, DelegationAssumption
<1>3. Cardinality(T) <= Cardinality(S)
  BY <1>1, <1>2, FS_Surjection
<1>4. IsFiniteSet(T)
  BY FS_Subset, DelegationAssumption
<1>5. Cardinality(T) \in Nat /\ Cardinality(S) \in Nat /\ Cardinality(Handlers) \in Nat
  BY <1>2, <1>4, FS_CardinalityType, DelegationAssumption
<1> QED
  BY <1>2, <1>3, <1>5

\* A step adds a claimant only when it has found the task free.
LEMMA ClaimsStep ==
    ASSUME TypeOK, StepsMatch, [Next]_vars, NEW t \in Tasks
    PROVE  \/ Claimants(t)' \subseteq Claimants(t)
           \/ Accepted(t)' = {}
<1> USE DEF Claimants, Accepted, Promised
<1>0. Idle.step = "none"
  BY DEF Idle
<1>1. ASSUME NEW h \in Handlers, NEW s \in Tasks, NEW o \in Orgs, Start(h, s, o)
      PROVE  Claimants(t)' \subseteq Claimants(t)
  <2>1. \/ Begin(h, "delegateTask", "upsert", s, o)
        \/ Begin(h, "acceptDelegation", "look for another", s, o)
        \/ Begin(h, "unacceptDelegation", "save", s, o)
        \/ Begin(h, "declineDelegation", "save", s, o)
    BY <1>1 DEF Start, delegateTask, acceptDelegation, unacceptDelegation, declineDelegation
  <2>2. ASSUME NEW op, NEW step, Begin(h, op, step, s, o),
               step # "save" \/ op # "acceptDelegation"
        PROVE  Claimants(t)' \subseteq Claimants(t)
    <3>1. call'[h].step = step /\ call'[h].op = op
      BY <2>2 DEF Begin, TypeOK
    <3>2. delegation' = delegation /\ \A g \in Handlers \ {h} : call'[g] = call[g]
      BY <2>2 DEF Begin, TypeOK
    <3> QED
      BY <2>2, <3>1, <3>2
  <2> QED
    BY <2>1, <2>2
<1>2. ASSUME NEW h \in Handlers, NEW s \in Tasks, NEW o \in Orgs \cup {NoOrg},
             updateRequest(h, s, o)
      PROVE  Claimants(t)' \subseteq Claimants(t)
  BY <1>2 DEF TypeOK, updateRequest, Begin
<1>3. ASSUME NEW s \in Tasks, SoftDelete(s) PROVE Claimants(t)' \subseteq Claimants(t)
  BY <1>3 DEF SoftDelete
<1>4. ASSUME NEW h \in Handlers, Continue(h)
      PROVE  Claimants(t)' \subseteq Claimants(t) \/ Accepted(t)' = {}
  <2> DEFINE c == call[h]
  <2>1. ASSUME Return(h), UNCHANGED delegation PROVE Claimants(t)' \subseteq Claimants(t)
    BY <1>0, <2>1 DEF TypeOK, Return
  <2>2. CASE Upsert(h)
    <3>1. c.on \in Tasks /\ c.org \in Orgs
      BY <2>2 DEF Upsert, At, StepsMatch, CallRecord
    <3>2. Accepted(t)' \subseteq Accepted(t)
      BY <2>2, <3>1 DEF Upsert, TypeOK
    <3>3. ~Promised(h, t)' /\ \A g \in Handlers \ {h} : call'[g] = call[g]
      BY <1>0, <2>2 DEF Upsert, Return, TypeOK
    <3> QED
      BY <3>2, <3>3
  <2>3. CASE LookForAnother(h)
    <3>1. CASE Goto(h, "save") /\ c.on = t /\ c.org \in Accepted(t)
      <4>1. call'[h].org = c.org
        BY <2>3, <3>1 DEF LookForAnother, At, Goto, TypeOK, StepsMatch, CallRecord
      <4>2. delegation' = delegation /\ \A g \in Handlers \ {h} : call'[g] = call[g]
        BY <2>3, <3>1 DEF LookForAnother, Goto, TypeOK
      <4> QED
        BY <3>1, <4>1, <4>2
    <3>2. CASE Goto(h, "save") /\ c.on = t /\ Accepted(t) = {}
      BY <2>3, <3>2 DEF LookForAnother
    <3>3. CASE Goto(h, "save") /\ c.on # t
      <4>1. call'[h].on # t
        BY <2>3, <3>3 DEF LookForAnother, At, Goto, TypeOK, StepsMatch, CallRecord
      <4> QED
        BY <2>3, <3>3, <4>1 DEF LookForAnother, Goto, TypeOK
    <3> QED
      BY <2>1, <2>3, <3>1, <3>2, <3>3 DEF LookForAnother
  <2>4. CASE Save(h)
    <3>1. c.on \in Tasks /\ c.org \in Orgs
      BY <2>4 DEF Save, At, StepsMatch, CallRecord
    <3>2. Accepted(t)' \subseteq Claimants(t)
      BY <2>4, <3>1 DEF Save, At, StepsMatch, SavedAs, TypeOK
    <3>3. ~Promised(h, t)' /\ \A g \in Handlers \ {h} : call'[g] = call[g]
      BY <1>0, <2>4 DEF Save, Goto, Return, TypeOK, StepsMatch, At, CallRecord
    <3> QED
      BY <3>2, <3>3
  <2>5. CASE Manage(h) \/ SaveRequest(h) \/ Fail(h)
    BY <2>1, <2>5 DEF Manage, SaveRequest, Fail
  <2> QED
    BY <1>4, <2>2, <2>3, <2>4, <2>5 DEF Continue
<1>5. CASE UNCHANGED vars
  BY <1>5 DEF vars
<1> QED
  BY <1>1, <1>2, <1>3, <1>4, <1>5 DEF Next

LEMMA DelegationStep == DelegationInv /\ [Next]_vars => DelegationInv'
<1> SUFFICES ASSUME DelegationInv, [Next]_vars PROVE DelegationInv'
  OBVIOUS
<1>1. TypeOK' /\ StepsMatch'
  BY CallStep DEF DelegationInv
<1>2. ASSUME NEW t \in Tasks PROVE Cardinality(Claimants(t)') <= Cardinality(Handlers)
  <2>1. CASE Claimants(t)' \subseteq Claimants(t)
    <3>1. IsFiniteSet(Claimants(t))
      BY FS_Subset, DelegationAssumption DEF Claimants, Accepted
    <3>2. Cardinality(Claimants(t)') <= Cardinality(Claimants(t))
      BY <2>1, <3>1, FS_Subset
    <3>3. /\ Cardinality(Claimants(t)) <= Cardinality(Handlers)
          /\ Cardinality(Claimants(t)) \in Nat /\ Cardinality(Handlers) \in Nat
          /\ Cardinality(Claimants(t)') \in Nat
      BY <2>1, <3>1, FS_Subset, FS_CardinalityType, DelegationAssumption
         DEF DelegationInv, ClaimsBounded
    <3> QED
      BY <3>2, <3>3
  <2>2. CASE Accepted(t)' = {}
    <3>1. /\ Claimants(t)' \in SUBSET Orgs
          /\ \A o \in Claimants(t)' : \E h \in Handlers : call'[h].org = o
      BY <2>2 DEF Claimants
    <3> QED
      BY <3>1, OneOrgPerCall
  <2> QED
    BY <2>1, <2>2, ClaimsStep DEF DelegationInv
<1> QED
  BY <1>1, <1>2 DEF DelegationInv, ClaimsBounded

LEMMA DelegationCorrect == Spec => []DelegationInv
BY DelegationInit, DelegationStep, PTL DEF Spec

\* However many organisations accept, give back, decline and are asked again at
\* once, no more of them hold a task than calls were in flight together.
THEOREM OwnersBounded == Spec => []ClaimsBounded
BY DelegationCorrect, PTL DEF DelegationInv

\* "Prevent double acceptance by another organization": with one call at a time
\* the check of acceptDelegation does what it says, however many organisations
\* there are.
THEOREM OneAtATime ==
    ASSUME Cardinality(Handlers) = 1
    PROVE  Spec => []OneOwner
<1>1. ASSUME ClaimsBounded, NEW t \in Tasks
      PROVE  Cardinality(Accepted(t)) <= 1
  <2>1. Accepted(t) \in SUBSET Claimants(t) /\ Claimants(t) \in SUBSET Orgs
    BY DEF Accepted, Claimants
  <2>2. IsFiniteSet(Claimants(t)) /\ IsFiniteSet(Accepted(t))
    BY <2>1, DelegationAssumption, FS_Subset
  <2>3. /\ Cardinality(Accepted(t)) \in Nat /\ Cardinality(Claimants(t)) \in Nat
        /\ Cardinality(Accepted(t)) <= Cardinality(Claimants(t))
    BY <2>1, <2>2, FS_Subset, FS_CardinalityType
  <2>4. Cardinality(Claimants(t)) <= 1
    BY <1>1 DEF ClaimsBounded
  <2> QED
    BY <2>3, <2>4
<1>2. ClaimsBounded => OneOwner
  BY <1>1 DEF OneOwner
<1> QED
  BY <1>2, OwnersBounded, PTL

-----------------------------------------------------------------------------
(* Delegation implements TaskOwnership. *)

owners == [t \in Tasks |-> Accepted(t)]

\* The instance counts as this module does.
LEMMA SameCardinality ==
    ASSUME NEW S PROVE Ownership!Cardinality(S) = Cardinality(S)
BY DEF Ownership!Cardinality, Cardinality

\* A step lets at most one organisation take a task, or gives some back.
LEMMA OwnersStep ==
    ASSUME DelegationInv, [Next]_vars
    PROVE  [Ownership!Next]_owners
<1> USE DEF DelegationInv
<1>1. CASE delegation' = delegation
  BY <1>1 DEF owners, Accepted
<1>2. ASSUME NEW h \in Handlers, Upsert(h) \/ Save(h) PROVE [Ownership!Next]_owners
  <2> DEFINE t == call[h].on
             o == call[h].org
  <2>1. t \in Tasks /\ o \in Orgs
    BY <1>2 DEF Upsert, Save, At, StepsMatch, CallRecord
  <2>2. PICK r \in DelegationRow : /\ delegation' = [delegation EXCEPT ![t][o] = r]
                                   /\ r = "accepted" => Promised(h, t)
    BY <1>2, <2>1 DEF Upsert, Save, At, StepsMatch, SavedAs, DelegationRow, Promised
  <2>3. CASE r # "accepted"
    <3>1. owners' = [owners EXCEPT ![t] = @ \ {o}]
      BY <2>1, <2>2, <2>3 DEF owners, Accepted, TypeOK
    <3> QED
      BY <2>1, <3>1 DEF Ownership!Next, Ownership!GiveBack, owners
  <2>4. CASE r = "accepted" /\ o \notin Accepted(t)
    <3>1. owners' = [owners EXCEPT ![t] = @ \cup {o}]
      BY <2>1, <2>2, <2>4 DEF owners, Accepted, TypeOK
    <3>2. Accepted(t) \cup {o} \subseteq Claimants(t) /\ IsFiniteSet(Claimants(t))
      BY <2>1, <2>2, <2>4, FS_Subset, DelegationAssumption DEF Claimants, Accepted
    <3>3. Cardinality(Accepted(t)) + 1 <= Cardinality(Claimants(t))
      <4>1. IsFiniteSet(Accepted(t))
        BY <3>2, FS_Subset
      <4>2. Cardinality(Accepted(t) \cup {o}) = Cardinality(Accepted(t)) + 1
        BY <2>4, <4>1, FS_AddElement
      <4>3. Cardinality(Accepted(t) \cup {o}) <= Cardinality(Claimants(t))
        BY <3>2, FS_Subset
      <4> QED
        BY <4>2, <4>3
    <3>4. Cardinality(Claimants(t)) <= Cardinality(Handlers)
      BY <2>1 DEF ClaimsBounded
    <3>5. /\ Cardinality(Accepted(t)) \in Nat /\ Cardinality(Claimants(t)) \in Nat
          /\ Cardinality(Handlers) \in Nat
      BY <3>2, FS_Subset, FS_CardinalityType, DelegationAssumption
    <3>6. Cardinality(Accepted(t)) < Cardinality(Handlers)
      BY <3>3, <3>4, <3>5
    <3> QED
      <4>1. Ownership!Cardinality(owners[t]) = Cardinality(Accepted(t))
        BY <2>1, SameCardinality DEF owners
      <4>2. Ownership!Take(t, o)
        BY <3>1, <3>6, <4>1 DEF Ownership!Take, owners
      <4> QED
        BY <2>1, <4>2 DEF Ownership!Next
  <2>5. CASE r = "accepted" /\ o \in Accepted(t)
    BY <2>1, <2>2, <2>5 DEF owners, Accepted, TypeOK
  <2> QED
    BY <2>3, <2>4, <2>5
<1>3. \/ delegation' = delegation
      \/ \E h \in Handlers : Upsert(h) \/ Save(h)
  BY DEF Next, Start, delegateTask, acceptDelegation, unacceptDelegation,
     declineDelegation, updateRequest, Begin, Continue, LookForAnother, Manage,
     SaveRequest, Fail, SoftDelete, vars
<1> QED
  BY <1>1, <1>2, <1>3

\* Delegation implements TaskOwnership, its limit being the number of calls that
\* are in flight at once.
THEOREM Refinement == Spec => KeepsOwnership
<1>1. Init => Ownership!Init
  BY DEF Init, Ownership!Init, Accepted
<1>2. DelegationInv /\ [Next]_vars => [Ownership!Next]_owners
  BY OwnersStep
<1> QED
  BY <1>1, <1>2, DelegationCorrect, PTL DEF Spec, KeepsOwnership, Ownership!Spec, owners
=============================================================================
