----------------------------- MODULE ServicesProofs -----------------------------
(***************************************************************************)
(* Theorems about TaskReports and RequestFeed, and about the services of   *)
(* MCServices side by side, for any number of calls in flight and any      *)
(* bounds.                                                                 *)
(*                                                                         *)
(* Reports: while nobody has written since a save compared, what it writes *)
(* is its whole copy; while nobody has written since a deletion looked,    *)
(* the report is not verified.                                             *)
(*                                                                         *)
(* The list of requests: of what was on the list all the time, the reader  *)
(* has passed without seeing it no more than has left the list, unless he  *)
(* reads by distance; a visit is about to be logged only for somebody who  *)
(* was let in.                                                             *)
(*                                                                         *)
(* Side by side: the service that moves keeps its own invariant, the       *)
(* others have no call in flight and their rows stay as they were.         *)
(***************************************************************************)
EXTENDS MCServices, MembershipProofs, SessionsProofs, ChatRoomsProofs

-----------------------------------------------------------------------------
(* Reports about tasks *)

\* What the method made of its copy, and what is still so of the row.
ReportCallHolds(c) ==
    /\ c \in ReportCall
    /\ c.row.exists
    /\ c.op = "deleteReport" <=> c.step = "delete report"
    /\ c.op = "updateReport" => ~c.row.isVerified
    /\ c.op = "verifyReport" => c.row.comment = c.read
    /\ c.alone /\ c.step = "save report" =>
           \A k \in ReportColumn \ c.cols : c.row[k] = report[k]
    /\ c.alone /\ c.step = "delete report" => ~report.isVerified

ReportsInv ==
    /\ ReportsTypeOK
    /\ call = [g \in Handlers |-> call[g]]
    /\ \A h \in Handlers : InFlight(h) => ReportCallHolds(call[h])

LEMMA IdleIsNoReportCall == Idle \notin ReportCall
BY DEF ReportCall, Idle, ReportMethod

LEMMA ReportsInvInit == ReportsInit /\ CallsInit => ReportsInv
<1> SUFFICES ASSUME ReportsInit, CallsInit PROVE ReportsInv
  OBVIOUS
<1>1. report \in ReportRow /\ halfHour \in BOOLEAN
  <2>1. 0 \in 0..MaxTexts
    BY ReportAssumption
  <2> QED
    BY <2>1 DEF ReportsInit, ReportRow
<1>2. texts \in 0..MaxTexts /\ vouched \in 0..MaxTexts
  BY ReportAssumption DEF ReportsInit
<1>3. \A h \in Handlers : ~InFlight(h)
  BY DEF CallsInit, InFlight
<1>4. call = [g \in Handlers |-> call[g]]
  BY DEF CallsInit
<1> QED
  BY <1>1, <1>2, <1>3, <1>4 DEF ReportsInv, ReportsTypeOK

-----------------------------------------------------------------------------
(* The two kinds of steps. *)

\* Only handler h moves, and the row does not change.
LEMMA QuietReportStep ==
    ASSUME ReportsInv, NEW h \in Handlers, NEW c,
           call' = [call EXCEPT ![h] = c], UNCHANGED <<report, halfHour, vouched>>,
           texts' \in 0..MaxTexts, c = Idle \/ ReportCallHolds(c)
    PROVE  ReportsInv'
<1>1. /\ call' = [g \in Handlers |-> IF g = h THEN c ELSE call[g]]
      /\ \A g \in Handlers : call'[g] = IF g = h THEN c ELSE call[g]
  BY DEF ReportsInv
<1>2. ASSUME NEW g \in Handlers, InFlight(g)'
      PROVE  ReportCallHolds(call[g])'
  <2>1. ReportCallHolds(call'[g])
    BY <1>1, <1>2 DEF ReportsInv, InFlight
  <2> QED
    BY <2>1 DEF ReportCallHolds
<1>3. ReportsTypeOK'
  BY <1>2 DEF ReportsInv, ReportsTypeOK, ReportCallHolds
<1>4. (call = [g \in Handlers |-> call[g]])'
  BY <1>1
<1> QED
  BY <1>2, <1>3, <1>4 DEF ReportsInv

\* The row changes, and no call is alone any more.
LEMMA WritingReportStep ==
    ASSUME ReportsInv,
           report' \in ReportRow, vouched' \in 0..MaxTexts, texts' \in 0..MaxTexts,
           halfHour' \in BOOLEAN,
           call' = [g \in Handlers |-> call'[g]],
           \A g \in Handlers : call'[g] \in {Idle, Disturbed(g)}
    PROVE  ReportsInv'
<1>1. ASSUME NEW g \in Handlers, InFlight(g)'
      PROVE  ReportCallHolds(call[g])'
  <2>1. InFlight(g) /\ call'[g] = [call[g] EXCEPT !.alone = FALSE]
    BY <1>1 DEF Disturbed, InFlight
  <2>2. ReportCallHolds(call[g]) /\ call[g] \in ReportCall
    BY <2>1 DEF ReportsInv, ReportCallHolds
  <2>3. /\ call'[g] \in ReportCall /\ ~call'[g].alone
        /\ call'[g].row = call[g].row /\ call'[g].op = call[g].op
        /\ call'[g].step = call[g].step /\ call'[g].read = call[g].read
    BY <2>1, <2>2 DEF ReportCall
  <2> QED
    BY <2>2, <2>3 DEF ReportCallHolds
<1>2. ReportsTypeOK'
  BY <1>1 DEF ReportsTypeOK, ReportCallHolds
<1> QED
  BY <1>1, <1>2 DEF ReportsInv

-----------------------------------------------------------------------------
(* One lemma per operation. *)

LEMMA CreateReportKeeps ==
    ASSUME ReportsInv, createReport
    PROVE  ReportsInv'
<1>1. report' \in ReportRow /\ texts' \in 0..MaxTexts
  BY ReportAssumption DEF createReport, ReportRow
<1>2. /\ call' = [g \in Handlers |-> call'[g]]
      /\ \A g \in Handlers : call'[g] \in {Idle, Disturbed(g)}
  BY DEF createReport, Disturbs
<1> QED
  BY <1>1, <1>2, WritingReportStep DEF createReport, ReportsInv, ReportsTypeOK

LEMMA ReadReportKeeps ==
    ASSUME ReportsInv, NEW h \in Handlers,
           updateReport(h) \/ verifyReport(h) \/ deleteReport(h)
    PROVE  ReportsInv'
<1> USE DEF ReportsInv, ReportsTypeOK
<1>1. CASE updateReport(h)
  <2>1. PICK row : row = Edited(texts + 1)
    OBVIOUS
  <2>2. texts + 1 \in 0..MaxTexts
    <3>1. texts \in 0..MaxTexts /\ texts < MaxTexts
      BY <1>1 DEF updateReport
    <3> QED
      BY <3>1, ReportAssumption
  <2>3. row \in ReportRow /\ ~row.isVerified /\ row.exists
    BY <1>1, <2>1, <2>2 DEF Edited, ReportRow, updateReport, ReadReport
  <2>4. PICK c : c = [op |-> "updateReport", step |-> "diff report", alone |-> TRUE,
                      row |-> row, read |-> report.comment, cols |-> {}]
    OBVIOUS
  <2>5. c \in ReportCall
    BY <2>3, <2>4 DEF ReportCall, ReportMethod, ReportRow
  <2>6. ReportCallHolds(c)
    BY <2>3, <2>4, <2>5 DEF ReportCallHolds
  <2> QED
    BY <1>1, <2>1, <2>2, <2>4, <2>6, QuietReportStep DEF updateReport, ReadReport, Begin
<1>2. CASE verifyReport(h)
  <2>1. PICK row : row = [report EXCEPT !.isVerified = TRUE]
    OBVIOUS
  <2>2. row \in ReportRow /\ row.comment = report.comment /\ row.exists
    BY <1>2, <2>1 DEF ReportRow, verifyReport, ReadReport
  <2>3. PICK c : c = [op |-> "verifyReport", step |-> "diff report", alone |-> TRUE,
                      row |-> row, read |-> report.comment, cols |-> {}]
    OBVIOUS
  <2>4. c \in ReportCall
    BY <2>2, <2>3 DEF ReportCall, ReportMethod, ReportRow
  <2>5. ReportCallHolds(c)
    BY <2>2, <2>3, <2>4 DEF ReportCallHolds
  <2> QED
    BY <1>2, <2>1, <2>3, <2>5, QuietReportStep
       DEF verifyReport, ReadReport, Begin, reportVars
<1>3. CASE deleteReport(h)
  <2>1. report.exists /\ ~report.isVerified
    BY <1>3 DEF deleteReport, MayDeleteReport, ReadReport
  <2>2. PICK c : c = [op |-> "deleteReport", step |-> "delete report", alone |-> TRUE,
                      row |-> report, read |-> report.comment, cols |-> {}]
    OBVIOUS
  <2>3. c \in ReportCall
    BY <2>2 DEF ReportCall, ReportMethod, ReportRow
  <2>4. ReportCallHolds(c)
    BY <2>1, <2>2, <2>3 DEF ReportCallHolds
  <2> QED
    BY <1>3, <2>2, <2>4, QuietReportStep DEF deleteReport, ReadReport, Begin, reportVars
<1> QED
  BY <1>1, <1>2, <1>3

\* What save() finds to write are the columns in which copy and row differ.
LEMMA DiffReportKeeps ==
    ASSUME ReportsInv, NEW h \in Handlers, DiffReport(h)
    PROVE  ReportsInv'
<1>1. PICK c : c = call[h]
  OBVIOUS
<1>2. ReportCallHolds(c) /\ c \in ReportCall /\ c.step = "diff report"
  BY <1>1 DEF DiffReport, At, ReportsInv, ReportCallHolds
<1>3. PICK cols : cols = {k \in ReportColumn : c.row[k] # report[k]}
  OBVIOUS
<1>4. PICK d : d = [c EXCEPT !.step = "save report", !.alone = TRUE, !.cols = cols]
  OBVIOUS
<1>5. /\ d \in ReportCall /\ d.step = "save report" /\ d.cols = cols
      /\ d.op = c.op /\ d.row = c.row /\ d.read = c.read
  BY <1>2, <1>3, <1>4 DEF ReportCall
<1>6. ReportCallHolds(d)
  BY <1>2, <1>3, <1>5 DEF ReportCallHolds
<1>7. call' = [call EXCEPT ![h] = d]
  BY <1>1, <1>3, <1>4 DEF DiffReport, Becomes
<1> QED
  BY <1>6, <1>7, QuietReportStep DEF DiffReport, reportVars, ReportsInv, ReportsTypeOK

LEMMA SaveReportKeeps ==
    ASSUME ReportsInv, NEW h \in Handlers, SaveReport(h) \/ DeleteReport(h)
    PROVE  ReportsInv'
<1>1. PICK c : c = call[h]
  OBVIOUS
<1>2. c \in ReportCall /\ c.row \in ReportRow /\ c.read \in 0..MaxTexts
  BY <1>1 DEF SaveReport, DeleteReport, At, ReportsInv, ReportCallHolds, ReportCall
<1>3. report \in ReportRow /\ vouched \in 0..MaxTexts
  BY DEF ReportsInv, ReportsTypeOK
<1>4. Written(c) \in ReportRow
  BY <1>2, <1>3 DEF Written, ReportRow, ReportColumn
<1>5. report' \in ReportRow
  <2>1. CASE SaveReport(h)
    BY <1>1, <1>3, <1>4, <2>1 DEF SaveReport
  <2>2. CASE DeleteReport(h)
    BY <1>3, <2>2 DEF DeleteReport, ReportRow
  <2> QED
    BY <2>1, <2>2
<1>6. vouched' \in 0..MaxTexts
  BY <1>1, <1>2, <1>3 DEF SaveReport, DeleteReport
<1>7. /\ call' = [g \in Handlers |-> call'[g]]
      /\ \A g \in Handlers : call'[g] \in {Idle, Disturbed(g)}
  BY DEF SaveReport, DeleteReport, WritesAndBecomes
<1> QED
  BY <1>5, <1>6, <1>7, WritingReportStep
     DEF SaveReport, DeleteReport, ReportsInv, ReportsTypeOK

LEMMA TimeAndFailuresKeep ==
    ASSUME ReportsInv,
           \/ HalfHourPasses \/ UNCHANGED <<reportVars, flight>>
           \/ \E h \in Handlers : FailReportCall(h)
    PROVE  ReportsInv'
<1>1. CASE HalfHourPasses \/ UNCHANGED <<reportVars, flight>>
  <2>1. UNCHANGED <<report, texts, vouched, call>> /\ halfHour' \in BOOLEAN
    BY <1>1 DEF HalfHourPasses, reportVars, flight, ReportsInv, ReportsTypeOK
  <2>2. ReportsTypeOK' /\ (call = [g \in Handlers |-> call[g]])'
    BY <2>1 DEF ReportsInv, ReportsTypeOK, InFlight
  <2>3. \A h \in Handlers : (InFlight(h) => ReportCallHolds(call[h]))'
    BY <2>1 DEF ReportsInv, InFlight, ReportCallHolds
  <2> QED
    BY <2>2, <2>3 DEF ReportsInv
<1>2. CASE \E h \in Handlers : FailReportCall(h)
  BY <1>2, QuietReportStep
     DEF FailReportCall, Becomes, reportVars, ReportsInv, ReportsTypeOK
<1> QED
  BY <1>1, <1>2

LEMMA ReportsInvNext ==
    ASSUME ReportsInv, [ReportsNext]_<<reportVars, flight>>
    PROVE  ReportsInv'
BY CreateReportKeeps, ReadReportKeeps, DiffReportKeeps, SaveReportKeeps,
   TimeAndFailuresKeep DEF ReportsNext

\* The strengthening holds throughout.
THEOREM ReportsInvHolds == ReportsSpec => []ReportsInv
<1>1. ReportsInit /\ CallsInit => ReportsInv
  BY ReportsInvInit
<1>2. ReportsInv /\ [ReportsNext]_<<reportVars, flight>> => ReportsInv'
  BY ReportsInvNext
<1> QED
  BY <1>1, <1>2, PTL DEF ReportsSpec

-----------------------------------------------------------------------------
(* The properties. *)

\* What a save leaves behind when nobody got in between: its copy.
LEMMA AloneSaveWritesCopy ==
    ASSUME ReportsInv, NEW h \in Handlers, SaveReport(h), call[h].alone
    PROVE  /\ report'.isVerified = call[h].row.isVerified
           /\ report'.comment = call[h].row.comment
<1>1. PICK c : c = call[h]
  OBVIOUS
<1>2. /\ c.row.exists /\ c.step = "save report" /\ c \in ReportCall
      /\ \A k \in ReportColumn \ c.cols : c.row[k] = report[k]
  BY <1>1 DEF SaveReport, At, ReportsInv, ReportCallHolds
<1>3. report.exists \/ "exists" \in c.cols
  BY <1>2 DEF ReportColumn
<1>4. report' = Written(c)
  BY <1>1, <1>3 DEF SaveReport
<1>5. "isVerified" \in ReportColumn /\ "comment" \in ReportColumn
  BY DEF ReportColumn
<1>6. report'.isVerified = c.row.isVerified
  BY <1>2, <1>4, <1>5 DEF Written
<1>7. report'.comment = c.row.comment
  BY <1>2, <1>4, <1>5 DEF Written
<1> QED
  BY <1>1, <1>6, <1>7

\* The steps that change neither the row nor what was read.
LEMMA OnlyWritersWrite ==
    ASSUME ReportsInv, ReportsNext
    PROVE  \/ UNCHANGED <<report, vouched>>
           \/ createReport
           \/ \E h \in Handlers : SaveReport(h) \/ DeleteReport(h)
BY DEF ReportsNext, HalfHourPasses, updateReport, verifyReport, deleteReport, ReadReport,
       DiffReport, FailReportCall, reportVars

LEMMA VerifiedTextStep ==
    ASSUME ReportsInv, ReportsNext, report'.isVerified, report'.comment # vouched'
    PROVE  \/ report.isVerified /\ report.comment # vouched
           \/ \E h \in Handlers : SavesReport(h) /\ ~call[h].alone
<1>1. CASE UNCHANGED <<report, vouched>>
  BY <1>1
<1>2. CASE createReport
  BY <1>2 DEF createReport
<1>3. CASE \E h \in Handlers : DeleteReport(h)
  BY <1>3 DEF DeleteReport, ReportsInv, ReportsTypeOK, ReportRow
<1>4. ASSUME NEW h \in Handlers, SaveReport(h), call[h].alone
      PROVE  FALSE
  <2>1. PICK c : c = call[h]
    OBVIOUS
  <2>2. ReportCallHolds(c) /\ c.op \in ReportMethod /\ c.step = "save report"
    BY <1>4, <2>1 DEF SaveReport, At, ReportsInv, ReportCallHolds, ReportCall
  <2>3. report'.isVerified = c.row.isVerified /\ report'.comment = c.row.comment
    BY <1>4, <2>1, AloneSaveWritesCopy
  <2>4. c.op = "verifyReport"
    BY <2>2, <2>3 DEF ReportCallHolds, ReportMethod
  <2>5. vouched' = c.read
    BY <1>4, <2>1, <2>4 DEF SaveReport
  <2> QED
    BY <2>2, <2>3, <2>4, <2>5 DEF ReportCallHolds
<1>5. ASSUME NEW h \in Handlers, SaveReport(h) PROVE SavesReport(h)
  BY <1>5 DEF SaveReport, SavesReport, WritesAndBecomes, InFlight
<1> QED
  BY <1>1, <1>2, <1>3, <1>4, <1>5, OnlyWritersWrite

LEMMA DeletionStep ==
    ASSUME ReportsInv, ReportsNext, report.exists, report.isVerified, ~report'.exists
    PROVE  \E h \in Handlers : At(h, "delete report") /\ ~InFlight(h)' /\ ~call[h].alone
<1>1. ~createReport
  BY DEF createReport
<1>2. ASSUME NEW h \in Handlers, SaveReport(h) PROVE FALSE
  <2>1. PICK c : c = call[h]
    OBVIOUS
  <2>2. c.row.exists /\ report' = Written(c)
    BY <1>2, <2>1 DEF SaveReport, At, ReportsInv, ReportCallHolds
  <2> QED
    BY <2>2 DEF Written, ReportColumn
<1>3. PICK h \in Handlers : DeleteReport(h)
  BY <1>1, <1>2, OnlyWritersWrite
<1>4. At(h, "delete report") /\ ~InFlight(h)'
  BY <1>3 DEF DeleteReport, WritesAndBecomes, InFlight
<1>5. ~call[h].alone
  BY <1>4 DEF At, ReportsInv, ReportCallHolds
<1> QED
  BY <1>4, <1>5

\* What the row of the report and the calls in flight can be.
THEOREM ReportTypes == ReportsSpec => []ReportsTypeOK
<1>1. ReportsInv => ReportsTypeOK
  BY DEF ReportsInv
<1> QED
  BY <1>1, ReportsInvHolds, PTL

\* A verified report has the text its verifier was shown, unless two saves overlap.
THEOREM VerifiedTextSeen == ReportsSpec => VerifiedTextWasSeen
<1>1. ReportsInv /\ [ReportsNext]_<<reportVars, flight>> =>
        [report'.isVerified /\ report'.comment # vouched' =>
             \/ report.isVerified /\ report.comment # vouched
             \/ \E h \in Handlers : SavesReport(h) /\ ~call[h].alone]_reportVars
  BY VerifiedTextStep DEF reportVars, flight
<1> QED
  BY <1>1, ReportsInvHolds, PTL DEF ReportsSpec, VerifiedTextWasSeen

\* A verified report is not deleted by a call that nobody overtook.
THEOREM VerifiedKept == ReportsSpec => VerifiedReportIsKept
<1>1. ReportsInv /\ [ReportsNext]_<<reportVars, flight>> =>
        [report.exists /\ report.isVerified /\ ~report'.exists =>
             \E h \in Handlers :
                 At(h, "delete report") /\ ~InFlight(h)' /\ ~call[h].alone]_reportVars
  BY DeletionStep DEF reportVars, flight
<1> QED
  BY <1>1, ReportsInvHolds, PTL DEF ReportsSpec, VerifiedReportIsKept

-----------------------------------------------------------------------------
(* A list of numbers read from the greatest down: positions, pages, changes. *)

PageOf(S, o, r) == {n \in S : o <= Position(S, n) /\ Position(S, n) < o + r}

LEMMA PageBounded ==
    ASSUME NEW S \in SUBSET Nat, IsFiniteSet(S), NEW o \in Nat, NEW r \in Nat
    PROVE  /\ IsFiniteSet(PageOf(S, o, r)) /\ Cardinality(PageOf(S, o, r)) \in Nat
           /\ Cardinality(PageOf(S, o, r)) <= r
<1> DEFINE f == [n \in PageOf(S, o, r) |-> Position(S, n)]
<1>1. \A n \in PageOf(S, o, r) : Position(S, n) \in o..(o + r - 1)
  BY PositionType DEF PageOf
<1>2. PageOf(S, o, r) \in SUBSET S
  BY DEF PageOf
<1>3. f \in Injection(PageOf(S, o, r), o..(o + r - 1))
  BY <1>1, <1>2, PageInjects
<1>4. IsFiniteSet(o..(o + r - 1)) /\ Cardinality(o..(o + r - 1)) = r
  <2>1. o \in Int /\ o + r - 1 \in Int
    OBVIOUS
  <2>2. Cardinality(o..(o + r - 1)) = IF o > o + r - 1 THEN 0 ELSE (o + r - 1) - o + 1
    BY <2>1, FS_Interval
  <2>3. (IF o > o + r - 1 THEN 0 ELSE (o + r - 1) - o + 1) = r
    OBVIOUS
  <2> QED
    BY <2>1, <2>2, <2>3, FS_Interval
<1>5. IsFiniteSet(PageOf(S, o, r)) /\ Cardinality(PageOf(S, o, r)) <= r
  BY <1>3, <1>4, FS_Injection
<1> QED
  BY <1>5, FS_CardinalityType

\* A page that has elements behind it is full.
LEMMA PageFull ==
    ASSUME NEW S \in SUBSET Nat, IsFiniteSet(S), NEW o \in Nat, NEW r \in Nat,
           NEW n \in S, o + r <= Position(S, n)
    PROVE  Cardinality(PageOf(S, o, r)) = r
<1> DEFINE P == PageOf(S, o, r)
           R == o..(o + r - 1)
           f == [m \in P |-> Position(S, m)]
<1>1. \A m \in P : Position(S, m) \in R
  BY PositionType DEF PageOf
<1>2. P \in SUBSET S
  BY DEF PageOf
<1>3. f \in Injection(P, R)
  BY <1>1, <1>2, PageInjects
<1>4. IsFiniteSet(R) /\ Cardinality(R) = r
  <2>1. o \in Int /\ o + r - 1 \in Int
    OBVIOUS
  <2>2. Cardinality(R) = IF o > o + r - 1 THEN 0 ELSE (o + r - 1) - o + 1
    BY <2>1, FS_Interval
  <2>3. (IF o > o + r - 1 THEN 0 ELSE (o + r - 1) - o + 1) = r
    OBVIOUS
  <2> QED
    BY <2>1, <2>2, <2>3, FS_Interval
<1>5. ASSUME NEW j \in R PROVE \E m \in P : f[m] = j
  <2>1. j \in Nat /\ j < Position(S, n) /\ o <= j /\ j < o + r
    BY PositionType
  <2>2. PICK m \in S : Position(S, m) = j
    BY <2>1, PositionsFilled
  <2> QED
    BY <2>1, <2>2 DEF PageOf
<1>6. f \in Surjection(P, R)
  BY <1>3, <1>5 DEF Surjection, Injection
<1> QED
  BY <1>3, <1>4, <1>6, FS_Injection

\* What leaves a list moves the rest up by no more than it is.
LEMMA PositionsShift ==
    ASSUME NEW S \in SUBSET Nat, IsFiniteSet(S), NEW T \in SUBSET Nat, IsFiniteSet(T),
           NEW n \in Nat
    PROVE  /\ Cardinality(S \ T) \in Nat
           /\ Position(S, n) <= Position(T, n) + Cardinality(S \ T)
<1>1. /\ IsFiniteSet(S \ T) /\ Cardinality(S \ T) \in Nat
      /\ IsFiniteSet(Above(T, n)) /\ Position(T, n) \in Nat
      /\ IsFiniteSet(Above(S, n)) /\ Position(S, n) \in Nat
  BY FS_Difference, FS_CardinalityType, PositionType
<1>2. Above(S, n) \in SUBSET (Above(T, n) \cup (S \ T))
  BY DEF Above
<1>3. /\ IsFiniteSet(Above(T, n) \cup (S \ T))
      /\ Cardinality(Above(T, n) \cup (S \ T)) =
            Cardinality(Above(T, n)) + Cardinality(S \ T) - Cardinality(Above(T, n) \cap (S \ T))
      /\ Cardinality(Above(T, n) \cap (S \ T)) \in Nat
  BY <1>1, FS_Union, FS_Intersection, FS_CardinalityType
<1>4. Cardinality(Above(S, n)) <= Cardinality(Above(T, n) \cup (S \ T))
  BY <1>2, <1>3, FS_Subset
<1> QED
  BY <1>1, <1>3, <1>4 DEF Position

\* The elements of U that a reader at offset o has passed, when the list is S.
Passed(U, S, o) == {n \in U : Position(S, n) < o}

\* A change of the list lets a reader pass no more elements than have left it.
LEMMA PassedGrow ==
    ASSUME NEW S \in SUBSET Nat, IsFiniteSet(S), NEW T \in SUBSET Nat, IsFiniteSet(T),
           NEW U \in SUBSET S, NEW o \in Nat
    PROVE  /\ Cardinality(Passed(U, S, o)) \in Nat
           /\ Cardinality(Passed(U \cap T, T, o)) \in Nat
           /\ Cardinality(Passed(U \cap T, T, o)) <=
                  Cardinality(Passed(U, S, o)) + Cardinality(S \ T)
<1> DEFINE A == Passed(U, S, o)
           r == Cardinality(S \ T)
           B == PageOf(S, o, r)
           C == Passed(U \cap T, T, o)
<1>1. r \in Nat
  BY PositionsShift
<1>2. IsFiniteSet(A) /\ Cardinality(A) \in Nat
  BY FS_Subset, FS_CardinalityType DEF Passed
<1>3. IsFiniteSet(B) /\ Cardinality(B) \in Nat /\ Cardinality(B) <= r
  BY <1>1, PageBounded
<1>4. C \in SUBSET (A \cup B)
  <2> SUFFICES ASSUME NEW n \in C PROVE n \in A \cup B
    OBVIOUS
  <2>1. n \in U /\ n \in S /\ n \in Nat /\ Position(T, n) < o
    BY DEF Passed
  <2>2. /\ Position(S, n) \in Nat /\ Position(T, n) \in Nat
        /\ Position(S, n) <= Position(T, n) + r
    BY <2>1, PositionType, PositionsShift
  <2>3. Position(S, n) < o \/ (o <= Position(S, n) /\ Position(S, n) < o + r)
    BY <1>1, <2>1, <2>2
  <2> QED
    BY <2>1, <2>3 DEF Passed, PageOf
<1>5. /\ IsFiniteSet(A \cup B) /\ Cardinality(A \cap B) \in Nat
      /\ Cardinality(A \cup B) = Cardinality(A) + Cardinality(B) - Cardinality(A \cap B)
  BY <1>2, <1>3, FS_Union, FS_Intersection, FS_CardinalityType
<1>6. IsFiniteSet(C) /\ Cardinality(C) <= Cardinality(A \cup B)
  BY <1>4, <1>5, FS_Subset
<1>7. Cardinality(C) \in Nat
  BY <1>6, FS_CardinalityType
<1> QED
  BY <1>1, <1>2, <1>3, <1>5, <1>6, <1>7

-----------------------------------------------------------------------------
(* The strengthening *)

\* A visit is logged for a request of somebody else, by someone let in for it.
FeedCallHolds(c) ==
    /\ c \in FeedCall
    /\ c.post \in DOMAIN posts
    /\ c.step = "log" => /\ ~posts[c.post].own
                         /\ reader.role \in {"admin", "coordinator"} \/ c.rank = 2

FeedRowsHold ==
    /\ posts \in UNION {[1..n -> PostRow] : n \in 0..MaxRequests}
    /\ reader \in ReaderRow
    /\ feed \in FeedState
    /\ views \subseteq ViewRow
    /\ bookmarks \subseteq PostId
    /\ \A v \in views : v.post \in DOMAIN posts

\* Of what was on the list all the time, the reader has passed without seeing it
\* no more than has left the list.
PagingHolds ==
    /\ feed.at = "paging" /\ ~feed.near =>
           /\ feed.steady \subseteq Listed
           /\ Cardinality(Passed(feed.steady \ feed.shown, Listed, feed.offset)) <= feed.gone
    /\ PagingMissesFew

FeedInv ==
    /\ FeedRowsHold
    /\ call = [g \in Handlers |-> call[g]]
    /\ \A h \in Handlers : InFlight(h) => FeedCallHolds(call[h])
    /\ LogNamesVisitors
    /\ PagingHolds

LEMMA FeedInvTypes == FeedInv => FeedTypeOK
BY DEF FeedInv, FeedRowsHold, FeedTypeOK, FeedCallHolds

\* A list of requests is a finite set of numbers.
LEMMA PostSubset ==
    ASSUME NEW S \in SUBSET PostId
    PROVE  /\ S \in SUBSET Nat /\ IsFiniteSet(S)
           /\ Cardinality(S) \in Nat /\ Cardinality(S) <= MaxRequests
<1>1. 1 \in Int /\ MaxRequests \in Int
  BY FeedAssumption
<1>2. Cardinality(1..MaxRequests) = IF 1 > MaxRequests THEN 0 ELSE MaxRequests - 1 + 1
  BY <1>1, FS_Interval
<1>3. (IF 1 > MaxRequests THEN 0 ELSE MaxRequests - 1 + 1) = MaxRequests
  BY FeedAssumption
<1>4. IsFiniteSet(PostId) /\ Cardinality(PostId) = MaxRequests
  BY <1>1, <1>2, <1>3, FS_Interval DEF PostId
<1>5. PostId \in SUBSET Nat
  BY FeedAssumption DEF PostId
<1> QED
  BY <1>4, <1>5, FS_Subset, FS_CardinalityType

LEMMA ListedFinite ==
    ASSUME FeedRowsHold
    PROVE  /\ Listed \in SUBSET PostId /\ Listed \in SUBSET Nat /\ IsFiniteSet(Listed)
           /\ Cardinality(Listed) \in Nat /\ Cardinality(Listed) <= MaxRequests
<1>1. PICK k \in 0..MaxRequests : posts \in [1..k -> PostRow]
  BY DEF FeedRowsHold
<1>2. Listed \in SUBSET PostId
  BY <1>1, FeedAssumption DEF Listed, getMyRequests, getRequestsWithPriority, LivePosts, PostId
<1> QED
  BY <1>2, PostSubset

\* What this list calls Newer and Page.
LEMMA NewerIsPosition ==
    /\ \A n : Newer(n) = Position(Listed, n)
    /\ \A o : Page(o) = PageOf(Listed, o, PageLimit)
BY DEF Newer, Page, PageOf, Position, Above

LEMMA FeedInvInit == FeedInit /\ CallsInit => FeedInv
<1> SUFFICES ASSUME FeedInit, CallsInit PROVE FeedInv
  OBVIOUS
<1>1. posts \in UNION {[1..n -> PostRow] : n \in 0..MaxRequests}
  <2>1. 0 \in 0..MaxRequests /\ posts \in [1..0 -> PostRow]
    BY FeedAssumption DEF FeedInit
  <2> QED
    BY <2>1
<1>2. feed \in FeedState
  <2>1. 0 \in 0..MaxRequests /\ 0 \in 0..(MaxRequests * PageLimit)
    BY FeedAssumption
  <2> QED
    BY <2>1 DEF FeedInit, FeedState
<1>3. \A h \in Handlers : ~InFlight(h)
  BY DEF CallsInit, InFlight
<1>4. call = [g \in Handlers |-> call[g]]
  BY DEF CallsInit
<1> QED
  BY <1>1, <1>2, <1>3, <1>4 DEF FeedInit, FeedInv, FeedRowsHold, LogNamesVisitors,
     PagingHolds, PagingMissesFew

-----------------------------------------------------------------------------
(* The requests and the reader change *)

\* Whoever wrote, the calls in flight are what they were, and no longer alone.
LEMMA DisturbedHolds ==
    ASSUME FeedInv, NEW g \in Handlers, InFlight(g)',
           call'[g] \in {Idle, Disturbed(g)},
           DOMAIN posts \subseteq DOMAIN posts',
           \A n \in DOMAIN posts : posts'[n].own = posts[n].own,
           reader'.role = reader.role
    PROVE  FeedCallHolds(call[g])'
<1>1. InFlight(g) /\ call'[g] = [call[g] EXCEPT !.alone = FALSE]
  BY DEF Disturbed, InFlight
<1>2. FeedCallHolds(call[g]) /\ call[g] \in FeedCall
  BY <1>1 DEF FeedInv, FeedCallHolds
<1>3. /\ call'[g] \in FeedCall /\ call'[g].post = call[g].post
      /\ call'[g].step = call[g].step /\ call'[g].rank = call[g].rank
  BY <1>1, <1>2 DEF FeedCall
<1> QED
  BY <1>2, <1>3 DEF FeedCallHolds

\* The list is read page by page while it changes.
LEMMA RelistedPaging ==
    ASSUME FeedInv, Relisted,
           Listed' \in SUBSET PostId, IsFiniteSet(Listed'), Listed' \in SUBSET Nat,
           Cardinality(Listed') <= MaxRequests, Cardinality(Listed') \in Nat
    PROVE  feed' \in FeedState /\ PagingHolds'
<1>1. CASE feed.at # "paging" \/ feed.near
  BY <1>1 DEF FeedInv, FeedRowsHold, PagingHolds, PagingMissesFew, Relisted
<1>2. CASE feed.at = "paging" /\ ~feed.near
  <2> DEFINE r == Cardinality(Listed \ Listed')
             U == feed.steady \ feed.shown
             P == Passed(U, Listed, feed.offset)
  <2>1. /\ feed \in FeedState /\ feed.gone \in 0..MaxRequests
        /\ feed.steady \in SUBSET Listed /\ feed.offset \in Nat
    BY <1>2, FeedAssumption DEF FeedInv, FeedRowsHold, PagingHolds, FeedState
  <2>2. /\ IsFiniteSet(Listed) /\ Listed \in SUBSET Nat
        /\ r \in Nat /\ Cardinality(P) \in Nat /\ Cardinality(P) <= feed.gone
    BY <1>2, <2>1, ListedFinite, PositionsShift, PassedGrow
       DEF FeedInv, PagingHolds
  <2>3. Minus(r) \in 0..MaxRequests
    BY <2>1, <2>2, FeedAssumption DEF Minus
  <2>4. PICK st, gn : st = feed.steady \cap Listed' /\ gn = Minus(r)
    OBVIOUS
  <2>5. /\ feed' \in FeedState /\ feed'.at = "paging"
        /\ feed'.steady = feed.steady \cap Listed' /\ feed'.gone = Minus(r)
        /\ feed'.shown = feed.shown /\ feed'.offset = feed.offset
    <3>1. feed' = [feed EXCEPT !.steady = st, !.gone = gn]
      BY <1>2, <2>4 DEF Relisted
    <3>2. st \in SUBSET PostId /\ gn \in 0..MaxRequests
      BY <2>1, <2>3, <2>4, ListedFinite DEF FeedInv
    <3> QED
      BY <1>2, <2>1, <2>4, <3>1, <3>2 DEF FeedState
  <2>6. feed'.steady \ feed'.shown = U \cap Listed'
    BY <2>5
  <2> DEFINE Q == Passed(U \cap Listed', Listed', feed.offset)
  <2>7. Cardinality(Q) \in Nat /\ Cardinality(Q) <= Cardinality(P) + r
    BY <2>1, <2>2, PassedGrow
  <2>8. Cardinality(Q) <= MaxRequests
    <3>1. Q \in SUBSET Listed'
      BY DEF Passed
    <3>2. Cardinality(Q) <= Cardinality(Listed')
      BY <3>1, FS_Subset
    <3> QED
      BY <2>7, <3>2, FeedAssumption
  <2>9. Cardinality(Q) <= Minus(r)
    BY <2>1, <2>2, <2>7, <2>8, FeedAssumption DEF Minus
  <2>10. Cardinality(Passed(feed.steady \ feed.shown, Listed, feed.offset))' <= feed'.gone
    BY <2>5, <2>6, <2>9 DEF Passed, Position, Above
  <2> QED
    BY <2>5, <2>10 DEF PagingHolds, PagingMissesFew
<1> QED
  BY <1>1, <1>2

\* A request is made, changed or removed, or the reader's clearance is.
LEMMA ChangeKeeps ==
    ASSUME FeedInv,
           posts' \in UNION {[1..n -> PostRow] : n \in 0..MaxRequests},
           DOMAIN posts \subseteq DOMAIN posts',
           \A n \in DOMAIN posts : posts'[n].own = posts[n].own,
           reader' \in ReaderRow, reader'.role = reader.role,
           UNCHANGED <<views, bookmarks>>, Relisted, Disturbs
    PROVE  FeedInv'
<1>1. /\ Listed' \in SUBSET PostId /\ Listed' \in SUBSET Nat /\ IsFiniteSet(Listed')
      /\ Cardinality(Listed') \in Nat /\ Cardinality(Listed') <= MaxRequests
  <2>1. PICK k \in 0..MaxRequests : posts' \in [1..k -> PostRow]
    OBVIOUS
  <2>2. Listed' \in SUBSET PostId
    BY <2>1, FeedAssumption DEF Listed, getMyRequests, getRequestsWithPriority, LivePosts, PostId
  <2> QED
    BY <2>2, PostSubset
<1>2. feed' \in FeedState /\ PagingHolds'
  BY <1>1, RelistedPaging
<1>3. FeedRowsHold'
  BY <1>2 DEF FeedInv, FeedRowsHold
<1>4. /\ (call = [g \in Handlers |-> call[g]])'
      /\ \A g \in Handlers : call'[g] \in {Idle, Disturbed(g)}
  BY DEF Disturbs
<1>5. \A g \in Handlers : (InFlight(g) => FeedCallHolds(call[g]))'
  BY <1>4, DisturbedHolds
<1>6. LogNamesVisitors'
  BY DEF FeedInv, FeedRowsHold, LogNamesVisitors
<1> QED
  BY <1>2, <1>3, <1>4, <1>5, <1>6 DEF FeedInv

\* The rows keep their shape, whoever changes them.
LEMMA PostsChange ==
    ASSUME FeedInv,
           \/ \E own \in BOOLEAN, required \in Ranks : createPost(own, required)
           \/ PostsNext
    PROVE  FeedInv'
<1>1. PICK k \in 0..MaxRequests : posts \in [1..k -> PostRow]
  BY DEF FeedInv, FeedRowsHold
<1>2. reader \in ReaderRow
  BY DEF FeedInv, FeedRowsHold
<1>3. ASSUME NEW own \in BOOLEAN, NEW required \in Ranks, createPost(own, required)
      PROVE  FeedInv'
  <2>1. DOMAIN posts = 1..k
    BY <1>1
  <2>2. Cardinality(DOMAIN posts) = k
    <3>1. 1 \in Int /\ k \in Int
      OBVIOUS
    <3>2. Cardinality(1..k) = IF 1 > k THEN 0 ELSE k - 1 + 1
      BY <3>1, FS_Interval
    <3>3. (IF 1 > k THEN 0 ELSE k - 1 + 1) = k
      OBVIOUS
    <3> QED
      BY <2>1, <3>2, <3>3
  <2>3. posts' = [n \in 1..(k + 1) |-> IF n \in 1..k THEN posts[n]
                      ELSE [live |-> TRUE, own |-> own, required |-> required]]
    BY <1>3, <2>1, <2>2 DEF createPost
  <2>4. k + 1 \in 0..MaxRequests
    BY <1>3, <2>2, FeedAssumption DEF createPost
  <2>5. posts' \in [1..(k + 1) -> PostRow]
    BY <1>1, <2>3 DEF PostRow
  <2>6. posts' \in UNION {[1..n -> PostRow] : n \in 0..MaxRequests}
    BY <2>4, <2>5
  <2>7. /\ DOMAIN posts \subseteq DOMAIN posts'
        /\ \A n \in DOMAIN posts : posts'[n].own = posts[n].own
    BY <2>1, <2>3
  <2> QED
    BY <1>2, <1>3, <2>6, <2>7, ChangeKeeps DEF createPost
<1>4. ASSUME NEW n \in DOMAIN posts, NEW required \in Ranks,
             updatePost(n, required) \/ removePost(n)
      PROVE  FeedInv'
  <2>1. n \in 1..k /\ posts[n] \in PostRow
    BY <1>1
  <2>2. PICK row \in PostRow : posts' = [posts EXCEPT ![n] = row] /\ row.own = posts[n].own
    <3>1. CASE updatePost(n, required)
      <4>1. [posts[n] EXCEPT !.required = required] \in PostRow
        BY <2>1 DEF PostRow
      <4>2. [posts[n] EXCEPT !.required = required].own = posts[n].own
        BY <2>1 DEF PostRow
      <4> QED
        BY <3>1, <4>1, <4>2 DEF updatePost
    <3>2. CASE removePost(n)
      <4>1. [posts[n] EXCEPT !.live = FALSE] \in PostRow
        BY <2>1 DEF PostRow
      <4>2. [posts[n] EXCEPT !.live = FALSE].own = posts[n].own
        BY <2>1 DEF PostRow
      <4> QED
        BY <3>2, <4>1, <4>2 DEF removePost
    <3> QED
      BY <1>4, <3>1, <3>2
  <2>3. posts' \in [1..k -> PostRow]
    BY <1>1, <2>1, <2>2
  <2>4. posts' \in UNION {[1..i -> PostRow] : i \in 0..MaxRequests}
    BY <2>3
  <2>5. /\ DOMAIN posts \subseteq DOMAIN posts'
        /\ \A i \in DOMAIN posts : posts'[i].own = posts[i].own
    BY <1>1, <2>2
  <2> QED
    BY <1>2, <1>4, <2>4, <2>5, ChangeKeeps DEF updatePost, removePost
<1>5. ASSUME NEW n \in DOMAIN posts, removePost(n)
      PROVE  FeedInv'
  <2>1. posts[n].required \in Ranks
    BY <1>1 DEF PostRow
  <2> QED
    BY <1>4, <1>5, <2>1
<1>6. ASSUME NEW rank \in Ranks, SetRank(rank)
      PROVE  FeedInv'
  <2>1. reader' \in ReaderRow /\ reader'.role = reader.role
    BY <1>2, <1>6 DEF SetRank, ReaderRow
  <2>2. posts' \in UNION {[1..n -> PostRow] : n \in 0..MaxRequests} /\ posts' = posts
    BY <1>6 DEF SetRank, FeedInv, FeedRowsHold
  <2> QED
    BY <1>6, <2>1, <2>2, ChangeKeeps DEF SetRank
<1> QED
  BY <1>3, <1>4, <1>5, <1>6 DEF PostsNext

-----------------------------------------------------------------------------
(* Paging *)

\* What a step that leaves requests, reader and calls alone must show.
LEMMA PagingStep ==
    ASSUME FeedInv, UNCHANGED <<posts, reader, views, bookmarks, flight>>,
           feed' \in FeedState, PagingHolds'
    PROVE  FeedInv'
<1>1. FeedRowsHold' /\ LogNamesVisitors'
  BY DEF FeedInv, FeedRowsHold, LogNamesVisitors
<1>2. call' = call
  BY DEF flight
<1>3. \A g \in Handlers : (InFlight(g) => FeedCallHolds(call[g]))'
  BY <1>2 DEF FeedInv, FeedCallHolds, InFlight
<1> QED
  BY <1>1, <1>2, <1>3 DEF FeedInv

LEMMA OpenFeedKeeps ==
    ASSUME FeedInv, NEW near \in BOOLEAN, OpenFeed(near)
    PROVE  FeedInv'
<1>1. Listed' = Listed
  BY DEF OpenFeed, Listed, getMyRequests, getRequestsWithPriority, LivePosts, RankSuffices
<1>2. Listed \in SUBSET PostId /\ Listed \in SUBSET Nat /\ IsFiniteSet(Listed)
  BY ListedFinite DEF FeedInv
<1>3. feed' \in FeedState
  <2>1. 0 \in 0..MaxRequests /\ 0 \in 0..(MaxRequests * PageLimit)
    BY FeedAssumption
  <2> QED
    BY <1>2, <2>1 DEF OpenFeed, FeedState
<1>4. \A n \in Listed : ~(Position(Listed, n) < 0)
  BY <1>2, PositionType
<1>5. Cardinality(Passed(Listed, Listed, 0)) = 0
  <2>1. Passed(Listed, Listed, 0) = {}
    BY <1>4 DEF Passed
  <2> QED
    BY <2>1, FS_EmptySet
<1>6. /\ feed'.at = "paging" /\ feed'.steady = Listed /\ feed'.shown = {}
      /\ feed'.offset = 0 /\ feed'.gone = 0
  BY DEF OpenFeed
<1>7. Cardinality(Passed(feed'.steady \ feed'.shown, Listed', feed'.offset)) = 0
  <2>1. feed'.steady \ feed'.shown = Listed
    BY <1>6
  <2> QED
    BY <1>1, <1>5, <1>6, <2>1
<1>8. PagingHolds'
  BY <1>1, <1>6, <1>7 DEF PagingHolds, PagingMissesFew, Passed, Position, Above
<1> QED
  BY <1>3, <1>8, PagingStep DEF OpenFeed

\* What has not been passed is either on the page or behind it, and behind a page
\* that is not full is nothing; the offset stays on the list, so within its bound.
LEMMA FindAllKeeps ==
    ASSUME FeedInv, findAll
    PROVE  FeedInv'
<1> DEFINE o == feed.offset
           page == PageOf(Listed, o, PageLimit)
           full == Cardinality(page) = PageLimit
           U == feed.steady \ feed.shown
<1>1. /\ Listed \in SUBSET PostId /\ Listed \in SUBSET Nat /\ IsFiniteSet(Listed)
      /\ Cardinality(Listed) \in Nat /\ Cardinality(Listed) <= MaxRequests
  BY ListedFinite DEF FeedInv
<1>2. /\ feed \in FeedState /\ feed.at = "paging" /\ o \in Nat
      /\ o \in 0..(MaxRequests * PageLimit) /\ feed.gone \in Nat
      /\ feed.steady \in SUBSET Listed /\ feed.shown \in SUBSET PostId
      /\ Cardinality(Passed(U, Listed, o)) <= feed.gone
  BY FeedAssumption DEF findAll, FeedInv, FeedRowsHold, FeedState, PagingHolds
<1>3. Page(o) = page
  BY NewerIsPosition
<1>4. PageLimit \in Nat /\ PageLimit >= 1 /\ MaxRequests \in Nat
  BY FeedAssumption
<1>5. page \in SUBSET Listed /\ page \in SUBSET PostId
  BY <1>1 DEF PageOf
<1>6. Listed' = Listed
  BY DEF findAll, Listed, getMyRequests, getRequestsWithPriority, LivePosts, RankSuffices
<1>7. PICK next : next = IF full THEN o + PageLimit ELSE o
  OBVIOUS
<1>8. next \in 0..(MaxRequests * PageLimit)
  <2>1. CASE ~full
    BY <1>2, <1>7, <2>1
  <2>2. CASE full
    <3>1. page # {}
      BY <1>4, <2>2, FS_EmptySet
    <3>2. PICK n \in page : TRUE
      BY <3>1
    <3>3. n \in Listed /\ n \in Nat /\ o <= Position(Listed, n)
      BY <1>1, <3>2 DEF PageOf
    <3>4. /\ Position(Listed, n) \in Nat /\ Position(Listed, n) < Cardinality(Listed)
      BY <1>1, <3>3, PositionType
    <3>5. o < MaxRequests
      BY <1>1, <1>2, <1>4, <3>3, <3>4
    <3>6. (MaxRequests - 1) * PageLimit >= MaxRequests - 1
      BY <1>2, <1>4, <3>5
    <3>7. MaxRequests * PageLimit = (MaxRequests - 1) * PageLimit + PageLimit
      BY <1>4
    <3>8. MaxRequests * PageLimit \in Nat
      BY <1>4
    <3>9. (MaxRequests - 1) * PageLimit \in Int
      BY <1>4
    <3>10. o + PageLimit <= MaxRequests * PageLimit
      BY <1>2, <1>4, <3>5, <3>6, <3>7, <3>8, <3>9
    <3> QED
      BY <1>2, <1>4, <1>7, <2>2, <3>8, <3>10
  <2> QED
    BY <2>1, <2>2
<1>9. PICK at, shown : /\ at = IF full THEN "paging" ELSE "complete"
                       /\ shown = feed.shown \cup page
  OBVIOUS
<1>10. feed' = [feed EXCEPT !.shown = shown, !.at = at, !.offset = next]
  BY <1>3, <1>7, <1>9 DEF findAll, Shows, NextOffset
<1>11. shown \in SUBSET PostId /\ at \in {"closed", "paging", "complete"}
  BY <1>2, <1>5, <1>9
<1>12. /\ feed' \in FeedState /\ feed'.at = at /\ feed'.shown = shown
       /\ feed'.offset = next /\ feed'.steady = feed.steady /\ feed'.gone = feed.gone
  BY <1>2, <1>8, <1>10, <1>11 DEF FeedState
<1> DEFINE V == feed.steady \ shown
<1>13. \A n \in V : n \in U /\ n \in Listed /\ n \notin page
  BY <1>2, <1>9
<1>14. \A n \in V : Position(Listed, n) < o + PageLimit => Position(Listed, n) < o
  <2> SUFFICES ASSUME NEW n \in V, Position(Listed, n) < o + PageLimit
               PROVE  Position(Listed, n) < o
    OBVIOUS
  <2>1. n \in Listed /\ n \notin page /\ n \in Nat
    BY <1>1, <1>13
  <2>2. Position(Listed, n) \in Nat
    BY <1>1, <2>1, PositionType
  <2> QED
    BY <1>2, <2>1, <2>2 DEF PageOf
<1>15. ASSUME NEW W \in SUBSET Passed(U, Listed, o) PROVE Cardinality(W) <= feed.gone
  <2>1. IsFiniteSet(Passed(U, Listed, o))
    BY <1>1, <1>2, FS_Subset DEF Passed
  <2>2. IsFiniteSet(W) /\ Cardinality(W) <= Cardinality(Passed(U, Listed, o))
    BY <2>1, FS_Subset
  <2>3. Cardinality(W) \in Nat /\ Cardinality(Passed(U, Listed, o)) \in Nat
    BY <2>1, <2>2, FS_CardinalityType
  <2> QED
    BY <1>2, <2>2, <2>3
<1>16. PagingHolds'
  <2>1. CASE full
    <3>1. Passed(V, Listed, next) \in SUBSET Passed(U, Listed, o)
      BY <1>7, <1>13, <1>14, <2>1 DEF Passed
    <3>2. Cardinality(Passed(V, Listed, next)) <= feed.gone
      BY <1>15, <3>1
    <3>3. at = "paging"
      BY <1>9, <2>1
    <3> QED
      BY <1>2, <1>6, <1>12, <3>2, <3>3 DEF PagingHolds, PagingMissesFew, Passed, Position, Above
  <2>2. CASE ~full
    <3>1. \A n \in Listed : Position(Listed, n) < o + PageLimit
      <4> SUFFICES ASSUME NEW n \in Listed, ~(Position(Listed, n) < o + PageLimit)
                   PROVE  FALSE
        OBVIOUS
      <4>1. n \in Nat /\ Position(Listed, n) \in Nat
        BY <1>1, PositionType
      <4>2. o + PageLimit <= Position(Listed, n)
        BY <1>2, <1>4, <4>1
      <4> QED
        BY <1>1, <1>2, <1>4, <2>2, <4>2, PageFull
    <3>2. V \in SUBSET Passed(U, Listed, o)
      BY <1>13, <1>14, <3>1 DEF Passed
    <3>3. Cardinality(V) <= feed.gone
      BY <1>15, <3>2
    <3>4. at = "complete"
      BY <1>9, <2>2
    <3> QED
      BY <1>12, <3>3, <3>4 DEF PagingHolds, PagingMissesFew
  <2> QED
    BY <2>1, <2>2
<1> QED
  BY <1>12, <1>16, PagingStep DEF findAll

\* By distance nothing is promised about what a page has; a full page ends within
\* the requests there are, so the offset stays within its bound.
LEMMA FindAllNearKeeps ==
    ASSUME FeedInv, findAllNear
    PROVE  FeedInv'
<1>1. feed \in FeedState /\ feed.at = "paging" /\ feed.near
  BY DEF findAllNear, FeedInv, FeedRowsHold
<1>2. PICK page \in SUBSET LivePosts : FillsPage(page, feed.offset) /\ Shows(page)
  BY DEF findAllNear, getRequestsByDistance
<1>3. PICK k \in 0..MaxRequests : posts \in [1..k -> PostRow]
  BY DEF FeedInv, FeedRowsHold
<1>4. LivePosts \in SUBSET PostId
  BY <1>3, FeedAssumption DEF LivePosts, PostId
<1>5. PICK all : all = Cardinality(LivePosts)
  OBVIOUS
<1>6. all \in Nat /\ all <= MaxRequests
  BY <1>4, <1>5, PostSubset
<1>7. PICK o : o = feed.offset
  OBVIOUS
<1>8. o \in Nat /\ o \in 0..(MaxRequests * PageLimit)
  BY <1>1, <1>7, FeedAssumption DEF FeedState
<1>9. PICK full : full = (Cardinality(page) = PageLimit)
  OBVIOUS
<1>10. PICK next, at, shown : /\ next = IF full THEN o + PageLimit ELSE o
                              /\ at = IF full THEN "paging" ELSE "complete"
                              /\ shown = feed.shown \cup page
  OBVIOUS
<1>11. feed' = [feed EXCEPT !.shown = shown, !.at = at, !.offset = next]
  BY <1>2, <1>7, <1>9, <1>10 DEF Shows, NextOffset
<1>12. next \in 0..(MaxRequests * PageLimit)
  <2>1. CASE ~full
    BY <1>8, <1>10, <2>1
  <2>2. CASE full
    <3>1. PICK rest : rest = IF o < all THEN all - o ELSE 0
      OBVIOUS
    <3>2. PageLimit = IF rest < PageLimit THEN rest ELSE PageLimit
      BY <1>2, <1>5, <1>7, <1>9, <2>2, <3>1 DEF FillsPage, getRequestsByDistance
    <3>3. PageLimit \in Nat /\ PageLimit >= 1 /\ MaxRequests \in Nat
      BY FeedAssumption
    <3>4. rest >= PageLimit /\ o + PageLimit <= all
      BY <1>6, <1>8, <3>1, <3>2, <3>3
    <3>5. MaxRequests <= MaxRequests * PageLimit /\ MaxRequests * PageLimit \in Nat
      BY <3>3
    <3> QED
      BY <1>6, <1>8, <1>10, <2>2, <3>3, <3>4, <3>5
  <2> QED
    BY <1>9, <2>1, <2>2
<1>13. shown \in SUBSET PostId /\ at \in {"closed", "paging", "complete"}
  BY <1>1, <1>2, <1>4, <1>10 DEF FeedState
<1>14. feed' \in FeedState /\ feed'.near
  BY <1>1, <1>11, <1>12, <1>13 DEF FeedState
<1>15. PagingHolds'
  BY <1>14 DEF PagingHolds, PagingMissesFew
<1> QED
  BY <1>14, <1>15, PagingStep DEF findAllNear

-----------------------------------------------------------------------------
(* Details and bookmarks *)

\* Requests, reader and list stay; one call moves or ends, the others may lose
\* their claim to be alone.
LEMMA ViewStep ==
    ASSUME FeedInv, UNCHANGED <<posts, reader, feed>>,
           views' \subseteq ViewRow, bookmarks' \subseteq PostId,
           \A v \in views' : v.post \in DOMAIN posts,
           LogNamesVisitors',
           call' = [g \in Handlers |-> call'[g]],
           \A g \in Handlers : \/ call'[g] \in {Idle, call[g], Disturbed(g)}
                               \/ FeedCallHolds(call'[g])
    PROVE  FeedInv'
<1>1. FeedRowsHold'
  BY DEF FeedInv, FeedRowsHold
<1>2. Listed' = Listed
  BY DEF Listed, getMyRequests, getRequestsWithPriority, LivePosts, RankSuffices
<1>3. PagingHolds'
  BY <1>2 DEF FeedInv, PagingHolds, PagingMissesFew, Passed, Position, Above
<1>4. ASSUME NEW g \in Handlers, InFlight(g)' PROVE FeedCallHolds(call[g])'
  <2>1. CASE call'[g] \in {Idle, Disturbed(g)}
    BY <1>4, <2>1, DisturbedHolds
  <2>2. CASE call'[g] = call[g]
    BY <1>4, <2>2 DEF FeedInv, InFlight, FeedCallHolds
  <2>3. CASE FeedCallHolds(call'[g])
    BY <2>3 DEF FeedCallHolds
  <2> QED
    BY <2>1, <2>2, <2>3
<1> QED
  BY <1>1, <1>3, <1>4 DEF FeedInv

\* A call begins with what it was asked for and the reader's rank.
LEMMA FeedBeginKeeps ==
    ASSUME FeedInv, NEW h \in Handlers, NEW n \in DOMAIN posts,
           findOne(h, n) \/ saveRequest(h, n)
    PROVE  FeedInv'
<1>1. PICK op \in FeedMethod, step \in {"open", "bookmark"} :
          Begin(h, FeedCalling(op, step, n))
  BY DEF findOne, saveRequest, FeedMethod
<1>2. PICK c : c = FeedCalling(op, step, n)
  OBVIOUS
<1>3. n \in PostId /\ reader.rank \in Ranks
  BY FeedAssumption DEF FeedInv, FeedRowsHold, PostId, ReaderRow
<1>4. c \in FeedCall /\ c.post = n /\ c.step = step
  BY <1>2, <1>3 DEF FeedCalling, FeedCall
<1>5. FeedCallHolds(c)
  BY <1>4 DEF FeedCallHolds
<1>6. /\ call' = [g \in Handlers |-> call'[g]]
      /\ \A g \in Handlers : call'[g] = call[g] \/ call'[g] = c
  BY <1>1, <1>2 DEF Begin, FeedInv
<1> QED
  BY <1>5, <1>6, ViewStep DEF findOne, saveRequest, feedVars, FeedInv, FeedRowsHold,
     LogNamesVisitors

\* A call goes on, or ends without having written.
LEMMA OpenPostKeeps ==
    ASSUME FeedInv, NEW h \in Handlers, OpenPost(h) \/ FailFeedCall(h)
    PROVE  FeedInv'
<1>1. PICK c : c = call[h]
  OBVIOUS
<1>2. FeedCallHolds(c) /\ c \in FeedCall
  BY <1>1 DEF OpenPost, FailFeedCall, At, FeedInv, FeedCallHolds
<1>3. PICK d : d = [c EXCEPT !.step = "log"]
  OBVIOUS
<1>4. d \in FeedCall /\ d.step = "log" /\ d.post = c.post /\ d.rank = c.rank
  BY <1>2, <1>3 DEF FeedCall
<1>5. MayOpen(c.post, c.rank) /\ Logs(c.post) => FeedCallHolds(d)
  <2> SUFFICES ASSUME MayOpen(c.post, c.rank), Logs(c.post) PROVE FeedCallHolds(d)
    OBVIOUS
  <2>1. c.rank \in Ranks
    BY <1>2 DEF FeedCall
  <2>2. c.rank \in 0..2
    BY <2>1, FeedAssumption
  <2>3. reader.role \in {"admin", "coordinator"} \/ c.rank = 2
    BY <2>2 DEF MayOpen, Logs
  <2> QED
    BY <1>2, <1>4, <2>3 DEF FeedCallHolds, Logs
<1>6. /\ call' = [g \in Handlers |-> call'[g]]
      /\ \A g \in Handlers : \/ call'[g] \in {Idle, call[g], Disturbed(g)}
                             \/ FeedCallHolds(call'[g])
  BY <1>1, <1>3, <1>5 DEF OpenPost, FailFeedCall, Becomes, FeedInv
<1> QED
  BY <1>6, ViewStep DEF OpenPost, FailFeedCall, feedVars, FeedInv, FeedRowsHold,
     LogNamesVisitors

LEMMA LogAccessKeeps ==
    ASSUME FeedInv, NEW h \in Handlers, logAccess(h)
    PROVE  FeedInv'
<1>1. PICK c : c = call[h]
  OBVIOUS
<1>2. FeedCallHolds(c) /\ c \in FeedCall /\ c.step = "log"
  BY <1>1 DEF logAccess, At, FeedInv, FeedCallHolds
<1>3. PICK v : v = [post |-> c.post, clearanceAtAccess |-> c.rank]
  OBVIOUS
<1>4. v \in ViewRow /\ v.post = c.post /\ v.clearanceAtAccess = c.rank
  BY <1>2, <1>3 DEF ViewRow, FeedCall
<1>5. /\ ~posts[v.post].own /\ v.post \in DOMAIN posts
      /\ reader.role \in {"admin", "coordinator"} \/ v.clearanceAtAccess = 2
  BY <1>2, <1>4 DEF FeedCallHolds
<1>6. views' = views \cup {v} /\ UNCHANGED <<posts, reader, feed, bookmarks>>
  BY <1>1, <1>3 DEF logAccess
<1>7. /\ views' \subseteq ViewRow /\ bookmarks' \subseteq PostId
      /\ \A w \in views' : w.post \in DOMAIN posts
      /\ LogNamesVisitors'
  BY <1>4, <1>5, <1>6 DEF FeedInv, FeedRowsHold, LogNamesVisitors
<1>8. /\ call' = [g \in Handlers |-> call'[g]]
      /\ \A g \in Handlers : call'[g] \in {Idle, Disturbed(g)}
  BY DEF logAccess, WritesAndBecomes
<1> QED
  BY <1>6, <1>7, <1>8, ViewStep

LEMMA BookmarkKeeps ==
    ASSUME FeedInv,
           \/ \E h \in Handlers : InsertBookmark(h)
           \/ \E n \in DOMAIN posts : unsaveRequest(n)
    PROVE  FeedInv'
<1>1. /\ call' = [g \in Handlers |-> call'[g]]
      /\ \A g \in Handlers : call'[g] \in {Idle, Disturbed(g)}
      /\ UNCHANGED <<posts, reader, feed, views>>
  BY DEF InsertBookmark, unsaveRequest, WritesAndBecomes, Disturbs
<1>2. bookmarks' \subseteq PostId
  <2>1. ASSUME NEW h \in Handlers, InsertBookmark(h) PROVE call[h].post \in PostId
    BY <2>1 DEF InsertBookmark, At, FeedInv, FeedCallHolds, FeedCall
  <2> QED
    BY <2>1 DEF InsertBookmark, unsaveRequest, FeedInv, FeedRowsHold
<1> QED
  BY <1>1, <1>2, ViewStep DEF FeedInv, FeedRowsHold, LogNamesVisitors

LEMMA FeedInvNext == FeedInv /\ [PagingNext \/ ViewsNext]_<<feedVars, flight>> => FeedInv'
<1> SUFFICES ASSUME FeedInv, [PagingNext \/ ViewsNext]_<<feedVars, flight>> PROVE FeedInv'
  OBVIOUS
<1>1. CASE UNCHANGED <<feedVars, flight>>
  <2>1. UNCHANGED <<posts, reader, feed, views, bookmarks, call>>
    BY <1>1 DEF feedVars, flight
  <2> QED
    BY <2>1, ViewStep DEF FeedInv, FeedRowsHold, LogNamesVisitors
<1>2. CASE PagingNext
  <2>1. (reader.role = "requester") \in BOOLEAN
    OBVIOUS
  <2> QED
    BY <1>2, <2>1, PostsChange, OpenFeedKeeps, FindAllKeeps, FindAllNearKeeps
       DEF PagingNext
<1>3. CASE ViewsNext
  BY <1>3, PostsChange, FeedBeginKeeps, OpenPostKeeps, LogAccessKeeps, BookmarkKeeps
     DEF ViewsNext
<1> QED
  BY <1>1, <1>2, <1>3

\* The strengthening holds throughout.
THEOREM FeedInvHolds == FeedSpec => []FeedInv
BY FeedInvInit, FeedInvNext, PTL DEF FeedSpec

-----------------------------------------------------------------------------
(* The properties. *)

\* Paging by offset skips no more of the requests that stay on the list than have
\* left it, however many are made, closed or ranked anew between two pages.
THEOREM PagingMisses == FeedSpec => []PagingMissesFew
<1>1. FeedInv => PagingMissesFew
  BY DEF FeedInv, PagingHolds
<1> QED
  BY <1>1, FeedInvHolds, PTL

\* The log of visits names only people who were let in to a FRONTLINE request of
\* somebody else, though rank and request may change before the visit is logged.
THEOREM LogNames == FeedSpec => []LogNamesVisitors
<1>1. FeedInv => LogNamesVisitors
  BY DEF FeedInv
<1> QED
  BY <1>1, FeedInvHolds, PTL

-----------------------------------------------------------------------------
(* The services side by side *)

OrgSubjects == {"organisation", "members", "joining"}
ChatSubjects == {"talk", "rooms"}
FeedSubjects == {"paging", "views"}

ReportRowsHold ==
    report \in ReportRow /\ halfHour \in BOOLEAN /\ texts \in 0..MaxTexts /\ vouched \in 0..MaxTexts

\* The rows of every service are in order, whether it moves or not.
RowsInOrder ==
    /\ OrgRowsHold /\ FatesHold
    /\ RowHolds /\ TokensHold /\ LettersHold
    /\ RowsOK /\ SocketsHold
    /\ ReportRowsHold
    /\ FeedRowsHold /\ LogNamesVisitors /\ PagingHolds

ServicesInv ==
    /\ subject \in Subject
    /\ RowsInOrder
    /\ subject \in OrgSubjects => MembersInv /\ FateInv
    /\ subject = "sessions" => SessionsInv
    /\ subject \in ChatSubjects => ChatsInv
    /\ subject = "reports" => ReportsInv
    /\ subject \in FeedSubjects => FeedInv

\* No service's calls are taken for those of another.
LEMMA MethodsDiffer ==
    /\ OrgMethod \cap (AuthMethod \cup ChatMethod \cup ReportMethod \cup FeedMethod) = {}
    /\ AuthMethod \cap (ChatMethod \cup ReportMethod \cup FeedMethod) = {}
    /\ ChatMethod \cap (ReportMethod \cup FeedMethod) = {}
    /\ ReportMethod \cap FeedMethod = {}
BY DEF OrgMethod, OrgSave, AuthMethod, ChatMethod, ReportMethod, FeedMethod

\* In flight are calls of the service that moves.
LEMMA CallsOfTheSubject ==
    ASSUME ServicesInv, NEW h \in Handlers, InFlight(h)
    PROVE  /\ subject \in OrgSubjects => call[h].op \in OrgMethod
           /\ subject = "sessions" => call[h].op \in AuthMethod
           /\ subject \in ChatSubjects => call[h].op \in ChatMethod
           /\ subject = "reports" => call[h].op \in ReportMethod
           /\ subject \in FeedSubjects => call[h].op \in FeedMethod
<1>1. \A c \in OrgCall : c.op \in OrgMethod
  BY DEF OrgCall
<1>2. \A c \in AuthCall : c.op \in AuthMethod
  BY DEF AuthCall
<1>3. \A c \in ChatCall : c.op \in ChatMethod
  BY DEF ChatCall, ChatMethod
<1>4. \A c \in ReportCall : c.op \in ReportMethod
  BY DEF ReportCall
<1>5. \A c \in FeedCall : c.op \in FeedMethod
  BY DEF FeedCall
<1>6. subject \in OrgSubjects => call[h] \in OrgCall
  BY DEF ServicesInv, MembersInv, OrgCallsHold, OrgCallHolds
<1>7. subject = "sessions" => call[h] \in AuthCall
  BY DEF ServicesInv, SessionsInv, AuthCallsHold, AuthCallHolds
<1>8. subject \in ChatSubjects => call[h] \in ChatCall
  BY DEF ServicesInv, ChatsInv, CallsHold, ChatCallHolds
<1>9. subject = "reports" => call[h] \in ReportCall
  BY DEF ServicesInv, ReportsInv, ReportCallHolds
<1>10. subject \in FeedSubjects => call[h] \in FeedCall
  BY DEF ServicesInv, FeedInv, FeedCallHolds
<1> QED
  BY <1>1, <1>2, <1>3, <1>4, <1>5, <1>6, <1>7, <1>8, <1>9, <1>10

\* Everything is of its type: the rows, and by the last lemma the calls.
LEMMA ServicesInvTypes == ServicesInv => ServicesTypeOK
<1> SUFFICES ASSUME ServicesInv PROVE ServicesTypeOK
  OBVIOUS
<1> DEFINE Sound(Method, Call) ==
        \A h \in Handlers : InFlight(h) /\ call[h].op \in Method => call[h] \in Call
<1>1. /\ subject \in OrgSubjects \cup ChatSubjects \cup FeedSubjects \cup {"sessions", "reports"}
      /\ \A h \in Handlers : InFlight(h) =>
            /\ subject \in OrgSubjects => call[h].op \in OrgMethod
            /\ subject = "sessions" => call[h].op \in AuthMethod
            /\ subject \in ChatSubjects => call[h].op \in ChatMethod
            /\ subject = "reports" => call[h].op \in ReportMethod
            /\ subject \in FeedSubjects => call[h].op \in FeedMethod
  BY CallsOfTheSubject
     DEF ServicesInv, Subject, OrgSubjects, ChatSubjects, FeedSubjects
<1>2. Sound(OrgMethod, OrgCall)
  BY <1>1, MethodsDiffer DEF ServicesInv, MembersInv, OrgCallsHold, OrgCallHolds
<1>3. Sound(AuthMethod, AuthCall)
  BY <1>1, MethodsDiffer DEF ServicesInv, SessionsInv, AuthCallsHold, AuthCallHolds
<1>4. Sound(ChatMethod, ChatCall)
  BY <1>1, MethodsDiffer DEF ServicesInv, ChatsInv, CallsHold, ChatCallHolds
<1>5. Sound(ReportMethod, ReportCall)
  BY <1>1, MethodsDiffer DEF ServicesInv, ReportsInv, ReportCallHolds
<1>6. Sound(FeedMethod, FeedCall)
  BY <1>1, MethodsDiffer DEF ServicesInv, FeedInv, FeedCallHolds
<1>7. spent \subseteq {"code", "token"} \X Letter
  <2>1. letters \in Letter /\ \A n \in 1..letters : n \in Letter
    BY SessionAssumption DEF ServicesInv, RowsInOrder, RowHolds, Letter
  <2> QED
    BY <2>1 DEF ServicesInv, RowsInOrder, LettersHold
<1>8. MembershipTypeOK
  BY <1>2 DEF MembershipTypeOK, ServicesInv, RowsInOrder, OrgRowsHold, FatesHold
<1>9. SessionsTypeOK
  BY <1>3, <1>7 DEF SessionsTypeOK, ServicesInv, RowsInOrder, RowHolds, TokensHold
<1>10. ChatTypeOK
  BY <1>4 DEF ChatTypeOK, ServicesInv, RowsInOrder, RowsOK, SocketsHold
<1>11. ReportsTypeOK
  BY <1>5 DEF ReportsTypeOK, ServicesInv, RowsInOrder, ReportRowsHold
<1>12. FeedTypeOK
  BY <1>6 DEF FeedTypeOK, ServicesInv, RowsInOrder, FeedRowsHold
<1> QED
  BY <1>8, <1>9, <1>10, <1>11, <1>12 DEF ServicesTypeOK

\* The rows of a service that stays as it is are still in order.
LEMMA StillRowsStay ==
    /\ OrgRowsHold /\ FatesHold /\ UNCHANGED membershipVars => OrgRowsHold' /\ FatesHold'
    /\ RowHolds /\ TokensHold /\ LettersHold /\ UNCHANGED sessionVars
          => RowHolds' /\ TokensHold' /\ LettersHold'
    /\ RowsOK /\ SocketsHold /\ UNCHANGED chatVars => RowsOK' /\ SocketsHold'
    /\ ReportRowsHold /\ UNCHANGED reportVars => ReportRowsHold'
    /\ FeedRowsHold /\ LogNamesVisitors /\ PagingHolds /\ UNCHANGED feedVars
          => FeedRowsHold' /\ LogNamesVisitors' /\ PagingHolds'
<1>1. OrgRowsHold /\ FatesHold /\ UNCHANGED membershipVars => OrgRowsHold' /\ FatesHold'
  BY DEF membershipVars, orgVars, OrgRowsHold, WellFormed, JoinsAreNumbered, FatesHold
<1>2. RowHolds /\ TokensHold /\ LettersHold /\ UNCHANGED sessionVars
          => RowHolds' /\ TokensHold' /\ LettersHold'
  BY DEF sessionVars, RowHolds, TokensHold, LettersHold
<1>3. RowsOK /\ SocketsHold /\ UNCHANGED chatVars => RowsOK' /\ SocketsHold'
  BY SocketsStay, ChatsUnchangedGrow DEF chatVars, talkVars, RowsOK
<1>4. ReportRowsHold /\ UNCHANGED reportVars => ReportRowsHold'
  BY DEF reportVars, ReportRowsHold
<1>5. FeedRowsHold /\ LogNamesVisitors /\ PagingHolds /\ UNCHANGED feedVars
          => FeedRowsHold' /\ LogNamesVisitors' /\ PagingHolds'
  BY DEF feedVars, FeedRowsHold, LogNamesVisitors, PagingHolds, PagingMissesFew, Passed,
         Position, Above, Listed, getMyRequests, getRequestsWithPriority, LivePosts,
         RankSuffices
<1> QED
  BY <1>1, <1>2, <1>3, <1>4, <1>5

\* A step is one of the service that moves, and the others' rows stay.
LEMMA OneMoves ==
    ASSUME subject \in Subject, [ServicesNext]_servicesVars
    PROVE  /\ subject' = subject
           /\ IF subject \in OrgSubjects THEN [MembershipNext]_<<membershipVars, flight>>
                                         ELSE UNCHANGED membershipVars
           /\ IF subject = "sessions" THEN [SessionsNext]_<<sessionVars, flight>>
                                      ELSE UNCHANGED sessionVars
           /\ IF subject \in ChatSubjects THEN [TalkNext \/ RoomsNext]_<<chatVars, flight>>
                                          ELSE UNCHANGED chatVars
           /\ IF subject = "reports" THEN [ReportsNext]_<<reportVars, flight>>
                                     ELSE UNCHANGED reportVars
           /\ IF subject \in FeedSubjects THEN [PagingNext \/ ViewsNext]_<<feedVars, flight>>
                                          ELSE UNCHANGED feedVars
<1>1. CASE UNCHANGED servicesVars
  BY <1>1 DEF servicesVars
<1>2. CASE ServicesNext
  BY <1>2 DEF ServicesNext, MembershipNext, OrgSubjects, ChatSubjects, FeedSubjects
<1> QED
  BY <1>1, <1>2

LEMMA ServicesInvInit == ServicesInit => ServicesInv
<1> SUFFICES ASSUME ServicesInit PROVE ServicesInv
  OBVIOUS
<1>1. MembersInv /\ FateInv /\ SessionsInv /\ ChatsInv /\ ReportsInv /\ FeedInv
  BY MembersInvInit, FateInvInit, SessionsInvInit, ChatsInvInit, ReportsInvInit, FeedInvInit
     DEF ServicesInit
<1>2. subject \in Subject
  BY DEF ServicesInit
<1>3. RowsInOrder
  BY <1>1 DEF RowsInOrder, MembersInv, FateInv, SessionsInv, ChatsInv, ReportsInv, ReportsTypeOK,
              ReportRowsHold, FeedInv
<1> QED
  BY <1>1, <1>2, <1>3 DEF ServicesInv

LEMMA ServicesInvNext ==
    ASSUME ServicesInv, [ServicesNext]_servicesVars
    PROVE  ServicesInv'
<1>1. /\ subject' = subject /\ subject \in Subject
      /\ IF subject \in OrgSubjects THEN [MembershipNext]_<<membershipVars, flight>>
                                    ELSE UNCHANGED membershipVars
      /\ IF subject = "sessions" THEN [SessionsNext]_<<sessionVars, flight>>
                                 ELSE UNCHANGED sessionVars
      /\ IF subject \in ChatSubjects THEN [TalkNext \/ RoomsNext]_<<chatVars, flight>>
                                     ELSE UNCHANGED chatVars
      /\ IF subject = "reports" THEN [ReportsNext]_<<reportVars, flight>>
                                ELSE UNCHANGED reportVars
      /\ IF subject \in FeedSubjects THEN [PagingNext \/ ViewsNext]_<<feedVars, flight>>
                                     ELSE UNCHANGED feedVars
  BY OneMoves DEF ServicesInv
<1>2. subject \in OrgSubjects => MembersInv' /\ FateInv'
  BY <1>1, MembersInvNext, FateInvNext DEF ServicesInv
<1>3. subject = "sessions" => SessionsInv'
  BY <1>1, SessionsInvNext DEF ServicesInv
<1>4. subject \in ChatSubjects => ChatsInv'
  BY <1>1, ChatsInvNext DEF ServicesInv
<1>5. subject = "reports" => ReportsInv'
  BY <1>1, ReportsInvNext DEF ServicesInv
<1>6. subject \in FeedSubjects => FeedInv'
  BY <1>1, FeedInvNext DEF ServicesInv
<1>7. RowsInOrder'
  <2>1. OrgRowsHold' /\ FatesHold'
    BY <1>1, <1>2, StillRowsStay DEF ServicesInv, RowsInOrder, MembersInv, FateInv
  <2>2. RowHolds' /\ TokensHold' /\ LettersHold'
    BY <1>1, <1>3, StillRowsStay DEF ServicesInv, RowsInOrder, SessionsInv
  <2>3. RowsOK' /\ SocketsHold'
    BY <1>1, <1>4, StillRowsStay DEF ServicesInv, RowsInOrder, ChatsInv
  <2>4. ReportRowsHold'
    <3>1. ReportsInv' => ReportRowsHold'
      BY DEF ReportsInv, ReportsTypeOK, ReportRowsHold
    <3> QED
      BY <1>1, <1>5, <3>1, StillRowsStay DEF ServicesInv, RowsInOrder
  <2>5. FeedRowsHold' /\ LogNamesVisitors' /\ PagingHolds'
    BY <1>1, <1>6, StillRowsStay DEF ServicesInv, RowsInOrder, FeedInv
  <2> QED
    BY <2>1, <2>2, <2>3, <2>4, <2>5 DEF RowsInOrder
<1> QED
  BY <1>1, <1>2, <1>3, <1>4, <1>5, <1>6, <1>7 DEF ServicesInv

\* The strengthening holds throughout.
THEOREM ServicesInvHolds == ServicesSpec => []ServicesInv
<1>1. ServicesInv /\ [ServicesNext]_servicesVars => ServicesInv'
  BY ServicesInvNext
<1> QED
  BY <1>1, ServicesInvInit, PTL DEF ServicesSpec

\* Rows and calls in flight keep their types, in every service, whichever moves.
THEOREM ServicesTypes == ServicesSpec => []ServicesTypeOK
BY ServicesInvHolds, ServicesInvTypes, PTL

\* Side by side a service behaves as by itself, or its rows never change: what is
\* proved of a service alone is so of all of them together.
THEOREM OneServiceMoves ==
    ServicesSpec =>
        /\ subject \in OrgSubjects => MembershipSpec
        /\ subject = "sessions" => SessionsSpec
        /\ subject \in ChatSubjects => ChatsSpec
        /\ subject = "reports" => ReportsSpec
        /\ subject \in FeedSubjects => FeedSpec
        /\ subject \notin OrgSubjects => [][FALSE]_membershipVars
        /\ subject # "sessions" => [][FALSE]_sessionVars
        /\ subject \notin ChatSubjects => [][FALSE]_chatVars
        /\ subject # "reports" => [][FALSE]_reportVars
        /\ subject \notin FeedSubjects => [][FALSE]_feedVars
<1>1. ServicesInit =>
          /\ subject \in Subject
          /\ MembershipInit /\ SessionsInit /\ ChatsInit /\ ReportsInit /\ FeedInit /\ CallsInit
  BY DEF ServicesInit
<1>2. subject \in Subject /\ [ServicesNext]_servicesVars => (subject \in Subject)'
  BY OneMoves
<1>3. subject \in Subject /\ subject \in OrgSubjects /\ [ServicesNext]_servicesVars =>
          (subject \in OrgSubjects)' /\ [MembershipNext]_<<membershipVars, flight>>
  BY OneMoves
<1>4. subject \in Subject /\ subject = "sessions" /\ [ServicesNext]_servicesVars =>
          (subject = "sessions")' /\ [SessionsNext]_<<sessionVars, flight>>
  BY OneMoves
<1>5. subject \in Subject /\ subject \in ChatSubjects /\ [ServicesNext]_servicesVars =>
          (subject \in ChatSubjects)' /\ [TalkNext \/ RoomsNext]_<<chatVars, flight>>
  BY OneMoves
<1>6. subject \in Subject /\ subject = "reports" /\ [ServicesNext]_servicesVars =>
          (subject = "reports")' /\ [ReportsNext]_<<reportVars, flight>>
  BY OneMoves
<1>7. subject \in Subject /\ subject \in FeedSubjects /\ [ServicesNext]_servicesVars =>
          (subject \in FeedSubjects)' /\ [PagingNext \/ ViewsNext]_<<feedVars, flight>>
  BY OneMoves
<1>8. subject \in Subject /\ subject \notin OrgSubjects /\ [ServicesNext]_servicesVars =>
          (subject \notin OrgSubjects)' /\ [FALSE]_membershipVars
  BY OneMoves
<1>9. subject \in Subject /\ subject # "sessions" /\ [ServicesNext]_servicesVars =>
          (subject # "sessions")' /\ [FALSE]_sessionVars
  BY OneMoves
<1>10. subject \in Subject /\ subject \notin ChatSubjects /\ [ServicesNext]_servicesVars =>
          (subject \notin ChatSubjects)' /\ [FALSE]_chatVars
  BY OneMoves
<1>11. subject \in Subject /\ subject # "reports" /\ [ServicesNext]_servicesVars =>
          (subject # "reports")' /\ [FALSE]_reportVars
  BY OneMoves
<1>12. subject \in Subject /\ subject \notin FeedSubjects /\ [ServicesNext]_servicesVars =>
          (subject \notin FeedSubjects)' /\ [FALSE]_feedVars
  BY OneMoves
<1>13. ServicesSpec => [](subject \in Subject)
  BY <1>1, <1>2, PTL DEF ServicesSpec
<1> QED
  BY <1>1, <1>3, <1>4, <1>5, <1>6, <1>7, <1>8, <1>9, <1>10, <1>11, <1>12, <1>13, PTL
     DEF ServicesSpec, MembershipSpec, SessionsSpec, ChatsSpec, ReportsSpec, FeedSpec

\* So every promise that is proved of a service by itself is kept by the services
\* side by side, as the run checks them.
THEOREM PromisesAreKept ==
    ServicesSpec =>
        /\ EditKeepsTheRest /\ LeaveKeepsALeader /\ OnePendingEach
        /\ DeleteSparesSubgroups
        /\ []VerdictCarriedOut
        /\ ReplacedTokenYieldsNothing /\ LoggedOutStaysOut /\ ResetLettersUsedOnce
        /\ VerifiedAsksNoMore
        /\ OneDirectChat /\ FollowerMissesFew
        /\ VerifiedTextWasSeen /\ VerifiedReportIsKept
        /\ [](EntriesAreLive /\ HeardByParticipants)
        /\ [](PagingMissesFew /\ LogNamesVisitors)
<1>1. ServicesInv => EntriesAreLive /\ HeardByParticipants
  BY DEF ServicesInv, RowsInOrder, SocketsHold, EntryHolds, EntriesAreLive, SocketHolds,
         HeardByParticipants, Hearers
<1>2. ServicesInv => PagingMissesFew /\ LogNamesVisitors
  BY DEF ServicesInv, RowsInOrder, PagingHolds
<1>4. ServicesSpec => /\ [](EntriesAreLive /\ HeardByParticipants)
                      /\ [](PagingMissesFew /\ LogNamesVisitors)
  BY <1>1, <1>2, ServicesInvHolds, PTL
<1>3. /\ ServicesInit => \A j \in JoinIds : join[j] = NoJoin
      /\ (\A j \in JoinIds : join[j] = NoJoin) /\ [FALSE]_membershipVars =>
            (\A j \in JoinIds : join[j] = NoJoin)'
      /\ (\A j \in JoinIds : join[j] = NoJoin) => VerdictCarriedOut
      /\ [FALSE]_membershipVars => [FALSE]_orgVars
  BY NewRows
     DEF ServicesInit, MembershipInit, membershipVars, orgVars, VerdictCarriedOut
<1>5. [][FALSE]_membershipVars =>
          /\ EditKeepsTheRest /\ LeaveKeepsALeader /\ OnePendingEach
          /\ DeleteSparesSubgroups
  BY <1>3, PTL DEF EditKeepsTheRest, LeaveKeepsALeader, OnePendingEach,
                  DeleteSparesSubgroups
<1>6. [][FALSE]_sessionVars =>
          /\ ReplacedTokenYieldsNothing /\ LoggedOutStaysOut /\ ResetLettersUsedOnce
          /\ VerifiedAsksNoMore
  BY PTL DEF ReplacedTokenYieldsNothing, LoggedOutStaysOut, ResetLettersUsedOnce,
             VerifiedAsksNoMore
<1>7. [FALSE]_chatVars => [FALSE]_talkVars
  BY DEF chatVars
<1>8. [][FALSE]_chatVars => OneDirectChat /\ FollowerMissesFew
  BY <1>7, PTL DEF OneDirectChat, FollowerMissesFew
<1>9. [][FALSE]_reportVars => VerifiedTextWasSeen /\ VerifiedReportIsKept
  BY PTL DEF VerifiedTextWasSeen, VerifiedReportIsKept
<1>10. /\ subject \in OrgSubjects \/ subject \notin OrgSubjects
       /\ subject = "sessions" \/ subject # "sessions"
       /\ subject \in ChatSubjects \/ subject \notin ChatSubjects
       /\ subject = "reports" \/ subject # "reports"
  OBVIOUS
<1>11. ServicesSpec => /\ EditKeepsTheRest /\ LeaveKeepsALeader /\ OnePendingEach
                       /\ DeleteSparesSubgroups
  BY <1>5, <1>10, OneServiceMoves, EditKeeps, LeaderStays, OnePending, SubgroupsSpared, PTL
<1>15. ServicesSpec => []VerdictCarriedOut
  BY <1>3, <1>10, OneServiceMoves, VerdictsCarriedOut, PTL DEF ServicesSpec
<1>12. ServicesSpec => /\ ReplacedTokenYieldsNothing /\ LoggedOutStaysOut
                       /\ ResetLettersUsedOnce /\ VerifiedAsksNoMore
  BY <1>6, <1>10, OneServiceMoves, ReplacedYieldsNothing, LoggedOutStays, LettersUsedOnce,
     VerifiedAsksNoMoreHolds, PTL
<1>13. ServicesSpec => OneDirectChat /\ FollowerMissesFew
  BY <1>8, <1>10, OneServiceMoves, OneDirect, FollowersMissFew, PTL
<1>14. ServicesSpec => VerifiedTextWasSeen /\ VerifiedReportIsKept
  BY <1>9, <1>10, OneServiceMoves, VerifiedTextSeen, VerifiedKept, PTL
<1> QED
  BY <1>4, <1>11, <1>12, <1>13, <1>14, <1>15, PTL

=============================================================================
