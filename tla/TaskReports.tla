------------------------------ MODULE TaskReports ------------------------------
(***************************************************************************)
(* One report on a task: TaskReportsService (task-reports.service.ts).     *)
(*                                                                         *)
(* update() and verifyReport() read the report, change the copy and save() *)
(* it.  save() reads the row again, compares, and writes the columns that  *)
(* differ, or inserts the row when there is none.  An UPDATE of a row that *)
(* is gone by then changes nothing.  "alone" counts from that comparison.  *)
(*                                                                         *)
(* delete() removes the row for good.  The files of a report are left out. *)
(***************************************************************************)
EXTENDS Calls

CONSTANT MaxTexts       \* bound on the texts of the report

ASSUME ReportAssumption == MaxTexts \in Nat \ {0}

VARIABLES
    report,     \* the row of "task_reports"
    halfHour,   \* half an hour has passed since it was made
    texts,      \* how many texts were written
    vouched     \* history: the text that was read by whoever verified last

reportVars == <<report, halfHour, texts, vouched>>

ReportRow == [exists : BOOLEAN, comment : 0..MaxTexts, isVerified : BOOLEAN]
ReportColumn == {"exists", "comment", "isVerified"}
ReportMethod == {"updateReport", "verifyReport", "deleteReport"}

\* row: the copy, changed in memory; read: the text it came with; cols: the columns
\* that differ.
ReportCall == [op : ReportMethod, step : {"diff report", "save report", "delete report"},
               alone : BOOLEAN, row : ReportRow, read : 0..MaxTexts,
               cols : SUBSET ReportColumn]

ReportsTypeOK ==
    /\ report \in ReportRow
    /\ halfHour \in BOOLEAN
    /\ texts \in 0..MaxTexts
    /\ vouched \in 0..MaxTexts
    /\ \A h \in Handlers :
           InFlight(h) /\ call[h].op \in ReportMethod => call[h] \in ReportCall

-----------------------------------------------------------------------------

\* findById, and what the method makes of the copy.
ReadReport(h, op, step, row) ==
    /\ report.exists
    /\ Begin(h, [op |-> op, step |-> step, alone |-> TRUE, row |-> row,
                 read |-> report.comment, cols |-> {}])

createReport ==
    /\ texts = 0
    /\ texts' = 1
    /\ report' = [exists |-> TRUE, comment |-> 1, isVerified |-> FALSE]
    /\ Disturbs
    /\ UNCHANGED <<halfHour, vouched>>

\* Mutant: a new text leaves the verification alone.
EditedOnly(text) == [report EXCEPT !.comment = text]

Edited(text) == [report EXCEPT !.comment = text, !.isVerified = FALSE]

updateReport(h) ==
    /\ ~halfHour /\ texts < MaxTexts
    /\ texts' = texts + 1
    /\ ReadReport(h, "updateReport", "diff report", Edited(texts + 1))
    /\ UNCHANGED <<report, halfHour, vouched>>

verifyReport(h) ==
    /\ ReadReport(h, "verifyReport", "diff report", [report EXCEPT !.isVerified = TRUE])
    /\ UNCHANGED reportVars

DiffReport(h) ==
    LET c == call[h] IN
    /\ At(h, "diff report")
    /\ Becomes(h, [c EXCEPT !.step = "save report", !.alone = TRUE,
                            !.cols = {k \in ReportColumn : c.row[k] # report[k]}])
    /\ UNCHANGED reportVars

Written(c) == [k \in ReportColumn |-> IF k \in c.cols THEN c.row[k] ELSE report[k]]

SaveReport(h) ==
    LET c == call[h] IN
    /\ At(h, "save report")
    /\ ~(report.exists /\ "exists" \in c.cols)   \* a second row with this id
    /\ report' = IF report.exists \/ "exists" \in c.cols THEN Written(c) ELSE report
    /\ vouched' = IF c.op = "verifyReport" THEN c.read ELSE vouched
    /\ WritesAndBecomes(h, Idle)
    /\ UNCHANGED <<halfHour, texts>>

\* Mutant: nobody looks whether it is verified.
MayDeleteVerified == ~halfHour

\* By its author.
MayDeleteReport == ~report.isVerified /\ ~halfHour

deleteReport(h) ==
    /\ MayDeleteReport
    /\ ReadReport(h, "deleteReport", "delete report", report)
    /\ UNCHANGED reportVars

DeleteReport(h) ==
    /\ At(h, "delete report")
    /\ report' = [report EXCEPT !.exists = FALSE]
    /\ WritesAndBecomes(h, Idle)
    /\ UNCHANGED <<halfHour, texts, vouched>>

HalfHourPasses ==
    /\ texts > 0 /\ ~halfHour
    /\ halfHour' = TRUE
    /\ UNCHANGED <<report, texts, vouched, flight>>

FailReportCall(h) ==
    /\ InFlight(h) /\ call[h].op \in ReportMethod
    /\ Becomes(h, Idle)
    /\ UNCHANGED reportVars

-----------------------------------------------------------------------------

ReportsInit ==
    /\ report = [exists |-> FALSE, comment |-> 0, isVerified |-> FALSE]
    /\ halfHour = FALSE /\ texts = 0 /\ vouched = 0

ReportsNext ==
    \/ createReport \/ HalfHourPasses
    \/ \E h \in Handlers :
          \/ updateReport(h) \/ verifyReport(h) \/ deleteReport(h)
          \/ DiffReport(h) \/ SaveReport(h) \/ DeleteReport(h) \/ FailReportCall(h)

ReportsSpec == ReportsInit /\ CallsInit /\ [][ReportsNext]_<<reportVars, flight>>

-----------------------------------------------------------------------------
(* Properties *)

SavesReport(h) == At(h, "save report") /\ ~InFlight(h)'

\* A verified report has the text its verifier was shown, unless two saves overlap
\* so that one writes between the other's comparison and its writing (update,
\* "Якщо звіт був підтверджений — скидаємо підтвердження").
VerifiedTextWasSeen ==
    [][report'.isVerified /\ report'.comment # vouched' =>
           \/ report.isVerified /\ report.comment # vouched
           \/ \E h \in Handlers : SavesReport(h) /\ ~call[h].alone]_reportVars

\* A verified report is not deleted, unless it was verified after the deletion had
\* looked (delete, "Не можна видалити підтверджений звіт").
VerifiedReportIsKept ==
    [][report.exists /\ report.isVerified /\ ~report'.exists =>
           \E h \in Handlers : At(h, "delete report") /\ ~InFlight(h)' /\ ~call[h].alone]_reportVars

=============================================================================
