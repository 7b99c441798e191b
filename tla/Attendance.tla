----------------------------- MODULE Attendance -----------------------------
(***************************************************************************)
(* The attendance register and the exam block that follows from it         *)
(* (backend/apps/attendance).  A register is one transaction over the      *)
(* registrations of one session; a registration dropped while it runs is   *)
(* the same as one dropped just after it, so it is one action.             *)
(***************************************************************************)
EXTENDS Integers, FiniteSets

CONSTANTS
    Roster,         \* the course registrations of one class
    Sessions,       \* dated occurrences of the class
    Threshold       \* attendance_threshold(), in hundredths of a per cent

ASSUME ThresholdAssumption == Threshold \in 0..10000 /\ IsFiniteSet(Sessions)

VARIABLES
    record,         \* SessionRecord.status per session and registration
    waived,         \* registrations with an AttendanceWaiver
    onRoster        \* registrations still "registered"

attendanceVars == <<record, waived, onRoster>>

\* AttendanceStatus.
AttendanceStatus == {"present", "absent", "late", "excused"}
Attended == {"present", "late"}

\* SessionRecord: one row per session and registration, or none.
SessionRecord == [Sessions -> [Roster -> AttendanceStatus \cup {"none"}]]

AttendanceInit ==
    /\ record = [s \in Sessions |-> [r \in Roster |-> "none"]]
    /\ waived = {}
    /\ onRoster = Roster

----------------------------------------------------------------------------
\* record_session: all rows or none, later marks replace earlier ones, one
\* registration outside the roster refuses the whole register.
Upsert(s, marks) ==
    /\ DOMAIN marks \subseteq onRoster
    /\ record' = [record EXCEPT ![s] =
                    [r \in Roster |-> IF r \in DOMAIN marks THEN marks[r] ELSE @[r]]]
    /\ UNCHANGED <<waived, onRoster>>

\* From the register screen: marks for several registrations.
RecordSession(s, marks) == Upsert(s, marks)

\* SessionRecordHandler.apply: from a synchronised device, one registration each.
SyncSession(s, r, status) == Upsert(s, [q \in {r} |-> status])

\* drop_course or completion of the registration (enrollment).
LeaveRoster(r) ==
    /\ r \in onRoster
    /\ onRoster' = onRoster \ {r}
    /\ UNCHANGED <<record, waived>>

\* grant_waiver: one per registration; granting again replaces the reason.
GrantWaiver(r) ==
    /\ waived' = waived \cup {r}
    /\ UNCHANGED <<record, onRoster>>

AttendanceNext ==
    \/ \E s \in Sessions, R \in (SUBSET Roster) \ {{}} :
          \E marks \in [R -> AttendanceStatus] : RecordSession(s, marks)
    \/ \E s \in Sessions, r \in Roster, status \in AttendanceStatus : SyncSession(s, r, status)
    \/ \E r \in Roster : LeaveRoster(r) \/ GrantWaiver(r)

AttendanceSpec == AttendanceInit /\ [][AttendanceNext]_attendanceVars

----------------------------------------------------------------------------
\* Mutant: an excused absence counts as a session recorded.
AttendanceSummaryAll(r) ==
    LET recorded == {s \in Sessions : record[s][r] # "none"}
        attended == {s \in Sessions : record[s][r] \in Attended}
        t == Cardinality(recorded)
    IN  [total |-> t, percentage |->
            IF t = 0 THEN 0 ELSE (20000 * Cardinality(attended) + t) \div (2 * t)]

\* attendance_summary: sessions with a mark other than "excused" are the
\* denominator; the percentage is rounded half up to two places.
AttendanceSummary(r) ==
    LET recorded == {s \in Sessions : record[s][r] \notin {"none", "excused"}}
        attended == {s \in Sessions : record[s][r] \in Attended}
        t == Cardinality(recorded)
    IN  [total |-> t, percentage |->
            IF t = 0 THEN 0 ELSE (20000 * Cardinality(attended) + t) \div (2 * t)]

\* is_below_threshold: nobody is below it before a first mark.
IsBelowThreshold(r) ==
    AttendanceSummary(r).total > 0 /\ AttendanceSummary(r).percentage < Threshold

\* exam_eligibility.
ExamEligible(r) == ~IsBelowThreshold(r) \/ r \in waived

\* The type invariant.
AttendanceTypeOK ==
    record \in SessionRecord /\ waived \subseteq Roster /\ onRoster \subseteq Roster

\* A student who could sit the exam is barred only by a mark that got worse: a
\* new absence, or attendance turned into an excuse.  Excusing an absence, a
\* later session attended, another student's register or a waiver never bars.  That
\* the admin can delete a waiver is not modelled.
BarredOnlyByAbsence ==
    [][\A r \in Roster : ExamEligible(r) /\ ~ExamEligible(r)' =>
         \E s \in Sessions :
            \/ record[s][r] # "absent" /\ record'[s][r] = "absent"
            \/ record[s][r] \in Attended /\ record'[s][r] = "excused"]_attendanceVars
=============================================================================
