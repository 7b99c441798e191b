------------------------------ MODULE Academic ------------------------------
(***************************************************************************)
(* The academic offices side by side: curriculum, registration, grading,   *)
(* marks, results, attendance and timetables.  They keep tables of their   *)
(* own and none of the actions below writes another's, so a behaviour      *)
(* follows one office, `office`, and the others stand still: interleaving  *)
(* them would reach no state of any office that this does not.             *)
(***************************************************************************)
EXTENDS Enrollment, Marks, Results, Attendance, Timetabling

VARIABLE office

Offices == {"curriculum", "enrollment", "scales", "averages", "marks", "results",
            "attendance", "timetabling"}

academicVars == <<curriculumVars, enrollmentVars, gradingVars, marksVars, resultsVars,
                  attendanceVars, ttVars>>

AcademicInit ==
    /\ office \in Offices
    /\ CurriculumInit /\ EnrollmentInit /\ GradingInit /\ ResultsInit /\ AttendanceInit
    /\ MarksInit /\ TtInit
    \* The initial choices of an office that stands still are fixed.
    /\ office # "marks" => scheme = [a \in Assessments |-> CHOOSE w \in Schemes : TRUE]
    /\ office # "timetabling" => board = "class"

AcademicNext ==
    /\ UNCHANGED office
    /\ \/ /\ office = "curriculum" /\ CurriculumNext
          /\ UNCHANGED <<enrollmentVars, gradingVars, marksVars, resultsVars, attendanceVars, ttVars>>
       \/ /\ office = "enrollment" /\ EnrollmentNext
          /\ UNCHANGED <<curriculumVars, gradingVars, marksVars, resultsVars, attendanceVars, ttVars>>
       \/ /\ office = "scales" /\ ScaleNext
          /\ UNCHANGED <<curriculumVars, enrollmentVars, marksVars, resultsVars, attendanceVars, ttVars>>
       \/ /\ office = "averages" /\ AveragesNext
          /\ UNCHANGED <<curriculumVars, enrollmentVars, marksVars, resultsVars, attendanceVars, ttVars>>
       \/ /\ office = "marks" /\ MarksNext
          /\ UNCHANGED <<curriculumVars, enrollmentVars, gradingVars, resultsVars, attendanceVars, ttVars>>
       \/ /\ office = "results" /\ ResultsNext
          /\ UNCHANGED <<curriculumVars, enrollmentVars, gradingVars, marksVars, attendanceVars, ttVars>>
       \/ /\ office = "attendance" /\ AttendanceNext
          /\ UNCHANGED <<curriculumVars, enrollmentVars, gradingVars, marksVars, resultsVars, ttVars>>
       \/ /\ office = "timetabling" /\ TtNext
          /\ UNCHANGED <<curriculumVars, enrollmentVars, gradingVars, marksVars, resultsVars,
                         attendanceVars>>

AcademicSpec == AcademicInit /\ [][AcademicNext]_<<academicVars, office>>

\* The type invariant: each office's tables keep the statuses, scores and keys its
\* models declare.
AcademicTypeOK ==
    /\ CurriculumTypeOK /\ EnrollmentTypeOK /\ GradingTypeOK /\ MarksTypeOK
    /\ ResultsTypeOK /\ AttendanceTypeOK /\ TtTypeOK
=============================================================================
