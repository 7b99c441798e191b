------------------------------- MODULE Marks -------------------------------
(***************************************************************************)
(* Assessments, marks and the result of a registration                     *)
(* (backend/apps/examinations).  A mark is saved as a whole row: recording *)
(* reads it in the service, moderation and irregularity flags act on the   *)
(* instance their view loaded.                                             *)
(***************************************************************************)
EXTENDS Grading, FiniteSetsExt

CONSTANTS
    Assessments,  \* of one course
    Schemes,      \* what an assessment may weigh and be scored out of: [weight, max]
    Scores,       \* scores entered
    Scale,        \* the default grading scale
    MarkCalls

\* validators of weight_percent; max_score has none.
ASSUME SchemesAssumption ==
    /\ IsFiniteSet(Assessments)
    /\ \A w \in Schemes : w.weight \in Nat /\ w.max \in Int

\* What validate_bands asks of the default scale: every percentage has a band.
ASSUME ScaleAssumption ==
    /\ NoBand \notin DOMAIN Scale
    /\ \A l \in Stored(Scale) : Scale[l].min \in 0..Top
    /\ \A p \in 0..Top : \E l \in Stored(Scale) : Covers(Scale[l], p)

VARIABLES
    scheme,     \* Assessment rows
    mark,       \* the Mark rows of one registration, by assessment
    dropped,    \* the registration was dropped
    markCall,   \* per call: what it writes, and the row it has read
    unflagged,  \* history: marks whose irregularity somebody cleared since it was flagged
    markRaced   \* history: marks saved on a stale read

marksVars == <<scheme, mark, dropped, markCall, unflagged, markRaced>>

NoScore == -1
NoMark == [score |-> NoScore, moderated |-> NoScore, irregular |-> FALSE]
MarkRow == [score : Scores, moderated : Scores \cup {NoScore}, irregular : BOOLEAN]
MarkIdle == [do |-> "none", on |-> NoBand, row |-> NoMark, value |-> NoScore, stale |-> FALSE]

MarksInit ==
    /\ scheme \in [Assessments -> Schemes]
    /\ mark = [a \in Assessments |-> NoMark]
    /\ dropped = FALSE
    /\ markCall = [c \in MarkCalls |-> MarkIdle]
    /\ unflagged = Assessments
    /\ markRaced = {}

----------------------------------------------------------------------------
(* The result of the registration.                                         *)

EffectiveScore(m) == IF m.moderated # NoScore THEN m.moderated ELSE m.score

\* validate_assessment_weights.
WeightsValid == MapThenSumSet(LAMBDA a : scheme[a].weight, Assessments) = Top

\* The sum of the components entered, each rounded; a maximum of 0 counts nothing.
Component(a) ==
    IF scheme[a].max = 0 THEN 0
    ELSE HalfUp(EffectiveScore(mark[a]) * scheme[a].weight, scheme[a].max)

Percent == MapThenSumSet(Component, {a \in Assessments : mark[a] # NoMark})

\* Mutant: a flagged mark is graded like any other.
CourseResultFlagged ==
    IF WeightsValid /\ \A a \in Assessments : mark[a] # NoMark
    THEN GradeFor(Scale, Percent) ELSE NoBand

\* course_result: the letter, or none while a mark is missing or irregular, the
\* weights are wrong or no band fits.
CourseResult ==
    IF /\ WeightsValid
       /\ \A a \in Assessments : mark[a] # NoMark /\ ~mark[a].irregular
    THEN GradeFor(Scale, Percent) ELSE NoBand

\* missing_marks_report.
MissingMarks == IF dropped THEN {} ELSE {a \in Assessments : mark[a] = NoMark}

----------------------------------------------------------------------------
BeginMark(c, what, a, value) ==
    /\ markCall[c] = MarkIdle
    /\ markCall' = [markCall EXCEPT ![c] =
          [do |-> what, on |-> a, row |-> mark[a], value |-> value, stale |-> FALSE]]
    /\ UNCHANGED <<scheme, mark, dropped, unflagged, markRaced>>

\* full_clean bounds the score by 0 and the assessment's maximum, not the moderated one.
SaveMark(c, row, cleared) ==
    LET a == markCall[c].on
    IN /\ 0 <= row.score /\ row.score <= scheme[a].max
       /\ mark' = [mark EXCEPT ![a] = row]
       /\ markCall' = [d \in MarkCalls |->
             IF d = c \/ markCall[d] = MarkIdle THEN MarkIdle
             ELSE [markCall[d] EXCEPT !.stale = @ \/ markCall[d].on = a]]
       /\ unflagged' = cleared
       /\ markRaced' = IF markCall[c].stale THEN markRaced \cup {a} ELSE markRaced
       /\ UNCHANGED <<scheme, dropped>>

\* record_mark up to its save.
RecordMarkCheck(c, a, score) == ~dropped /\ BeginMark(c, "record", a, score)

\* Mutant: a corrected score is no longer irregular.
RecordMarkClearing(c) ==
    /\ markCall[c].do = "record"
    /\ markCall[c].row = NoMark => mark[markCall[c].on] = NoMark
    /\ SaveMark(c, [markCall[c].row EXCEPT !.score = markCall[c].value, !.irregular = FALSE],
                unflagged)

\* The save; a second insert of the same mark is refused.
RecordMark(c) ==
    /\ markCall[c].do = "record"
    /\ markCall[c].row = NoMark => mark[markCall[c].on] = NoMark
    /\ SaveMark(c, [markCall[c].row EXCEPT !.score = markCall[c].value], unflagged)

\* get_object of the moderate, flag-irregularity and clear-irregularity actions.
LoadMark(c, a, what, score) ==
    /\ mark[a] # NoMark
    /\ (what = "moderate") = (score # NoScore)
    /\ BeginMark(c, what, a, score)

ModerateMark(c) ==
    /\ markCall[c].do = "moderate"
    /\ SaveMark(c, [markCall[c].row EXCEPT !.moderated = markCall[c].value], unflagged)

FlagIrregularity(c) ==
    /\ markCall[c].do = "flag"
    /\ SaveMark(c, [markCall[c].row EXCEPT !.irregular = TRUE], unflagged \ {markCall[c].on})

ClearIrregularity(c) ==
    /\ markCall[c].do = "clear"
    /\ SaveMark(c, [markCall[c].row EXCEPT !.irregular = FALSE], unflagged \cup {markCall[c].on})

MarkAbandon(c) ==
    /\ markCall[c] # MarkIdle
    /\ markCall' = [markCall EXCEPT ![c] = MarkIdle]
    /\ UNCHANGED <<scheme, mark, dropped, unflagged, markRaced>>

\* update_assessment; weights are looked at when a result is computed only.
UpdateAssessment(a, new) ==
    /\ scheme' = [scheme EXCEPT ![a] = new]
    /\ UNCHANGED <<mark, dropped, markCall, unflagged, markRaced>>

\* drop_course (module Enrollment).
DropRegistration ==
    /\ ~dropped
    /\ dropped' = TRUE
    /\ UNCHANGED <<scheme, mark, markCall, unflagged, markRaced>>

MarksNext ==
    \/ \E c \in MarkCalls :
          \/ \E a \in Assessments, score \in Scores : RecordMarkCheck(c, a, score)
          \/ \E a \in Assessments, what \in {"moderate", "flag", "clear"},
                score \in Scores \cup {NoScore} : LoadMark(c, a, what, score)
          \/ RecordMark(c) \/ ModerateMark(c) \/ FlagIrregularity(c) \/ ClearIrregularity(c)
          \/ MarkAbandon(c)
    \/ \E a \in Assessments, new \in Schemes : UpdateAssessment(a, new)
    \/ DropRegistration

MarksSpec == MarksInit /\ [][MarksNext]_marksVars

----------------------------------------------------------------------------
\* The type invariant.
MarksTypeOK ==
    /\ scheme \in [Assessments -> Schemes]
    /\ mark \in [Assessments -> MarkRow \cup {NoMark}]
    /\ dropped \in BOOLEAN
    /\ unflagged \subseteq Assessments

\* A letter is shown exactly for a full set of undisputed marks under weights
\* that make 100 %, whenever every score is within its bounds: the rounded components
\* never add up past 100, and no percentage falls between two bands of a valid
\* scale (course_result with grade_for).
SoundMarksAreGraded ==
    LET full == \A a \in Assessments : mark[a] # NoMark /\ ~mark[a].irregular
        within == \A a \in Assessments : EffectiveScore(mark[a]) \in 0..scheme[a].max
    IN /\ full /\ WeightsValid /\ within => CourseResult # NoBand /\ Percent \in 0..Top
       /\ CourseResult # NoBand => full /\ WeightsValid /\ MissingMarks = {}

\* A mark flagged irregular stays out of the result until somebody clears it
\* (the help text of Mark.is_irregular): no correction, moderation or change of
\* the scheme brings it back, unless it saves a row it read before the flag (MarkAdmin,
\* which edits the row directly, is not modelled).
FlagStaysUntilCleared ==
    \A a \in Assessments : a \notin unflagged => mark[a].irregular \/ a \in markRaced
=============================================================================
