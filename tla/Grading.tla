------------------------------ MODULE Grading ------------------------------
(***************************************************************************)
(* Grading scales and averages (backend/apps/academics): which scales may  *)
(* grade, which band a percentage falls into, and the credit-weighted      *)
(* averages.  Percentages and grade points are counted in hundredths, the  *)
(* step validate_bands allows between two bands.                           *)
(***************************************************************************)
EXTENDS Integers, Sequences, FiniteSetsExt

CONSTANTS
    Letters,
    Top,        \* 100 %, in steps of GRADE_BAND_STEP
    MaxPoint,   \* max_grade_point of the scale
    Credits,    \* credit hours a course may have
    Points,     \* grade points a course may be given
    MaxCourses, \* bound: courses of a semester
    NoBand

ASSUME BoundsAssumption ==
    /\ MaxCourses \in Nat /\ Top \in Nat /\ MaxPoint \in Int
    /\ Credits \subseteq Nat /\ Points \subseteq Nat
    /\ IsFiniteSet(Letters)

VARIABLES
    bands,      \* GradeBand rows of one scale, by letter (unique_letter_per_scale)
    locked,     \* GradingScale.is_locked
    graded      \* per semester: the (credit_hours, grade_point) of a student's courses

gradingVars == <<bands, locked, graded>>

Band == {b \in [min : 0..Top, max : 0..Top, point : {MaxPoint, MaxPoint + 1}] : b.min <= b.max}
Terms == {1, 2}

GradingInit ==
    /\ bands = [l \in Letters |-> NoBand]
    /\ locked = FALSE
    /\ graded = [t \in Terms |-> <<>>]

----------------------------------------------------------------------------
Stored(scale) == {l \in DOMAIN scale : scale[l] # NoBand}

\* The bands sorted by min_percent; bands with equal bounds come in either order.
Ordered(scale) ==
    LET n == Cardinality(Stored(scale))
        order == CHOOSE o \in Bijection(1..n, Stored(scale)) :
                    \A i, j \in 1..n : i < j => scale[o[i]].min <= scale[o[j]].min
    IN [i \in 1..n |-> scale[order[i]]]

\* Mutant: a hole of one step between two bands goes unnoticed.
ValidateBandsLoose(scale) ==
    LET order == Ordered(scale)
        n == Cardinality(Stored(scale))
    IN /\ n > 0
       /\ \A i \in 1..n : order[i].point <= MaxPoint
       /\ order[1].min = 0 /\ order[n].max = Top
       /\ \A i \in 1..(n - 1) :
             order[i + 1].min > order[i].max /\ order[i + 1].min - order[i].max <= 2

\* validate_bands: in their order the bands start at 0, end at 100, and each
\* begins one step after the one below.
ValidateBands(scale) ==
    LET order == Ordered(scale)
        n == Cardinality(Stored(scale))
    IN /\ n > 0
       /\ \A i \in 1..n : order[i].point <= MaxPoint
       /\ order[1].min = 0 /\ order[n].max = Top
       /\ \A i \in 1..(n - 1) :
             order[i + 1].min > order[i].max /\ order[i + 1].min - order[i].max <= 1

Covers(band, percent) == band.min <= percent /\ percent <= band.max

\* grade_for: the band that contains the percentage, the highest one first; none
\* when GradingConfigurationError is raised.
GradeFor(scale, percent) ==
    LET hits == {l \in Stored(scale) : Covers(scale[l], percent)}
    IN IF percent \notin 0..Top \/ hits = {} THEN NoBand
       ELSE CHOOSE l \in hits : \A k \in hits : scale[k].min <= scale[l].min

\* n / d rounded half up, as _quantize does.
HalfUp(n, d) == (2 * n + d) \div (2 * d)

SumOver(f, S) == MapThenSumSet(LAMBDA i : f[i], S)

\* A course without credits cannot move an average.
Weighed(entries) == {i \in DOMAIN entries : entries[i][1] > 0}
TotalCredits(entries) == SumOver([i \in DOMAIN entries |-> entries[i][1]], Weighed(entries))
TotalPoints(entries) ==
    SumOver([i \in DOMAIN entries |-> entries[i][1] * entries[i][2]], Weighed(entries))

\* Mutant: the courses are not weighted by their credits.
GpaUnweighted(entries) ==
    IF TotalCredits(entries) = 0 THEN -1
    ELSE HalfUp(SumOver([i \in DOMAIN entries |-> entries[i][2]], Weighed(entries)),
                Cardinality(Weighed(entries)))

\* gpa and cgpa over (credits, grade point) pairs; -1 stands for None.
Gpa(entries) ==
    IF TotalCredits(entries) = 0 THEN -1
    ELSE HalfUp(TotalPoints(entries), TotalCredits(entries))

\* weighted_semester_cgpa over the (total credits, gpa) of the semesters; one without
\* a gpa has no credits either.
WeightedSemesterCgpa(semesters) ==
    Gpa([i \in DOMAIN semesters |-> <<TotalCredits(semesters[i]), Gpa(semesters[i])>>])

\* classification, 1 the highest of five classes.
Classification(value, maximum) ==
    IF value = -1 \/ maximum <= 0 THEN 0
    ELSE 5 - Cardinality({b \in {875, 750, 625, 500} : 1000 * value >= b * maximum})

----------------------------------------------------------------------------
\* A band added or changed through the API; GradeBand.clean refuses a locked scale.
PutBand(l, band) ==
    /\ ~locked
    /\ bands' = [bands EXCEPT ![l] = band]
    /\ UNCHANGED <<locked, graded>>

\* A band deleted through the API: clean() does not run, so a lock does not stop it.
DeleteBand(l) ==
    /\ bands[l] # NoBand
    /\ bands' = [bands EXCEPT ![l] = NoBand]
    /\ UNCHANGED <<locked, graded>>

\* The scales the admin form stores: its formset lets a scale without bands pass.
UsableScales ==
    {[l \in Letters |-> s[l]] :
        s \in {t \in [Letters -> Band \cup {NoBand}] : Stored(t) = {} \/ ValidateBands(t)}}

\* A scale saved in the admin, all its bands together; when it is locked, a band
\* that is kept fails GradeBand.clean, and one that is deleted is not asked.
SaveScale(scale) ==
    /\ locked => Stored(scale) = {}
    /\ bands' = scale
    /\ UNCHANGED <<locked, graded>>

\* is_locked is an ordinary field of the scale.
SetLocked(value) ==
    /\ locked' = value
    /\ UNCHANGED <<bands, graded>>

\* A course of the student gets its grade point.
GradeCourse(t, credits, point) ==
    /\ Len(graded[t]) < MaxCourses
    /\ graded' = [graded EXCEPT ![t] = Append(@, <<credits, point>>)]
    /\ UNCHANGED <<bands, locked>>

ScaleNext ==
    \/ \E l \in Letters, band \in Band : PutBand(l, band)
    \/ \E l \in Letters : DeleteBand(l)
    \/ \E scale \in UsableScales : SaveScale(scale)
    \/ \E value \in BOOLEAN : SetLocked(value)

AveragesNext ==
    \E t \in Terms, credits \in Credits, point \in Points : GradeCourse(t, credits, point)

GradingSpec == GradingInit /\ [][ScaleNext \/ AveragesNext]_gradingVars

----------------------------------------------------------------------------
\* The type invariant.
GradingTypeOK ==
    /\ bands \in [Letters -> Band \cup {NoBand}]
    /\ locked \in BOOLEAN
    /\ graded \in [Terms -> Seq(Credits \X Points)] /\ \A t \in Terms : Len(graded[t]) <= MaxCourses

\* validate_bands is exact: it accepts a scale just when every percentage falls
\* into one band and no more, so that grade_for neither raises nor depends on
\* the order of the bands.
ValidScalesGradeEveryMark ==
    ValidateBands(bands) <=>
        /\ \A p \in 0..Top : Cardinality({l \in Stored(bands) : Covers(bands[l], p)}) = 1
        /\ \A p \in 0..Top : bands[GradeFor(bands, p)].point <= MaxPoint

\* How far the disagreement of SummariesEqualCourses goes: one hundredth at most, which
\* decides at most a neighbouring class of degree; and one CGPA is missing just when the
\* other is.
SummariesAgreeWithCourses ==
    LET all == Gpa(graded[1] \o graded[2])
        summed == WeightedSemesterCgpa(graded)
    IN /\ (all = -1) <=> (summed = -1)
       /\ all - summed \in -1..1
       /\ Classification(all, 400) - Classification(summed, 400) \in -1..1

\* "Mathematically equivalent to `cgpa()` over the underlying courses"
\* (weighted_semester_cgpa): the CGPA of the semester summaries, each rounded already,
\* is the CGPA of the courses.
SummariesEqualCourses == WeightedSemesterCgpa(graded) = Gpa(graded[1] \o graded[2])
=============================================================================
