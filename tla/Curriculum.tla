----------------------------- MODULE Curriculum -----------------------------
(***************************************************************************)
(* Prerequisite links and curriculum versions (backend/apps/curriculum).   *)
(* The API validates a link with the model's clean(), which walks the      *)
(* stored graph, and inserts it afterwards: two statements with no lock    *)
(* between them.                                                           *)
(***************************************************************************)
EXTENDS Integers, FiniteSets

CONSTANTS
    Courses,
    Versions,   \* the curriculum versions of one programme
    Editors     \* concurrent edits of the prerequisite graph

ASSUME CoursesAssumption == IsFiniteSet(Courses)

VARIABLES
    links,      \* Prerequisite rows: <<course, required_course>>
    version,    \* CurriculumVersion.status
    edit,       \* per editor: the link validated and the one it replaces
    linksRaced  \* history: a link was saved although another had been since its check

curriculumVars == <<links, version, edit, linksRaced>>

NoLink == <<>>
NoEdit == [add |-> NoLink, old |-> NoLink, stale |-> FALSE]
VersionStatus == {"draft", "active", "retired"}

CurriculumInit ==
    /\ links = {}
    /\ version = [v \in Versions |-> "draft"]
    /\ edit = [e \in Editors |-> NoEdit]
    /\ linksRaced = FALSE

----------------------------------------------------------------------------
\* Mutant: the walk looks one step ahead only.
CreatesCycleNear(graph, course, required) == <<required, course>> \in graph

\* _creates_cycle: the courses reached upwards from required_course.
CreatesCycle(graph, course, required) ==
    LET seen[n \in 0..Cardinality(Courses)] ==
            IF n = 0 THEN {required}
            ELSE seen[n - 1] \cup {r \in Courses : \E k \in seen[n - 1] : <<k, r>> \in graph}
    IN course \in seen[Cardinality(Courses)]

\* Serializer validation of a new link, or of a changed one, whose own row the
\* walk leaves out.
ValidateLink(e, course, required, old) ==
    /\ edit[e] = NoEdit
    /\ old \in links \cup {NoLink}
    /\ course # required
    /\ ~CreatesCycle(links \ {old}, course, required)
    /\ edit' = [edit EXCEPT ![e] =
                  [add |-> <<course, required>>, old |-> old, stale |-> FALSE]]
    /\ UNCHANGED <<links, version, linksRaced>>

\* The insert or update; unique_prerequisite_pair refuses a second copy, and the
\* update of a row deleted in between inserts it again.
SaveLink(e) ==
    /\ edit[e] # NoEdit
    /\ edit[e].add \notin links \ {edit[e].old}
    /\ links' = (links \ {edit[e].old}) \cup {edit[e].add}
    /\ linksRaced' = (linksRaced \/ edit[e].stale)
    /\ edit' = [d \in Editors |->
                  IF d = e \/ edit[d] = NoEdit THEN NoEdit ELSE [edit[d] EXCEPT !.stale = TRUE]]
    /\ UNCHANGED version

RefuseLink(e) ==
    /\ edit[e] # NoEdit
    /\ edit[e].add \in links \ {edit[e].old}
    /\ edit' = [edit EXCEPT ![e] = NoEdit]
    /\ UNCHANGED <<links, version, linksRaced>>

DeleteLink(link) ==
    /\ link \in links
    /\ links' = links \ {link}
    /\ UNCHANGED <<version, edit, linksRaced>>

\* A status set through the API; one_active_curriculum_per_programme holds in
\* the database.
SetVersionStatus(v, status) ==
    /\ status = "active" => \A w \in Versions \ {v} : version[w] # "active"
    /\ version' = [version EXCEPT ![v] = status]
    /\ UNCHANGED <<links, edit, linksRaced>>

CurriculumNext ==
    \/ \E e \in Editors, c, r \in Courses, old \in links \cup {NoLink} :
          ValidateLink(e, c, r, old)
    \/ \E e \in Editors : SaveLink(e) \/ RefuseLink(e)
    \/ \E link \in links : DeleteLink(link)
    \/ \E v \in Versions, status \in VersionStatus : SetVersionStatus(v, status)

CurriculumSpec == CurriculumInit /\ [][CurriculumNext]_curriculumVars

----------------------------------------------------------------------------
\* active_curriculum_for: the version new students are put on.
ActiveCurriculum == {v \in Versions : version[v] = "active"}

\* unmet_prerequisites: passed gives the grade of a passed course, 0 when it is
\* not known; minimum the grade a link asks for, 0 for any pass.
UnmetPrerequisites(graph, course, passed, minimum, concurrent) ==
    {link \in graph :
        /\ link[1] = course
        /\ IF link[2] \in DOMAIN passed
           THEN passed[link[2]] # 0 /\ passed[link[2]] < minimum[link]
           ELSE link[2] \notin concurrent}

----------------------------------------------------------------------------
\* The type invariant.
CurriculumTypeOK ==
    /\ links \in SUBSET (Courses \X Courses)
    /\ version \in [Versions -> VersionStatus]
    /\ linksRaced \in BOOLEAN
    /\ \A e \in Editors : edit[e] = NoEdit \/ edit[e].add \in Courses \X Courses

\* Whatever sequence of links is added, changed and removed, no group of courses
\* waits for itself: every set of courses has one that requires none of the
\* others, so all can be taken in some order.  Only two edits that overlap can
\* break it, each checked against a graph without the other (Prerequisite.clean).
EveryCourseCanBeTaken ==
    linksRaced \/ \A S \in (SUBSET Courses) \ {{}} :
                     \E c \in S : \A r \in S : <<c, r>> \notin links
=============================================================================
