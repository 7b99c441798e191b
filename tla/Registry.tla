------------------------------ MODULE Registry ------------------------------
(***************************************************************************)
(* Student records, their status and its history (backend/apps/registry)   *)
(* and the alumni profiles that depend on it (backend/apps/alumni).  The   *)
(* views load a record with get_object and save the whole row; so does the *)
(* Django admin, which goes round the services.                            *)
(***************************************************************************)
EXTENDS Integers, FiniteSets, Sequences, SequencesExt

CONSTANTS
    Numbers,        \* student numbers: generated, brought along by legacy records, or blank
    Blank,          \* the number of a record added in the admin, where it is read-only
    MaxBatch,       \* bound on the rows of an import
    MaxHistory,     \* bound on the status changes of a student
    RegCalls,
    NoStudent

ASSUME RegistryAssumption == MaxBatch \in Nat /\ MaxHistory \in Nat \ {0} /\ Blank \in Numbers

VARIABLES
    student,        \* Student rows by number
    history,        \* StudentStatusHistory, oldest first
    alumni,         \* students with an AlumniProfile
    regCall,        \* per request: what it does, the row as loaded
    regRaced,       \* history: students a stale row was saved over
    handmade        \* history: alumni whose profile was entered in the admin

registryVars == <<student, history, alumni, regCall, regRaced, handmade>>

\* StudentStatus, and TERMINAL_STATUSES.
StudentStatus == {"active", "suspended", "deferred", "withdrawn", "graduated", "expelled"}
Terminal == {"graduated", "expelled"}

\* Student: the columns kept; deleted_at as a flag.
Student == [status : StudentStatus, deleted : BOOLEAN]

ASSUME NoStudentAssumption == NoStudent \notin Student

NewStudent == [status |-> "active", deleted |-> FALSE]
RegIdle == [do |-> "none", on |-> CHOOSE n \in Numbers : TRUE, row |-> NewStudent, stale |-> FALSE]

RegistryInit ==
    /\ student = [n \in Numbers |-> NoStudent]
    /\ history = [n \in Numbers |-> << >>]
    /\ alumni = {}
    /\ regCall = [c \in RegCalls |-> RegIdle]
    /\ regRaced = {}
    /\ handmade = {}

----------------------------------------------------------------------------
\* ALLOWED_TRANSITIONS.
StatusesAfter(status) ==
    CASE status = "active" -> StudentStatus \ {"active"}
      [] status = "suspended" -> {"active", "withdrawn", "expelled"}
      [] status = "deferred" -> {"active", "withdrawn"}
      [] status = "withdrawn" -> {"active"}
      [] OTHER -> {}

Alive(n) == student[n] # NoStudent /\ ~student[n].deleted

\* create_student: the row and the entry that opens its history.  Numbers are
\* unique, those of deleted students too.
CreateStudents(new) ==
    /\ \A n \in new : student[n] = NoStudent /\ n # Blank
    /\ student' = [n \in Numbers |-> IF n \in new THEN NewStudent ELSE student[n]]
    /\ history' = [n \in Numbers |->
                     IF n \in new THEN <<[from |-> "", to |-> "active"]>> ELSE history[n]]
    /\ UNCHANGED <<alumni, regCall, regRaced, handmade>>

CreateStudent(n) == CreateStudents({n})

\* import_students with commit: one row that does not validate, or a number
\* claimed twice, and nothing is written.
ImportStudents(batch) ==
    /\ batch # << >>
    /\ IsInjective(batch)
    /\ CreateStudents(ToSet(batch))

\* StudentAdmin.save_model of a new record: any status, no entry in the history.
\* The unique number lets one such record in.
AdminAddStudent(status) ==
    /\ student[Blank] = NoStudent
    /\ student' = [student EXCEPT ![Blank] = [NewStudent EXCEPT !.status = status]]
    /\ UNCHANGED <<history, alumni, regCall, regRaced, handmade>>

\* get_object, which hides deleted students.
GetStudent(c, what, n) ==
    /\ regCall[c] = RegIdle
    /\ Alive(n)
    /\ regCall' = [regCall EXCEPT ![c] = [do |-> what, on |-> n, row |-> student[n],
                                         stale |-> FALSE]]
    /\ UNCHANGED <<student, history, alumni, regRaced, handmade>>

\* StudentViewSet's PUT, PATCH and DELETE and the admin's forms, on any record.
LoadStudent(c, what, n) == what \in {"update", "delete"} /\ GetStudent(c, what, n)

\* The admin's form with another status, read-only on a final one.
LoadForAdmin(c, n) == GetStudent(c, "restatus", n) /\ student[n].status \notin Terminal

\* StudentViewSet.change_status: only along the transitions.
LoadForStatus(c, new, n) ==
    /\ GetStudent(c, new, n)
    /\ new \in StatusesAfter(student[n].status)

SaveStudent(c, row) ==
    LET n == regCall[c].on
    IN  /\ student' = [student EXCEPT ![n] = row]
        /\ regCall' = [d \in RegCalls |->
              IF d = c \/ regCall[d] = RegIdle THEN RegIdle
              ELSE [regCall[d] EXCEPT !.stale = @ \/ regCall[d].on = n]]
        /\ regRaced' = IF regCall[c].stale THEN regRaced \cup {n} ELSE regRaced
        /\ UNCHANGED <<alumni, handmade>>

\* perform_update, or save_model with the status untouched: the bio-data, with
\* every other column as it was loaded.
UpdateStudent(c) ==
    /\ regCall[c].do = "update"
    /\ SaveStudent(c, regCall[c].row)
    /\ UNCHANGED history

\* Mutant: the history is not written on the way to a final status.
ChangeStatusQuiet(c) ==
    LET n == regCall[c].on
        old == regCall[c].row.status
        new == regCall[c].do
    IN  /\ new \in StudentStatus
        /\ Len(history[n]) < MaxHistory
        /\ SaveStudent(c, [regCall[c].row EXCEPT !.status = new])
        /\ history' = IF new \in Terminal THEN history
                      ELSE [history EXCEPT ![n] = Append(@, [from |-> old, to |-> new])]

\* change_status: the row with its new status, then the history entry, which
\* starts from the status that was loaded.
ChangeStatus(c) ==
    LET n == regCall[c].on
        old == regCall[c].row.status
        new == regCall[c].do
    IN  /\ new \in StudentStatus
        /\ Len(history[n]) < MaxHistory
        /\ SaveStudent(c, [regCall[c].row EXCEPT !.status = new])
        /\ history' = [history EXCEPT ![n] = Append(@, [from |-> old, to |-> new])]

\* SoftDeleteModel.delete: that column alone.
SoftDelete(c) ==
    LET n == regCall[c].on
    IN  /\ regCall[c].do = "delete"
        /\ SaveStudent(c, [student[n] EXCEPT !.deleted = TRUE])
        /\ UNCHANGED history

\* save_model hands change_status the status the form has already set: it sees no
\* change and returns, and nothing is saved.
AdminChangeStatus(c) ==
    /\ regCall[c].do = "restatus"
    /\ regCall' = [regCall EXCEPT ![c] = RegIdle]
    /\ UNCHANGED <<student, history, alumni, regRaced, handmade>>

RegAbandon(c) ==
    /\ regCall[c] # RegIdle
    /\ regCall' = [regCall EXCEPT ![c] = RegIdle]
    /\ UNCHANGED <<student, history, alumni, regRaced, handmade>>

\* is_graduated, of the row as it is now.
IsGraduated(n) == Alive(n) /\ student[n].status = "graduated"

\* create_alumni_profile: NotYetGraduated, and one profile per student.
MayBecomeAlumnus(n) == IsGraduated(n) /\ n \notin alumni

\* AlumniProfileViewSet; an update leaves alone what is kept here.
CreateAlumniProfile(n) ==
    /\ MayBecomeAlumnus(n)
    /\ alumni' = alumni \cup {n}
    /\ UNCHANGED <<student, history, regCall, regRaced, handmade>>

\* AlumniProfileAdmin adds and deletes profiles of any student.
AdminAlumniProfile(n) ==
    /\ n \in alumni \/ Alive(n)
    /\ IF n \in alumni
       THEN alumni' = alumni \ {n} /\ handmade' = handmade \ {n}
       ELSE alumni' = alumni \cup {n} /\ handmade' = handmade \cup {n}
    /\ UNCHANGED <<student, history, regCall, regRaced>>

RegistryNext ==
    \/ \E n \in Numbers : CreateStudent(n) \/ CreateAlumniProfile(n) \/ AdminAlumniProfile(n)
    \/ \E status \in StudentStatus : AdminAddStudent(status)
    \/ \E batch \in BoundedSeq(Numbers, MaxBatch) : ImportStudents(batch)
    \/ \E c \in RegCalls :
          \/ \E n \in Numbers :
                \/ \E what \in {"update", "delete"} : LoadStudent(c, what, n)
                \/ \E new \in StudentStatus : LoadForStatus(c, new, n)
                \/ LoadForAdmin(c, n)
          \/ UpdateStudent(c) \/ ChangeStatus(c) \/ AdminChangeStatus(c)
          \/ SoftDelete(c) \/ RegAbandon(c)

RegistrySpec == RegistryInit /\ [][RegistryNext]_registryVars

----------------------------------------------------------------------------
\* The type invariant.
RegistryTypeOK ==
    /\ student \in [Numbers -> Student \cup {NoStudent}]
    /\ \A n \in Numbers : history[n] \in Seq([from : StudentStatus \cup {""}, to : StudentStatus])
    /\ alumni \subseteq Numbers /\ handmade \subseteq alumni
    /\ \A c \in RegCalls : regCall[c].row \in Student

\* The history of a student is one unbroken chain of allowed changes that ends in the
\* status on the record (FR-REG-04) and, unless the record was added in the admin,
\* begins with the admission; an alumnus has graduated (FR-ALM-01), unless the profile
\* was entered in the admin.  A stale save of the record breaks either.
HistoryChains ==
    \A n \in Numbers \ regRaced :
        /\ student[n] # NoStudent =>
              /\ IF n # Blank
                 THEN history[n] # << >> /\ history[n][1] = [from |-> "", to |-> "active"]
                 ELSE history[n] # << >> => history[n][1].to \in StatusesAfter(history[n][1].from)
              /\ history[n] # << >> => Last(history[n]).to = student[n].status
              /\ \A i \in 2..Len(history[n]) :
                    /\ history[n][i].from = history[n][i - 1].to
                    /\ history[n][i].to \in StatusesAfter(history[n][i].from)
        /\ n \in alumni \ handmade => student[n].status = "graduated"
=============================================================================
