----------------------------- MODULE Enrollment -----------------------------
(***************************************************************************)
(* Course registration (backend/apps/enrollment) with the calendar and the *)
(* holds it asks.  register_course reads everything it decides on before   *)
(* its one save; drop and completion act on a row the view loaded.  Each   *)
(* call is two steps, and a save writes the whole row.                     *)
(***************************************************************************)
EXTENDS Curriculum, FiniteSetsExt, Sequences

CONSTANTS
    Students,
    Offered,      \* the courses on offer
    Semesters,
    Providers,    \* registered HoldProviders
    EnrCalls,     \* concurrent requests
    CreditHours,  \* of a course
    MaxCredits,   \* max_credits_per_semester of the programme
    Required      \* the prerequisite links in force while students register

ASSUME CreditsAssumption ==
    /\ Offered \subseteq Courses
    /\ CreditHours \in [Offered -> Nat]
    /\ MaxCredits \in Nat
    /\ Required \in SUBSET (Offered \X Offered)

VARIABLES
    reg,       \* CourseRegistration rows by student, course and semester
    phase,     \* where the clock stands in each semester's windows
    enrCall,   \* per call: what it does, to which row, and that row as read
    enrRaced   \* history: students a call of whom saved what it had decided on stale reads

enrollmentVars == <<reg, phase, enrCall, enrRaced>>

Keys == Students \X Offered \X Semesters
RegStatus == {"registered", "dropped", "completed"}
NoRow == [status |-> "none", repeat |-> FALSE]
Rows == {NoRow} \cup [status : RegStatus, repeat : BOOLEAN]
EnrIdle == [do |-> "none", key |-> <<>>, row |-> NoRow, stale |-> FALSE]

\* Registration is open, then closes while courses may still be dropped, then
\* that closes too (Semester.clean keeps the order).
Phases == <<"registration", "add_drop", "closed">>
Answers == {"nothing", "advisory", "blocking", "raises"}

EnrollmentInit ==
    /\ reg = [k \in Keys |-> NoRow]
    /\ phase = [t \in Semesters |-> 1]
    /\ enrCall = [c \in EnrCalls |-> EnrIdle]
    /\ enrRaced = {}

----------------------------------------------------------------------------
(* What a registration reads.                                              *)

\* is_registration_open and is_add_drop_open.
RegistrationOpen(t) == Phases[phase[t]] = "registration"
AddDropOpen(t) == Phases[phase[t]] \in {"registration", "add_drop"}

\* collect_holds and blocking_holds: a provider that raises is a blocking hold.
BlockingHolds(answer) == {p \in Providers : answer[p] \in {"blocking", "raises"}}

\* _passed_course_ids: completed courses, their grade unknown.
Passed(s) == [c \in {c \in Offered : \E t \in Semesters : reg[<<s, c, t>>].status = "completed"}
                |-> 0]

\* Mutant: the course being registered is not counted.
ProjectedLoadWithout(s, c, t) ==
    MapThenSumSet(LAMBDA d : CreditHours[d],
                  {d \in Offered \ {c} : reg[<<s, d, t>>].status = "registered"})

\* _active_credit_load without the course's own row, and the course itself.
ProjectedLoad(s, c, t) ==
    CreditHours[c] + MapThenSumSet(LAMBDA d : CreditHours[d],
                        {d \in Offered \ {c} : reg[<<s, d, t>>].status = "registered"})

\* is_repeat: another row of this student and course exists.
IsRepeat(s, c, t) == \E u \in Semesters \ {t} : reg[<<s, c, u>>].status # "none"

BeginCall(c, what, key, row) ==
    /\ enrCall[c] = EnrIdle
    /\ enrCall' = [enrCall EXCEPT ![c] = [do |-> what, key |-> key, row |-> row, stale |-> FALSE]]
    /\ UNCHANGED <<reg, phase, enrRaced>>

\* A save leaves what the student's other calls have read out of date.
SaveRow(c, row) ==
    LET s == enrCall[c].key[1]
    IN /\ reg' = [reg EXCEPT ![enrCall[c].key] = row]
       /\ enrCall' = [d \in EnrCalls |->
             IF d = c \/ enrCall[d] = EnrIdle THEN EnrIdle
             ELSE [enrCall[d] EXCEPT !.stale = @ \/ enrCall[d].key[1] = s]]
       /\ enrRaced' = IF enrCall[c].stale THEN enrRaced \cup {s} ELSE enrRaced
       /\ UNCHANGED phase

----------------------------------------------------------------------------
\* register_course up to its save.  answer: what the providers say of the
\* student; mayOverride: the caller gave a reason and holds override_hold.
RegisterCheck(c, s, k, t, answer, mayOverride) ==
    LET key == <<s, k, t>>
    IN /\ RegistrationOpen(t)
       /\ reg[key].status \notin {"registered", "completed"}
       /\ UnmetPrerequisites(Required, k, Passed(s), [l \in Required |-> 0], {}) = {}
       /\ ProjectedLoad(s, k, t) <= MaxCredits
       /\ BlockingHolds(answer) # {} => mayOverride
       /\ BeginCall(c, "register", key, [reg[key] EXCEPT !.repeat = IsRepeat(s, k, t)])

\* The save; full_clean refuses a second row for the same key.
RegisterSave(c) ==
    /\ enrCall[c].do = "register"
    /\ enrCall[c].row.status = "none" => reg[enrCall[c].key].status = "none"
    /\ SaveRow(c, [enrCall[c].row EXCEPT !.status = "registered"])

\* get_object of the drop and complete actions, and the check on its status: a
\* drop needs "registered", a completion returns early on "completed".
LoadRegistration(c, key, what) ==
    /\ reg[key].status \in IF what = "drop" THEN {"registered"} ELSE {"registered", "dropped"}
    /\ BeginCall(c, what, key, reg[key])

\* Mutant: a status the model does not have.
DropCourseWithdrawn(c) ==
    /\ enrCall[c].do = "drop"
    /\ AddDropOpen(enrCall[c].key[3])
    /\ SaveRow(c, [enrCall[c].row EXCEPT !.status = "withdrawn"])

DropCourse(c) ==
    /\ enrCall[c].do = "drop"
    /\ AddDropOpen(enrCall[c].key[3])
    /\ SaveRow(c, [enrCall[c].row EXCEPT !.status = "dropped"])

RecordPriorCompletion(c) ==
    /\ enrCall[c].do = "complete"
    /\ SaveRow(c, [enrCall[c].row EXCEPT !.status = "completed"])

\* The call raises, returns early or its worker is lost: nothing is written.
EnrAbandon(c) ==
    /\ enrCall[c] # EnrIdle
    /\ enrCall' = [enrCall EXCEPT ![c] = EnrIdle]
    /\ UNCHANGED <<reg, phase, enrRaced>>

TimePasses(t) ==
    /\ phase[t] < Len(Phases)
    /\ phase' = [phase EXCEPT ![t] = @ + 1]
    /\ UNCHANGED <<reg, enrCall, enrRaced>>

EnrollmentNext ==
    \/ \E c \in EnrCalls :
          \/ \E s \in Students, k \in Offered, t \in Semesters,
                answer \in [Providers -> Answers], over \in BOOLEAN :
                RegisterCheck(c, s, k, t, answer, over)
          \/ \E key \in Keys, what \in {"drop", "complete"} : LoadRegistration(c, key, what)
          \/ RegisterSave(c) \/ DropCourse(c) \/ RecordPriorCompletion(c) \/ EnrAbandon(c)
    \/ \E t \in Semesters : TimePasses(t)

EnrollmentSpec == EnrollmentInit /\ [][EnrollmentNext]_enrollmentVars

----------------------------------------------------------------------------
\* The type invariant.
EnrollmentTypeOK ==
    /\ reg \in [Keys -> Rows]
    /\ phase \in [Semesters -> 1..Len(Phases)]
    /\ enrCall \in [EnrCalls -> {EnrIdle} \cup
          [do : {"register", "drop", "complete"}, key : Keys,
           row : [status : RegStatus \cup {"none"}, repeat : BOOLEAN], stale : BOOLEAN]]

Load(s, t) == MapThenSumSet(LAMBDA d : CreditHours[d],
                            {d \in Offered : reg[<<s, d, t>>].status = "registered"})

\* However courses are registered, dropped, registered again and completed, a
\* student carries no more credits than the programme allows, has completed every
\* prerequisite of what is registered, and of two rows for one course one is marked
\* a repeat; only a call that saves on reads another has made stale can break it
\* (register_course locks nothing).  CourseRegistrationAdmin, whose form writes any
\* status unchecked, is not modelled.
RegistrationsAreSound ==
    \A s \in Students \ enrRaced, t \in Semesters :
        /\ Load(s, t) <= MaxCredits
        /\ \A l \in Required :
              reg[<<s, l[1], t>>].status = "registered" => l[2] \in DOMAIN Passed(s)
        /\ \A c \in Offered, u \in Semesters \ {t} :
              NoRow \in {reg[<<s, c, t>>], reg[<<s, c, u>>]}
                  \/ reg[<<s, c, t>>].repeat \/ reg[<<s, c, u>>].repeat
=============================================================================
