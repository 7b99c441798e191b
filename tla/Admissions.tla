----------------------------- MODULE Admissions -----------------------------
(***************************************************************************)
(* Applications, their fee, their reviews and their conversion into        *)
(* students (backend/apps/admissions).  Every view loads the application   *)
(* with get_object, checks the status it sees and saves the whole row: a   *)
(* request is a load and a later save.                                     *)
(***************************************************************************)
EXTENDS Integers, FiniteSets, FiniteSetsExt

CONSTANTS
    Applications,
    Reviewers,
    ReviewScores,
    AdmCalls,
    NoScore,
    MaxStudents     \* bound on the students made from one application

ASSUME ReviewScoresAssumption ==
    /\ ReviewScores \subseteq Nat /\ NoScore \notin ReviewScores
    /\ IsFiniteSet(Reviewers) /\ MaxStudents \in Nat

VARIABLES
    application,    \* Application rows
    review,         \* ApplicationReview.score, per application and reviewer
    feePayment,     \* ApplicationFeePayment.status, of the row written last
    students,       \* Student rows created from the application
    admCall,        \* per request: what it does, the row as loaded
    paidOnce,       \* history: applications whose fee the provider once confirmed
    admRaced        \* history: applications a stale row was saved over

admVars == <<application, review, feePayment, students, admCall, paidOnce, admRaced>>

\* ApplicationStatus.
ApplicationStatus ==
    {"draft", "submitted", "under_review", "offered", "accepted", "rejected", "withdrawn", "enrolled"}

\* Application: the columns the workflow reads; score in hundredths.
Application == [status : ApplicationStatus, fee_paid : BOOLEAN, score : Int \cup {NoScore},
                student : BOOLEAN]

\* ApplicationReview: at most one row per reviewer (one_review_per_reviewer).
ApplicationReviews == [Reviewers -> ReviewScores \cup {NoScore}]

\* FeePaymentStatus.
FeePaymentStatus == {"pending", "confirmed", "failed"}

NewApplication == [status |-> "draft", fee_paid |-> FALSE, score |-> NoScore, student |-> FALSE]
AdmIdle == [do |-> "none", on |-> CHOOSE a \in Applications : TRUE, row |-> NewApplication,
            stale |-> FALSE]

\* create_application: each starts as a draft.
AdmInit ==
    /\ application = [a \in Applications |-> NewApplication]
    /\ review = [a \in Applications |-> [v \in Reviewers |-> NoScore]]
    /\ feePayment = [a \in Applications |-> "none"]
    /\ students = [a \in Applications |-> 0]
    /\ admCall = [c \in AdmCalls |-> AdmIdle]
    /\ paidOnce = {} /\ admRaced = {}

----------------------------------------------------------------------------
\* ALLOWED_TRANSITIONS.
AllowedTransitions(status) ==
    CASE status = "draft" -> {"submitted", "withdrawn"}
      [] status = "submitted" -> {"under_review", "offered", "rejected", "withdrawn"}
      [] status = "under_review" -> {"offered", "rejected", "withdrawn"}
      [] status = "offered" -> {"accepted", "rejected", "withdrawn"}
      [] status = "accepted" -> {"enrolled"}
      [] OTHER -> {}

\* Mutant: submitting does not look at the fee.
MayFree(what, row) ==
    CASE what = "edit" -> row.status = "draft"
      [] what = "submitted" -> what \in AllowedTransitions(row.status)
      [] what = "enrolled" -> what \in AllowedTransitions(row.status) /\ ~row.student
      [] what = "review" -> TRUE
      [] OTHER -> what \in AllowedTransitions(row.status)

\* What the operations demand of the row they loaded: perform_update edits drafts
\* only, record_review takes any application, the others go through _transition.
May(what, row) ==
    CASE what = "edit" -> row.status = "draft"
      [] what = "submitted" -> what \in AllowedTransitions(row.status) /\ row.fee_paid
      [] what = "enrolled" -> what \in AllowedTransitions(row.status) /\ ~row.student
      [] what = "review" -> TRUE
      [] OTHER -> what \in AllowedTransitions(row.status)

Operations == {"edit", "review", "submitted", "withdrawn", "offered", "rejected", "accepted", "enrolled"}

\* get_object and the checks.
LoadApplication(c, what, a) ==
    /\ admCall[c] = AdmIdle
    /\ May(what, application[a])
    /\ admCall' = [admCall EXCEPT ![c] = [do |-> what, on |-> a, row |-> application[a],
                                         stale |-> FALSE]]
    /\ UNCHANGED <<application, review, feePayment, students, paidOnce, admRaced>>

\* save() of the whole row; other requests hold a stale one from then on.
SaveApplication(c, row) ==
    LET a == admCall[c].on
    IN  /\ application' = [application EXCEPT ![a] = row]
        /\ admCall' = [d \in AdmCalls |->
              IF d = c \/ admCall[d] = AdmIdle THEN AdmIdle
              ELSE [admCall[d] EXCEPT !.stale = @ \/ admCall[d].on = a]]
        /\ admRaced' = IF admCall[c].stale THEN admRaced \cup {a} ELSE admRaced
        /\ UNCHANGED <<feePayment, paidOnce>>

\* perform_update: the applicant's own columns, not kept here, change.
EditDraft(c) ==
    /\ admCall[c].do = "edit"
    /\ SaveApplication(c, admCall[c].row)
    /\ UNCHANGED <<review, students>>

\* submit_application, withdraw_application, decide_application, accept_offer,
\* decline_offer: the new status.
MoveApplication(c) ==
    /\ admCall[c].do \in {"submitted", "withdrawn", "offered", "rejected", "accepted"}
    /\ SaveApplication(c, [admCall[c].row EXCEPT !.status = admCall[c].do])
    /\ UNCHANGED <<review, students>>

\* The average of the reviews, rounded half up to hundredths.
Average(scores) ==
    LET given == {v \in Reviewers : scores[v] # NoScore}
        n == Cardinality(given)
    IN  (200 * MapThenSumSet(LAMBDA v : scores[v], given) + n) \div (2 * n)

\* record_review: the reviewer's row, then the average of all rows and, on a
\* submitted application, committee review.
RecordReview(c, v, score) ==
    LET a == admCall[c].on
        scores == [review[a] EXCEPT ![v] = score]
        row == admCall[c].row
    IN  /\ admCall[c].do = "review"
        /\ review' = [review EXCEPT ![a] = scores]
        /\ SaveApplication(c, [row EXCEPT !.score = Average(scores),
                                 !.status = IF @ = "submitted" THEN "under_review" ELSE @])
        /\ UNCHANGED students

\* convert_to_student: registry's create_student and the row, one transaction.
ConvertToStudent(c) ==
    LET a == admCall[c].on
    IN  /\ admCall[c].do = "enrolled" /\ students[a] < MaxStudents
        /\ students' = [students EXCEPT ![a] = @ + 1]
        /\ SaveApplication(c, [admCall[c].row EXCEPT !.status = "enrolled", !.student = TRUE])
        /\ UNCHANGED review

\* The request fails after its load.
AdmAbandon(c) ==
    /\ admCall[c] # AdmIdle
    /\ admCall' = [admCall EXCEPT ![c] = AdmIdle]
    /\ UNCHANGED <<application, review, feePayment, students, paidOnce, admRaced>>

\* initiate_fee_payment: as often as asked.
InitiateFeePayment(a) ==
    /\ feePayment' = [feePayment EXCEPT ![a] = "pending"]
    /\ UNCHANGED <<application, review, students, admCall, paidOnce, admRaced>>

\* confirm_fee_payment: the provider's word, asked for at any time, also twice;
\* the flag is one UPDATE of that column.
ConfirmFeePayment(a, state) ==
    /\ feePayment[a] # "none"
    /\ feePayment' = [feePayment EXCEPT ![a] = IF state = "pending" THEN @ ELSE state]
    /\ application' = [application EXCEPT ![a].fee_paid = @ \/ state = "confirmed"]
    /\ paidOnce' = IF state = "confirmed" THEN paidOnce \cup {a} ELSE paidOnce
    /\ admCall' = [d \in AdmCalls |->
          IF admCall[d] = AdmIdle THEN AdmIdle
          ELSE [admCall[d] EXCEPT !.stale = @ \/ application'[admCall[d].on] # admCall[d].row]]
    /\ UNCHANGED <<review, students, admRaced>>

\* ApplicationViewSet.initiate_payment and confirm_payment.
FeePayment(a) ==
    \/ InitiateFeePayment(a)
    \/ \E state \in FeePaymentStatus : ConfirmFeePayment(a, state)

AdmNext ==
    \/ \E c \in AdmCalls :
          \/ \E a \in Applications, what \in Operations : LoadApplication(c, what, a)
          \/ EditDraft(c) \/ MoveApplication(c) \/ ConvertToStudent(c) \/ AdmAbandon(c)
          \/ \E v \in Reviewers, s \in ReviewScores : RecordReview(c, v, s)
    \/ \E a \in Applications : FeePayment(a)

AdmSpec == AdmInit /\ [][AdmNext]_admVars

----------------------------------------------------------------------------
\* The type invariant.
AdmTypeOK ==
    /\ application \in [Applications -> Application]
    /\ review \in [Applications -> ApplicationReviews]
    /\ feePayment \in [Applications -> FeePaymentStatus \cup {"none"}]
    /\ students \in [Applications -> Nat]
    /\ \A c \in AdmCalls : admCall[c].do \in Operations \cup {"none"}

\* An application gets past the draft only after the provider confirmed its fee
\* (FR-ADM-04), whatever requests overlap.  Without a save over another request's,
\* it makes one student, and exactly when it is enrolled; its score is the average
\* of the reviews; a confirmed fee stays recorded.  All of it is said of the services:
\* ApplicationAdmin, whose form writes status and fee_paid, is not modelled.
ApplicationsAreSound ==
    \A a \in Applications :
        /\ application[a].status \notin {"draft", "withdrawn"} => a \in paidOnce
        /\ a \notin admRaced =>
              /\ students[a] = (IF application[a].status = "enrolled" THEN 1 ELSE 0)
              /\ application[a].fee_paid = (a \in paidOnce)
              /\ application[a].score = (IF \A v \in Reviewers : review[a][v] = NoScore
                                         THEN NoScore ELSE Average(review[a]))
=============================================================================
