---------------------------- MODULE CampusProofs ----------------------------
(***************************************************************************)
(* The offices that decide, bill, announce and authorise (admissions, the  *)
(* merit list, communications, billing, accounts), and the campus that     *)
(* runs them next to the offices of RecordsProofs.                         *)
(***************************************************************************)
EXTENDS Campus, RecordsProofs, FinanceProofs

----------------------------------------------------------------------------
(* Admissions.                                                             *)

\* A request that has loaded an application.
AdmRequest == [do : Operations, on : Applications, row : Application, stale : BOOLEAN]

\* The type of the state of admissions.
AdmInvType ==
    /\ application \in [Applications -> Application]
    /\ review \in [Applications -> ApplicationReviews]
    /\ feePayment \in [Applications -> FeePaymentStatus \cup {"none"}]
    /\ students \in [Applications -> Nat]
    /\ admCall \in [AdmCalls -> AdmRequest \cup {AdmIdle}]
    /\ paidOnce \subseteq Applications /\ admRaced \subseteq Applications

\* A row, on record or in a request's hands, shows a fee as paid, and an application
\* past the draft, only once the fee was confirmed.
FeeWasPaid(row, a, once) ==
    (row.fee_paid \/ row.status \notin {"draft", "withdrawn"}) => a \in once

\* A request is allowed by the row it loaded, which is current unless overtaken.
AdmReadsAreCurrent ==
    \A c \in AdmCalls :
        admCall[c] = AdmIdle \/
        /\ FeeWasPaid(admCall[c].row, admCall[c].on, paidOnce)
        /\ May(admCall[c].do, admCall[c].row)
        /\ admCall[c].stale \/ admCall[c].row = application[admCall[c].on]

\* The average the reviews give, NoScore without any.
ScoreOf(scores) == IF \A v \in Reviewers : scores[v] = NoScore THEN NoScore ELSE Average(scores)

\* A row agrees with the students made, the fee confirmed and the reviews given.
AppAgrees(row, n, paid, scores) ==
    /\ n = IF row.status = "enrolled" THEN 1 ELSE 0
    /\ row.fee_paid <=> paid
    /\ row.score = ScoreOf(scores)

AppsAgree ==
    \A a \in Applications :
        /\ FeeWasPaid(application[a], a, paidOnce)
        /\ a \notin admRaced => AppAgrees(application[a], students[a], a \in paidOnce, review[a])

AdmInv == AdmInvType /\ AdmReadsAreCurrent /\ AppsAgree

\* An average of reviews is a number.
LEMMA AverageIsNumber ==
    ASSUME NEW scores \in ApplicationReviews, NEW v \in Reviewers, scores[v] # NoScore
    PROVE  Average(scores) \in Int
  <1>1. PICK given : given = {u \in Reviewers : scores[u] # NoScore}
    OBVIOUS
  <1>2. given \in SUBSET Reviewers /\ v \in given
    BY <1>1
  <1>3. IsFiniteSet(given)
    BY <1>2, ReviewScoresAssumption, FS_Subset
  <1>4. \A u \in given : scores[u] \in Nat
    BY <1>1, ReviewScoresAssumption DEF ApplicationReviews
  <1>5. Total(scores, given) \in Nat
    BY <1>3, <1>4, SumSplitsOff
  <1>6. PICK n : n = Cardinality(given)
    OBVIOUS
  <1>7. n \in Nat /\ n # 0
    BY <1>2, <1>3, <1>6, FS_CardinalityType, FS_EmptySet
  <1>8. PICK sum : sum = Total(scores, given)
    OBVIOUS
  <1>9. Average(scores) = (200 * sum + n) \div (2 * n)
    BY <1>1, <1>6, <1>8 DEF Average, Total
  <1>10. sum \in Nat
    BY <1>5, <1>8
  <1>11. (200 * sum + n) \in Int /\ 2 * n \in Nat /\ 2 * n > 0
    BY <1>7, <1>10
  <1> QED BY <1>9, <1>11

\* The save at the end of a request.
LEMMA AdmSaveStep ==
    ASSUME AdmInv, NEW c \in AdmCalls, admCall[c] # AdmIdle, NEW new \in Application,
           SaveApplication(c, new),
           review' \in [Applications -> ApplicationReviews], students' \in [Applications -> Nat],
           \A b \in Applications : b # admCall[c].on => review'[b] = review[b] /\ students'[b] = students[b],
           FeeWasPaid(new, admCall[c].on, paidOnce),
           admCall[c].on \notin admRaced /\ ~admCall[c].stale =>
              AppAgrees(new, students'[admCall[c].on], admCall[c].on \in paidOnce, review'[admCall[c].on])
    PROVE  AdmInv'
  <1>1. PICK a \in Applications : a = admCall[c].on
    BY DEF AdmInv, AdmInvType, AdmRequest
  <1>2. /\ application' = [application EXCEPT ![a] = new]
        /\ admRaced' = IF admCall[c].stale THEN admRaced \cup {a} ELSE admRaced
        /\ feePayment' = feePayment /\ paidOnce' = paidOnce
        /\ admCall' = [d \in AdmCalls |->
              IF d = c \/ admCall[d] = AdmIdle THEN AdmIdle
              ELSE [admCall[d] EXCEPT !.stale = @ \/ admCall[d].on = a]]
    BY <1>1 DEF SaveApplication
  <1>3. \A b \in Applications : application'[b] = IF b = a THEN new ELSE application[b]
    BY <1>2 DEF AdmInv, AdmInvType
  <1>4. ASSUME NEW d \in AdmCalls
        PROVE  \/ admCall'[d] = AdmIdle
               \/ /\ admCall[d] # AdmIdle /\ admCall[d] \in AdmRequest /\ admCall'[d] \in AdmRequest
                  /\ admCall'[d].do = admCall[d].do /\ admCall'[d].on = admCall[d].on
                  /\ admCall'[d].row = admCall[d].row
                  /\ admCall'[d].stale = (admCall[d].stale \/ admCall[d].on = a)
    <2>1. CASE d = c \/ admCall[d] = AdmIdle
      BY <2>1, <1>2
    <2>2. CASE ~(d = c \/ admCall[d] = AdmIdle)
      <3>1. PICK b \in BOOLEAN : b = (admCall[d].stale \/ admCall[d].on = a)
        OBVIOUS
      <3>2. admCall[d] \in AdmRequest
        BY <2>2 DEF AdmInv, AdmInvType
      <3>3. admCall'[d] = [admCall[d] EXCEPT !.stale = b]
        BY <2>2, <1>2, <3>1
      <3> QED BY <2>2, <3>1, <3>2, <3>3 DEF AdmRequest
    <2> QED BY <2>1, <2>2
  <1>5. AdmInvType'
    <2>1. admCall' \in [AdmCalls -> AdmRequest \cup {AdmIdle}]
      BY <1>2, <1>4
    <2> QED BY <1>2, <2>1 DEF AdmInv, AdmInvType
  <1>6. AdmReadsAreCurrent'
    <2> SUFFICES ASSUME NEW d \in AdmCalls, admCall'[d] # AdmIdle
                 PROVE  /\ FeeWasPaid(admCall'[d].row, admCall'[d].on, paidOnce')
                        /\ May(admCall'[d].do, admCall'[d].row)
                        /\ admCall'[d].stale \/ admCall'[d].row = application'[admCall'[d].on]
      BY DEF AdmReadsAreCurrent
    <2>1. admCall[d].on \in Applications
      BY <1>4 DEF AdmRequest
    <2>2. /\ FeeWasPaid(admCall[d].row, admCall[d].on, paidOnce)
          /\ May(admCall[d].do, admCall[d].row)
          /\ admCall[d].stale \/ admCall[d].row = application[admCall[d].on]
      BY <1>4 DEF AdmInv, AdmReadsAreCurrent
    <2>3. application'[admCall[d].on] = IF admCall[d].on = a THEN new ELSE application[admCall[d].on]
      BY <1>3, <2>1
    <2>4. /\ admCall'[d].row = admCall[d].row /\ admCall'[d].on = admCall[d].on
          /\ admCall'[d].do = admCall[d].do
          /\ ~admCall'[d].stale => ~admCall[d].stale /\ admCall[d].on # a
      BY <1>4
    <2>5. admCall'[d].stale \/ admCall'[d].row = application'[admCall'[d].on]
      BY <2>2, <2>3, <2>4
    <2> QED BY <1>2, <2>2, <2>4, <2>5
  <1>7. AppsAgree'
    <2> SUFFICES ASSUME NEW b \in Applications
                 PROVE  /\ FeeWasPaid(application'[b], b, paidOnce')
                        /\ b \notin admRaced' =>
                              AppAgrees(application'[b], students'[b], b \in paidOnce, review'[b])
      BY <1>2 DEF AppsAgree
    <2>1. b \notin admRaced' => b \notin admRaced /\ (b = a => ~admCall[c].stale)
      BY <1>2
    <2>2. CASE b = a
      BY <1>1, <1>2, <1>3, <2>1, <2>2 DEF FeeWasPaid
    <2>3. CASE b # a
      BY <1>1, <1>2, <1>3, <2>1, <2>3 DEF AdmInv, AppsAgree, FeeWasPaid
    <2> QED BY <2>2, <2>3
  <1> QED BY <1>5, <1>6, <1>7 DEF AdmInv

\* Every operation of admissions keeps the invariant.
LEMMA AdmStep == AdmInv /\ [AdmNext]_admVars => AdmInv'
  <1> SUFFICES ASSUME AdmInv, [AdmNext]_admVars PROVE AdmInv'
    OBVIOUS
  <1>0. /\ application \in [Applications -> Application]
        /\ review \in [Applications -> ApplicationReviews]
        /\ feePayment \in [Applications -> FeePaymentStatus \cup {"none"}]
        /\ students \in [Applications -> Nat]
        /\ admCall \in [AdmCalls -> AdmRequest \cup {AdmIdle}]
        /\ paidOnce \subseteq Applications /\ admRaced \subseteq Applications
    BY DEF AdmInv, AdmInvType
  <1>a. AdmIdle.do = "none"
    BY DEF AdmIdle
  <1>b. ASSUME NEW c \in AdmCalls, admCall[c].do # "none"
        PROVE  /\ admCall[c] # AdmIdle /\ admCall[c] \in AdmRequest
               /\ admCall[c].on \in Applications /\ admCall[c].row \in Application
               /\ FeeWasPaid(admCall[c].row, admCall[c].on, paidOnce)
               /\ May(admCall[c].do, admCall[c].row)
               /\ ~admCall[c].stale => admCall[c].row = application[admCall[c].on]
               /\ ~admCall[c].stale /\ admCall[c].on \notin admRaced =>
                     AppAgrees(admCall[c].row, students[admCall[c].on], admCall[c].on \in paidOnce,
                               review[admCall[c].on])
    <2>1. admCall[c] # AdmIdle
      BY <1>a, <1>b
    <2>2. admCall[c] \in AdmRequest /\ admCall[c].on \in Applications /\ admCall[c].row \in Application
      BY <1>0, <2>1 DEF AdmRequest
    <2>3. /\ FeeWasPaid(admCall[c].row, admCall[c].on, paidOnce)
          /\ May(admCall[c].do, admCall[c].row)
          /\ ~admCall[c].stale => admCall[c].row = application[admCall[c].on]
      BY <2>1 DEF AdmInv, AdmReadsAreCurrent
    <2> QED BY <2>1, <2>2, <2>3 DEF AdmInv, AppsAgree
  <1>1. ASSUME NEW c \in AdmCalls, NEW a \in Applications, NEW what \in Operations,
               LoadApplication(c, what, a)
        PROVE  AdmInv'
    <2>1. PICK call : call = [do |-> what, on |-> a, row |-> application[a], stale |-> FALSE]
      OBVIOUS
    <2>2. call \in AdmRequest /\ call.do = what /\ call.on = a /\ call.row = application[a]
      BY <1>0, <2>1 DEF AdmRequest
    <2>3. /\ May(what, application[a]) /\ admCall' = [admCall EXCEPT ![c] = call]
          /\ UNCHANGED <<application, review, feePayment, students, paidOnce, admRaced>>
      BY <1>1, <2>1 DEF LoadApplication
    <2>4. \A d \in AdmCalls : admCall'[d] = IF d = c THEN call ELSE admCall[d]
      BY <1>0, <2>3
    <2>5. AdmInvType'
      BY <1>0, <2>2, <2>3 DEF AdmInvType
    <2>6. FeeWasPaid(application[a], a, paidOnce)
      BY DEF AdmInv, AppsAgree
    <2>7. AdmReadsAreCurrent'
      BY <2>2, <2>3, <2>4, <2>6 DEF AdmInv, AdmReadsAreCurrent, FeeWasPaid
    <2>8. AppsAgree'
      BY <2>3 DEF AdmInv, AppsAgree
    <2> QED BY <2>5, <2>7, <2>8 DEF AdmInv
  <1>2. ASSUME NEW c \in AdmCalls, EditDraft(c)
        PROVE  AdmInv'
    <2>1. admCall[c].do = "edit" /\ SaveApplication(c, admCall[c].row) /\ UNCHANGED <<review, students>>
      BY <1>2 DEF EditDraft
    <2> QED BY <1>0, <1>b, <2>1, AdmSaveStep
  <1>3. ASSUME NEW c \in AdmCalls, MoveApplication(c)
        PROVE  AdmInv'
    <2>1. PICK what : what = admCall[c].do
      OBVIOUS
    <2>2. PICK new : new = [admCall[c].row EXCEPT !.status = what]
      OBVIOUS
    <2>3. /\ what \in {"submitted", "withdrawn", "offered", "rejected", "accepted"}
          /\ SaveApplication(c, new) /\ UNCHANGED <<review, students>>
      BY <1>3, <2>1, <2>2 DEF MoveApplication
    <2>4. admCall[c].do # "none"
      BY <2>1, <2>3
    <2>5. /\ new \in Application /\ new.status = what /\ new.fee_paid = admCall[c].row.fee_paid
          /\ new.score = admCall[c].row.score
      BY <1>b, <2>2, <2>3, <2>4 DEF Application, ApplicationStatus
    <2>6. May(what, admCall[c].row)
      BY <1>b, <2>1, <2>4
    <2>7. /\ what = "submitted" => admCall[c].row.fee_paid
          /\ what \in {"offered", "rejected", "accepted"} =>
                admCall[c].row.status \in {"submitted", "under_review", "offered"}
          /\ admCall[c].row.status # "enrolled"
      BY <2>3, <2>6 DEF May, AllowedTransitions
    <2>8. FeeWasPaid(new, admCall[c].on, paidOnce)
      BY <1>b, <2>3, <2>4, <2>5, <2>7 DEF FeeWasPaid
    <2>9. admCall[c].on \notin admRaced /\ ~admCall[c].stale =>
              AppAgrees(new, students[admCall[c].on], admCall[c].on \in paidOnce, review[admCall[c].on])
      BY <1>b, <2>3, <2>4, <2>5, <2>7 DEF AppAgrees
    <2> QED BY <1>0, <1>b, <2>3, <2>4, <2>5, <2>8, <2>9, AdmSaveStep
  <1>4. ASSUME NEW c \in AdmCalls, ConvertToStudent(c)
        PROVE  AdmInv'
    <2>1. PICK a : a = admCall[c].on
      OBVIOUS
    <2>2. PICK new : new = [admCall[c].row EXCEPT !.status = "enrolled", !.student = TRUE]
      OBVIOUS
    <2>3. /\ admCall[c].do = "enrolled" /\ students' = [students EXCEPT ![a] = @ + 1]
          /\ SaveApplication(c, new) /\ review' = review
      BY <1>4, <2>1, <2>2 DEF ConvertToStudent
    <2>4. a \in Applications /\ May("enrolled", admCall[c].row)
      BY <1>b, <2>1, <2>3
    <2>5. /\ new \in Application /\ new.status = "enrolled"
          /\ new.fee_paid = admCall[c].row.fee_paid /\ new.score = admCall[c].row.score
      BY <1>b, <2>2, <2>3 DEF Application, ApplicationStatus
    <2>6. students[a] \in Nat
      BY <1>0, <2>4
    <2>7. /\ students' \in [Applications -> Nat] /\ students'[a] = students[a] + 1
          /\ \A b \in Applications : b # a => students'[b] = students[b]
      BY <1>0, <2>3, <2>4, <2>6
    <2>8. admCall[c].row.status = "accepted"
      BY <2>4 DEF May, AllowedTransitions
    <2>9. FeeWasPaid(new, a, paidOnce)
      BY <1>b, <2>1, <2>3, <2>5, <2>8 DEF FeeWasPaid
    <2>10. a \notin admRaced /\ ~admCall[c].stale => AppAgrees(new, students'[a], a \in paidOnce, review[a])
      BY <1>b, <2>1, <2>3, <2>5, <2>7, <2>8 DEF AppAgrees
    <2> QED BY <1>0, <1>b, <2>1, <2>3, <2>5, <2>7, <2>9, <2>10, AdmSaveStep
  <1>5. ASSUME NEW c \in AdmCalls, NEW v \in Reviewers, NEW s \in ReviewScores, RecordReview(c, v, s)
        PROVE  AdmInv'
    <2>1. PICK a : a = admCall[c].on
      OBVIOUS
    <2>2. PICK scores : scores = [review[a] EXCEPT ![v] = s]
      OBVIOUS
    <2>3. PICK status : status = IF admCall[c].row.status = "submitted" THEN "under_review"
                                 ELSE admCall[c].row.status
      OBVIOUS
    <2>4. PICK avg : avg = Average(scores)
      OBVIOUS
    <2>5. PICK new : new = [admCall[c].row EXCEPT !.score = avg, !.status = status]
      OBVIOUS
    <2>6. /\ admCall[c].do = "review" /\ review' = [review EXCEPT ![a] = scores]
          /\ SaveApplication(c, new) /\ students' = students
      BY <1>5, <2>1, <2>2, <2>3, <2>4, <2>5 DEF RecordReview
    <2>7. a \in Applications /\ admCall[c].row \in Application
      BY <1>b, <2>1, <2>6
    <2>8. scores \in ApplicationReviews /\ scores[v] = s
      BY <1>0, <2>2, <2>7 DEF ApplicationReviews
    <2>9. s # NoScore
      BY ReviewScoresAssumption
    <2>10. avg \in Int
      BY <2>4, <2>8, <2>9, AverageIsNumber
    <2>11. status \in ApplicationStatus
      BY <2>3, <2>7 DEF Application, ApplicationStatus
    <2>12. /\ new \in Application /\ new.status = status /\ new.score = avg
           /\ new.fee_paid = admCall[c].row.fee_paid
      BY <2>5, <2>7, <2>10, <2>11 DEF Application
    <2>13. /\ review' \in [Applications -> ApplicationReviews] /\ review'[a] = scores
           /\ \A b \in Applications : b # a => review'[b] = review[b]
      BY <1>0, <2>6, <2>7, <2>8
    <2>14. FeeWasPaid(new, a, paidOnce)
      BY <1>b, <2>1, <2>3, <2>6, <2>12 DEF FeeWasPaid
    <2>15. avg = ScoreOf(scores)
      BY <2>4, <2>8, <2>9 DEF ScoreOf
    <2>16. status = "enrolled" <=> admCall[c].row.status = "enrolled"
      BY <2>3
    <2>17. a \notin admRaced /\ ~admCall[c].stale => AppAgrees(new, students[a], a \in paidOnce, scores)
      BY <1>b, <2>1, <2>6, <2>12, <2>15, <2>16 DEF AppAgrees
    <2> QED BY <1>0, <1>b, <2>1, <2>6, <2>12, <2>13, <2>14, <2>17, AdmSaveStep
  <1>6. ASSUME NEW c \in AdmCalls, AdmAbandon(c)
        PROVE  AdmInv'
    <2>1. /\ admCall' \in [AdmCalls -> AdmRequest \cup {AdmIdle}]
          /\ \A d \in AdmCalls : admCall'[d] = AdmIdle \/ admCall'[d] = admCall[d]
          /\ UNCHANGED <<application, review, feePayment, students, paidOnce, admRaced>>
      BY <1>0, <1>6 DEF AdmAbandon
    <2>2. AdmInvType' /\ AdmReadsAreCurrent'
      BY <2>1 DEF AdmInv, AdmInvType, AdmReadsAreCurrent, FeeWasPaid
    <2>3. AppsAgree'
      BY <2>1 DEF AdmInv, AppsAgree
    <2> QED BY <2>2, <2>3 DEF AdmInv
  <1>7. ASSUME NEW a \in Applications, InitiateFeePayment(a)
        PROVE  AdmInv'
    <2>1. /\ feePayment' = [feePayment EXCEPT ![a] = "pending"]
          /\ UNCHANGED <<application, review, students, admCall, paidOnce, admRaced>>
      BY <1>7 DEF InitiateFeePayment
    <2>2. AdmInvType'
      BY <1>0, <2>1 DEF AdmInvType, FeePaymentStatus
    <2>3. AdmReadsAreCurrent'
      BY <2>1 DEF AdmInv, AdmReadsAreCurrent, FeeWasPaid
    <2>4. AppsAgree'
      BY <2>1 DEF AdmInv, AppsAgree
    <2> QED BY <2>2, <2>3, <2>4 DEF AdmInv
  <1>8. ASSUME NEW a \in Applications, NEW state \in FeePaymentStatus, ConfirmFeePayment(a, state)
        PROVE  AdmInv'
    <2>1. PICK paid \in BOOLEAN : paid = (application[a].fee_paid \/ state = "confirmed")
      OBVIOUS
    <2>2. PICK new : new = [application[a] EXCEPT !.fee_paid = paid]
      OBVIOUS
    <2>3. /\ feePayment' = [feePayment EXCEPT ![a] = IF state = "pending" THEN @ ELSE state]
          /\ application' = [application EXCEPT ![a] = new]
          /\ paidOnce' = IF state = "confirmed" THEN paidOnce \cup {a} ELSE paidOnce
          /\ admCall' = [d \in AdmCalls |->
                IF admCall[d] = AdmIdle THEN AdmIdle
                ELSE [admCall[d] EXCEPT !.stale = @ \/ application'[admCall[d].on] # admCall[d].row]]
          /\ UNCHANGED <<review, students, admRaced>>
      BY <1>8, <2>1, <2>2 DEF ConfirmFeePayment
    <2>4. /\ new \in Application /\ new.fee_paid = paid /\ new.status = application[a].status
          /\ new.score = application[a].score
      BY <1>0, <2>1, <2>2 DEF Application
    <2>5. \A b \in Applications : application'[b] = IF b = a THEN new ELSE application[b]
      BY <1>0, <2>3
    <2>6. ASSUME NEW d \in AdmCalls
          PROVE  \/ admCall'[d] = AdmIdle
                 \/ /\ admCall[d] # AdmIdle /\ admCall[d] \in AdmRequest /\ admCall'[d] \in AdmRequest
                    /\ admCall'[d].do = admCall[d].do /\ admCall'[d].on = admCall[d].on
                    /\ admCall'[d].row = admCall[d].row
                    /\ admCall'[d].stale \/ admCall'[d].row = application'[admCall'[d].on]
      <3>1. CASE admCall[d] = AdmIdle
        BY <2>3, <3>1
      <3>2. CASE admCall[d] # AdmIdle
        <4>1. PICK b \in BOOLEAN :
                 b = (admCall[d].stale \/ application'[admCall[d].on] # admCall[d].row)
          OBVIOUS
        <4>2. admCall[d] \in AdmRequest
          BY <1>0, <3>2
        <4>3. admCall'[d] = [admCall[d] EXCEPT !.stale = b]
          BY <2>3, <3>2, <4>1
        <4>4. /\ admCall'[d] \in AdmRequest /\ admCall'[d].stale = b
              /\ admCall'[d].do = admCall[d].do /\ admCall'[d].on = admCall[d].on
              /\ admCall'[d].row = admCall[d].row
          BY <4>1, <4>2, <4>3 DEF AdmRequest
        <4> QED BY <3>2, <4>1, <4>2, <4>4
      <3> QED BY <3>1, <3>2
    <2>7. feePayment' \in [Applications -> FeePaymentStatus \cup {"none"}]
      BY <1>0, <2>3
    <2>8. admCall' \in [AdmCalls -> AdmRequest \cup {AdmIdle}]
      BY <2>3, <2>6
    <2>9. AdmInvType'
      BY <1>0, <2>3, <2>4, <2>7, <2>8 DEF AdmInvType
    <2>10. paidOnce \subseteq paidOnce'
      BY <2>3
    <2>11. AdmReadsAreCurrent'
      <3> SUFFICES ASSUME NEW d \in AdmCalls, admCall'[d] # AdmIdle
                   PROVE  /\ FeeWasPaid(admCall'[d].row, admCall'[d].on, paidOnce')
                          /\ May(admCall'[d].do, admCall'[d].row)
                          /\ admCall'[d].stale \/ admCall'[d].row = application'[admCall'[d].on]
        BY DEF AdmReadsAreCurrent
      <3>1. /\ FeeWasPaid(admCall[d].row, admCall[d].on, paidOnce)
            /\ May(admCall[d].do, admCall[d].row)
        BY <2>6 DEF AdmInv, AdmReadsAreCurrent
      <3> QED BY <2>6, <2>10, <3>1 DEF FeeWasPaid
    <2>12. AppsAgree'
      <3> SUFFICES ASSUME NEW b \in Applications
                   PROVE  /\ FeeWasPaid(application'[b], b, paidOnce')
                          /\ b \notin admRaced =>
                                AppAgrees(application'[b], students[b], b \in paidOnce', review[b])
        BY <2>3 DEF AppsAgree
      <3>1. /\ FeeWasPaid(application[b], b, paidOnce)
            /\ b \notin admRaced => AppAgrees(application[b], students[b], b \in paidOnce, review[b])
        BY DEF AdmInv, AppsAgree
      <3>2. CASE b # a
        <4>1. application'[b] = application[b] /\ (b \in paidOnce' <=> b \in paidOnce)
          BY <2>3, <2>5, <3>2
        <4> QED BY <3>1, <4>1 DEF FeeWasPaid, AppAgrees
      <3>3. CASE b = a
        <4>1. application'[b] = new
          BY <2>5, <3>3
        <4>2. b \in paidOnce' <=> (b \in paidOnce \/ state = "confirmed")
          BY <2>3, <3>3
        <4>3. FeeWasPaid(application'[b], b, paidOnce')
          BY <2>1, <2>4, <3>1, <3>3, <4>1, <4>2 DEF FeeWasPaid
        <4>4. ASSUME b \notin admRaced
              PROVE  AppAgrees(new, students[b], b \in paidOnce', review[b])
          <5>1. AppAgrees(application[b], students[b], b \in paidOnce, review[b])
            BY <3>1, <4>4
          <5>2. new.fee_paid <=> b \in paidOnce'
            BY <2>1, <2>4, <3>3, <4>2, <5>1 DEF AppAgrees
          <5> QED BY <2>4, <3>3, <5>1, <5>2 DEF AppAgrees
        <4> QED BY <4>1, <4>3, <4>4
      <3> QED BY <3>2, <3>3
    <2> QED BY <2>9, <2>11, <2>12 DEF AdmInv
  <1>9. CASE UNCHANGED admVars
    <2>1. UNCHANGED <<application, review, feePayment, students, admCall, paidOnce, admRaced>>
      BY <1>9 DEF admVars
    <2>2. AdmInvType' /\ AdmReadsAreCurrent'
      BY <2>1 DEF AdmInv, AdmInvType, AdmReadsAreCurrent, FeeWasPaid
    <2>3. AppsAgree'
      BY <2>1 DEF AdmInv, AppsAgree
    <2> QED BY <2>2, <2>3 DEF AdmInv
  <1> QED BY <1>1, <1>2, <1>3, <1>4, <1>5, <1>6, <1>7, <1>8, <1>9 DEF AdmNext, FeePayment

\* Applications agree with their fees, students and reviews.
LEMMA AdmInvariant == AdmSpec => []AdmInv
  <1>1. AdmInit => AdmInv
    <2> SUFFICES ASSUME AdmInit PROVE AdmInv
      OBVIOUS
    <2>1. /\ NewApplication \in Application /\ NewApplication.status = "draft"
          /\ ~NewApplication.fee_paid /\ NewApplication.score = NoScore
      BY DEF NewApplication, Application, ApplicationStatus
    <2>2. [v \in Reviewers |-> NoScore] \in ApplicationReviews
      BY DEF ApplicationReviews
    <2>3. AdmInvType
      BY <2>1, <2>2 DEF AdmInit, AdmInvType
    <2>4. ASSUME NEW a \in Applications
          PROVE  FeeWasPaid(application[a], a, paidOnce) /\
                 AppAgrees(application[a], students[a], a \in paidOnce, review[a])
      <3>1. /\ application[a] = NewApplication /\ students[a] = 0 /\ paidOnce = {}
            /\ \A v \in Reviewers : review[a][v] = NoScore
        BY DEF AdmInit
      <3>2. ScoreOf(review[a]) = NoScore
        BY <3>1 DEF ScoreOf
      <3> QED BY <2>1, <3>1, <3>2 DEF FeeWasPaid, AppAgrees
    <2>5. AdmReadsAreCurrent
      BY DEF AdmInit, AdmReadsAreCurrent
    <2> QED BY <2>3, <2>4, <2>5 DEF AdmInv, AppsAgree
  <1> QED BY <1>1, AdmStep, PTL DEF AdmSpec

\* No application gets past the draft unpaid whatever overlaps; and every application
\* nobody saved over makes one student exactly when enrolled, keeps its fee recorded
\* and has the average of its reviews for its score.
THEOREM ApplicationsStaySound == AdmSpec => []ApplicationsAreSound
  <1>1. AdmInv => ApplicationsAreSound
    <2> SUFFICES ASSUME AdmInv, NEW a \in Applications
                 PROVE  /\ application[a].status \notin {"draft", "withdrawn"} => a \in paidOnce
                        /\ a \notin admRaced =>
                              /\ students[a] = (IF application[a].status = "enrolled" THEN 1 ELSE 0)
                              /\ application[a].fee_paid = (a \in paidOnce)
                              /\ application[a].score =
                                    (IF \A v \in Reviewers : review[a][v] = NoScore
                                     THEN NoScore ELSE Average(review[a]))
      BY DEF ApplicationsAreSound
    <2>1. /\ FeeWasPaid(application[a], a, paidOnce)
          /\ a \notin admRaced => AppAgrees(application[a], students[a], a \in paidOnce, review[a])
      BY DEF AdmInv, AppsAgree
    <2>2. application[a].fee_paid \in BOOLEAN
      BY DEF AdmInv, AdmInvType, Application
    <2> QED BY <2>1, <2>2 DEF FeeWasPaid, AppAgrees, ScoreOf
  <1> QED BY <1>1, AdmInvariant, PTL

\* The tables of admissions keep their types.
THEOREM AdmissionTypes == AdmSpec => []AdmTypeOK
  <1>1. AdmInv => AdmTypeOK
    <2> SUFFICES ASSUME AdmInv PROVE AdmTypeOK
      OBVIOUS
    <2>1. AdmIdle.do = "none"
      BY DEF AdmIdle
    <2>2. \A c \in AdmCalls : admCall[c].do \in Operations \cup {"none"}
      BY <2>1 DEF AdmInv, AdmInvType, AdmRequest
    <2> QED BY <2>2 DEF AdmInv, AdmInvType, AdmTypeOK
  <1> QED BY <1>1, AdmInvariant, PTL

----------------------------------------------------------------------------
(* Communications.                                                         *)

\* A request of send_announcement under way.
ComRequest == [row : Announcement, left : SUBSET People]

\* The type of the state of communications.
ComInvType ==
    /\ reachable \subseteq People
    /\ notice \in [Notices -> Announcement \cup {NoNotice}]
    /\ sending \in [Notices -> ComRequest \cup {ComIdle}]
    /\ accepted \subseteq Notices \X People \X {"sms", "email"}
    /\ failed \in [Notices -> SUBSET People]

\* Those of a set of people for whom a message on the channel was accepted.
Taken(n, ch, who, acc) == {p \in who : <<n, p, ch>> \in acc}

\* The loop over row.to, with the people `left` still to come: everybody before
\* them was reached or has a failure of their own, each message counted was accepted
\* for one of them, and they are the audience the row names.
Reached(n, row, left, acc, bad) ==
    /\ row \in Announcement /\ left \subseteq row.to
    /\ \A p \in row.to \ left :
          (\A i \in DOMAIN Channels[p] : <<n, p, Channels[p][i]>> \in acc) \/ p \in bad
    /\ row.sms <= Cardinality(Taken(n, "sms", row.to \ left, acc))
    /\ row.email <= Cardinality(Taken(n, "email", row.to \ left, acc))
    /\ \A p \in row.to :
          ClassOf[p] # NoClass => row.audience = "all_students" \/ row.class = ClassOf[p]

\* Requests under way have kept their word so far, and stored notices for good.
ComInv ==
    /\ ComInvType
    /\ \A n \in Notices : sending[n] # ComIdle =>
          /\ notice[n] = NoNotice
          /\ Reached(n, sending[n].row, sending[n].left, accepted, failed[n])
    /\ \A n \in Notices : notice[n] # NoNotice => Reached(n, notice[n], {}, accepted, failed[n])

\* The people reached are counted by a number, more of them by no smaller one.
LEMMA TakenGrows ==
    ASSUME NEW n, NEW ch, NEW who \in SUBSET People, NEW more \in SUBSET People, who \subseteq more,
           NEW acc, NEW acc2, acc \subseteq acc2
    PROVE  /\ Cardinality(Taken(n, ch, who, acc)) \in Nat
           /\ Cardinality(Taken(n, ch, more, acc2)) \in Nat
           /\ Cardinality(Taken(n, ch, who, acc)) <= Cardinality(Taken(n, ch, more, acc2))
           /\ Cardinality(Taken(n, ch, more, acc2)) <= Cardinality(People)
           /\ IsFiniteSet(Taken(n, ch, who, acc)) /\ IsFiniteSet(Taken(n, ch, more, acc2))
  <1>1. /\ Taken(n, ch, who, acc) \subseteq Taken(n, ch, more, acc2)
        /\ Taken(n, ch, more, acc2) \subseteq People
    BY DEF Taken
  <1>2. IsFiniteSet(People)
    BY CommunicationsAssumption
  <1>3. IsFiniteSet(Taken(n, ch, more, acc2))
    BY <1>1, <1>2, FS_Subset
  <1>4. IsFiniteSet(Taken(n, ch, who, acc))
    BY <1>1, <1>3, FS_Subset
  <1> QED BY <1>1, <1>2, <1>3, <1>4, FS_Subset, FS_CardinalityType

\* A turn of the loop counts a message only if one was accepted.
LEMMA CountIsCovered ==
    ASSUME NEW n, NEW ch, NEW to \in SUBSET People, NEW left \in SUBSET to, NEW p \in left,
           NEW acc, NEW acc2, acc \subseteq acc2,
           NEW had \in Int, had <= Cardinality(Taken(n, ch, to \ left, acc)),
           NEW plus \in {0, 1}, plus = 1 => <<n, p, ch>> \in acc2
    PROVE  /\ had + plus <= Cardinality(Taken(n, ch, to \ (left \ {p}), acc2))
           /\ had + plus <= Cardinality(People)
  <1>1. PICK old \in SUBSET People : old = to \ left
    OBVIOUS
  <1>2. PICK now \in SUBSET People : now = to \ (left \ {p})
    OBVIOUS
  <1>3. old \subseteq now /\ p \notin old /\ p \in now
    BY <1>1, <1>2
  <1>4. /\ Cardinality(Taken(n, ch, old, acc)) \in Nat
        /\ Cardinality(Taken(n, ch, now, acc2)) \in Nat
        /\ Cardinality(Taken(n, ch, old, acc)) <= Cardinality(Taken(n, ch, now, acc2))
        /\ Cardinality(Taken(n, ch, now, acc2)) <= Cardinality(People)
        /\ IsFiniteSet(Taken(n, ch, old, acc)) /\ IsFiniteSet(Taken(n, ch, now, acc2))
    BY <1>1, <1>2, <1>3, TakenGrows
  <1>5. Cardinality(People) \in Nat
    BY CommunicationsAssumption, FS_CardinalityType
  <1>6. CASE plus = 0
    BY <1>1, <1>2, <1>4, <1>5, <1>6
  <1>7. CASE plus = 1
    <2>1. p \notin Taken(n, ch, old, acc)
      BY <1>3 DEF Taken
    <2>2. Taken(n, ch, old, acc) \cup {p} \subseteq Taken(n, ch, now, acc2)
      BY <1>3, <1>7 DEF Taken
    <2>3. Cardinality(Taken(n, ch, old, acc) \cup {p}) = Cardinality(Taken(n, ch, old, acc)) + 1
      BY <1>4, <2>1, FS_AddElement
    <2>4. Cardinality(Taken(n, ch, old, acc) \cup {p}) <= Cardinality(Taken(n, ch, now, acc2))
      BY <1>4, <2>2, FS_Subset
    <2> QED BY <1>1, <1>2, <1>4, <1>5, <1>7, <2>3, <2>4
  <1> QED BY <1>6, <1>7

\* Messages accepted later take nothing back.
LEMMA ReachedGrows ==
    ASSUME NEW n, NEW row, NEW left, NEW acc, NEW acc2, acc \subseteq acc2, NEW bad,
           Reached(n, row, left, acc, bad)
    PROVE  Reached(n, row, left, acc2, bad)
  <1>1. /\ row \in Announcement /\ left \subseteq row.to
        /\ row.sms <= Cardinality(Taken(n, "sms", row.to \ left, acc))
        /\ row.email <= Cardinality(Taken(n, "email", row.to \ left, acc))
    BY DEF Reached
  <1>2. PICK who : who = row.to \ left
    OBVIOUS
  <1>3. who \in SUBSET People /\ row.sms \in Int /\ row.email \in Int
    BY <1>1, <1>2 DEF Announcement
  <1>4. ASSUME NEW ch
        PROVE  /\ Cardinality(Taken(n, ch, who, acc)) \in Nat
               /\ Cardinality(Taken(n, ch, who, acc2)) \in Nat
               /\ Cardinality(Taken(n, ch, who, acc)) <= Cardinality(Taken(n, ch, who, acc2))
    BY <1>3, TakenGrows
  <1>5. /\ row.sms <= Cardinality(Taken(n, "sms", row.to \ left, acc2))
        /\ row.email <= Cardinality(Taken(n, "email", row.to \ left, acc2))
    BY <1>1, <1>2, <1>3, <1>4
  <1> QED BY <1>5 DEF Reached

\* One turn of the loop keeps the loop's word.
LEMMA TurnKeepsReached ==
    ASSUME NEW n \in Notices, NEW row, NEW left, NEW acc, NEW bad, Reached(n, row, left, acc, bad),
           NEW p \in left, NEW k \in 0..Len(Channels[p]),
           NEW sent, sent = {Channels[p][i] : i \in 1..k},
           NEW acc2, acc2 = acc \cup {<<n, p, ch>> : ch \in sent},
           NEW bad2, bad2 = IF k < Len(Channels[p]) THEN bad \cup {p} ELSE bad,
           NEW x \in {0, 1}, x = 1 => "sms" \in sent,
           NEW y \in {0, 1}, y = 1 => "email" \in sent
    PROVE  Reached(n, [row EXCEPT !.sms = @ + x, !.email = @ + y], left \ {p}, acc2, bad2)
  <1>1. PICK to \in SUBSET People : to = row.to
    BY DEF Reached, Announcement
  <1>2. /\ row \in Announcement /\ left \in SUBSET to /\ row.sms \in Int /\ row.email \in Int
        /\ 0 <= row.sms /\ 0 <= row.email
    BY <1>1 DEF Reached, Announcement
  <1>3. /\ row.sms <= Cardinality(Taken(n, "sms", to \ left, acc))
        /\ row.email <= Cardinality(Taken(n, "email", to \ left, acc))
    BY <1>1 DEF Reached
  <1>4. acc \subseteq acc2 /\ (x = 1 => <<n, p, "sms">> \in acc2) /\ (y = 1 => <<n, p, "email">> \in acc2)
    OBVIOUS
  <1>a. ASSUME NEW ch, NEW had \in Int, had <= Cardinality(Taken(n, ch, to \ left, acc)),
               NEW plus \in {0, 1}, plus = 1 => <<n, p, ch>> \in acc2
        PROVE  /\ had + plus <= Cardinality(Taken(n, ch, to \ (left \ {p}), acc2))
               /\ had + plus <= Cardinality(People)
    <2>1. to \in SUBSET People /\ left \in SUBSET to /\ p \in left /\ acc \subseteq acc2
      BY <1>1, <1>2, <1>4
    <2> QED BY <1>a, <2>1, CountIsCovered, Zenon
  <1>5. /\ row.sms + x <= Cardinality(Taken(n, "sms", to \ (left \ {p}), acc2))
        /\ row.sms + x <= Cardinality(People)
    BY <1>2, <1>3, <1>4, <1>a
  <1>6. /\ row.email + y <= Cardinality(Taken(n, "email", to \ (left \ {p}), acc2))
        /\ row.email + y <= Cardinality(People)
    BY <1>2, <1>3, <1>4, <1>a
  <1>7. PICK new : new = [row EXCEPT !.sms = @ + x, !.email = @ + y]
    OBVIOUS
  <1>8. /\ row.sms + x \in 0..Cardinality(People) /\ row.email + y \in 0..Cardinality(People)
    <2>1. Cardinality(People) \in Nat
      BY CommunicationsAssumption, FS_CardinalityType
    <2> QED BY <1>2, <1>5, <1>6, <2>1
  <1>9. /\ new \in Announcement /\ new.to = to /\ new.sms = row.sms + x /\ new.email = row.email + y
        /\ new.audience = row.audience /\ new.class = row.class
    BY <1>1, <1>2, <1>7, <1>8 DEF Announcement
  <1>10. ASSUME NEW q \in to \ (left \ {p})
         PROVE  (\A i \in DOMAIN Channels[q] : <<n, q, Channels[q][i]>> \in acc2) \/ q \in bad2
    <2>1. CASE q # p
      <3>1. q \in row.to \ left
        BY <1>1, <1>10, <2>1
      <3>2. (\A i \in DOMAIN Channels[q] : <<n, q, Channels[q][i]>> \in acc) \/ q \in bad
        BY <3>1 DEF Reached
      <3> QED BY <1>4, <3>2
    <2>2. CASE q = p /\ k < Len(Channels[p])
      BY <2>2
    <2>3. CASE q = p /\ ~(k < Len(Channels[p]))
      <3>1. p \in People
        BY <1>2
      <3>2. Channels[p] \in Seq({"sms", "email"})
        <4>1. Channels[p] \in {<< >>, <<"sms">>, <<"email">>, <<"sms", "email">>}
          BY <3>1, CommunicationsAssumption
        <4>2. << >> \in Seq({"sms", "email"}) /\ <<"sms">> \in Seq({"sms", "email"})
          OBVIOUS
        <4>3. <<"email">> \in Seq({"sms", "email"}) /\ <<"sms", "email">> \in Seq({"sms", "email"})
          OBVIOUS
        <4> QED BY <4>1, <4>2, <4>3, Zenon
      <3>3. k = Len(Channels[p]) /\ DOMAIN Channels[p] = 1..k
        BY <2>3, <3>2
      <3>4. \A i \in 1..k : Channels[p][i] \in sent
        OBVIOUS
      <3> QED BY <2>3, <3>3, <3>4
    <2> QED BY <2>1, <2>2, <2>3
  <1>11. \A q \in to : ClassOf[q] # NoClass => row.audience = "all_students" \/ row.class = ClassOf[q]
    BY <1>1 DEF Reached
  <1>12. left \ {p} \subseteq to
    BY <1>2
  <1> QED BY <1>5, <1>6, <1>7, <1>9, <1>10, <1>11, <1>12 DEF Reached

\* Every step of an announcement keeps the invariant.
LEMMA ComStep == ComInv /\ [ComNext]_comVars => ComInv'
  <1> SUFFICES ASSUME ComInv, [ComNext]_comVars PROVE ComInv'
    OBVIOUS
  <1>0. /\ reachable \subseteq People
        /\ notice \in [Notices -> Announcement \cup {NoNotice}]
        /\ sending \in [Notices -> ComRequest \cup {ComIdle}]
        /\ accepted \subseteq Notices \X People \X {"sms", "email"}
        /\ failed \in [Notices -> SUBSET People]
    BY DEF ComInv, ComInvType
  <1>a. \A n \in Notices : sending[n] # ComIdle =>
           /\ notice[n] = NoNotice
           /\ Reached(n, sending[n].row, sending[n].left, accepted, failed[n])
    BY DEF ComInv
  <1>b. \A n \in Notices : notice[n] # NoNotice => Reached(n, notice[n], {}, accepted, failed[n])
    BY DEF ComInv
  <1>1. ASSUME NEW n \in Notices, NEW u \in Senders, NEW audience \in AudienceType,
               NEW class \in Classes \cup {NoClass}, BeginAnnouncement(n, u, audience, class)
        PROVE  ComInv'
    <2>1. PICK to : to = Contacts(audience, class)
      OBVIOUS
    <2>2. PICK row : row = [audience |-> audience, class |-> class, to |-> to, sms |-> 0, email |-> 0]
      OBVIOUS
    <2>3. PICK call : call = [row |-> row, left |-> to]
      OBVIOUS
    <2>4. /\ notice[n] = NoNotice /\ MayAnnounce(u, audience, class)
          /\ sending' = [sending EXCEPT ![n] = call]
          /\ failed' = [failed EXCEPT ![n] = {}]
          /\ UNCHANGED <<reachable, notice, accepted>>
      BY <1>1, <2>1, <2>2, <2>3 DEF BeginAnnouncement
    <2>5. to \in SUBSET People
      BY <1>0, <2>1 DEF Contacts, ActiveStudentContacts, ActiveAlumniContacts, AudienceType
    <2>6. \A p \in to : ClassOf[p] # NoClass => audience = "all_students" \/ class = ClassOf[p]
      BY <2>1 DEF Contacts, ActiveStudentContacts, ActiveAlumniContacts, AudienceType
    <2>7. row \in Announcement /\ row.to = to
      <3>1. 0 \in 0..Cardinality(People)
        BY CommunicationsAssumption, FS_CardinalityType
      <3> QED BY <2>2, <2>5, <3>1 DEF Announcement
    <2>8. Reached(n, row, to, accepted, {})
      <3>1. /\ Taken(n, "sms", row.to \ to, accepted) = {} /\ Taken(n, "email", row.to \ to, accepted) = {}
        BY <2>7 DEF Taken
      <3>2. Cardinality({}) = 0
        BY FS_EmptySet
      <3>3. /\ row.sms <= Cardinality(Taken(n, "sms", row.to \ to, accepted))
            /\ row.email <= Cardinality(Taken(n, "email", row.to \ to, accepted))
        BY <2>2, <3>1, <3>2
      <3> QED BY <2>2, <2>6, <2>7, <3>3 DEF Reached
    <2>9. call \in ComRequest /\ call.row = row /\ call.left = to
      BY <2>3, <2>5, <2>7 DEF ComRequest
    <2>10. ComInvType'
      BY <1>0, <2>4, <2>9 DEF ComInvType
    <2>11. \A m \in Notices : /\ sending'[m] = IF m = n THEN call ELSE sending[m]
                              /\ failed'[m] = IF m = n THEN {} ELSE failed[m]
      BY <1>0, <2>4
    <2>12. ASSUME NEW m \in Notices, sending'[m] # ComIdle
           PROVE  notice'[m] = NoNotice /\ Reached(m, sending'[m].row, sending'[m].left, accepted', failed'[m])
      <3>1. CASE m = n
        BY <2>4, <2>8, <2>9, <2>11, <3>1
      <3>2. CASE m # n
        BY <1>a, <2>4, <2>11, <2>12, <3>2
      <3> QED BY <3>1, <3>2
    <2>13. \A m \in Notices : notice'[m] # NoNotice => Reached(m, notice'[m], {}, accepted', failed'[m])
      BY <1>b, <2>4, <2>11
    <2> QED BY <2>10, <2>12, <2>13 DEF ComInv
  <1>2. ASSUME NEW n \in Notices, NEW p \in People, NEW k \in 0..Len(Channels[p]), Notify(n, p, k)
        PROVE  ComInv'
    <2>1. PICK sent : sent = {Channels[p][i] : i \in 1..k}
      OBVIOUS
    <2>2. PICK x \in {0, 1} : x = IF "sms" \in sent THEN 1 ELSE 0
      OBVIOUS
    <2>3. PICK y \in {0, 1} : y = IF "email" \in sent THEN 1 ELSE 0
      OBVIOUS
    <2>4. /\ p \in sending[n].left
          /\ sending' = [sending EXCEPT ![n] =
                [row |-> [sending[n].row EXCEPT !.sms = @ + x, !.email = @ + y],
                 left |-> sending[n].left \ {p}]]
          /\ accepted' = accepted \cup {<<n, p, ch>> : ch \in sent}
          /\ failed' = IF k < Len(Channels[p]) THEN [failed EXCEPT ![n] = @ \cup {p}] ELSE failed
          /\ UNCHANGED <<reachable, notice>>
      BY <1>2, <2>1, <2>2, <2>3 DEF Notify, Send
    <2>5. ComIdle.left = {}
      BY DEF ComIdle
    <2>6. sending[n] # ComIdle
      BY <2>4, <2>5
    <2>7. sending[n] \in ComRequest
      BY <1>0, <2>6
    <2>8. PICK row \in Announcement : row = sending[n].row
      BY <2>7 DEF ComRequest
    <2>9. PICK left \in SUBSET People : left = sending[n].left
      BY <2>7 DEF ComRequest
    <2>10. PICK new : new = [sending[n].row EXCEPT !.sms = @ + x, !.email = @ + y]
      OBVIOUS
    <2>11. PICK call : call = [row |-> new, left |-> sending[n].left \ {p}]
      OBVIOUS
    <2>12. sending' = [sending EXCEPT ![n] = call]
      BY <2>4, <2>10, <2>11
    <2>13. PICK bad : bad = IF k < Len(Channels[p]) THEN failed[n] \cup {p} ELSE failed[n]
      OBVIOUS
    <2>14. PICK acc : acc = accepted \cup {<<n, p, ch>> : ch \in sent}
      OBVIOUS
    <2>15. Reached(n, row, left, accepted, failed[n])
      BY <1>a, <2>6, <2>8, <2>9
    <2>16. Reached(n, new, left \ {p}, acc, bad)
      <3>1. p \in left /\ (x = 1 => "sms" \in sent) /\ (y = 1 => "email" \in sent)
        BY <2>2, <2>3, <2>4, <2>9
      <3>2. x \in {0, 1} /\ y \in {0, 1}
        BY <2>2, <2>3
      <3>3. Reached(n, [row EXCEPT !.sms = @ + x, !.email = @ + y], left \ {p}, acc, bad)
        BY <2>1, <2>13, <2>14, <2>15, <3>1, <3>2, TurnKeepsReached
      <3> QED BY <2>8, <2>10, <3>3
    <2>17. call \in ComRequest /\ call.row = new /\ call.left = left \ {p}
      BY <2>9, <2>11, <2>16 DEF ComRequest, Reached
    <2>18. sent \subseteq {"sms", "email"}
      <3>1. Channels[p] \in {<< >>, <<"sms">>, <<"email">>, <<"sms", "email">>}
        BY CommunicationsAssumption
      <3> QED BY <1>2, <2>1, <3>1
    <2>19. accepted' \subseteq Notices \X People \X {"sms", "email"} /\ accepted \subseteq accepted'
      BY <1>0, <2>4, <2>18
    <2>20. failed' = [failed EXCEPT ![n] = bad] /\ bad \in SUBSET People
      BY <1>0, <2>4, <2>13
    <2>21. ComInvType'
      BY <1>0, <2>4, <2>12, <2>17, <2>19, <2>20 DEF ComInvType
    <2>22. \A m \in Notices : /\ sending'[m] = IF m = n THEN call ELSE sending[m]
                              /\ failed'[m] = IF m = n THEN bad ELSE failed[m]
      BY <1>0, <2>12, <2>20
    <2>23. ASSUME NEW m \in Notices, sending'[m] # ComIdle
           PROVE  notice'[m] = NoNotice /\ Reached(m, sending'[m].row, sending'[m].left, accepted', failed'[m])
      <3>1. CASE m = n
        BY <1>a, <2>4, <2>6, <2>14, <2>16, <2>17, <2>22, <3>1
      <3>2. CASE m # n
        <4>1. /\ sending[m] # ComIdle /\ notice[m] = NoNotice
              /\ Reached(m, sending[m].row, sending[m].left, accepted, failed[m])
          BY <1>a, <2>22, <2>23, <3>2
        <4>2. Reached(m, sending[m].row, sending[m].left, accepted', failed[m])
          BY <2>19, <4>1, ReachedGrows
        <4> QED BY <2>4, <2>22, <3>2, <4>1, <4>2
      <3> QED BY <3>1, <3>2
    <2>24. ASSUME NEW m \in Notices, notice'[m] # NoNotice
           PROVE  Reached(m, notice'[m], {}, accepted', failed'[m])
      <3>1. notice[m] # NoNotice /\ m # n
        BY <1>a, <2>4, <2>6, <2>24
      <3>2. Reached(m, notice[m], {}, accepted, failed[m])
        BY <1>b, <3>1
      <3>3. Reached(m, notice[m], {}, accepted', failed[m])
        BY <2>19, <3>2, ReachedGrows
      <3> QED BY <2>4, <2>22, <3>1, <3>3
    <2> QED BY <2>21, <2>23, <2>24 DEF ComInv
  <1>3. ASSUME NEW n \in Notices, SaveAnnouncement(n)
        PROVE  ComInv'
    <2>1. PICK row : row = sending[n].row
      OBVIOUS
    <2>2. /\ sending[n] # ComIdle /\ sending[n].left = {}
          /\ notice' = [notice EXCEPT ![n] = row] /\ sending' = [sending EXCEPT ![n] = ComIdle]
          /\ UNCHANGED <<reachable, accepted, failed>>
      BY <1>3, <2>1 DEF SaveAnnouncement
    <2>3. Reached(n, row, {}, accepted, failed[n])
      BY <1>a, <2>1, <2>2
    <2>4. row \in Announcement
      BY <2>3 DEF Reached
    <2>5. ComInvType'
      BY <1>0, <2>2, <2>4 DEF ComInvType
    <2>6. \A m \in Notices : /\ sending'[m] = IF m = n THEN ComIdle ELSE sending[m]
                             /\ notice'[m] = IF m = n THEN row ELSE notice[m]
      BY <1>0, <2>2
    <2>7. \A m \in Notices : sending'[m] # ComIdle =>
             notice'[m] = NoNotice /\ Reached(m, sending'[m].row, sending'[m].left, accepted', failed'[m])
      BY <1>a, <2>2, <2>6
    <2>8. \A m \in Notices : notice'[m] # NoNotice => Reached(m, notice'[m], {}, accepted', failed'[m])
      BY <1>b, <2>2, <2>3, <2>6
    <2> QED BY <2>5, <2>7, <2>8 DEF ComInv
  <1>4. ASSUME NEW n \in Notices, ComAbandon(n)
        PROVE  ComInv'
    <2>1. /\ sending' = [sending EXCEPT ![n] = ComIdle]
          /\ UNCHANGED <<reachable, notice, accepted, failed>>
      BY <1>4 DEF ComAbandon
    <2>2. \A m \in Notices : sending'[m] = IF m = n THEN ComIdle ELSE sending[m]
      BY <1>0, <2>1
    <2>3. ComInvType'
      BY <1>0, <2>1 DEF ComInvType
    <2> QED BY <1>a, <1>b, <2>1, <2>2, <2>3 DEF ComInv
  <1>5. ASSUME NEW p \in People, ContactChanges(p)
        PROVE  ComInv'
    <2>1. reachable' \subseteq People /\ UNCHANGED <<notice, sending, accepted, failed>>
      BY <1>0, <1>5 DEF ContactChanges
    <2>2. ComInvType'
      BY <1>0, <2>1 DEF ComInvType
    <2> QED BY <1>a, <1>b, <2>1, <2>2 DEF ComInv
  <1>6. CASE UNCHANGED comVars
    <2>1. UNCHANGED <<reachable, notice, sending, accepted, failed>>
      BY <1>6 DEF comVars
    <2>2. ComInvType'
      BY <1>0, <2>1 DEF ComInvType
    <2> QED BY <1>a, <1>b, <2>1, <2>2 DEF ComInv
  <1> QED BY <1>1, <1>2, <1>3, <1>4, <1>5, <1>6 DEF ComNext

\* Announcements under way and stored keep their word.
LEMMA ComInvariant == ComSpec => []ComInv
  <1>1. ComInit => ComInv
    BY DEF ComInit, ComInv, ComInvType
  <1> QED BY <1>1, ComStep, PTL DEF ComSpec

\* However many attempts failed and whoever joined or left meanwhile, a stored notice
\* reached every address of its audience but those of people with a failure of their
\* own, counts no message that was not accepted, and is on the portal of every student
\* it went to.
THEOREM NoticesStayTrue == ComSpec => []NoticesAreTrue
  <1>1. ComInv => NoticesAreTrue
    <2> SUFFICES ASSUME ComInv, NEW n \in Notices, notice[n] # NoNotice
                 PROVE  /\ \A p \in notice[n].to :
                              \/ \A i \in DOMAIN Channels[p] :
                                    p \in {q \in People : <<n, q, Channels[p][i]>> \in accepted}
                              \/ p \in failed[n]
                        /\ notice[n].sms <= Cardinality({p \in People : <<n, p, "sms">> \in accepted})
                        /\ notice[n].email <= Cardinality({p \in People : <<n, p, "email">> \in accepted})
                        /\ \A p \in notice[n].to : ClassOf[p] # NoClass => n \in Portal(p)
      BY DEF NoticesAreTrue
    <2>1. PICK row : row = notice[n]
      OBVIOUS
    <2>2. Reached(n, row, {}, accepted, failed[n])
      BY <2>1 DEF ComInv
    <2>3. PICK to : to = row.to \ {}
      OBVIOUS
    <2>4. /\ row \in Announcement /\ to \in SUBSET People /\ to = row.to
          /\ row.sms \in Int /\ row.email \in Int
      BY <2>2, <2>3 DEF Reached, Announcement
    <2>5. /\ row.sms <= Cardinality(Taken(n, "sms", to, accepted))
          /\ row.email <= Cardinality(Taken(n, "email", to, accepted))
      BY <2>2, <2>3 DEF Reached
    <2>6. ASSUME NEW ch
          PROVE  /\ Cardinality(Taken(n, ch, to, accepted)) \in Nat
                 /\ Cardinality(Taken(n, ch, People, accepted)) \in Nat
                 /\ Cardinality(Taken(n, ch, to, accepted)) <= Cardinality(Taken(n, ch, People, accepted))
      BY <2>4, TakenGrows
    <2>7. row.sms <= Cardinality(Taken(n, "sms", People, accepted))
      BY <2>4, <2>5, <2>6
    <2>8. row.email <= Cardinality(Taken(n, "email", People, accepted))
      BY <2>4, <2>5, <2>6
    <2>9. \A p \in to : (\A i \in DOMAIN Channels[p] : <<n, p, Channels[p][i]>> \in accepted) \/ p \in failed[n]
      BY <2>2, <2>3 DEF Reached
    <2>10. \A p \in to : ClassOf[p] # NoClass => n \in Portal(p)
      BY <2>1, <2>2, <2>4 DEF Reached, Portal
    <2> QED BY <2>1, <2>4, <2>7, <2>8, <2>9, <2>10 DEF Taken
  <1> QED BY <1>1, ComInvariant, PTL

\* The tables of communications keep their types.
THEOREM NoticeTypes == ComSpec => []ComTypeOK
  <1>1. ComInv => ComTypeOK
    BY DEF ComInv, ComInvType, ComTypeOK, ComRequest
  <1> QED BY <1>1, ComInvariant, PTL

----------------------------------------------------------------------------
(* Billing.                                                                *)

\* The columns of an invoice that add up: the discount comes off the tuition, and the
\* rest of the amount is a lodging fee or nothing.
AddsUp(row) ==
    /\ row \in Invoice /\ row.discount <= row.tuition
    /\ row.amount = row.tuition \/ row.amount = row.tuition + LodgingFee

\* The keys of the scholarships, one for each student.
AwardKeys == {<<s>> : s \in Payers}

BilOps == {"none", "batch", "single", "refused", "aborted", "fee", "award", "saved"}

\* What each column of a request's state holds.
BilCallOK(call) ==
    /\ call \in [do : BilOps, roll : SUBSET Payers, todo : SUBSET Payers, created : SUBSET Payers,
                 skipped : SUBSET Payers, unpriced : SUBSET Payers,
                 ready : Invoice \cup FeeStructure \cup Scholarship \cup {Nothing},
                 on : FeeKeys \cup AwardKeys \cup {Nothing}]
    /\ call.do = "fee" => call.on \in FeeKeys /\ call.ready \in FeeStructure
    /\ call.do = "award" => call.on \in AwardKeys /\ call.ready \in Scholarship
    /\ call.do \in {"batch", "single"} => call.ready = Nothing \/ AddsUp(call.ready)
    /\ call.do \in {"none", "fee", "award"} =>
          call.roll = {} /\ call.todo = {} /\ call.created = {} /\ call.skipped = {} /\ call.unpriced = {}
    /\ call.do = "aborted" => call.todo # {}
    /\ call.todo \subseteq call.roll
    /\ call.roll \ call.todo = call.created \cup call.skipped \cup call.unpriced

BilType ==
    /\ roll \subseteq Payers /\ lodged \subseteq Payers
    /\ fee \in [FeeKeys -> FeeStructure \cup {Nothing}]
    /\ award \in [Payers -> Scholarship \cup {Nothing}]
    /\ bill \in [Payers -> Invoice \cup {Nothing}]
    /\ DOMAIN bilCall = BilCalls /\ bilCall = [c \in BilCalls |-> bilCall[c]]
    /\ \A c \in BilCalls : BilCallOK(bilCall[c])

\* Another request than c issued the invoice of s.
ByAnother(c, s, calls) == \E d \in BilCalls : d # c /\ s \in calls[d].created

\* An invoice adds up and one request issued it, no invoice was issued by none; a
\* request passes over, or breaks off at, a student whom another one billed.
BilInv ==
    /\ BilType
    /\ \A s \in Payers : bill[s] # Nothing =>
          /\ AddsUp(bill[s])
          /\ \E c \in BilCalls : s \in bilCall[c].created /\ ~ByAnother(c, s, bilCall)
    /\ \A s \in Payers, c \in BilCalls : s \in bilCall[c].created => bill[s] # Nothing
    /\ \A c \in BilCalls :
          /\ \A s \in bilCall[c].skipped : ByAnother(c, s, bilCall)
          /\ bilCall[c].do = "aborted" => ByAnother(c, Min(bilCall[c].todo), bilCall)

\* The student a request is at is one it still has to do.
LEMMA MinIsMember ==
    ASSUME NEW todo \in SUBSET Payers, todo # {}
    PROVE  Min(todo) \in todo
  <1>1. todo \in SUBSET Nat
    BY BillingAssumption
  <1>2. \E n \in todo : \A m \in todo : n <= m
    BY <1>1, LeastNumber
  <1> QED BY <1>2 DEF Min

\* A discount is a number and takes off no more than what it is taken from.
LEMMA DiscountIsBounded ==
    ASSUME NEW a \in Scholarship, NEW amount \in Nat
    PROVE  DiscountFor(a, amount) \in Nat /\ DiscountFor(a, amount) <= amount
  <1>1. a.coverage \in {"percentage", "fixed_amount"} /\ a.value \in Nat
    BY BillingAssumption DEF Scholarship
  <1>2. PICK v \in Nat : v = a.value
    BY <1>1
  <1>3. PICK n \in Nat : n = amount * v
    OBVIOUS
  <1>4. PICK q \in Nat : q = n \div 100
    OBVIOUS
  <1>5. HalfEven(n, 100) \in {q, q + 1}
    BY <1>4 DEF HalfEven
  <1>6. HalfEven(n, 100) \in Nat
    BY <1>5
  <1>7. CASE a.coverage = "percentage"
    <2>1. DiscountFor(a, amount) = IF HalfEven(n, 100) < amount THEN HalfEven(n, 100) ELSE amount
      BY <1>2, <1>3, <1>7 DEF DiscountFor
    <2> QED BY <1>6, <2>1
  <1>8. CASE a.coverage = "fixed_amount"
    <2>1. DiscountFor(a, amount) = IF v < amount THEN v ELSE amount
      BY <1>2, <1>8 DEF DiscountFor
    <2> QED BY <2>1
  <1> QED BY <1>1, <1>7, <1>8

\* What generate_invoice puts together adds up.
LEMMA PriceAddsUp ==
    ASSUME BilType, NEW s \in Payers, Priced(s)
    PROVE  AddsUp(Price(s))
  <1>1. FeeKey(s) \in FeeKeys
    BY DEF FeeKeys
  <1>2. fee[FeeKey(s)] \in FeeStructure
    BY <1>1 DEF BilType, Priced
  <1>3. PICK tuition \in Nat : tuition = fee[FeeKey(s)].amount
    BY <1>2, BillingAssumption DEF FeeStructure
  <1>4. PICK d : d = IF award[s] # Nothing /\ award[s].is_active THEN DiscountFor(award[s], tuition) ELSE 0
    OBVIOUS
  <1>5. d \in Nat /\ d <= tuition
    <2>1. CASE award[s] # Nothing /\ award[s].is_active
      <3>1. award[s] \in Scholarship
        BY <2>1 DEF BilType
      <3>2. DiscountFor(award[s], tuition) \in Nat /\ DiscountFor(award[s], tuition) <= tuition
        BY <1>3, <3>1, DiscountIsBounded
      <3> QED BY <1>4, <2>1, <3>2
    <2>2. CASE ~(award[s] # Nothing /\ award[s].is_active)
      BY <1>4, <2>2
    <2> QED BY <2>1, <2>2
  <1>6. PICK h \in Nat : h = HostelFeeFor(s) /\ (h = 0 \/ h = LodgingFee)
    BY BillingAssumption DEF HostelFeeFor
  <1>7. Price(s) = [tuition |-> tuition, amount |-> tuition + h, discount |-> d]
    BY <1>3, <1>4, <1>6 DEF Price
  <1> HIDE <1>3, <1>4
  <1> QED BY <1>5, <1>6, <1>7 DEF AddsUp, Invoice

\* A step that moves one request on and issues nothing.
LEMMA BilCallStep ==
    ASSUME BilInv, NEW c \in BilCalls, NEW new, BilCallOK(new),
           bilCall' = [bilCall EXCEPT ![c] = new], bill' = bill,
           roll' \subseteq Payers, lodged' \subseteq Payers,
           fee' \in [FeeKeys -> FeeStructure \cup {Nothing}],
           award' \in [Payers -> Scholarship \cup {Nothing}],
           new.created = bilCall[c].created,
           \A s \in new.skipped : ByAnother(c, s, bilCall),
           new.do = "aborted" => ByAnother(c, Min(new.todo), bilCall)
    PROVE  BilInv'
  <1>1. /\ DOMAIN bilCall = BilCalls /\ bilCall = [d \in BilCalls |-> bilCall[d]]
        /\ \A d \in BilCalls : BilCallOK(bilCall[d])
        /\ bill \in [Payers -> Invoice \cup {Nothing}]
    BY DEF BilInv, BilType
  <1>2. /\ \A d \in BilCalls : bilCall'[d] = IF d = c THEN new ELSE bilCall[d]
        /\ DOMAIN bilCall' = BilCalls /\ bilCall' = [d \in BilCalls |-> bilCall'[d]]
    BY <1>1
  <1>3. BilType'
    BY <1>1, <1>2 DEF BilType
  <1>4. \A d \in BilCalls : bilCall'[d].created = bilCall[d].created
    BY <1>2
  <1>5. \A d \in BilCalls : \A s : ByAnother(d, s, bilCall') <=> ByAnother(d, s, bilCall)
    BY <1>4 DEF ByAnother
  <1>6. \A s \in Payers : bill'[s] # Nothing =>
           /\ AddsUp(bill'[s])
           /\ \E d \in BilCalls : s \in bilCall'[d].created /\ ~ByAnother(d, s, bilCall')
    BY <1>4, <1>5 DEF BilInv
  <1>7. \A s \in Payers, d \in BilCalls : s \in bilCall'[d].created => bill'[s] # Nothing
    BY <1>4 DEF BilInv
  <1>8. ASSUME NEW d \in BilCalls
        PROVE  /\ \A s \in bilCall'[d].skipped : ByAnother(d, s, bilCall')
               /\ bilCall'[d].do = "aborted" => ByAnother(d, Min(bilCall'[d].todo), bilCall')
    <2>1. CASE d = c
      BY <1>2, <1>5, <2>1
    <2>2. CASE d # c
      BY <1>2, <1>5, <2>2 DEF BilInv
    <2> QED BY <2>1, <2>2
  <1> QED BY <1>3, <1>6, <1>7, <1>8 DEF BilInv

\* A step that leaves requests and invoices alone.
LEMMA BilTableStep ==
    ASSUME BilInv, bilCall' = bilCall, bill' = bill,
           roll' \subseteq Payers, lodged' \subseteq Payers,
           fee' \in [FeeKeys -> FeeStructure \cup {Nothing}],
           award' \in [Payers -> Scholarship \cup {Nothing}]
    PROVE  BilInv'
  <1>1. BilType'
    BY DEF BilInv, BilType
  <1> QED BY <1>1 DEF BilInv

\* An invoice already there was issued by a request other than one still at the student.
LEMMA BilledByAnother ==
    ASSUME BilInv, NEW c \in BilCalls, NEW s \in bilCall[c].todo, bill[s] # Nothing
    PROVE  ByAnother(c, s, bilCall)
  <1>1. BilCallOK(bilCall[c])
    BY DEF BilInv, BilType
  <1>2. s \in Payers /\ s \notin bilCall[c].created
    BY <1>1 DEF BilCallOK
  <1>3. PICK d \in BilCalls : s \in bilCall[d].created
    BY <1>2 DEF BilInv
  <1> QED BY <1>2, <1>3 DEF ByAnother

\* The idle state of a request.
LEMMA BilIdleOK ==
    /\ BilCallOK(BilIdle) /\ BilIdle.do = "none" /\ BilIdle.created = {} /\ BilIdle.skipped = {}
    /\ BilIdle \in [do : BilOps, roll : SUBSET Payers, todo : SUBSET Payers, created : SUBSET Payers,
                    skipped : SUBSET Payers, unpriced : SUBSET Payers,
                    ready : Invoice \cup FeeStructure \cup Scholarship \cup {Nothing},
                    on : FeeKeys \cup AwardKeys \cup {Nothing}]
    /\ BilIdle.roll = {} /\ BilIdle.todo = {} /\ BilIdle.unpriced = {}
  BY DEF BilIdle, BilCallOK, BilOps

\* Every operation of billing keeps the invariant.
LEMMA BilStep == BilInv /\ [BilNext]_bilVars => BilInv'
  <1> SUFFICES ASSUME BilInv, [BilNext]_bilVars PROVE BilInv'
    OBVIOUS
  <1>0. /\ roll \subseteq Payers /\ lodged \subseteq Payers
        /\ fee \in [FeeKeys -> FeeStructure \cup {Nothing}]
        /\ award \in [Payers -> Scholarship \cup {Nothing}]
        /\ bill \in [Payers -> Invoice \cup {Nothing}]
        /\ \A c \in BilCalls : BilCallOK(bilCall[c])
        /\ DOMAIN bilCall = BilCalls /\ bilCall = [c \in BilCalls |-> bilCall[c]]
    BY DEF BilInv, BilType
  <1>b. \A k \in Coverages, b \in BOOLEAN :
           [coverage |-> k.coverage, value |-> k.value, is_active |-> b] \in Scholarship
    BY DEF Scholarship
  <1>1. ASSUME NEW k \in FeeKeys, NEW a \in Amounts, CreateFeeStructure(k, a)
        PROVE  BilInv'
    <2>1. [amount |-> a, is_active |-> TRUE] \in FeeStructure
      BY DEF FeeStructure
    <2>2. fee' \in [FeeKeys -> FeeStructure \cup {Nothing}]
      BY <1>0, <1>1, <2>1 DEF CreateFeeStructure
    <2> QED BY <1>0, <1>1, <2>2, BilTableStep DEF CreateFeeStructure
  <1>2. ASSUME NEW s \in Payers, NEW k \in Coverages, CreateScholarship(s, k)
        PROVE  BilInv'
    <2>1. [coverage |-> k.coverage, value |-> k.value, is_active |-> TRUE] \in Scholarship
      BY <1>b, Zenon
    <2>2. award' \in [Payers -> Scholarship \cup {Nothing}]
      BY <1>0, <1>2, <2>1 DEF CreateScholarship
    <2> QED BY <1>0, <1>2, <2>2, BilTableStep DEF CreateScholarship
  <1>3. ASSUME NEW s \in Payers, RollChanges(s)
        PROVE  BilInv'
    <2>1. roll' \subseteq Payers
      BY <1>0, <1>3 DEF RollChanges
    <2> QED BY <1>0, <1>3, <2>1, BilTableStep DEF RollChanges
  <1>4. ASSUME NEW c \in BilCalls, NEW what \in {"fee", "award"}, NEW row, NEW on,
               what = "fee" => on \in FeeKeys /\ row \in FeeStructure,
               what = "award" => on \in AwardKeys /\ row \in Scholarship,
               Edit(c, what, row, on)
        PROVE  BilInv'
    <2>1. PICK new : new = [BilIdle EXCEPT !.do = what, !.ready = row, !.on = on]
      OBVIOUS
    <2>2. /\ bilCall[c] = BilIdle /\ bilCall' = [bilCall EXCEPT ![c] = new]
          /\ UNCHANGED <<roll, lodged, fee, award, bill>>
      BY <1>4, <2>1 DEF Edit
    <2>3. BilCallOK(new) /\ new.created = {} /\ new.skipped = {} /\ new.do # "aborted"
      BY <1>4, <2>1 DEF BilIdle, BilCallOK, BilOps
    <2> QED BY <1>0, <2>2, <2>3, BilIdleOK, BilCallStep
  <1>5. ASSUME NEW c \in BilCalls, NEW k \in FeeKeys, LoadFeeStructure(c, k)
        PROVE  BilInv'
    <2>1. fee[k] \in FeeStructure
      BY <1>0, <1>5 DEF LoadFeeStructure
    <2>2. \A a \in Amounts : [fee[k] EXCEPT !.amount = a] \in FeeStructure
      BY <2>1 DEF FeeStructure
    <2>3. [fee[k] EXCEPT !.is_active = ~@] \in FeeStructure
      <3>1. PICK b \in BOOLEAN : b = ~fee[k].is_active
        OBVIOUS
      <3> QED BY <2>1, <3>1 DEF FeeStructure
    <2>4. \E row \in FeeStructure : Edit(c, "fee", row, k)
      BY <1>5, <2>2, <2>3 DEF LoadFeeStructure
    <2> QED BY <1>4, <2>4
  <1>6. ASSUME NEW c \in BilCalls, NEW s \in Payers, LoadScholarship(c, s)
        PROVE  BilInv'
    <2>1. award[s] \in Scholarship
      BY <1>0, <1>6 DEF LoadScholarship
    <2>2. PICK h \in Coverages, act \in BOOLEAN :
             award[s] = [coverage |-> h.coverage, value |-> h.value, is_active |-> act]
      BY <2>1 DEF Scholarship
    <2>3. ASSUME NEW k \in Coverages, k.coverage = award[s].coverage
          PROVE  [award[s] EXCEPT !.value = k.value] \in Scholarship
      <3>1. [award[s] EXCEPT !.value = k.value] =
               [coverage |-> k.coverage, value |-> k.value, is_active |-> act]
        BY <2>2, <2>3
      <3> QED BY <2>2, <3>1 DEF Scholarship
    <2>4. [award[s] EXCEPT !.is_active = ~@] \in Scholarship
      <3>1. PICK b \in BOOLEAN : b = ~award[s].is_active
        OBVIOUS
      <3>2. [award[s] EXCEPT !.is_active = b] = [coverage |-> h.coverage, value |-> h.value, is_active |-> b]
        BY <2>2
      <3>3. [coverage |-> h.coverage, value |-> h.value, is_active |-> b] \in Scholarship
        BY <1>b, <2>2, <3>1
      <3> QED BY <3>1, <3>2, <3>3
    <2>5. \E row \in Scholarship : Edit(c, "award", row, <<s>>)
      BY <1>6, <2>3, <2>4 DEF LoadScholarship
    <2> QED BY <1>4, <2>5 DEF AwardKeys
  <1>7. ASSUME NEW c \in BilCalls, NEW what \in {"batch", "single"}, NEW whom \in SUBSET Payers,
               Generate(c, what, whom)
        PROVE  BilInv'
    <2>1. PICK new : new = [BilIdle EXCEPT !.do = what, !.roll = whom, !.todo = whom]
      OBVIOUS
    <2>2. /\ bilCall[c] = BilIdle /\ bilCall' = [bilCall EXCEPT ![c] = new]
          /\ UNCHANGED <<roll, lodged, fee, award, bill>>
      BY <1>7, <2>1 DEF Generate
    <2>3. BilCallOK(new) /\ new.created = {} /\ new.skipped = {} /\ new.do # "aborted"
      BY <1>7, <2>1 DEF BilIdle, BilCallOK, BilOps
    <2> QED BY <1>0, <2>2, <2>3, BilIdleOK, BilCallStep
  <1>8. ASSUME NEW c \in BilCalls, SaveEdit(c)
        PROVE  BilInv'
    <2>1. PICK new : new = [BilIdle EXCEPT !.do = "saved"]
      OBVIOUS
    <2>2. /\ bilCall[c].do \in {"fee", "award"} /\ bilCall' = [bilCall EXCEPT ![c] = new]
          /\ fee' = IF bilCall[c].do = "fee" THEN [fee EXCEPT ![bilCall[c].on] = bilCall[c].ready] ELSE fee
          /\ award' = IF bilCall[c].do = "award" THEN [award EXCEPT ![bilCall[c].on[1]] = bilCall[c].ready]
                      ELSE award
          /\ UNCHANGED <<roll, lodged, bill>>
      BY <1>8, <2>1 DEF SaveEdit
    <2>3. BilCallOK(new) /\ new.created = {} /\ new.skipped = {} /\ new.do # "aborted"
      BY <2>1 DEF BilIdle, BilCallOK, BilOps
    <2>4. BilCallOK(bilCall[c])
      BY <1>0
    <2>5. bilCall[c].created = {}
      BY <2>2, <2>4 DEF BilCallOK
    <2>7. bilCall[c].do = "award" => bilCall[c].on[1] \in Payers
      BY <2>4 DEF BilCallOK, AwardKeys
    <2>6. /\ fee' \in [FeeKeys -> FeeStructure \cup {Nothing}]
          /\ award' \in [Payers -> Scholarship \cup {Nothing}]
      BY <1>0, <2>2, <2>4, <2>7 DEF BilCallOK
    <2> QED BY <1>0, <2>2, <2>3, <2>5, <2>6, BilCallStep
  <1>a. ASSUME NEW c \in BilCalls, Invoicing(c)
        PROVE  /\ AtStudent(c) \in bilCall[c].todo /\ AtStudent(c) \in Payers
               /\ BilCallOK(bilCall[c]) /\ bilCall[c].do \in {"batch", "single"}
    <2>1. BilCallOK(bilCall[c])
      BY <1>0
    <2>2. bilCall[c].todo \in SUBSET Payers
      BY <2>1 DEF BilCallOK
    <2>3. bilCall[c].todo # {} /\ bilCall[c].do \in {"batch", "single"}
      BY <1>a DEF Invoicing
    <2>4. AtStudent(c) \in bilCall[c].todo
      BY <2>2, <2>3, MinIsMember DEF AtStudent
    <2> QED BY <2>1, <2>2, <2>3, <2>4
  <1>9. ASSUME NEW c \in BilCalls, PrepareInvoice(c)
        PROVE  BilInv'
    <2>1. PICK s : s = AtStudent(c)
      OBVIOUS
    <2>2. PICK call : call = bilCall[c]
      OBVIOUS
    <2>3. /\ Invoicing(c) /\ call.ready = Nothing
          /\ UNCHANGED <<roll, lodged, fee, award, bill>>
          /\ bilCall' = [bilCall EXCEPT ![c] =
                IF bill[s] # Nothing
                THEN Skip(call, [call EXCEPT !.todo = @ \ {s}, !.skipped = @ \cup {s}])
                ELSE IF ~Priced(s)
                THEN Skip(call, [call EXCEPT !.todo = @ \ {s}, !.unpriced = @ \cup {s}])
                ELSE [call EXCEPT !.ready = Price(s)]]
      BY <1>9, <2>1, <2>2 DEF PrepareInvoice
    <2>4. s \in call.todo /\ s \in Payers /\ BilCallOK(call) /\ call.do \in {"batch", "single"}
      BY <1>a, <2>1, <2>2, <2>3
    <2>5. /\ \A q \in call.skipped : ByAnother(c, q, bilCall)
          /\ bill[s] # Nothing => ByAnother(c, s, bilCall)
      BY <2>2, <2>4, BilledByAnother DEF BilInv
    <2>6. CASE call.do = "single" /\ (bill[s] # Nothing \/ ~Priced(s))
      <3>1. PICK new : new = [call EXCEPT !.do = "refused"]
        OBVIOUS
      <3>2. bilCall' = [bilCall EXCEPT ![c] = new]
        BY <2>3, <2>6, <3>1 DEF Skip
      <3>3. /\ BilCallOK(new) /\ new.created = call.created /\ new.skipped = call.skipped
            /\ new.do # "aborted"
        BY <2>4, <3>1 DEF BilCallOK, BilOps
      <3> QED BY <1>0, <2>2, <2>3, <2>5, <3>2, <3>3, BilCallStep
    <2>7. CASE call.do = "batch" /\ bill[s] # Nothing
      <3>1. PICK new : new = [call EXCEPT !.todo = @ \ {s}, !.skipped = @ \cup {s}]
        OBVIOUS
      <3>2. bilCall' = [bilCall EXCEPT ![c] = new]
        BY <2>3, <2>7, <3>1 DEF Skip
      <3>3. /\ BilCallOK(new) /\ new.created = call.created /\ new.skipped = call.skipped \cup {s}
            /\ new.do # "aborted"
        BY <2>4, <2>7, <3>1 DEF BilCallOK, BilOps
      <3>4. \A q \in new.skipped : ByAnother(c, q, bilCall)
        BY <2>5, <2>7, <3>3
      <3> QED BY <1>0, <2>2, <2>3, <3>2, <3>3, <3>4, BilCallStep
    <2>8. CASE call.do = "batch" /\ bill[s] = Nothing /\ ~Priced(s)
      <3>1. PICK new : new = [call EXCEPT !.todo = @ \ {s}, !.unpriced = @ \cup {s}]
        OBVIOUS
      <3>2. bilCall' = [bilCall EXCEPT ![c] = new]
        BY <2>3, <2>8, <3>1 DEF Skip
      <3>3. /\ BilCallOK(new) /\ new.created = call.created /\ new.skipped = call.skipped
            /\ new.do # "aborted"
        BY <2>4, <2>8, <3>1 DEF BilCallOK, BilOps
      <3> QED BY <1>0, <2>2, <2>3, <2>5, <3>2, <3>3, BilCallStep
    <2>9. CASE bill[s] = Nothing /\ Priced(s)
      <3>1. PICK price : price = Price(s)
        OBVIOUS
      <3>2. PICK new : new = [call EXCEPT !.ready = price]
        OBVIOUS
      <3>3. bilCall' = [bilCall EXCEPT ![c] = new]
        BY <2>3, <2>9, <3>1, <3>2
      <3>4. AddsUp(price) /\ price \in Invoice
        BY <2>4, <2>9, <3>1, PriceAddsUp DEF BilInv, AddsUp
      <3>5. /\ BilCallOK(new) /\ new.created = call.created /\ new.skipped = call.skipped
            /\ new.do # "aborted"
        BY <2>4, <3>2, <3>4 DEF BilCallOK, BilOps
      <3> QED BY <1>0, <2>2, <2>3, <2>5, <3>3, <3>5, BilCallStep
    <2> QED BY <2>4, <2>6, <2>7, <2>8, <2>9
  <1>10. ASSUME NEW c \in BilCalls, InsertInvoice(c)
         PROVE  BilInv'
    <2>1. PICK s : s = AtStudent(c)
      OBVIOUS
    <2>2. PICK call : call = bilCall[c]
      OBVIOUS
    <2>3. /\ Invoicing(c) /\ call.ready # Nothing
          /\ UNCHANGED <<roll, lodged, fee, award>>
      BY <1>10, <2>1, <2>2 DEF InsertInvoice
    <2>4. /\ s \in call.todo /\ s \in Payers /\ BilCallOK(call) /\ call.do \in {"batch", "single"}
          /\ s = Min(call.todo)
      BY <1>a, <2>1, <2>2, <2>3 DEF AtStudent
    <2>5. CASE bill[s] # Nothing
      <3>1. PICK new : new = [call EXCEPT !.do = "aborted", !.ready = Nothing]
        OBVIOUS
      <3>2. bilCall' = [bilCall EXCEPT ![c] = new] /\ bill' = bill
        BY <1>10, <2>1, <2>2, <2>5, <3>1 DEF InsertInvoice
      <3>3. /\ BilCallOK(new) /\ new.created = call.created /\ new.skipped = call.skipped
            /\ new.todo = call.todo
        BY <2>4, <3>1 DEF BilCallOK, BilOps
      <3>4. /\ \A q \in new.skipped : ByAnother(c, q, bilCall)
            /\ ByAnother(c, Min(new.todo), bilCall)
        BY <2>2, <2>4, <2>5, <3>3, BilledByAnother DEF BilInv
      <3> QED BY <1>0, <2>2, <2>3, <3>2, <3>3, <3>4, BilCallStep
    <2>6. CASE bill[s] = Nothing
      <3>1. PICK new : new = [call EXCEPT !.todo = @ \ {s}, !.created = @ \cup {s}, !.ready = Nothing]
        OBVIOUS
      <3>2. bilCall' = [bilCall EXCEPT ![c] = new] /\ bill' = [bill EXCEPT ![s] = call.ready]
        BY <1>10, <2>1, <2>2, <2>6, <3>1 DEF InsertInvoice
      <3>a. /\ new.created = call.created \cup {s} /\ new.skipped = call.skipped
            /\ new.do = call.do /\ new.todo = call.todo \ {s} /\ new.roll = call.roll
            /\ new.unpriced = call.unpriced /\ new.ready = Nothing
            /\ new \in [do : BilOps, roll : SUBSET Payers, todo : SUBSET Payers,
                       created : SUBSET Payers, skipped : SUBSET Payers, unpriced : SUBSET Payers,
                       ready : Invoice \cup FeeStructure \cup Scholarship \cup {Nothing},
                       on : FeeKeys \cup AwardKeys \cup {Nothing}]
        BY <2>4, <3>1 DEF BilCallOK
      <3>b. /\ new.todo \subseteq new.roll
            /\ new.roll \ new.todo = new.created \cup new.skipped \cup new.unpriced
        BY <2>4, <3>a DEF BilCallOK
      <3>3. /\ BilCallOK(new) /\ new.created = call.created \cup {s} /\ new.skipped = call.skipped
            /\ new.do = call.do
        BY <2>4, <3>a, <3>b DEF BilCallOK
      <3>4. AddsUp(call.ready) /\ call.ready \in Invoice
        BY <2>3, <2>4 DEF BilCallOK, AddsUp
      <3>5. \A d \in BilCalls : bilCall'[d] = IF d = c THEN new ELSE bilCall[d]
        BY <1>0, <3>2
      <3>6. DOMAIN bilCall' = BilCalls /\ bilCall' = [d \in BilCalls |-> bilCall'[d]]
        BY <1>0, <3>2
      <3>7. \A q \in Payers : bill'[q] = IF q = s THEN call.ready ELSE bill[q]
        BY <1>0, <3>2
      <3>8. bill' \in [Payers -> Invoice \cup {Nothing}]
        BY <1>0, <3>2, <3>4
      <3>9. \A d \in BilCalls : BilCallOK(bilCall'[d])
        BY <1>0, <3>3, <3>5
      <3>10. BilType'
        BY <1>0, <2>3, <3>6, <3>8, <3>9 DEF BilType
      <3>11. \A d \in BilCalls : bilCall'[d].created =
                IF d = c THEN bilCall[d].created \cup {s} ELSE bilCall[d].created
        BY <2>2, <3>3, <3>5
      <3>12. \A d \in BilCalls : s \notin bilCall[d].created
        BY <2>4, <2>6 DEF BilInv
      <3>13. \A d \in BilCalls : \A q : ByAnother(d, q, bilCall) => ByAnother(d, q, bilCall')
        BY <3>11 DEF ByAnother
      <3>14. \A d \in BilCalls : \A q : q # s /\ ByAnother(d, q, bilCall') => ByAnother(d, q, bilCall)
        BY <3>11 DEF ByAnother
      <3>15. s \in bilCall'[c].created /\ ~ByAnother(c, s, bilCall')
        BY <3>11, <3>12 DEF ByAnother
      <3>16. ASSUME NEW q \in Payers, bill'[q] # Nothing
             PROVE  /\ AddsUp(bill'[q])
                    /\ \E d \in BilCalls : q \in bilCall'[d].created /\ ~ByAnother(d, q, bilCall')
        <4>1. CASE q = s
          BY <3>4, <3>7, <3>15, <4>1
        <4>2. CASE q # s
          <5>1. bill[q] # Nothing /\ bill'[q] = bill[q]
            BY <3>7, <3>16, <4>2
          <5>2. PICK d \in BilCalls : q \in bilCall[d].created /\ ~ByAnother(d, q, bilCall)
            BY <5>1 DEF BilInv
          <5>3. q \in bilCall'[d].created /\ ~ByAnother(d, q, bilCall')
            BY <3>11, <3>14, <4>2, <5>2
          <5>4. AddsUp(bill[q])
            BY <5>1 DEF BilInv
          <5> QED BY <5>1, <5>3, <5>4
        <4> QED BY <4>1, <4>2
      <3>17. \A q \in Payers, d \in BilCalls : q \in bilCall'[d].created => bill'[q] # Nothing
        <4>1. \A q \in Payers, d \in BilCalls : q \in bilCall[d].created => bill[q] # Nothing
          BY DEF BilInv
        <4> QED BY <2>3, <3>7, <3>11, <4>1
      <3>18. ASSUME NEW d \in BilCalls
             PROVE  /\ \A q \in bilCall'[d].skipped : ByAnother(d, q, bilCall')
                    /\ bilCall'[d].do = "aborted" => ByAnother(d, Min(bilCall'[d].todo), bilCall')
        <4>1. /\ bilCall'[d].skipped = bilCall[d].skipped
              /\ bilCall'[d].do = "aborted" => d # c /\ bilCall'[d] = bilCall[d]
          BY <2>2, <2>4, <3>3, <3>5
        <4>2. /\ \A q \in bilCall[d].skipped : ByAnother(d, q, bilCall)
              /\ bilCall[d].do = "aborted" => ByAnother(d, Min(bilCall[d].todo), bilCall)
          BY DEF BilInv
        <4> QED BY <3>13, <4>1, <4>2
      <3> QED BY <3>10, <3>16, <3>17, <3>18 DEF BilInv
    <2> QED BY <2>5, <2>6
  <1>11. CASE UNCHANGED bilVars
    BY <1>0, <1>11, BilTableStep DEF bilVars
  <1>12. \A c \in BilCalls :
            /\ Generate(c, "batch", roll) => BilInv'
            /\ \A s \in Payers : Generate(c, "single", {s}) => BilInv'
    <2>1. roll \in SUBSET Payers /\ \A s \in Payers : {s} \in SUBSET Payers
      BY <1>0
    <2> QED BY <1>7, <2>1
  <1> QED BY <1>1, <1>2, <1>3, <1>5, <1>6, <1>8, <1>9, <1>10, <1>11, <1>12 DEF BilNext

\* Billing keeps its invariant.
LEMMA BilInvariant == BilSpec => []BilInv
  <1>1. BilInit => BilInv
    <2> SUFFICES ASSUME BilInit PROVE BilInv
      OBVIOUS
    <2>1. /\ roll \subseteq Payers /\ lodged \subseteq Payers
          /\ fee = [k \in FeeKeys |-> Nothing] /\ award = [s \in Payers |-> Nothing]
          /\ bill = [s \in Payers |-> Nothing] /\ bilCall = [c \in BilCalls |-> BilIdle]
      BY DEF BilInit
    <2>2. \A c \in BilCalls : bilCall[c] = BilIdle
      BY <2>1
    <2>3. BilType
      BY <2>1, <2>2, BilIdleOK DEF BilType
    <2> QED BY <2>1, <2>2, <2>3, BilIdleOK DEF BilInv
  <1> QED BY <1>1, BilStep, PTL DEF BilSpec

\* However many requests bill at the same time and wherever a batch stops, an invoice
\* comes from one request and adds up, and a batch answers for everybody it has passed.
THEOREM BillingStaysSound == BilSpec => []BillingIsSound
  <1>1. BilInv => BillingIsSound
    <2> SUFFICES ASSUME BilInv PROVE BillingIsSound
      OBVIOUS
    <2>1. ASSUME NEW s \in Payers
          PROVE  /\ Cardinality({c \in BilCalls : s \in bilCall[c].created})
                       = IF bill[s] = Nothing THEN 0 ELSE 1
                 /\ bill[s] # Nothing =>
                       /\ bill[s].discount <= bill[s].tuition
                       /\ bill[s].amount - bill[s].tuition \in {0, LodgingFee}
      <3>1. CASE bill[s] = Nothing
        <4>1. {c \in BilCalls : s \in bilCall[c].created} = {}
          BY <3>1 DEF BilInv
        <4> QED BY <3>1, <4>1, FS_EmptySet
      <3>2. CASE bill[s] # Nothing
        <4>1. PICK d \in BilCalls : s \in bilCall[d].created /\ ~ByAnother(d, s, bilCall)
          BY <3>2 DEF BilInv
        <4>2. {c \in BilCalls : s \in bilCall[c].created} = {d}
          BY <4>1 DEF ByAnother
        <4>3. Cardinality({d}) = 1
          BY FS_Singleton
        <4>4. AddsUp(bill[s])
          BY <3>2 DEF BilInv
        <4>5. PICK t \in Nat : t = bill[s].tuition
          BY <4>4 DEF AddsUp, Invoice
        <4>6. /\ bill[s].discount <= t /\ LodgingFee \in Nat
              /\ bill[s].amount = t \/ bill[s].amount = t + LodgingFee
          BY <4>4, <4>5, BillingAssumption DEF AddsUp
        <4>7. bill[s].amount - t = 0 \/ bill[s].amount - t = LodgingFee
          BY <4>5, <4>6
        <4> QED BY <3>2, <4>2, <4>3, <4>5, <4>6, <4>7
      <3> QED BY <3>1, <3>2
    <2>2. ASSUME NEW c \in BilCalls, NEW others,
                 others = UNION {bilCall[d].created : d \in BilCalls \ {c}}
          PROVE  /\ bilCall[c].roll \ bilCall[c].todo =
                       bilCall[c].created \cup bilCall[c].skipped \cup bilCall[c].unpriced
                 /\ bilCall[c].skipped \subseteq others
                 /\ bilCall[c].do = "aborted" => AtStudent(c) \in others
      <3>1. \A s : ByAnother(c, s, bilCall) => s \in others
        BY <2>2 DEF ByAnother
      <3>2. BilCallOK(bilCall[c])
        BY DEF BilInv, BilType
      <3>3. bilCall[c].roll \ bilCall[c].todo =
               bilCall[c].created \cup bilCall[c].skipped \cup bilCall[c].unpriced
        BY <3>2 DEF BilCallOK
      <3>4. /\ \A s \in bilCall[c].skipped : ByAnother(c, s, bilCall)
            /\ bilCall[c].do = "aborted" => ByAnother(c, AtStudent(c), bilCall)
        BY DEF BilInv, AtStudent
      <3> QED BY <3>1, <3>3, <3>4
    <2> QED BY <2>1, <2>2 DEF BillingIsSound
  <1> QED BY <1>1, BilInvariant, PTL

\* The tables of billing keep their types.
THEOREM BillingTypes == BilSpec => []BilTypeOK
  <1>1. BilInv => BilTypeOK
    <2> SUFFICES ASSUME BilInv PROVE BilTypeOK
      OBVIOUS
    <2>1. \A c \in BilCalls : bilCall[c].do \in BilOps /\ bilCall[c].todo \subseteq bilCall[c].roll
      BY DEF BilInv, BilType, BilCallOK
    <2> QED BY <2>1 DEF BilInv, BilType, BilTypeOK, BilOps
  <1> QED BY <1>1, BilInvariant, PTL

----------------------------------------------------------------------------
(* Accounts.                                                               *)

\* An entry of the trail, and the state of a request.
AccEntry == [what : {"grant", "revoke", "delete"}, on : Users, role : SUBSET Codes,
             actor : Users \cup {NoUser}]
RoleSteps == {"grant", "revoke", "revoking", "too_late"}
AccRequest == [do : RoleSteps \cup {"none", "resync", "delete"}, by : Users \cup {NoUser},
               on : Users \cup {NoUser}, role : SUBSET Codes, stale : BOOLEAN]

AccInvType ==
    /\ accounts \subseteq Users
    /\ assigned \in [Users -> SUBSET Codes] /\ groups \in [Users -> SUBSET Codes]
    /\ trail \in Seq(AccEntry)
    /\ accCall \in [AccCalls -> AccRequest]

\* A request is about one role of one user; the roles a repair read are the user's
\* roles unless a change committed since, or the admin changed the user.
AccCallsAgree ==
    \A c \in AccCalls :
        /\ accCall[c].do \in RoleSteps =>
              accCall[c].on \in Users /\ \E r \in Codes : accCall[c].role = {r}
        /\ accCall[c].do \in {"resync", "delete"} => accCall[c].on \in Users
        /\ accCall[c].do \in RoleSteps \cup {"delete"} => accCall[c].by \in Users
        /\ accCall[c].do = "resync" /\ accCall[c].on \in accounts \ byHand =>
              accCall[c].stale \/ accCall[c].role = assigned[accCall[c].on]

\* Of a user neither an overtaken request nor the admin wrote to, assignment, group and
\* last entry agree.
RolesAgree(u, has, member, log, lost) ==
    /\ member = has
    /\ \A role \in Codes : <<u, {role}>> \notin lost => (role \in has <=> LastIsGrant(log, u, role))

AccInv ==
    /\ AccInvType /\ AccCallsAgree
    /\ \A u \in accounts \ (accRaced \cup byHand) : RolesAgree(u, assigned[u], groups[u], trail, missed)

\* A new entry decides about its own role and about no other.
LEMMA NewEntryDecides ==
    ASSUME NEW log \in Seq(AccEntry), NEW e \in AccEntry, NEW u, NEW role
    PROVE  LastIsGrant(Append(log, e), u, role) <=>
              IF e.on = u /\ e.role = {role} THEN e.what = "grant" ELSE LastIsGrant(log, u, role)
  <1>1. PICK n \in Nat : n = Len(log)
    OBVIOUS
  <1>2. PICK more : more = Append(log, e)
    OBVIOUS
  <1>3. /\ Len(more) = n + 1 /\ DOMAIN more = 1..(n + 1) /\ DOMAIN log = 1..n
        /\ more[n + 1] = e /\ \A i \in 1..n : more[i] = log[i]
    BY <1>1, <1>2
  <1>4. CASE e.on = u /\ e.role = {role}
    <2>1. ASSUME e.what = "grant" PROVE LastIsGrant(more, u, role)
      <3>1. \A j \in (n + 1 + 1)..Len(more) : FALSE
        BY <1>3
      <3>2. n + 1 \in DOMAIN more
        BY <1>3
      <3> QED BY <1>3, <1>4, <2>1, <3>1, <3>2 DEF LastIsGrant
    <2>2. ASSUME LastIsGrant(more, u, role) PROVE e.what = "grant"
      <3>1. PICK i \in DOMAIN more :
               /\ more[i].what = "grant"
               /\ \A j \in (i + 1)..Len(more) : ~(more[j].on = u /\ more[j].role = {role})
        BY <2>2 DEF LastIsGrant
      <3>2. i = n + 1
        <4>1. i \in 1..(n + 1)
          BY <1>3, <3>1
        <4>2. ASSUME i # n + 1 PROVE FALSE
          <5>1. n + 1 \in (i + 1)..Len(more)
            BY <1>3, <4>1, <4>2
          <5> QED BY <1>3, <1>4, <3>1, <5>1
        <4> QED BY <4>2
      <3> QED BY <1>3, <3>1, <3>2
    <2> QED BY <1>2, <1>4, <2>1, <2>2
  <1>5. CASE ~(e.on = u /\ e.role = {role})
    <2>1. ASSUME LastIsGrant(log, u, role) PROVE LastIsGrant(more, u, role)
      <3>1. PICK i \in DOMAIN log :
               /\ log[i].on = u /\ log[i].role = {role} /\ log[i].what = "grant"
               /\ \A j \in (i + 1)..Len(log) : ~(log[j].on = u /\ log[j].role = {role})
        BY <2>1 DEF LastIsGrant
      <3>2. i \in 1..n /\ i \in DOMAIN more /\ more[i] = log[i]
        BY <1>3, <3>1
      <3>3. ASSUME NEW j \in (i + 1)..Len(more)
            PROVE  ~(more[j].on = u /\ more[j].role = {role})
        <4>1. CASE j = n + 1
          BY <1>3, <1>5, <4>1
        <4>2. CASE j # n + 1
          <5>1. j \in (i + 1)..Len(log) /\ j \in 1..n
            BY <1>1, <1>3, <3>2, <4>2
          <5> QED BY <1>3, <3>1, <5>1
        <4> QED BY <4>1, <4>2
      <3> QED BY <3>1, <3>2, <3>3 DEF LastIsGrant
    <2>2. ASSUME LastIsGrant(more, u, role) PROVE LastIsGrant(log, u, role)
      <3>1. PICK i \in DOMAIN more :
               /\ more[i].on = u /\ more[i].role = {role} /\ more[i].what = "grant"
               /\ \A j \in (i + 1)..Len(more) : ~(more[j].on = u /\ more[j].role = {role})
        BY <2>2 DEF LastIsGrant
      <3>2. i # n + 1 /\ i \in 1..(n + 1)
        BY <1>3, <1>5, <3>1
      <3>3. i \in 1..n /\ i \in DOMAIN log /\ more[i] = log[i]
        BY <1>3, <3>2
      <3>4. ASSUME NEW j \in (i + 1)..Len(log)
            PROVE  ~(log[j].on = u /\ log[j].role = {role})
        <4>1. j \in (i + 1)..Len(more) /\ j \in 1..n
          BY <1>1, <1>3, <3>3
        <4> QED BY <1>3, <3>1, <4>1
      <3> QED BY <3>1, <3>3, <3>4 DEF LastIsGrant
    <2> QED BY <1>2, <1>5, <2>1, <2>2
  <1> QED BY <1>4, <1>5

\* Who caused an entry does not matter.
LEMMA ActorsDoNotCount ==
    ASSUME NEW log \in Seq(AccEntry), NEW blank \in Seq(AccEntry), Len(blank) = Len(log),
           \A i \in 1..Len(log) : /\ blank[i].on = log[i].on /\ blank[i].role = log[i].role
                                  /\ blank[i].what = log[i].what,
           NEW u, NEW role
    PROVE  LastIsGrant(blank, u, role) <=> LastIsGrant(log, u, role)
  <1>1. PICK n \in Nat : n = Len(log)
    OBVIOUS
  <1>2. DOMAIN log = 1..n /\ DOMAIN blank = 1..n /\ Len(blank) = n
    BY <1>1
  <1>3. \A i \in 1..n : \A j \in (i + 1)..n : j \in 1..n
    OBVIOUS
  <1>4. \A i \in 1..n : /\ blank[i].on = log[i].on /\ blank[i].role = log[i].role
                        /\ blank[i].what = log[i].what
    BY <1>1
  <1>5. ASSUME LastIsGrant(log, u, role) PROVE LastIsGrant(blank, u, role)
    <2>1. PICK i \in 1..n :
             /\ log[i].on = u /\ log[i].role = {role} /\ log[i].what = "grant"
             /\ \A j \in (i + 1)..n : ~(log[j].on = u /\ log[j].role = {role})
      BY <1>1, <1>2, <1>5 DEF LastIsGrant
    <2>2. \A j \in (i + 1)..n : ~(blank[j].on = u /\ blank[j].role = {role})
      BY <1>3, <1>4, <2>1
    <2> QED BY <1>2, <1>4, <2>1, <2>2 DEF LastIsGrant
  <1>6. ASSUME LastIsGrant(blank, u, role) PROVE LastIsGrant(log, u, role)
    <2>1. PICK i \in 1..n :
             /\ blank[i].on = u /\ blank[i].role = {role} /\ blank[i].what = "grant"
             /\ \A j \in (i + 1)..n : ~(blank[j].on = u /\ blank[j].role = {role})
      BY <1>2, <1>6 DEF LastIsGrant
    <2>2. \A j \in (i + 1)..n : ~(log[j].on = u /\ log[j].role = {role})
      BY <1>3, <1>4, <2>1
    <2> QED BY <1>1, <1>2, <1>4, <2>1, <2>2 DEF LastIsGrant
  <1> QED BY <1>5, <1>6

\* No role may write both grades and money.
LEMMA NoRoleWritesBoth ==
    ASSUME NEW role
    PROVE  ~({GradeWrite, MoneyWrite} \subseteq GroupPermissions(role))
  <1>1. "money_write" \in GroupPermissions(role) => role = "finance"
    BY DEF GroupPermissions, SelfServicePolicy, TeachingPolicy, RecordsPolicy, ServicesPolicy,
           ManagedAreas, GradeWrite, MoneyWrite
  <1>2. "grade_write" \in GroupPermissions(role) => role # "finance"
    BY DEF GroupPermissions, SelfServicePolicy, TeachingPolicy, RecordsPolicy, ServicesPolicy,
           ManagedAreas, GradeWrite, MoneyWrite
  <1> QED BY <1>1, <1>2 DEF GradeWrite, MoneyWrite

\* Whoever may write both has two roles at least.
LEMMA BothNeedTwoRoles ==
    ASSUME NEW roles \in SUBSET Codes,
           {GradeWrite, MoneyWrite} \subseteq UNION {GroupPermissions(role) : role \in roles}
    PROVE  Cardinality(roles) >= 2
  <1>1. PICK a \in roles : GradeWrite \in GroupPermissions(a)
    OBVIOUS
  <1>2. PICK b \in roles : MoneyWrite \in GroupPermissions(b)
    OBVIOUS
  <1>3. a # b
    <2>1. ~({GradeWrite, MoneyWrite} \subseteq GroupPermissions(a))
      BY NoRoleWritesBoth
    <2> QED BY <1>1, <1>2, <2>1
  <1>4. IsFiniteSet(roles)
    BY AccountsAssumption, FS_Subset
  <1>5. Cardinality({a}) = 1 /\ IsFiniteSet({a})
    BY FS_Singleton
  <1>6. Cardinality({a} \cup {b}) = 2
    <2>1. b \notin {a}
      BY <1>3
    <2>2. Cardinality({a} \cup {b}) = Cardinality({a}) + 1
      BY <1>5, <2>1, FS_AddElement, Zenon
    <2> QED BY <1>5, <2>2
  <1>7. {a} \cup {b} \subseteq roles
    OBVIOUS
  <1>8. Cardinality(roles) \in Nat /\ Cardinality({a} \cup {b}) <= Cardinality(roles)
    BY <1>4, <1>7, FS_Subset, FS_CardinalityType
  <1> QED BY <1>6, <1>8

\* A committed change of one role: the assignment and the group move together, the
\* entry says so or is missed, and repairs under way on the user are outdated.
LEMMA RoleChange ==
    ASSUME AccInv, NEW c \in AccCalls, NEW what \in {"grant", "revoke"}, NEW logged \in BOOLEAN,
           NEW u \in Users, u = accCall[c].on, NEW r \in Codes, accCall[c].role = {r},
           NEW has \in SUBSET Codes, NEW member \in SUBSET Codes,
           assigned' = [assigned EXCEPT ![u] = has], groups' = [groups EXCEPT ![u] = member],
           Write(what, accCall[c], logged), accCall' = Outdated(c, AccIdle), accounts' = accounts,
           accCall[c].by \in Users, accRaced \subseteq accRaced', byHand' = byHand,
           u \in accounts \ (accRaced' \cup byHand') =>
              /\ member = has
              /\ r \in has <=> what = "grant"
              /\ \A q \in Codes : q # r => (q \in has <=> q \in assigned[u])
    PROVE  AccInv'
  <1>0. /\ accounts \subseteq Users
        /\ assigned \in [Users -> SUBSET Codes] /\ groups \in [Users -> SUBSET Codes]
        /\ trail \in Seq(AccEntry) /\ accCall \in [AccCalls -> AccRequest]
    BY DEF AccInv, AccInvType
  <1>1. PICK e : e = [what |-> what, on |-> u, role |-> {r}, actor |-> accCall[c].by]
    OBVIOUS
  <1>2. e \in AccEntry /\ e.on = u /\ e.role = {r} /\ e.what = what
    BY <1>1 DEF AccEntry
  <1>3. /\ trail' = IF logged THEN Append(trail, e) ELSE trail
        /\ missed' = IF logged THEN missed \ {<<u, {r}>>} ELSE missed \cup {<<u, {r}>>}
    BY <1>1 DEF Write
  <1>4. trail' \in Seq(AccEntry)
    BY <1>0, <1>2, <1>3
  <1>5. AccIdle \in AccRequest /\ AccIdle.do = "none"
    BY DEF AccIdle, AccRequest
  <1>6. ASSUME NEW d \in AccCalls
        PROVE  /\ accCall'[d] \in AccRequest
               /\ \/ accCall'[d].do = "none"
                  \/ /\ accCall'[d].do = accCall[d].do /\ accCall'[d].on = accCall[d].on
                     /\ accCall'[d].role = accCall[d].role /\ accCall'[d].by = accCall[d].by
                     /\ accCall'[d].stale \/
                           (~accCall[d].stale /\ (accCall[d].do # "resync" \/ accCall[d].on # u))
    <2>1. accCall'[d] = IF d = c THEN AccIdle
                        ELSE IF accCall[d].on = u /\ accCall[d].do = "resync"
                             THEN [accCall[d] EXCEPT !.stale = TRUE] ELSE accCall[d]
      BY DEF Outdated
    <2>2. accCall[d] \in AccRequest
      BY <1>0
    <2> QED BY <1>5, <2>1, <2>2 DEF AccRequest
  <1>7. AccInvType'
    <2>1. accCall' \in [AccCalls -> AccRequest]
      BY <1>6 DEF Outdated
    <2> QED BY <1>0, <1>4, <2>1 DEF AccInvType
  <1>8. \A v \in Users : /\ assigned'[v] = IF v = u THEN has ELSE assigned[v]
                         /\ groups'[v] = IF v = u THEN member ELSE groups[v]
    BY <1>0
  <1>9. AccCallsAgree'
    <2> SUFFICES ASSUME NEW d \in AccCalls
                 PROVE  /\ accCall'[d].do \in RoleSteps =>
                              accCall'[d].on \in Users /\ \E q \in Codes : accCall'[d].role = {q}
                        /\ accCall'[d].do \in {"resync", "delete"} => accCall'[d].on \in Users
                        /\ accCall'[d].do \in RoleSteps \cup {"delete"} => accCall'[d].by \in Users
                        /\ accCall'[d].do = "resync" /\ accCall'[d].on \in accounts' \ byHand' =>
                              accCall'[d].stale \/ accCall'[d].role = assigned'[accCall'[d].on]
      BY DEF AccCallsAgree
    <2>1. /\ accCall[d].do \in RoleSteps =>
                accCall[d].on \in Users /\ \E q \in Codes : accCall[d].role = {q}
          /\ accCall[d].do \in {"resync", "delete"} => accCall[d].on \in Users
          /\ accCall[d].do \in RoleSteps \cup {"delete"} => accCall[d].by \in Users
          /\ accCall[d].do = "resync" /\ accCall[d].on \in accounts \ byHand =>
                accCall[d].stale \/ accCall[d].role = assigned[accCall[d].on]
      BY DEF AccInv, AccCallsAgree
    <2>2. CASE accCall'[d].do = "none"
      BY <2>2 DEF RoleSteps
    <2>3. CASE accCall'[d].do # "none"
      <3>1. /\ accCall'[d].do = accCall[d].do /\ accCall'[d].on = accCall[d].on
            /\ accCall'[d].role = accCall[d].role /\ accCall'[d].by = accCall[d].by
            /\ accCall'[d].stale \/
                  (~accCall[d].stale /\ (accCall[d].do # "resync" \/ accCall[d].on # u))
        BY <1>6, <2>3
      <3>2. accCall[d].on \in Users /\ accCall[d].on # u => assigned'[accCall[d].on] = assigned[accCall[d].on]
        BY <1>8
      <3> QED BY <2>1, <3>1, <3>2
    <2> QED BY <2>2, <2>3
  <1>10. ASSUME NEW v \in accounts' \ (accRaced' \cup byHand')
         PROVE  RolesAgree(v, assigned'[v], groups'[v], trail', missed')
    <2>1. v \in Users /\ v \in accounts \ (accRaced \cup byHand)
      BY <1>0, <1>10
    <2>2. /\ groups[v] = assigned[v]
          /\ \A q \in Codes : <<v, {q}>> \notin missed => (q \in assigned[v] <=> LastIsGrant(trail, v, q))
      BY <2>1 DEF AccInv, RolesAgree
    <2>3. groups'[v] = assigned'[v]
      BY <1>8, <1>10, <2>1, <2>2
    <2>4. ASSUME NEW q \in Codes, <<v, {q}>> \notin missed'
          PROVE  q \in assigned'[v] <=> LastIsGrant(trail', v, q)
      <3>1. CASE v = u /\ q = r
        <4>1. logged
          BY <1>3, <2>4, <3>1
        <4>2. LastIsGrant(Append(trail, e), v, q) <=> what = "grant"
          BY <1>0, <1>2, <3>1, NewEntryDecides
        <4> QED BY <1>3, <1>8, <1>10, <2>1, <3>1, <4>1, <4>2
      <3>2. CASE ~(v = u /\ q = r)
        <4>1. <<v, {q}>> # <<u, {r}>>
          BY <3>2
        <4>2. <<v, {q}>> \notin missed
          BY <1>3, <2>4, <4>1
        <4>3. q \in assigned'[v] <=> q \in assigned[v]
          BY <1>8, <1>10, <2>1, <3>2
        <4>4. ~(e.on = v /\ e.role = {q})
          BY <1>2, <4>1
        <4>5. LastIsGrant(Append(trail, e), v, q) <=> LastIsGrant(trail, v, q)
          BY <1>0, <1>2, <4>4, NewEntryDecides
        <4> QED BY <1>3, <2>2, <4>2, <4>3, <4>5
      <3> QED BY <3>1, <3>2
    <2> QED BY <2>3, <2>4 DEF RolesAgree
  <1> QED BY <1>7, <1>9, <1>10 DEF AccInv

\* A request moves on, assignments staying as they are.
LEMMA RequestMoves ==
    ASSUME AccInv, NEW c \in AccCalls, NEW new \in AccRequest,
           accCall' = [accCall EXCEPT ![c] = new], accounts' \subseteq accounts, byHand' = byHand,
           \A v \in accounts' : assigned'[v] = assigned[v],
           new.do \in RoleSteps => new.on \in Users /\ \E r \in Codes : new.role = {r},
           new.do \in {"resync", "delete"} => new.on \in Users,
           new.do \in RoleSteps \cup {"delete"} => new.by \in Users,
           new.do = "resync" /\ new.on \in accounts \ byHand => new.stale \/ new.role = assigned[new.on]
    PROVE  AccCallsAgree' /\ accCall' \in [AccCalls -> AccRequest]
  <1>1. accCall \in [AccCalls -> AccRequest] /\ accounts \subseteq Users
    BY DEF AccInv, AccInvType
  <1>2. \A d \in AccCalls : accCall'[d] = IF d = c THEN new ELSE accCall[d]
    BY <1>1
  <1>3. ASSUME NEW d \in AccCalls
        PROVE  /\ accCall'[d].do \in RoleSteps =>
                     accCall'[d].on \in Users /\ \E q \in Codes : accCall'[d].role = {q}
               /\ accCall'[d].do \in {"resync", "delete"} => accCall'[d].on \in Users
               /\ accCall'[d].do \in RoleSteps \cup {"delete"} => accCall'[d].by \in Users
               /\ accCall'[d].do = "resync" /\ accCall'[d].on \in accounts' \ byHand' =>
                     accCall'[d].stale \/ accCall'[d].role = assigned'[accCall'[d].on]
    <2>1. CASE d = c
      BY <1>2, <2>1
    <2>2. CASE d # c
      BY <1>2, <2>2 DEF AccInv, AccCallsAgree
    <2> QED BY <2>1, <2>2
  <1> QED BY <1>1, <1>3 DEF AccCallsAgree

\* Every operation on accounts keeps the invariant.
LEMMA AccStep == AccInv /\ [AccNext]_accVars => AccInv'
  <1> SUFFICES ASSUME AccInv, [AccNext]_accVars PROVE AccInv'
    OBVIOUS
  <1>0. /\ accounts \subseteq Users
        /\ assigned \in [Users -> SUBSET Codes] /\ groups \in [Users -> SUBSET Codes]
        /\ trail \in Seq(AccEntry) /\ accCall \in [AccCalls -> AccRequest]
    BY DEF AccInv, AccInvType
  <1>a. \A u \in accounts \ (accRaced \cup byHand) : RolesAgree(u, assigned[u], groups[u], trail, missed)
    BY DEF AccInv
  <1>b. AccIdle \in AccRequest /\ AccIdle.do = "none"
    BY DEF AccIdle, AccRequest
  <1>c. \A d \in AccCalls :
           /\ accCall[d] \in AccRequest
           /\ accCall[d].do \in RoleSteps =>
                 accCall[d].on \in Users /\ \E q \in Codes : accCall[d].role = {q}
           /\ accCall[d].do \in {"resync", "delete"} => accCall[d].on \in Users
           /\ accCall[d].do \in RoleSteps \cup {"delete"} => accCall[d].by \in Users
           /\ accCall[d].do = "resync" /\ accCall[d].on \in accounts \ byHand =>
                 accCall[d].stale \/ accCall[d].role = assigned[accCall[d].on]
    BY <1>0 DEF AccInv, AccCallsAgree
  <1>1. ASSUME AccCallsAgree' /\ accCall' \in [AccCalls -> AccRequest],
               UNCHANGED <<accounts, assigned, groups, trail, accRaced, byHand, missed>>
        PROVE  AccInv'
    BY <1>0, <1>1, <1>a DEF AccInv, AccInvType
  <1>2. ASSUME NEW c \in AccCalls, NEW by \in Users, NEW u \in Users, NEW role \in Codes,
               NEW what \in {"grant", "revoke"}, CheckRole(c, by, what, u, role)
        PROVE  AccInv'
    <2>1. PICK new : new = [do |-> what, by |-> by, on |-> u, role |-> {role}, stale |-> FALSE]
      OBVIOUS
    <2>2. /\ accCall' = [accCall EXCEPT ![c] = new]
          /\ UNCHANGED <<accounts, assigned, groups, trail, accRaced, byHand, missed>>
      BY <1>2, <2>1 DEF CheckRole
    <2>3. /\ new \in AccRequest /\ new.do \in {"grant", "revoke"} /\ new.on \in Users
          /\ new.role = {role} /\ new.by \in Users
      BY <2>1 DEF AccRequest, RoleSteps
    <2>4. AccCallsAgree' /\ accCall' \in [AccCalls -> AccRequest]
      BY <2>2, <2>3, RequestMoves
    <2> QED BY <1>1, <2>2, <2>4
  <1>3. ASSUME NEW c \in AccCalls, NEW logged \in BOOLEAN, GrantRole(c, logged)
        PROVE  AccInv'
    <2>1. accCall[c].do = "grant"
      BY <1>3 DEF GrantRole
    <2>2. PICK u \in Users : u = accCall[c].on
      BY <1>c, <2>1 DEF RoleSteps
    <2>3. PICK r \in Codes : accCall[c].role = {r}
      BY <1>c, <2>1 DEF RoleSteps
    <2>4. PICK has : has = assigned[u] \cup {r}
      OBVIOUS
    <2>5. PICK member : member = groups[u] \cup {r}
      OBVIOUS
    <2>6. /\ assigned' = [assigned EXCEPT ![u] = has] /\ groups' = [groups EXCEPT ![u] = member]
          /\ Write("grant", accCall[c], logged) /\ accCall' = Outdated(c, AccIdle)
          /\ accounts' = accounts /\ accRaced' = accRaced /\ byHand' = byHand
      BY <1>3, <2>2, <2>3, <2>4, <2>5 DEF GrantRole
    <2>7. has \in SUBSET Codes /\ member \in SUBSET Codes /\ accCall[c].by \in Users
      BY <1>0, <1>c, <2>1, <2>2, <2>3, <2>4, <2>5 DEF RoleSteps
    <2>8. u \in accounts \ (accRaced' \cup byHand') =>
             /\ member = has
             /\ r \in has <=> "grant" = "grant"
             /\ \A q \in Codes : q # r => (q \in has <=> q \in assigned[u])
      BY <1>a, <2>4, <2>5, <2>6 DEF RolesAgree
    <2> QED BY <2>2, <2>3, <2>6, <2>7, <2>8, RoleChange
  <1>4. ASSUME NEW c \in AccCalls, NEW logged \in BOOLEAN, RevokeRole(c, logged)
        PROVE  AccInv'
    <2>1. accCall[c].do \in {"revoking", "too_late"}
      BY <1>4 DEF RevokeRole
    <2>2. PICK u \in Users : u = accCall[c].on
      BY <1>c, <2>1 DEF RoleSteps
    <2>3. PICK r \in Codes : accCall[c].role = {r}
      BY <1>c, <2>1 DEF RoleSteps
    <2>4. PICK has : has = IF accCall[c].do = "revoking" THEN assigned[u] \ {r} ELSE assigned[u]
      OBVIOUS
    <2>5. PICK member : member = groups[u] \ {r}
      OBVIOUS
    <2>6. /\ groups' = [groups EXCEPT ![u] = member]
          /\ assigned' = IF accCall[c].do = "revoking" THEN [assigned EXCEPT ![u] = @ \ {r}] ELSE assigned
          /\ Write("revoke", accCall[c], logged) /\ accCall' = Outdated(c, AccIdle)
          /\ accounts' = accounts /\ byHand' = byHand
          /\ accRaced' = IF accCall[c].do = "too_late" THEN accRaced \cup {u} ELSE accRaced
      BY <1>4, <2>2, <2>3, <2>5 DEF RevokeRole
    <2>7. assigned' = [assigned EXCEPT ![u] = has]
      BY <1>0, <2>2, <2>4, <2>6
    <2>8. has \in SUBSET Codes /\ member \in SUBSET Codes /\ accCall[c].by \in Users
      BY <1>0, <1>c, <2>1, <2>2, <2>3, <2>4, <2>5 DEF RoleSteps
    <2>9. u \in accounts \ (accRaced' \cup byHand') =>
             /\ member = has
             /\ r \in has <=> "revoke" = "grant"
             /\ \A q \in Codes : q # r => (q \in has <=> q \in assigned[u])
      <3> SUFFICES ASSUME u \in accounts \ (accRaced' \cup byHand')
                   PROVE  /\ member = has
                          /\ r \in has <=> "revoke" = "grant"
                          /\ \A q \in Codes : q # r => (q \in has <=> q \in assigned[u])
        OBVIOUS
      <3>1. accCall[c].do = "revoking" /\ u \in accounts \ (accRaced \cup byHand)
        BY <2>1, <2>6
      <3>2. groups[u] = assigned[u]
        BY <1>a, <3>1 DEF RolesAgree
      <3>3. has = assigned[u] \ {r}
        BY <2>4, <3>1
      <3> QED BY <2>5, <3>2, <3>3
    <2>10. accRaced \subseteq accRaced'
      BY <2>6
    <2>11. PICK what \in {"grant", "revoke"} : what = "revoke"
      OBVIOUS
    <2>12. /\ Write(what, accCall[c], logged)
           /\ u \in accounts \ (accRaced' \cup byHand') =>
                 /\ member = has
                 /\ r \in has <=> what = "grant"
                 /\ \A q \in Codes : q # r => (q \in has <=> q \in assigned[u])
      BY <2>6, <2>9, <2>11
    <2>13. /\ accCall' = Outdated(c, AccIdle) /\ accounts' = accounts /\ byHand' = byHand
           /\ groups' = [groups EXCEPT ![u] = member]
      BY <2>6
    <2> QED BY <2>2, <2>3, <2>7, <2>8, <2>10, <2>11, <2>12, <2>13, RoleChange
  <1>5. ASSUME NEW c \in AccCalls, UpdateAssignment(c)
        PROVE  AccInv'
    <2>1. PICK hit \in {"revoking", "too_late"} :
             hit = IF accCall[c].role \subseteq assigned[accCall[c].on] THEN "revoking" ELSE "too_late"
      OBVIOUS
    <2>2. PICK new : new = [accCall[c] EXCEPT !.do = hit]
      OBVIOUS
    <2>3. /\ accCall[c].do = "revoke" /\ accCall' = [accCall EXCEPT ![c] = new]
          /\ UNCHANGED <<accounts, assigned, groups, trail, accRaced, byHand, missed>>
      BY <1>5, <2>1, <2>2 DEF UpdateAssignment
    <2>4. /\ accCall[c] \in AccRequest /\ accCall[c].on \in Users /\ accCall[c].by \in Users
          /\ \E q \in Codes : accCall[c].role = {q}
      BY <1>c, <2>3 DEF RoleSteps
    <2>5. /\ new \in AccRequest /\ new.do \in {"revoking", "too_late"} /\ new.on = accCall[c].on
          /\ new.role = accCall[c].role /\ new.by = accCall[c].by
      BY <2>1, <2>2, <2>4 DEF AccRequest, RoleSteps
    <2>6. AccCallsAgree' /\ accCall' \in [AccCalls -> AccRequest]
      BY <2>3, <2>4, <2>5, RequestMoves
    <2> QED BY <1>1, <2>3, <2>6
  <1>6. ASSUME NEW c \in AccCalls, NEW u \in Users, ReadRoles(c, u)
        PROVE  AccInv'
    <2>1. PICK new : new = [AccIdle EXCEPT !.do = "resync", !.on = u, !.role = assigned[u]]
      OBVIOUS
    <2>2. /\ accCall' = [accCall EXCEPT ![c] = new]
          /\ UNCHANGED <<accounts, assigned, groups, trail, accRaced, byHand, missed>>
      BY <1>6, <2>1 DEF ReadRoles
    <2>3. assigned[u] \in SUBSET Codes
      BY <1>0
    <2>4. new \in AccRequest /\ new.do = "resync" /\ new.on = u /\ new.role = assigned[u]
      BY <2>1, <2>3 DEF AccRequest, AccIdle
    <2>5. new.do \notin RoleSteps \cup {"delete"}
      BY <2>4 DEF RoleSteps
    <2>6. AccCallsAgree' /\ accCall' \in [AccCalls -> AccRequest]
      BY <2>2, <2>4, <2>5, RequestMoves
    <2> QED BY <1>1, <2>2, <2>6
  <1>d. ASSUME NEW c \in AccCalls, accCall' = [accCall EXCEPT ![c] = AccIdle],
               accounts' \subseteq accounts, byHand' = byHand,
               \A v \in accounts' : assigned'[v] = assigned[v]
        PROVE  AccCallsAgree' /\ accCall' \in [AccCalls -> AccRequest]
    <2>1. AccIdle.do \notin RoleSteps \cup {"delete", "resync"}
      BY <1>b DEF RoleSteps
    <2> QED BY <1>b, <1>d, <2>1, RequestMoves
  <1>7. ASSUME NEW c \in AccCalls, ResyncGroups(c)
        PROVE  AccInv'
    <2>1. accCall[c].do = "resync" /\ accCall[c].on \in accounts
      BY <1>7 DEF ResyncGroups
    <2>2. PICK u \in Users : u = accCall[c].on
      BY <1>c, <2>1
    <2>3. /\ groups' = [groups EXCEPT ![u] = accCall[c].role]
          /\ accRaced' = IF accCall[c].stale THEN accRaced \cup {u} ELSE accRaced
          /\ accCall' = [accCall EXCEPT ![c] = AccIdle]
          /\ UNCHANGED <<accounts, assigned, trail, byHand, missed>>
      BY <1>7, <2>2 DEF ResyncGroups
    <2>4. AccCallsAgree' /\ accCall' \in [AccCalls -> AccRequest]
      BY <1>d, <2>3
    <2>5. accCall[c].role \in SUBSET Codes
      BY <1>c DEF AccRequest
    <2>6. AccInvType'
      BY <1>0, <2>3, <2>4, <2>5 DEF AccInvType
    <2>7. ASSUME NEW v \in accounts' \ (accRaced' \cup byHand')
          PROVE  RolesAgree(v, assigned'[v], groups'[v], trail', missed')
      <3>1. v \in accounts \ (accRaced \cup byHand) /\ v \in Users /\ (v = u => ~accCall[c].stale)
        BY <1>0, <2>3, <2>7
      <3>2. RolesAgree(v, assigned[v], groups[v], trail, missed)
        BY <1>a, <3>1
      <3>3. groups'[v] = IF v = u THEN accCall[c].role ELSE groups[v]
        BY <1>0, <2>3, <3>1
      <3>4. v = u => accCall[c].role = assigned[v]
        BY <1>c, <2>1, <2>2, <3>1
      <3>5. groups'[v] = assigned[v]
        BY <3>2, <3>3, <3>4 DEF RolesAgree
      <3> QED BY <2>3, <3>2, <3>5 DEF RolesAgree
    <2> QED BY <2>4, <2>6, <2>7 DEF AccInv
  <1>8. ASSUME NEW c \in AccCalls, NEW by \in Users, NEW u \in Users, LogDeletion(c, by, u)
        PROVE  AccInv'
    <2>1. PICK new : new = [AccIdle EXCEPT !.do = "delete", !.by = by, !.on = u]
      OBVIOUS
    <2>2. /\ Write("delete", new, TRUE) /\ accCall' = [accCall EXCEPT ![c] = new]
          /\ UNCHANGED <<accounts, assigned, groups, accRaced, byHand>>
      BY <1>8, <2>1 DEF LogDeletion
    <2>3. new \in AccRequest /\ new.do = "delete" /\ new.by = by /\ new.on = u /\ new.role = {}
      BY <2>1 DEF AccRequest, AccIdle
    <2>4. AccCallsAgree' /\ accCall' \in [AccCalls -> AccRequest]
      <3>1. new.do \notin RoleSteps \cup {"resync"}
        BY <2>3 DEF RoleSteps
      <3> QED BY <2>2, <2>3, <3>1, RequestMoves
    <2>5. PICK e : e = [what |-> "delete", on |-> u, role |-> {}, actor |-> by]
      OBVIOUS
    <2>6. e \in AccEntry /\ e.role = {}
      BY <2>5 DEF AccEntry
    <2>7. trail' = Append(trail, e) /\ missed' = missed \ {<<u, {}>>}
      BY <2>2, <2>3, <2>5 DEF Write
    <2>8. trail' \in Seq(AccEntry)
      BY <1>0, <2>6, <2>7
    <2>9. AccInvType'
      BY <1>0, <2>2, <2>4, <2>8 DEF AccInvType
    <2>10. ASSUME NEW v \in accounts' \ (accRaced' \cup byHand')
           PROVE  RolesAgree(v, assigned'[v], groups'[v], trail', missed')
      <3>1. RolesAgree(v, assigned[v], groups[v], trail, missed)
        BY <1>a, <2>2, <2>10
      <3>2. ASSUME NEW q \in Codes
            PROVE  /\ LastIsGrant(trail', v, q) <=> LastIsGrant(trail, v, q)
                   /\ <<v, {q}>> \notin missed' => <<v, {q}>> \notin missed
        <4>1. ~(e.on = v /\ e.role = {q}) /\ <<v, {q}>> # <<u, {}>>
          BY <2>6
        <4>2. LastIsGrant(Append(trail, e), v, q) <=> LastIsGrant(trail, v, q)
          BY <1>0, <2>6, <4>1, NewEntryDecides
        <4> QED BY <2>7, <4>1, <4>2
      <3> QED BY <2>2, <3>1, <3>2 DEF RolesAgree
    <2> QED BY <2>4, <2>9, <2>10 DEF AccInv
  <1>9. ASSUME NEW c \in AccCalls, EraseUser(c)
        PROVE  AccInv'
    <2>1. accCall[c].do = "delete"
      BY <1>9 DEF EraseUser
    <2>2. PICK u \in Users : u = accCall[c].on
      BY <1>c, <2>1
    <2>3. /\ accounts' = accounts \ {u}
          /\ assigned' = [assigned EXCEPT ![u] = {}] /\ groups' = [groups EXCEPT ![u] = {}]
          /\ trail' = [i \in DOMAIN trail |->
                IF trail[i].actor = u THEN [trail[i] EXCEPT !.actor = NoUser] ELSE trail[i]]
          /\ accCall' = [accCall EXCEPT ![c] = AccIdle]
          /\ UNCHANGED <<accRaced, byHand, missed>>
      BY <1>9, <2>2 DEF EraseUser
    <2>4. \A v \in accounts' : v \in Users /\ assigned'[v] = assigned[v] /\ groups'[v] = groups[v]
      BY <1>0, <2>3
    <2>5. AccCallsAgree' /\ accCall' \in [AccCalls -> AccRequest]
      BY <1>d, <2>3, <2>4
    <2>6. PICK n \in Nat : n = Len(trail) /\ DOMAIN trail = 1..n
      BY <1>0
    <2>7. ASSUME NEW i \in 1..n
          PROVE  /\ trail'[i] \in AccEntry
                 /\ trail'[i].on = trail[i].on /\ trail'[i].role = trail[i].role
                 /\ trail'[i].what = trail[i].what
      <3>1. trail[i] \in AccEntry
        BY <1>0, <2>6
      <3>2. trail'[i] = IF trail[i].actor = u THEN [trail[i] EXCEPT !.actor = NoUser] ELSE trail[i]
        BY <2>3, <2>6
      <3> QED BY <3>1, <3>2 DEF AccEntry
    <2>8. trail' \in Seq(AccEntry) /\ Len(trail') = n
      <3>1. trail' = [i \in 1..n |-> trail'[i]]
        BY <2>3, <2>6
      <3> QED BY <2>7, <3>1
    <2>9. AccInvType'
      BY <1>0, <2>3, <2>5, <2>8 DEF AccInvType
    <2>10. ASSUME NEW v \in accounts' \ (accRaced' \cup byHand')
           PROVE  RolesAgree(v, assigned'[v], groups'[v], trail', missed')
      <3>1. RolesAgree(v, assigned[v], groups[v], trail, missed)
        BY <1>a, <2>3, <2>10
      <3>2. \A q \in Codes : LastIsGrant(trail', v, q) <=> LastIsGrant(trail, v, q)
        BY <1>0, <2>6, <2>7, <2>8, ActorsDoNotCount
      <3> QED BY <2>3, <2>4, <3>1, <3>2 DEF RolesAgree
    <2> QED BY <2>5, <2>9, <2>10 DEF AccInv
  <1>10. ASSUME NEW c \in AccCalls, AccAbandon(c)
         PROVE  AccInv'
    <2>1. /\ accCall' = [accCall EXCEPT ![c] = AccIdle]
          /\ UNCHANGED <<accounts, assigned, groups, trail, accRaced, byHand, missed>>
      BY <1>10 DEF AccAbandon
    <2>2. AccCallsAgree' /\ accCall' \in [AccCalls -> AccRequest]
      BY <1>d, <2>1
    <2> QED BY <1>1, <2>1, <2>2
  <1>12. ASSUME NEW u \in Users, byHand' = byHand \cup {u},
                assigned' \in [Users -> SUBSET Codes], groups' \in [Users -> SUBSET Codes],
                \A v \in Users \ {u} : assigned'[v] = assigned[v] /\ groups'[v] = groups[v],
                UNCHANGED <<accounts, trail, accCall, accRaced, missed>>
         PROVE  AccInv'
    <2>1. AccInvType'
      BY <1>0, <1>12 DEF AccInvType
    <2>2. AccCallsAgree'
      <3> SUFFICES ASSUME NEW d \in AccCalls, accCall[d].do = "resync",
                          accCall[d].on \in accounts \ byHand'
                   PROVE  accCall[d].stale \/ accCall[d].role = assigned'[accCall[d].on]
        BY <1>12, <1>c DEF AccCallsAgree
      <3>1. accCall[d].on \in Users \ {u} /\ accCall[d].on \in accounts \ byHand
        BY <1>0, <1>12
      <3> QED BY <1>12, <1>c, <3>1
    <2>3. ASSUME NEW v \in accounts' \ (accRaced' \cup byHand')
          PROVE  RolesAgree(v, assigned'[v], groups'[v], trail', missed')
      <3>1. v \in Users \ {u} /\ v \in accounts \ (accRaced \cup byHand)
        BY <1>0, <1>12, <2>3
      <3> QED BY <1>12, <1>a, <3>1
    <2> QED BY <2>1, <2>2, <2>3 DEF AccInv
  <1>13. ASSUME NEW u \in Users, NEW role \in Codes, AdminAssigns(u, role)
         PROVE  AccInv'
    <2>1. PICK has : has = IF role \in assigned[u] THEN assigned[u] \ {role}
                           ELSE assigned[u] \cup {role}
      OBVIOUS
    <2>2. /\ assigned' = [assigned EXCEPT ![u] = has] /\ byHand' = byHand \cup {u}
          /\ UNCHANGED <<accounts, groups, trail, accCall, accRaced, missed>>
      BY <1>13, <2>1 DEF AdminAssigns
    <2>3. has \in SUBSET Codes
      BY <1>0, <2>1
    <2>4. assigned' \in [Users -> SUBSET Codes] /\ \A v \in Users \ {u} : assigned'[v] = assigned[v]
      BY <1>0, <2>2, <2>3
    <2> QED BY <1>0, <1>12, <2>2, <2>4
  <1>14. ASSUME NEW u \in Users, NEW chosen \in SUBSET Codes, AdminGroups(u, chosen)
         PROVE  AccInv'
    <2>1. /\ groups' = [groups EXCEPT ![u] = chosen] /\ byHand' = byHand \cup {u}
          /\ UNCHANGED <<accounts, assigned, trail, accCall, accRaced, missed>>
      BY <1>14 DEF AdminGroups
    <2>2. groups' \in [Users -> SUBSET Codes] /\ \A v \in Users \ {u} : groups'[v] = groups[v]
      BY <1>0, <2>1
    <2> QED BY <1>0, <1>12, <2>1, <2>2
  <1>11. CASE UNCHANGED accVars
    <2>1. UNCHANGED <<accounts, assigned, groups, trail, accCall, accRaced, byHand, missed>>
      BY <1>11 DEF accVars
    <2>2. AccCallsAgree' /\ accCall' \in [AccCalls -> AccRequest]
      BY <1>0, <2>1 DEF AccInv, AccCallsAgree
    <2> QED BY <1>1, <2>1, <2>2
  <1> QED BY <1>2, <1>3, <1>4, <1>5, <1>6, <1>7, <1>8, <1>9, <1>10, <1>11, <1>13, <1>14 DEF AccNext

\* Accounts keep their invariant.
LEMMA AccInvariant == AccSpec => []AccInv
  <1>1. AccInit => AccInv
    <2> SUFFICES ASSUME AccInit PROVE AccInv
      OBVIOUS
    <2>1. /\ accounts = Users /\ assigned = [u \in Users |-> {}] /\ groups = [u \in Users |-> {}]
          /\ trail = << >> /\ accCall = [c \in AccCalls |-> AccIdle]
      BY DEF AccInit
    <2>2. AccIdle \in AccRequest /\ AccIdle.do = "none"
      BY DEF AccIdle, AccRequest
    <2>3. AccInvType
      BY <2>1, <2>2 DEF AccInvType
    <2>4. AccCallsAgree
      BY <2>1, <2>2 DEF AccCallsAgree, RoleSteps
    <2>5. \A u, role : ~LastIsGrant(trail, u, role)
      BY <2>1 DEF LastIsGrant
    <2> QED BY <2>1, <2>3, <2>4, <2>5 DEF AccInv, RolesAgree
  <1> QED BY <1>1, AccStep, PTL DEF AccSpec

\* As long as a user's roles change through the role service alone and no overtaken
\* request writes to them, the three records of a role agree, whoever else is changed in
\* the admin or deleted; and nobody among them gets to write grades and money without
\* two roles.
THEOREM RolesStayAccounted == AccSpec => []RolesAreAccounted
  <1>1. AccInv => RolesAreAccounted
    <2> SUFFICES ASSUME AccInv, NEW u \in accounts \ (accRaced \cup byHand)
                 PROVE  /\ groups[u] = assigned[u]
                        /\ \A role \in Codes : <<u, {role}>> \notin missed =>
                              (role \in assigned[u] <=> LastIsGrant(trail, u, role))
                        /\ {GradeWrite, MoneyWrite} \subseteq Areas(u) => Cardinality(assigned[u]) >= 2
      BY DEF RolesAreAccounted
    <2>1. /\ groups[u] = assigned[u]
          /\ \A role \in Codes : <<u, {role}>> \notin missed =>
                (role \in assigned[u] <=> LastIsGrant(trail, u, role))
      BY DEF AccInv, RolesAgree
    <2>2. assigned[u] \in SUBSET Codes
      BY DEF AccInv, AccInvType
    <2>3. {GradeWrite, MoneyWrite} \subseteq Areas(u) => Cardinality(assigned[u]) >= 2
      BY <2>1, <2>2, BothNeedTwoRoles DEF Areas
    <2> QED BY <2>1, <2>3
  <1> QED BY <1>1, AccInvariant, PTL

\* The tables of accounts keep their types.
THEOREM AccountTypes == AccSpec => []AccTypeOK
  <1>1. AccInv => AccTypeOK
    <2> SUFFICES ASSUME AccInv PROVE AccTypeOK
      OBVIOUS
    <2>1. \A i \in DOMAIN trail : trail[i] \in AccEntry
      BY DEF AccInv, AccInvType
    <2> QED BY <2>1 DEF AccInv, AccInvType, AccTypeOK, AccEntry
  <1> QED BY <1>1, AccInvariant, PTL

----------------------------------------------------------------------------
(* The merit list.                                                         *)

\* The candidates and the rules keep their types.
LEMMA MeritTypes == MeritSpec => []MeritTypeOK
  <1>1. MeritInit => MeritTypeOK
    <2> SUFFICES ASSUME MeritInit PROVE MeritTypeOK
      OBVIOUS
    <2>1. << >> \in Seq(Bucket) /\ Len(<< >>) = 0
      OBVIOUS
    <2> QED BY <2>1, MeritAssumption DEF MeritInit, MeritTypeOK
  <1>2. MeritTypeOK /\ [MeritNext]_meritVars => MeritTypeOK'
    <2> SUFFICES ASSUME MeritTypeOK, [MeritNext]_meritVars PROVE MeritTypeOK'
      OBVIOUS
    <2>1. ASSUME NEW a \in Candidates, NEW new \in Candidate, EditCandidate(a, new)
          PROVE  MeritTypeOK'
      BY <2>1 DEF MeritTypeOK, EditCandidate
    <2>2. ASSUME NEW a \in Candidates, LeaveIntake(a) PROVE MeritTypeOK'
      BY <2>2 DEF MeritTypeOK, LeaveIntake
    <2>3. ASSUME NEW total \in 0..MaxSeats \cup {NoCap}, NEW reserved \in Seq(Bucket),
                 Len(reserved) <= MaxReserved, EditQuota(total, reserved)
          PROVE  MeritTypeOK'
      BY <2>3 DEF MeritTypeOK, EditQuota
    <2>4. ASSUME NEW total \in 0..MaxSeats \cup {NoCap}, EditQuota(total, quota.reserved)
          PROVE  MeritTypeOK'
      BY <2>3, <2>4 DEF MeritTypeOK
    <2>5. CASE EditQuota(quota.total, << >>)
      <3>1. << >> \in Seq(Bucket) /\ Len(<< >>) <= MaxReserved
        BY MeritAssumption
      <3> QED BY <2>3, <2>5, <3>1 DEF MeritTypeOK
    <2>6. ASSUME NEW b \in Bucket, Len(quota.reserved) < MaxReserved,
                 EditQuota(quota.total, Append(quota.reserved, b))
          PROVE  MeritTypeOK'
      <3>1. PICK more : more = Append(quota.reserved, b)
        OBVIOUS
      <3>2. quota.reserved \in Seq(Bucket) /\ quota.total \in 0..MaxSeats \cup {NoCap}
        BY DEF MeritTypeOK
      <3>3. more \in Seq(Bucket) /\ Len(more) = Len(quota.reserved) + 1
            /\ Len(quota.reserved) \in Nat
        BY <3>1, <3>2
      <3>4. Len(more) <= MaxReserved
        BY <2>6, <3>3, MeritAssumption
      <3> QED BY <2>3, <2>6, <3>1, <3>2, <3>3, <3>4
    <2>7. CASE UNCHANGED meritVars
      BY <2>7 DEF MeritTypeOK, meritVars
    <2> QED BY <2>1, <2>2, <2>4, <2>5, <2>6, <2>7 DEF MeritNext
  <1> QED BY <1>1, <1>2, PTL DEF MeritSpec

\* Everybody listed has a number and a score to compare.
LEMMA ListedTypes ==
    ASSUME MeritTypeOK
    PROVE  /\ IsFiniteSet(Listed)
           /\ \A a \in Listed : a \in Int /\ candidate[a].score \in Int
  <1>1. Listed \subseteq Candidates
    BY DEF Listed
  <1>2. IsFiniteSet(Listed)
    BY <1>1, FS_Subset, MeritAssumption
  <1>3. \A a \in Listed : candidate[a] \in Candidate
    BY DEF Listed, MeritTypeOK
  <1>4. ScoreValues \cup {Unscored} \subseteq Int
    BY MeritAssumption DEF Unscored
  <1>5. \A a \in Listed : candidate[a].score \in Int
    BY <1>3, <1>4 DEF Candidate
  <1>6. \A a \in Listed : a \in Int
    BY <1>1, MeritAssumption
  <1> QED BY <1>2, <1>5, <1>6

\* The ranking is a total order without ties.
LEMMA RankingIsTotal ==
    ASSUME MeritTypeOK
    PROVE  /\ \A a, b \in Listed : a # b => Outranks(a, b) \/ Outranks(b, a)
           /\ \A a, b \in Listed : ~(Outranks(a, b) /\ Outranks(b, a))
           /\ \A a, b, c \in Listed : Outranks(a, b) /\ Outranks(b, c) => Outranks(a, c)
  BY ListedTypes DEF Outranks

\* Some candidate comes last.
LEMMA LastOne ==
    ASSUME MeritTypeOK, NEW S \in SUBSET Listed, S # {}
    PROVE  \E w \in S : \A b \in S \ {w} : Outranks(b, w)
  <1> SUFFICES ASSUME ~ \E w \in S : \A b \in S \ {w} : Outranks(b, w) PROVE FALSE
    OBVIOUS
  <1>1. PICK U : U = {A \in SUBSET Listed : A # {} /\ ~ \E w \in A : \A b \in A \ {w} : Outranks(b, w)}
    OBVIOUS
  <1>2. PICK A \in U : \A B \in U : B \subseteq A => B = A
    <2>1. U \in SUBSET (SUBSET Listed) /\ U # {}
      BY <1>1
    <2> QED BY <2>1, ListedTypes, SmallestMember
  <1>3. A \in SUBSET Listed /\ A # {} /\ ~ \E w \in A : \A b \in A \ {w} : Outranks(b, w)
    BY <1>1, <1>2
  <1>4. PICK x \in A : TRUE
    BY <1>3
  <1>5. CASE A \ {x} = {}
    BY <1>3, <1>4, <1>5
  <1>6. CASE A \ {x} # {}
    <2>1. A \ {x} \notin U /\ A \ {x} \in SUBSET Listed
      BY <1>2, <1>3, <1>4
    <2>2. PICK w \in A \ {x} : \A b \in (A \ {x}) \ {w} : Outranks(b, w)
      BY <1>1, <1>6, <2>1
    <2>3. w \in Listed /\ x \in Listed /\ w # x /\ w \in A
      BY <1>3, <1>4, <2>2
    <2>4. CASE Outranks(x, w)
      <3>1. \A b \in A \ {w} : Outranks(b, w)
        BY <2>2, <2>4
      <3> QED BY <1>3, <2>3, <3>1
    <2>5. CASE Outranks(w, x)
      <3>1. \A b \in A \ {x} : Outranks(b, x)
        <4> SUFFICES ASSUME NEW b \in A \ {x} PROVE Outranks(b, x)
          OBVIOUS
        <4>1. CASE b = w
          BY <2>5, <4>1
        <4>2. CASE b # w
          <5>1. Outranks(b, w) /\ b \in Listed
            BY <1>3, <2>2, <4>2
          <5> QED BY <2>3, <2>5, <5>1, RankingIsTotal
        <4> QED BY <4>1, <4>2
      <3> QED BY <1>3, <1>4, <3>1
    <2> QED BY <2>3, <2>4, <2>5, RankingIsTotal
  <1> QED BY <1>5, <1>6

\* Without the last one, the first n are the same, and the last is among them when there
\* are fewer than n others.
LEMMA BestWithoutLast ==
    ASSUME MeritTypeOK, NEW n \in Nat, NEW S \in SUBSET Listed, NEW w \in S,
           \A b \in S \ {w} : Outranks(b, w)
    PROVE  Best(n, S) = Best(n, S \ {w}) \cup (IF Cardinality(S \ {w}) < n THEN {w} ELSE {})
  <1>1. {b \in S : Outranks(b, w)} = S \ {w}
    BY RankingIsTotal
  <1>2. \A a \in S \ {w} : {b \in S : Outranks(b, a)} = {b \in S \ {w} : Outranks(b, a)}
    BY RankingIsTotal
  <1> QED BY <1>1, <1>2 DEF Best

\* The first n are n of them, or all when there are no more.
LEMMA BestSize ==
    ASSUME MeritTypeOK, NEW n \in Nat, NEW S \in SUBSET Listed
    PROVE  /\ Best(n, S) \subseteq S
           /\ Cardinality(S) <= n => Best(n, S) = S
           /\ Cardinality(S) > n => Cardinality(Best(n, S)) = n
  <1>1. Best(n, S) \subseteq S
    BY DEF Best
  <1> DEFINE Right(A) == /\ Cardinality(A) <= n => Best(n, A) = A
                         /\ Cardinality(A) > n => Cardinality(Best(n, A)) = n
  <1>2. ASSUME ~Right(S) PROVE FALSE
    <2>1. PICK U : U = {A \in SUBSET Listed : ~Right(A)}
      OBVIOUS
    <2>2. PICK A \in U : \A B \in U : B \subseteq A => B = A
      <3>1. U \in SUBSET (SUBSET Listed) /\ U # {}
        BY <1>2, <2>1
      <3> QED BY <3>1, ListedTypes, SmallestMember
    <2>3. A \in SUBSET Listed /\ ~Right(A)
      BY <2>1, <2>2
    <2>4. CASE A = {}
      <3>1. Best(n, A) = A /\ Cardinality(A) = 0
        BY <2>4, FS_EmptySet DEF Best
      <3> QED BY <2>3, <3>1
    <2>5. CASE A # {}
      <3>1. PICK w \in A : \A b \in A \ {w} : Outranks(b, w)
        BY <2>3, <2>5, LastOne
      <3>2. PICK R : R = A \ {w}
        OBVIOUS
      <3>3. R \in SUBSET Listed /\ R \subseteq A /\ R # A
        BY <2>3, <3>1, <3>2
      <3>4. Right(R)
        BY <2>1, <2>2, <3>3
      <3>5. Best(n, A) = Best(n, R) \cup (IF Cardinality(R) < n THEN {w} ELSE {})
        BY <2>3, <3>1, <3>2, BestWithoutLast
      <3>6. IsFiniteSet(A) /\ IsFiniteSet(R) /\ Cardinality(R) \in Nat
        BY <2>3, <3>3, ListedTypes, FS_Subset, FS_CardinalityType
      <3>7. Cardinality(R) = Cardinality(A) - 1 /\ Cardinality(A) \in Nat
        BY <3>1, <3>2, <3>6, FS_RemoveElement, FS_CardinalityType
      <3>8. CASE Cardinality(R) < n
        <4>1. Best(n, R) = R
          BY <3>4, <3>6, <3>8
        <4>2. Best(n, A) = A
          BY <3>1, <3>2, <3>5, <3>8, <4>1
        <4> QED BY <2>3, <3>7, <3>8, <4>2
      <3>9. CASE Cardinality(R) >= n
        <4>1. Best(n, A) = Best(n, R)
          BY <3>5, <3>6, <3>9
        <4>2. Cardinality(Best(n, R)) = n
          BY <3>4, <3>6, <3>9
        <4> QED BY <2>3, <3>7, <3>9, <4>1, <4>2
      <3> QED BY <3>6, <3>8, <3>9
    <2> QED BY <2>4, <2>5
  <1> QED BY <1>1, <1>2

\* Whoever outranks one of the first n is one of them.
LEMMA BestIsUpward ==
    ASSUME MeritTypeOK, NEW n \in Nat, NEW S \in SUBSET Listed,
           NEW in \in Best(n, S), NEW out \in S, Outranks(out, in)
    PROVE  out \in Best(n, S)
  <1>1. PICK I, O : I = {b \in S : Outranks(b, in)} /\ O = {b \in S : Outranks(b, out)}
    OBVIOUS
  <1>2. in \in S /\ Cardinality(I) < n
    BY <1>1 DEF Best
  <1>3. O \subseteq I /\ I \in SUBSET Listed
    BY <1>1, <1>2, RankingIsTotal
  <1>4. IsFiniteSet(I) /\ IsFiniteSet(O) /\ Cardinality(O) <= Cardinality(I)
    BY <1>3, ListedTypes, FS_Subset
  <1>5. Cardinality(I) \in Nat /\ Cardinality(O) \in Nat
    BY <1>4, FS_CardinalityType
  <1>6. Cardinality(O) < n
    BY <1>2, <1>4, <1>5
  <1> QED BY <1>1, <1>6 DEF Best

\* One bucket after those that took the seats `taken`, and the buckets one by one.
Fill(i, taken) ==
    taken \cup Best(quota.reserved[i].seats,
                    {a \in Listed \ taken : quota.reserved[i].attribute \in candidate[a].attributes})
IsFilling(f, n) == f = [i \in 0..n |-> IF i = 0 THEN {} ELSE Fill(i, f[i - 1])]

\* The buckets can be filled one after the other.
LEMMA FillingExists ==
    ASSUME NEW n \in Nat
    PROVE  \E f : IsFilling(f, n)
  <1> SUFFICES ASSUME ~ \E f : IsFilling(f, n) PROVE FALSE
    OBVIOUS
  <1>1. PICK T : T = {m \in Nat : ~ \E f : IsFilling(f, m)}
    OBVIOUS
  <1>2. PICK m \in T : \A k \in T : m <= k
    <2>1. T \in SUBSET Nat /\ T # {}
      BY <1>1
    <2> QED BY <2>1, LeastNumber
  <1>3. m \in Nat /\ ~ \E f : IsFilling(f, m)
    BY <1>1, <1>2
  <1>4. CASE m = 0
    <2>1. PICK f : f = [i \in 0..0 |-> {}]
      OBVIOUS
    <2>2. f = [i \in 0..0 |-> IF i = 0 THEN {} ELSE Fill(i, f[i - 1])]
      BY <2>1
    <2> QED BY <1>3, <1>4, <2>2 DEF IsFilling
  <1>5. CASE m # 0
    <2>1. m - 1 \in Nat /\ m - 1 \notin T
      BY <1>2, <1>3, <1>5
    <2>2. PICK f : IsFilling(f, m - 1)
      BY <1>1, <2>1
    <2>3. \A i \in 0..(m - 1) : f[i] = IF i = 0 THEN {} ELSE Fill(i, f[i - 1])
      BY <2>2 DEF IsFilling
    <2>4. PICK g : g = [i \in 0..m |-> IF i = m THEN Fill(m, f[m - 1]) ELSE f[i]]
      OBVIOUS
    <2>5. \A i \in 0..m : g[i] = IF i = m THEN Fill(m, f[m - 1]) ELSE f[i]
      BY <2>4
    <2>6. \A i \in 0..m : g[i] = IF i = 0 THEN {} ELSE Fill(i, g[i - 1])
      <3> SUFFICES ASSUME NEW i \in 0..m PROVE g[i] = IF i = 0 THEN {} ELSE Fill(i, g[i - 1])
        OBVIOUS
      <3>1. CASE i = m
        <4>1. m - 1 \in 0..m /\ m - 1 # m
          BY <1>3, <1>5
        <4>2. g[m] = Fill(m, f[m - 1]) /\ g[m - 1] = f[m - 1]
          BY <1>3, <2>5, <4>1
        <4> QED BY <1>5, <3>1, <4>2
      <3>2. CASE i # m
        <4>1. i \in 0..(m - 1) /\ (i # 0 => i - 1 \in 0..m /\ i - 1 # m)
          BY <1>3, <3>2
        <4>2. g[i] = f[i] /\ (i # 0 => g[i - 1] = f[i - 1])
          BY <2>5, <3>2, <4>1
        <4> QED BY <2>3, <4>1, <4>2
      <3> QED BY <3>1, <3>2
    <2>7. g = [i \in 0..m |-> IF i = 0 THEN {} ELSE Fill(i, g[i - 1])]
      BY <2>4, <2>6
    <2> QED BY <1>3, <2>7 DEF IsFilling
  <1> QED BY <1>4, <1>5

\* The seats of the buckets.
BucketSeats == [i \in DOMAIN quota.reserved |-> quota.reserved[i].seats]

\* What holds of the seats taken, and of those left out, after i buckets.
FairSoFar(taken, i) ==
    /\ taken \subseteq Listed
    /\ Cardinality(taken) <= Total(BucketSeats, 1..i)
    /\ \A in \in taken, out \in Listed \ taken :
          Outranks(out, in) => ~ candidate[in].attributes \subseteq candidate[out].attributes

\* The next bucket keeps it.
LEMMA FillIsFair ==
    ASSUME MeritTypeOK, NEW i \in 1..Len(quota.reserved), NEW taken, FairSoFar(taken, i - 1)
    PROVE  FairSoFar(Fill(i, taken), i)
  <1>1. PICK bucket : bucket = quota.reserved[i]
    OBVIOUS
  <1>2. quota.reserved \in Seq(Bucket) /\ bucket \in Bucket
    BY <1>1 DEF MeritTypeOK
  <1>3. bucket.seats \in Nat
    BY <1>2, MeritAssumption DEF Bucket
  <1>4. PICK able : able = {a \in Listed \ taken : bucket.attribute \in candidate[a].attributes}
    OBVIOUS
  <1>5. PICK best : best = Best(bucket.seats, able)
    OBVIOUS
  <1>6. Fill(i, taken) = taken \cup best
    BY <1>1, <1>4, <1>5 DEF Fill
  <1>7. /\ able \in SUBSET Listed /\ best \subseteq able
        /\ Cardinality(able) <= bucket.seats => best = able
        /\ Cardinality(able) > bucket.seats => Cardinality(best) = bucket.seats
    BY <1>3, <1>4, <1>5, BestSize
  <1>8. taken \cup best \subseteq Listed /\ taken \subseteq Listed
    BY <1>7 DEF FairSoFar
  <1>9. /\ IsFiniteSet(able) /\ IsFiniteSet(taken) /\ IsFiniteSet(best)
        /\ Cardinality(able) \in Nat /\ Cardinality(taken) \in Nat /\ Cardinality(best) \in Nat
    BY <1>7, <1>8, ListedTypes, FS_Subset, FS_CardinalityType
  <1>10. Cardinality(best) <= bucket.seats
    BY <1>3, <1>7, <1>9
  <1>11. Cardinality(taken \cup best) <= Cardinality(taken) + Cardinality(best)
         /\ Cardinality(taken \cup best) \in Nat
    <2>1. /\ IsFiniteSet(taken \cup best) /\ IsFiniteSet(taken \cap best)
          /\ Cardinality(taken \cup best)
             = Cardinality(taken) + Cardinality(best) - Cardinality(taken \cap best)
      BY <1>9, FS_Union, FS_Intersection
    <2>2. Cardinality(taken \cap best) \in Nat /\ Cardinality(taken \cup best) \in Nat
      BY <2>1, FS_CardinalityType
    <2> QED BY <1>9, <2>1, <2>2
  <1>12. Total(BucketSeats, 1..i) = bucket.seats + Total(BucketSeats, 1..(i - 1))
         /\ Total(BucketSeats, 1..(i - 1)) \in Nat
    <2>1. Len(quota.reserved) \in Nat /\ DOMAIN quota.reserved = 1..Len(quota.reserved)
      BY <1>2
    <2>2. \A j \in 1..i : BucketSeats[j] = quota.reserved[j].seats /\ quota.reserved[j] \in Bucket
      BY <1>2, <2>1 DEF BucketSeats
    <2>3. \A j \in 1..i : BucketSeats[j] \in Nat
      BY <2>2, MeritAssumption DEF Bucket
    <2>4. i \in Int /\ i - 1 \in Int /\ i \in 1..i /\ \A j \in 1..(i - 1) : j \in 1..i
      BY <2>1
    <2>5. PICK A, B : A = 1..i /\ B = 1..(i - 1)
      OBVIOUS
    <2>6. IsFiniteSet(A) /\ IsFiniteSet(B) /\ i \in A /\ A \ {i} = B
      <3>1. (1..i) \ {i} = 1..(i - 1)
        BY <2>1
      <3>2. IsFiniteSet(1..i) /\ IsFiniteSet(1..(i - 1))
        <4>1. PICK k \in Int : k = i - 1
          BY <2>4
        <4>2. IsFiniteSet(1..i) /\ IsFiniteSet(1..k)
          BY <2>4, FS_Interval
        <4> QED BY <4>1, <4>2
      <3> QED BY <2>4, <2>5, <3>1, <3>2
    <2>7. (\A j \in A : BucketSeats[j] \in Nat) /\ \A j \in B : BucketSeats[j] \in Nat
      BY <2>3, <2>4, <2>5
    <2>8. Total(BucketSeats, A) = BucketSeats[i] + Total(BucketSeats, A \ {i})
      BY <2>6, <2>7, SumSplitsOff
    <2>9. Total(BucketSeats, B) \in Nat
      BY <2>6, <2>7, SumSplitsOff
    <2> QED BY <1>1, <2>2, <2>4, <2>5, <2>6, <2>8, <2>9
  <1>13. Cardinality(taken \cup best) <= Total(BucketSeats, 1..i)
    <2>1. Cardinality(taken) <= Total(BucketSeats, 1..(i - 1))
      BY DEF FairSoFar
    <2> QED BY <1>3, <1>9, <1>10, <1>11, <1>12, <2>1
  <1>14. ASSUME NEW in \in taken \cup best, NEW out \in Listed \ (taken \cup best), Outranks(out, in)
         PROVE  ~ candidate[in].attributes \subseteq candidate[out].attributes
    <2>1. CASE in \in taken
      BY <1>14, <2>1 DEF FairSoFar
    <2>2. CASE in \in best
      <3>1. in \in able /\ (out \in able => out \in best)
        BY <1>3, <1>5, <1>7, <1>14, <2>2, BestIsUpward
      <3> QED BY <1>4, <1>14, <3>1
    <2> QED BY <2>1, <2>2
  <1> QED BY <1>6, <1>8, <1>13, <1>14 DEF FairSoFar

\* The reserved seats as a whole.
LEMMA ReservedAreFair ==
    ASSUME MeritTypeOK
    PROVE  FairSoFar(ReservedSeats, Len(quota.reserved))
  <1>1. PICK n : n = Len(quota.reserved)
    OBVIOUS
  <1>2. n \in Nat
    BY <1>1 DEF MeritTypeOK
  <1>3. PICK f : f = CHOOSE g : IsFilling(g, n)
    OBVIOUS
  <1>4. IsFilling(f, n)
    BY <1>2, <1>3, FillingExists
  <1>5. ReservedSeats = f[n]
    BY <1>1, <1>3, Zenon DEF ReservedSeats, FilledUpTo, IsFilling, Fill
  <1>6. f[0] = {} /\ \A i \in 1..n : f[i] = Fill(i, f[i - 1])
    BY <1>2, <1>4 DEF IsFilling
  <1>7. FairSoFar({}, 0)
    <2>1. 1..0 = {} /\ IsFiniteSet({}) /\ Cardinality({}) = 0
      BY FS_EmptySet
    <2>2. Total(BucketSeats, {}) = 0
      BY <2>1, SumSplitsOff
    <2> QED BY <2>1, <2>2 DEF FairSoFar
  <1>8. ASSUME ~FairSoFar(f[n], n) PROVE FALSE
    <2>1. PICK T : T = {i \in 0..n : ~FairSoFar(f[i], i)}
      OBVIOUS
    <2>2. PICK i \in T : \A j \in T : i <= j
      <3>1. T \in SUBSET Nat /\ T # {}
        BY <1>2, <1>8, <2>1
      <3> QED BY <3>1, LeastNumber
    <2>3. i \in 0..n /\ ~FairSoFar(f[i], i)
      BY <2>1, <2>2
    <2>4. i # 0
      BY <1>6, <1>7, <2>3
    <2>5. i \in 1..n /\ i - 1 \in 0..n /\ i - 1 \notin T
      BY <1>2, <2>2, <2>3, <2>4
    <2>6. FairSoFar(f[i - 1], i - 1)
      BY <2>1, <2>5
    <2> QED BY <1>1, <1>6, <2>3, <2>5, <2>6, FillIsFair
  <1> QED BY <1>1, <1>5, <1>8

\* The greater of two numbers ...
LEMMA MaxOfTwo ==
    ASSUME NEW m \in Int, NEW n \in Int
    PROVE  Max({m, n}) = IF n > m THEN n ELSE m
  <1>1. PICK x : x = IF n > m THEN n ELSE m
    OBVIOUS
  <1>2. /\ x \in {m, n} /\ \A z \in {m, n} : x >= z
        /\ \A u \in {m, n} : (\A z \in {m, n} : u >= z) => u = x
    BY <1>1
  <1>3. Max({m, n}) = x
    BY <1>2 DEF Max
  <1> QED BY <1>1, <1>3

\* ... and the lesser.
LEMMA MinOfTwo ==
    ASSUME NEW m \in Int, NEW n \in Int
    PROVE  Min({m, n}) = IF m < n THEN m ELSE n
  <1>1. PICK y : y = IF m < n THEN m ELSE n
    OBVIOUS
  <1>2. /\ y \in {m, n} /\ \A z \in {m, n} : y <= z
        /\ \A u \in {m, n} : (\A z \in {m, n} : u <= z) => u = y
    BY <1>1
  <1>3. Min({m, n}) = y
    BY <1>2 DEF Min
  <1> QED BY <1>1, <1>3

\* In every state with rows of the right types.
LEMMA ListIsFair == MeritTypeOK => MeritListIsFair
  <1> SUFFICES ASSUME MeritTypeOK PROVE MeritListIsFair
    OBVIOUS
  <1>1. PICK R : R = ReservedSeats
    OBVIOUS
  <1>2. PICK rest : rest = Listed \ R
    OBVIOUS
  <1>3. R \subseteq Listed /\ FairSoFar(R, Len(quota.reserved))
    BY <1>1, ReservedAreFair DEF FairSoFar
  <1>4. rest \in SUBSET Listed
    BY <1>2
  <1>5. /\ IsFiniteSet(R) /\ IsFiniteSet(rest) /\ IsFiniteSet(Listed)
        /\ Cardinality(R) \in Nat /\ Cardinality(rest) \in Nat /\ Cardinality(Listed) \in Nat
    BY <1>3, <1>4, ListedTypes, FS_Subset, FS_CardinalityType
  <1>6. Cardinality(Listed) = Cardinality(R) + Cardinality(rest)
    <2>1. Listed = R \cup rest /\ R \cap rest = {}
      BY <1>2, <1>3
    <2> QED BY <1>5, <2>1, FS_Union, FS_EmptySet
  <1>7. quota.total \in Int /\ (quota.total # NoCap => quota.total \in Nat)
    BY MeritAssumption DEF MeritTypeOK, NoCap
  <1>8. PICK least : least = Min({quota.total, Cardinality(Listed)})
    OBVIOUS
  <1>9. least = IF quota.total < Cardinality(Listed) THEN quota.total ELSE Cardinality(Listed)
    <2>1. Cardinality(Listed) \in Int
      BY <1>5
    <2>2. Min({quota.total, Cardinality(Listed)})
          = IF quota.total < Cardinality(Listed) THEN quota.total ELSE Cardinality(Listed)
      BY ONLY <1>7, <2>1, MinOfTwo
    <2> QED BY <1>8, <2>2
  <1>10. CASE quota.total = NoCap
    <2>1. Admitted = Listed
      BY <1>10 DEF Admitted
    <2>2. Cardinality(Admitted) >= least
      BY <1>5, <1>7, <1>9, <2>1
    <2> QED BY <1>8, <1>10, <2>1, <2>2 DEF MeritListIsFair
  <1>11. CASE quota.total # NoCap
    <2>1. PICK open : open = Max({0, quota.total - Cardinality(R)})
      OBVIOUS
    <2>2. open \in Nat /\ open = IF quota.total - Cardinality(R) > 0
                                 THEN quota.total - Cardinality(R) ELSE 0
      <3>1. quota.total - Cardinality(R) \in Int
        BY <1>5, <1>7
      <3>2. PICK left \in Int : left = quota.total - Cardinality(R)
        BY <3>1
      <3>3. Max({0, left}) = IF left > 0 THEN left ELSE 0
        BY MaxOfTwo
      <3> QED BY <2>1, <3>2, <3>3
    <2>3. PICK best : best = Best(open, rest)
      OBVIOUS
    <2>4. Admitted = R \cup best
      BY <1>1, <1>2, <1>11, <2>1, <2>3 DEF Admitted
    <2>5. /\ best \subseteq rest
          /\ Cardinality(rest) <= open => best = rest
          /\ Cardinality(rest) > open => Cardinality(best) = open
      BY <1>4, <2>2, <2>3, BestSize
    <2>6. /\ IsFiniteSet(best) /\ Cardinality(best) \in Nat
          /\ Cardinality(Admitted) = Cardinality(R) + Cardinality(best)
      <3>1. IsFiniteSet(best) /\ R \cap best = {}
        BY <1>2, <1>5, <2>5, FS_Subset
      <3>2. Cardinality(best) \in Nat
        BY <3>1, FS_CardinalityType
      <3>3. Cardinality(R \cup best) = Cardinality(R) + Cardinality(best) - Cardinality(R \cap best)
        BY <1>5, <3>1, FS_Union
      <3>4. Cardinality(R \cap best) = 0
        BY <3>1, FS_EmptySet
      <3> QED BY <1>5, <2>4, <3>1, <3>2, <3>3, <3>4
    <2>7. Cardinality(best) = IF Cardinality(rest) <= open THEN Cardinality(rest) ELSE open
      BY <1>5, <2>2, <2>5
    <2>8. Cardinality(Admitted) >= least
      BY <1>5, <1>6, <1>7, <1>9, <1>11, <2>2, <2>6, <2>7
    <2>9. ASSUME SeatsReserved <= quota.total PROVE Cardinality(Admitted) <= quota.total
      <3>1. PICK n : n = Len(quota.reserved)
        OBVIOUS
      <3>2. /\ n \in Nat /\ DOMAIN quota.reserved = 1..n
            /\ \A i \in 1..n : quota.reserved[i] \in Bucket
        BY <3>1 DEF MeritTypeOK
      <3>3. SeatsReserved = Total(BucketSeats, 1..n)
        BY <3>2 DEF SeatsReserved, BucketSeats, Total
      <3>4. Total(BucketSeats, 1..n) \in Nat
        <4>1. \A i \in 1..n : BucketSeats[i] \in Nat
          BY <3>2, MeritAssumption DEF BucketSeats, Bucket
        <4>2. IsFiniteSet(1..n)
          <5>1. 1 \in Int /\ n \in Int
            BY <3>2
          <5> QED BY ONLY <5>1, FS_Interval
        <4> QED BY <4>1, <4>2, SumSplitsOff
      <3>5. Cardinality(R) <= Total(BucketSeats, 1..n)
        BY <1>3, <3>1 DEF FairSoFar
      <3>6. Cardinality(R) <= quota.total
        BY <1>5, <1>7, <2>9, <3>3, <3>4, <3>5
      <3> QED BY <1>5, <1>7, <2>2, <2>6, <2>7, <3>6
    <2>10. ASSUME NEW out \in Listed \ Admitted, NEW in \in Admitted, Outranks(out, in)
           PROVE  in \in R /\ ~ candidate[in].attributes \subseteq candidate[out].attributes
      <3>1. in \in R
        <4> SUFFICES ASSUME in \notin R PROVE FALSE
          OBVIOUS
        <4>1. in \in best /\ out \in rest /\ out \notin best
          BY <1>2, <2>4
        <4> QED BY <1>4, <2>2, <2>3, <2>10, <4>1, BestIsUpward
      <3>2. out \in Listed \ R
        BY <2>4
      <3> QED BY <1>3, <2>10, <3>1, <3>2 DEF FairSoFar
    <2> QED BY <1>1, <1>8, <2>8, <2>9, <2>10 DEF MeritListIsFair
  <1> QED BY <1>10, <1>11

\* The merit list keeps its policies for any number of applicants, seats and buckets.
THEOREM MeritListStaysFair == MeritSpec => []MeritListIsFair
  <1>1. MeritTypeOK => MeritListIsFair
    BY ListIsFair
  <1> QED BY <1>1, MeritTypes, PTL

----------------------------------------------------------------------------
(* The offices side by side.                                               *)

\* A step of the campus is a step of one office, and of no other.
LEMMA CampusSteps ==
    ASSUME [CampusNext]_<<campusVars, desk>>
    PROVE  /\ [AdmNext]_admVars /\ [MeritNext]_meritVars /\ [RegistryNext]_registryVars
           /\ [DocNext]_docVars /\ [LibNext]_libVars /\ [HosNext]_hosVars /\ [HrNext]_hrVars
           /\ [AccNext]_accVars /\ [ComNext]_comVars /\ [BilNext]_bilVars /\ [SigNext]_sigVars
           /\ [FinNext]_finVars
  BY DEF CampusNext, campusVars

\* The composition runs every office.
THEOREM CampusRunsEveryOffice ==
    CampusSpec => /\ AdmSpec /\ MeritSpec /\ RegistrySpec /\ DocSpec /\ LibSpec /\ HosSpec /\ HrSpec
                  /\ AccSpec /\ ComSpec /\ BilSpec /\ SigSpec /\ FinSpec
  <1>1. CampusInit => /\ AdmInit /\ MeritInit /\ RegistryInit /\ DocInit /\ LibInit /\ HosInit
                      /\ HrInit /\ AccInit /\ ComInit /\ BilInit /\ SigInit /\ FinInit
    BY DEF CampusInit
  <1>2. [CampusNext]_<<campusVars, desk>> =>
           /\ [AdmNext]_admVars /\ [MeritNext]_meritVars /\ [RegistryNext]_registryVars
           /\ [DocNext]_docVars /\ [LibNext]_libVars /\ [HosNext]_hosVars /\ [HrNext]_hrVars
           /\ [AccNext]_accVars /\ [ComNext]_comVars /\ [BilNext]_bilVars /\ [SigNext]_sigVars
           /\ [FinNext]_finVars
    BY CampusSteps
  <1> QED BY <1>1, <1>2, PTL DEF CampusSpec, AdmSpec, MeritSpec, RegistrySpec, DocSpec, LibSpec,
             HosSpec, HrSpec, AccSpec, ComSpec, BilSpec, SigSpec, FinSpec

\* Every office's tables keep their types.
THEOREM CampusTypes == CampusSpec => []CampusTypeOK
  <1>1. /\ AdmTypeOK /\ MeritTypeOK /\ RegistryTypeOK /\ DocTypeOK /\ LibTypeOK /\ HosTypeOK /\ HrTypeOK
        /\ AccTypeOK /\ ComTypeOK /\ BilTypeOK /\ SigTypeOK /\ FinTypeOK
        => CampusTypeOK
    BY DEF CampusTypeOK
  <1> QED BY <1>1, CampusRunsEveryOffice, AdmissionTypes, MeritTypes, RegistryTypes,
             DocumentTypes, LibraryTypes, HostelTypes, HrTypes, AccountTypes, NoticeTypes,
             BillingTypes, SignInTypes, FinanceTypes, PTL
=============================================================================
