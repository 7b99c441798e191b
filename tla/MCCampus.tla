------------------------------ MODULE MCCampus ------------------------------
(***************************************************************************)
(* A small instance of the administrative offices.                         *)
(***************************************************************************)
EXTENDS Campus, MCBilling, MCFinance

\* Two heads of department, the second of another department, and in management too.
MCDepartment == [e \in Employees |-> IF e = "head2" THEN 2 ELSE 1]

\* A student with a phone and an e-mail address, one with a phone, an alumna.
MCClassOf == [p \in People |-> CASE p = "ann" -> "law" [] p = "ben" -> "arts" [] OTHER -> NoClass]
MCChannels == [p \in People |-> CASE p = "ann" -> <<"sms", "email">> [] p = "ben" -> <<"sms">>
                                 [] OTHER -> <<"email">>]
MCOwnClasses == [u \in Senders |-> IF u = "hod" THEN {"law"} ELSE Classes]

\* Every office has its pair of overlapping requests: one set of two model values
\* stands for all of them.
Symmetry == Permutations(AdmCalls)

\* What follows the first save on a stale read, or by hand in the admin, is not
\* explored: the properties make an exception of it.
NoRace ==
    /\ regRaced = {} /\ handmade = {} /\ docRaced = {} /\ libRaced = {} /\ hrRaced = {}
    /\ accRaced = {} /\ byHand = {}

\* Of an application the claim about its fee stands even then: it is followed on as
\* long as it has no review, which the claim does not depend on.
FeeOnly == admRaced = {} \/ \A a \in Applications, v \in Reviewers : review[a][v] = NoScore

\* And of an account that its backup codes go with its MFA: it is followed on as long
\* as nobody has failed to sign in or used a code.  One ICT has written is not followed
\* on.
MfaOnly ==
    /\ ~administered
    /\ sigRaced => account.failed_login_attempts + failures = 0
                    /\ \A k \in 1..MaxIssues : uses[k] = 0

\* Records do not touch each other: one at a time is followed beyond its admission, and
\* requests that overlap are about one record.
OneRecord ==
    /\ Cardinality({n \in Numbers : student[n] \notin {NoStudent, NewStudent}}) <= 1
    /\ Cardinality({regCall[c].on : c \in {d \in RegCalls : regCall[d] # RegIdle}}) <= 1

\* The reserved buckets are for different attributes.
BucketsDiffer == IsInjective([i \in DOMAIN quota.reserved |-> quota.reserved[i].attribute])

\* One entry at a time is missing from the trail.
OneMissed == Cardinality(missed) <= 1
=============================================================================
