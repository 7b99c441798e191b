------------------------------ MODULE Results ------------------------------
(***************************************************************************)
(* Approval, publication and appeals of a semester's results               *)
(* (backend/apps/examinations).  One approval row covers a programme, one  *)
(* all programmes; a student is shown what the row of the programme, or    *)
(* else the common row, says.  Senate and the examinations office act on   *)
(* rows their views loaded.                                                *)
(***************************************************************************)
EXTENDS Integers, FiniteSets

CONSTANTS
    Programmes,
    All,         \* the row without a programme
    Appeals,     \* grade appeals, by id
    ResCalls

VARIABLES
    approval,    \* ResultApproval.status, "none": no row
    senate,      \* history: Senate's last decision on each row
    appeal,      \* GradeAppeal.status
    resCall,     \* per call: what it does, to which row, the status it has read
    resRaced     \* history: rows saved on a stale read

resultsVars == <<approval, senate, appeal, resCall, resRaced>>

Scopes == Programmes \cup {All}
ApprovalStatus == {"pending", "approved", "rejected", "published"}
AppealStatus == {"submitted", "under_review", "upheld", "rejected"}
ResIdle == [do |-> "none", on |-> All, seen |-> "none", stale |-> FALSE]

ResultsInit ==
    /\ approval = [r \in Scopes |-> "none"]
    /\ senate = [r \in Scopes |-> "none"]
    /\ appeal = [a \in Appeals |-> "none"]
    /\ resCall = [c \in ResCalls |-> ResIdle]
    /\ resRaced = {}

----------------------------------------------------------------------------
\* Mutant: publication only needs a row Senate has not rejected.
NeedsLax(what) ==
    CASE what = "submit" -> {"none", "pending", "rejected"}
      [] what \in {"approve", "reject"} -> {"pending"}
      [] what = "publish" -> {"pending", "approved"}
      [] what \in {"uphold", "dismiss"} -> {"submitted", "under_review"}

\* Mutant: published results may be submitted again.
NeedsAgain(what) ==
    CASE what = "submit" -> {"none"} \cup ApprovalStatus
      [] what \in {"approve", "reject"} -> {"pending"}
      [] what = "publish" -> {"approved"}
      [] what \in {"uphold", "dismiss"} -> {"submitted", "under_review"}

\* The status each operation needs on the row it has read.
Needs(what) ==
    CASE what = "submit" -> {"none", "pending", "rejected"}
      [] what \in {"approve", "reject"} -> {"pending"}
      [] what = "publish" -> {"approved"}
      [] what \in {"uphold", "dismiss"} -> {"submitted", "under_review"}

\* The row is read and its status checked: in submit_for_approval, or by
\* get_object for the others.
LoadResult(c, what, row, status) ==
    /\ resCall[c] = ResIdle
    /\ status \in Needs(what)
    /\ resCall' = [resCall EXCEPT ![c] =
                     [do |-> what, on |-> row, seen |-> status, stale |-> FALSE]]
    /\ UNCHANGED <<approval, senate, appeal, resRaced>>

\* GradeAppealViewSet.decide.
LoadAppeal(c, a) ==
    \E what \in {"uphold", "dismiss"} : LoadResult(c, what, a, appeal[a])

\* What a finished call leaves behind: other calls on the row are stale.
Finish(c) ==
    /\ resCall' = [d \in ResCalls |->
          IF d = c \/ resCall[d] = ResIdle THEN ResIdle
          ELSE [resCall[d] EXCEPT !.stale = @ \/ resCall[d].on = resCall[c].on]]
    /\ resRaced' = IF resCall[c].stale THEN resRaced \cup {resCall[c].on} ELSE resRaced

SaveApproval(c, status, decision) ==
    /\ approval' = [approval EXCEPT ![resCall[c].on] = status]
    /\ senate' = [senate EXCEPT ![resCall[c].on] = decision]
    /\ Finish(c)
    /\ UNCHANGED appeal

\* submit_for_approval; a second insert of the row is refused.
SubmitForApproval(c) ==
    /\ resCall[c].do = "submit"
    /\ resCall[c].seen = "none" => approval[resCall[c].on] = "none"
    /\ SaveApproval(c, "pending", "none")

ApproveResults(c) ==
    resCall[c].do = "approve" /\ SaveApproval(c, "approved", "approved")

RejectResults(c) ==
    resCall[c].do = "reject" /\ SaveApproval(c, "rejected", "rejected")

PublishResults(c) ==
    resCall[c].do = "publish" /\ SaveApproval(c, "published", senate[resCall[c].on])

\* submit_appeal.
SubmitAppeal(a) ==
    /\ appeal[a] = "none"
    /\ appeal' = [appeal EXCEPT ![a] = "submitted"]
    /\ UNCHANGED <<approval, senate, resCall, resRaced>>

\* decide_appeal.
DecideAppeal(c) ==
    /\ resCall[c].do \in {"uphold", "dismiss"}
    /\ appeal' = [appeal EXCEPT ![resCall[c].on] =
                    IF resCall[c].do = "uphold" THEN "upheld" ELSE "rejected"]
    /\ Finish(c)
    /\ UNCHANGED <<approval, senate>>

ResAbandon(c) ==
    /\ resCall[c] # ResIdle
    /\ resCall' = [resCall EXCEPT ![c] = ResIdle]
    /\ UNCHANGED <<approval, senate, appeal, resRaced>>

ResultsNext ==
    \/ \E c \in ResCalls :
          \/ \E r \in Scopes, what \in {"submit", "approve", "reject", "publish"} :
                LoadResult(c, what, r, approval[r])
          \/ \E a \in Appeals : LoadAppeal(c, a)
          \/ SubmitForApproval(c) \/ ApproveResults(c) \/ RejectResults(c) \/ PublishResults(c)
          \/ DecideAppeal(c) \/ ResAbandon(c)
    \/ \E a \in Appeals : SubmitAppeal(a)

ResultsSpec == ResultsInit /\ [][ResultsNext]_resultsVars

----------------------------------------------------------------------------
\* _approval_for: the programme's own row, or the common one.
ApprovalFor(p) == IF approval[p] # "none" THEN approval[p] ELSE approval[All]

\* student_result: what a student of the programme is told.
StudentResult(p, held) ==
    IF ApprovalFor(p) # "published" THEN "unpublished"
    ELSE IF held THEN "withheld" ELSE "shown"

\* The type invariant.
ResultsTypeOK ==
    /\ approval \in [Scopes -> ApprovalStatus \cup {"none"}]
    /\ senate \in [Scopes -> {"none", "approved", "rejected"}]
    /\ appeal \in [Appeals -> AppealStatus \cup {"none"}]
    /\ \A c \in ResCalls : resCall[c].on \in Scopes \cup Appeals

\* What a student is shown Senate approved, and did not reject afterwards
\* (FR-EXM-05), whichever row it comes from; only a decision saved on a row read
\* before another decision can break it, or ResultApprovalAdmin, which writes the
\* status directly and is not modelled.
ShownWasApproved ==
    \A p \in Programmes : StudentResult(p, FALSE) = "shown" =>
        \E r \in {p, All} : r \in resRaced \/ (approval[r] = "published" /\ senate[r] = "approved")

\* Published results are withdrawn, and a decided appeal is decided again, by a
\* stale save only (the admin, which writes either status, is not modelled).
DecisionsAreFinal ==
    [][/\ \A r \in Scopes : approval[r] = "published" =>
             approval'[r] = "published" \/ r \in resRaced'
       /\ \A a \in Appeals : appeal[a] \in {"upheld", "rejected"} =>
             appeal'[a] = appeal[a] \/ a \in resRaced']_resultsVars
=============================================================================
