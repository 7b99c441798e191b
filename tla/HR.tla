--------------------------------- MODULE HR ---------------------------------
(***************************************************************************)
(* Leave requests, contracts and appraisals (backend/apps/hr).  The views  *)
(* load a row with get_object, the services check the status they see and  *)
(* save the whole row.                                                     *)
(***************************************************************************)
EXTENDS Integers, FiniteSets

CONSTANTS
    Employees,          \* users with a staff profile
    Hods,               \* the employees with role hod
    HrOfficers,         \* those with role hr, and superusers: they decide
    Unscoped,           \* the other UNSCOPED_ROLES, ict_admin and management
    Department,         \* StaffProfile.department of an employee, NoOne: none
    Leaves,             \* leave requests by id
    Contracts,          \* contracts by id
    Salaries, Ratings,
    HrCalls,
    NoOne

ASSUME HrAssumption ==
    /\ Hods \subseteq Employees /\ HrOfficers \subseteq Employees /\ Unscoped \subseteq Employees
    /\ NoOne \notin Employees
    /\ DOMAIN Department = Employees /\ Salaries # {}

VARIABLES
    leave,              \* LeaveRequest rows
    contract,           \* Contract rows
    appraisal,          \* the rating of an employee for the year, 0: none
    hrCall,             \* per request: what it does, the row as loaded
    hrRaced,            \* history: rows a stale row was saved over
    edited              \* history: contracts changed through PATCH

hrVars == <<leave, contract, appraisal, hrCall, hrRaced, edited>>

\* LeaveStatus.
LeaveStatus == {"none", "submitted", "endorsed", "approved", "rejected"}
Decided == {"approved", "rejected"}

\* LeaveRequest.
LeaveRequest == [status : LeaveStatus, staff : Employees \cup {NoOne},
                 endorsed_by : Employees \cup {NoOne}, decided_by : Employees \cup {NoOne}]
NoLeave == [status |-> "none", staff |-> NoOne, endorsed_by |-> NoOne, decided_by |-> NoOne]

\* Contract: `terms` stands for type, position, dates and salary.
Contract == [state : {"none", "active", "ended"}, terms : Salaries]
NoContract == [state |-> "none", terms |-> CHOOSE s \in Salaries : TRUE]

HrIdle == [do |-> "none", by |-> NoOne, on |-> NoOne, row |-> NoLeave, stale |-> FALSE]

HrInit ==
    /\ leave = [l \in Leaves |-> NoLeave]
    /\ contract = [k \in Contracts |-> NoContract]
    /\ appraisal = [s \in Employees |-> 0]
    /\ hrCall = [c \in HrCalls |-> HrIdle]
    /\ hrRaced = {} /\ edited = {}

----------------------------------------------------------------------------
\* A head of department and the staff of that department.
Heads(u, staff) == Department[u] # NoOne /\ Department[staff] = Department[u]

\* LeaveRequestViewSet.get_queryset: HR and the other unscoped roles see every request,
\* a head of department those of the department, their own included, anyone else
\* their own.
Visible(u, l) ==
    \/ u \in HrOfficers \cup Unscoped
    \/ u \in Hods /\ Heads(u, leave[l].staff)
    \/ u \notin Hods /\ leave[l].staff = u

\* submit_leave_request.
NewLeave(u) == [NoLeave EXCEPT !.status = "submitted", !.staff = u]

\* LeaveRequestViewSet.submit: for oneself.
SubmitLeave(l, u) ==
    /\ leave[l] = NoLeave
    /\ leave' = [leave EXCEPT ![l] = NewLeave(u)]
    /\ UNCHANGED <<contract, appraisal, hrCall, hrRaced, edited>>

\* Mutant: HR may decide what nobody has endorsed.
LoadLeaveEarly(c, u, l, what) ==
    /\ hrCall[c] = HrIdle
    /\ leave[l] # NoLeave /\ Visible(u, l)
    /\ what = "endorse" => u \in Hods /\ leave[l].status = "submitted"
    /\ what \in Decided => u \in HrOfficers /\ leave[l].status \notin Decided
    /\ hrCall' = [hrCall EXCEPT ![c] = [do |-> what, by |-> u, on |-> l, row |-> leave[l],
                                       stale |-> FALSE]]
    /\ UNCHANGED <<leave, contract, appraisal, hrRaced, edited>>

\* endorse and decide: who may, the row, and its status.  Nothing asks whether
\* the endorser or the decider is the one who asked.
LoadLeave(c, u, l, what) ==
    /\ hrCall[c] = HrIdle
    /\ leave[l] # NoLeave /\ Visible(u, l)
    /\ what = "endorse" => u \in Hods /\ leave[l].status = "submitted"
    /\ what \in Decided => u \in HrOfficers /\ leave[l].status = "endorsed"
    /\ hrCall' = [hrCall EXCEPT ![c] = [do |-> what, by |-> u, on |-> l, row |-> leave[l],
                                       stale |-> FALSE]]
    /\ UNCHANGED <<leave, contract, appraisal, hrRaced, edited>>

\* A save ends request c and makes stale whoever else has loaded the row.
HrSaved(c) ==
    /\ hrCall' = [d \in HrCalls |->
          IF d = c \/ hrCall[d] = HrIdle THEN HrIdle
          ELSE [hrCall[d] EXCEPT !.stale = @ \/ hrCall[d].on = hrCall[c].on]]
    /\ hrRaced' = IF hrCall[c].stale THEN hrRaced \cup {hrCall[c].on} ELSE hrRaced

\* endorse_leave_request.
EndorseLeave(c) ==
    LET call == hrCall[c]
    IN  /\ call.do = "endorse"
        /\ leave' = [leave EXCEPT ![call.on] =
                       [call.row EXCEPT !.status = "endorsed", !.endorsed_by = call.by]]
        /\ HrSaved(c)
        /\ UNCHANGED <<contract, appraisal, edited>>

\* decide_leave_request.
DecideLeave(c) ==
    LET call == hrCall[c]
    IN  /\ call.do \in Decided
        /\ leave' = [leave EXCEPT ![call.on] =
                       [call.row EXCEPT !.status = call.do, !.decided_by = call.by]]
        /\ HrSaved(c)
        /\ UNCHANGED <<contract, appraisal, edited>>

\* create_contract.
CreateContract(k, terms) ==
    /\ contract[k] = NoContract
    /\ contract' = [contract EXCEPT ![k] = [state |-> "active", terms |-> terms]]
    /\ UNCHANGED <<leave, appraisal, hrCall, hrRaced, edited>>

LoadContract(c, u, k, what) ==
    /\ hrCall[c] = HrIdle
    /\ u \in HrOfficers /\ contract[k].state # "none"
    /\ hrCall' = [hrCall EXCEPT ![c] = [do |-> what, by |-> u, on |-> k, row |-> contract[k],
                                       stale |-> FALSE]]
    /\ UNCHANGED <<leave, contract, appraisal, hrRaced, edited>>

\* end_contract: whether or not it has ended before.
EndContract(c) ==
    LET call == hrCall[c]
    IN  /\ call.do = "end"
        /\ contract' = [contract EXCEPT ![call.on] = [call.row EXCEPT !.state = "ended"]]
        /\ HrSaved(c)
        /\ UNCHANGED <<leave, appraisal, edited>>

\* PUT and PATCH go to the serializer's own update: any column, no service, no clean.
PatchContract(c, state, terms) ==
    LET call == hrCall[c]
    IN  /\ call.do = "patch"
        /\ contract' = [contract EXCEPT ![call.on] = [state |-> state, terms |-> terms]]
        /\ edited' = edited \cup {call.on}
        /\ HrSaved(c)
        /\ UNCHANGED <<leave, appraisal>>

\* record_appraisal, by a head of department and once a year (unique constraint);
\* update_appraisal, by HR.
RecordAppraisal(s, rating) ==
    /\ appraisal[s] = 0
    /\ appraisal' = [appraisal EXCEPT ![s] = rating]
    /\ UNCHANGED <<leave, contract, hrCall, hrRaced, edited>>

UpdateAppraisal(s, rating) ==
    /\ appraisal[s] # 0
    /\ appraisal' = [appraisal EXCEPT ![s] = rating]
    /\ UNCHANGED <<leave, contract, hrCall, hrRaced, edited>>

\* AppraisalViewSet: create and update.
Appraise(s, rating) == RecordAppraisal(s, rating) \/ UpdateAppraisal(s, rating)

HrAbandon(c) ==
    /\ hrCall[c] # HrIdle
    /\ hrCall' = [hrCall EXCEPT ![c] = HrIdle]
    /\ UNCHANGED <<leave, contract, appraisal, hrRaced, edited>>

HrNext ==
    \/ \E l \in Leaves, u \in Employees : SubmitLeave(l, u)
    \/ \E k \in Contracts, t \in Salaries : CreateContract(k, t)
    \/ \E s \in Employees, rating \in Ratings : Appraise(s, rating)
    \/ \E c \in HrCalls :
          \/ \E u \in Employees, l \in Leaves, what \in {"endorse"} \cup Decided :
                LoadLeave(c, u, l, what)
          \/ \E u \in Employees, k \in Contracts, what \in {"end", "patch"} :
                LoadContract(c, u, k, what)
          \/ \E state \in {"active", "ended"}, t \in Salaries : PatchContract(c, state, t)
          \/ EndorseLeave(c) \/ DecideLeave(c) \/ EndContract(c) \/ HrAbandon(c)

HrSpec == HrInit /\ [][HrNext]_hrVars

----------------------------------------------------------------------------
\* payroll_export.
Payroll == {k \in Contracts : contract[k].state = "active"}

\* The type invariant.
HrTypeOK ==
    /\ leave \in [Leaves -> LeaveRequest]
    /\ contract \in [Contracts -> Contract]
    /\ appraisal \in [Employees -> Ratings \cup {0}]

\* Leave is granted or refused through the API only after it was endorsed, by a head of
\* the asker's department or one whose other role sees all requests, and by HR; and the
\* decision stands (FR-HR-02).  A contract that has ended stays off the payroll and
\* keeps its terms (FR-HR-01, "never an edit of the old one").  Left out are requests
\* that overlap and contracts changed by PATCH.  That the endorser or the decider is not
\* the asker is not claimed: nothing sees to it.  ContractAdmin and LeaveRequestAdmin,
\* which write a contract's state and a request's endorser by hand, are not modelled.
HrRecordsAreSound ==
    [][/\ \A l \in Leaves \ hrRaced' :
             /\ leave'[l].status \in Decided =>
                   /\ leave'[l].endorsed_by \in Hods /\ leave'[l].decided_by \in HrOfficers
                   /\ \/ leave'[l].endorsed_by \in HrOfficers \cup Unscoped
                      \/ Heads(leave'[l].endorsed_by, leave'[l].staff)
             /\ leave[l].status \in Decided => leave'[l] = leave[l]
       /\ \A k \in Contracts \ (hrRaced' \cup edited') :
             contract[k].state = "ended" => k \notin Payroll' /\ contract'[k].terms = contract[k].terms
      ]_hrVars
=============================================================================
