------------------------------ MODULE Library ------------------------------
(***************************************************************************)
(* The copies of one catalogue item and their loans (backend/apps/library).*)
(* A checkout locks the item row, so it is one step; returning, losing and *)
(* waiving load the loan with get_object and save the whole row later,     *)
(* with no lock on the item.                                               *)
(***************************************************************************)
EXTENDS Integers, FiniteSets

CONSTANTS
    Loans,          \* loans by id
    MaxCopies,      \* bound on total_copies
    MaxLate,        \* bound on the days a return is late
    Rates,          \* daily fine rates the librarian may set
    LibCalls,
    NoLoan

ASSUME LibraryAssumption ==
    MaxCopies \in Nat /\ MaxLate \in Nat /\ Rates \subseteq Nat /\ IsFiniteSet(Loans)

VARIABLES
    copies,         \* LibraryItem.total_copies
    rate,           \* LibraryPolicy.daily_fine_rate, 0 without a policy
    loan,           \* Loan rows
    libCall,        \* per request: what it does, the row as loaded
    libRaced        \* history: loans a stale row was saved over

libVars == <<copies, rate, loan, libCall, libRaced>>

\* LoanStatus.
LoanStatus == {"active", "returned", "lost"}

\* Loan: the borrower, the item and the due date never change after the checkout.
Loan == [status : LoanStatus, fine : Nat, waived : BOOLEAN]

ASSUME NoLoanAssumption == NoLoan \notin Loan

NewLoan == [status |-> "active", fine |-> 0, waived |-> FALSE]
LibIdle == [do |-> "none", on |-> CHOOSE l \in Loans : TRUE, row |-> NewLoan, stale |-> FALSE]

\* create_library_item, and the policy before anyone has set it.
LibInit ==
    /\ copies \in 0..MaxCopies
    /\ rate = 0
    /\ loan = [l \in Loans |-> NoLoan]
    /\ libCall = [c \in LibCalls |-> LibIdle]
    /\ libRaced = {}

----------------------------------------------------------------------------
\* LibraryItem.copies_on_loan: a lost copy is on loan no more.
OnLoan == {l \in Loans : loan[l] # NoLoan /\ loan[l].status = "active"}

\* Mutant: one copy too many.
AvailableCopiesOneMore == copies + 1 - Cardinality(OnLoan)

\* LibraryItem.available_copies, max(0, ...).
AvailableCopies == IF copies >= Cardinality(OnLoan) THEN copies - Cardinality(OnLoan) ELSE 0

\* update_library_item: any number of copies, whatever is on loan.
UpdateItem(n) ==
    /\ copies' = n
    /\ UNCHANGED <<rate, loan, libCall, libRaced>>

\* LibraryPolicy, edited in the admin.
SetRate(r) ==
    /\ rate' = r
    /\ UNCHANGED <<copies, loan, libCall, libRaced>>

\* checkout_item: NoCopiesAvailable is decided under the lock on the item row.
Lend(l) ==
    /\ loan[l] = NoLoan
    /\ AvailableCopies > 0
    /\ loan' = [loan EXCEPT ![l] = NewLoan]
    /\ UNCHANGED <<copies, rate, libCall, libRaced>>

\* LoanViewSet.checkout: at the desk.
CheckoutItem(l) == Lend(l)

\* LoanCheckoutHandler.apply: from a synchronised device.
SyncCheckout(l) == Lend(l)

\* get_object, and the check of return_item and mark_lost; waive_fine has none.
LoadLoan(c, what, l) ==
    /\ libCall[c] = LibIdle
    /\ loan[l] # NoLoan
    /\ what \in {"return", "lose"} => loan[l].status = "active"
    /\ libCall' = [libCall EXCEPT ![c] = [do |-> what, on |-> l, row |-> loan[l], stale |-> FALSE]]
    /\ UNCHANGED <<copies, rate, loan, libRaced>>

SaveLoan(c, row) ==
    LET l == libCall[c].on
    IN  /\ loan' = [loan EXCEPT ![l] = row]
        /\ libCall' = [d \in LibCalls |->
              IF d = c \/ libCall[d] = LibIdle THEN LibIdle
              ELSE [libCall[d] EXCEPT !.stale = @ \/ libCall[d].on = l]]
        /\ libRaced' = IF libCall[c].stale THEN libRaced \cup {l} ELSE libRaced
        /\ UNCHANGED <<copies, rate>>

\* return_item: the fine is the rate of the day for every day late.
ReturnItem(c, late) ==
    /\ libCall[c].do = "return"
    /\ SaveLoan(c, [libCall[c].row EXCEPT !.status = "returned", !.fine = rate * late])

\* mark_lost: no fine.
MarkLost(c) ==
    /\ libCall[c].do = "lose"
    /\ SaveLoan(c, [libCall[c].row EXCEPT !.status = "lost"])

\* waive_fine: on a loan in any status, so before its return too.
WaiveFine(c) ==
    /\ libCall[c].do = "waive"
    /\ SaveLoan(c, [libCall[c].row EXCEPT !.waived = TRUE])

LibAbandon(c) ==
    /\ libCall[c] # LibIdle
    /\ libCall' = [libCall EXCEPT ![c] = LibIdle]
    /\ UNCHANGED <<copies, rate, loan, libRaced>>

LibNext ==
    \/ \E n \in 0..MaxCopies : UpdateItem(n)
    \/ \E r \in Rates : SetRate(r)
    \/ \E l \in Loans : CheckoutItem(l) \/ SyncCheckout(l)
    \/ \E c \in LibCalls :
          \/ \E l \in Loans, what \in {"return", "lose", "waive"} : LoadLoan(c, what, l)
          \/ \E late \in 0..MaxLate : ReturnItem(c, late)
          \/ MarkLost(c) \/ WaiveFine(c) \/ LibAbandon(c)

LibSpec == LibInit /\ [][LibNext]_libVars

----------------------------------------------------------------------------
\* Loan.owed.
Owed(l) == IF loan[l] = NoLoan \/ loan[l].waived THEN 0 ELSE loan[l].fine

\* The type invariant.
LibTypeOK ==
    /\ copies \in 0..MaxCopies /\ rate \in Rates \cup {0}
    /\ loan \in [Loans -> Loan \cup {NoLoan}]
    /\ \A c \in LibCalls : libCall[c].row \in Loan

\* A copy is lent only while one is on the shelf, a loan that was closed stays
\* closed, and a waiver, given early or late, is never lost (FR-LIB-02): of the views,
\* only a stale row saved over a loan can put it back on loan or charge a waived
\* fine.  LoanAdmin, which adds loans and edits waivers unchecked, is not modelled.
LendingIsSound ==
    [][/\ OnLoan' \ OnLoan # {} =>
             Cardinality(OnLoan') <= copies' \/ OnLoan' \ OnLoan \subseteq libRaced'
       /\ \A l \in Loans \ libRaced' : loan[l] # NoLoan =>
             /\ l \in OnLoan' => l \in OnLoan
             /\ loan[l].waived => Owed(l)' = 0]_libVars
=============================================================================
