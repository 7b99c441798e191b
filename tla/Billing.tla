------------------------------- MODULE Billing ------------------------------
(***************************************************************************)
(* Fee structures, scholarships and the invoices made from them            *)
(* (backend/apps/finance).  A batch is one transaction for each student,   *)
(* never one for the roll: it may stop half way, and two may overlap.  The *)
(* payments against an invoice are in Finance.                             *)
(***************************************************************************)
EXTENDS Fees, FiniteSets, FiniteSetsExt

CONSTANTS
    Payers,         \* students, by id
    ProgrammeLevel, \* Student.programme and current_level
    Nationality,    \* Student.nationality
    Amounts,        \* what a fee structure may charge, in hundredths
    Coverages,      \* coverage and value of a scholarship
    LodgingFee,     \* HostelPolicy.termly_fee
    BilCalls,       \* requests; each is one call of the API
    Nothing

ASSUME BillingAssumption ==
    /\ Payers \subseteq Nat /\ Amounts \subseteq Nat /\ LodgingFee \in Nat
    /\ \A k \in Coverages : k.coverage \in {"percentage", "fixed_amount"} /\ k.value \in Nat

VARIABLES
    roll,           \* students registered in the semester, in enrollment
    lodged,         \* students with an active allocation in the hostel; fixed here
    fee,            \* FeeStructure rows
    award,          \* Scholarship rows
    bill,           \* Invoice rows of the semester
    bilCall         \* per request: what it does, has read and has done

bilVars == <<roll, lodged, fee, award, bill, bilCall>>

\* residency_for_student: derived from the nationality.
Residency(s) == IF Nationality[s] = "South Sudanese" THEN "local" ELSE "international"

\* What get_programme_id, current_level_for_student and residency_for_student
\* select a fee structure by; one row each (unique constraint).
FeeKey(s) == <<ProgrammeLevel[s], Residency(s)>>
FeeKeys == {FeeKey(s) : s \in Payers}

FeeStructure == [amount : Amounts, is_active : BOOLEAN]
Scholarship == {[coverage |-> k.coverage, value |-> k.value, is_active |-> b] :
                    k \in Coverages, b \in BOOLEAN}
Invoice == [tuition : Nat, amount : Nat, discount : Nat]

\* One request: generate or generate-for-semester (the roll it read, who is left,
\* whom it billed, whom it skipped, the invoice it is about to save), or an edit
\* (the row it loaded, changed and ready to be saved, and its key).
BilIdle == [do |-> "none", roll |-> {}, todo |-> {}, created |-> {}, skipped |-> {},
            unpriced |-> {}, ready |-> Nothing, on |-> Nothing]

BilInit ==
    /\ roll \in SUBSET Payers
    /\ lodged \in SUBSET Payers
    /\ fee = [k \in FeeKeys |-> Nothing]
    /\ award = [s \in Payers |-> Nothing]
    /\ bill = [s \in Payers |-> Nothing]
    /\ bilCall = [c \in BilCalls |-> BilIdle]

BilTypeOK ==
    /\ roll \subseteq Payers /\ lodged \subseteq Payers
    /\ fee \in [FeeKeys -> FeeStructure \cup {Nothing}]
    /\ award \in [Payers -> Scholarship \cup {Nothing}]
    /\ bill \in [Payers -> Invoice \cup {Nothing}]
    /\ \A c \in BilCalls :
          /\ bilCall[c].do \in {"none", "batch", "single", "refused", "aborted",
                                "fee", "award", "saved"}
          /\ bilCall[c].todo \subseteq bilCall[c].roll

----------------------------------------------------------------------------
(* Fee structures and scholarships.                                        *)

\* create_fee_structure; full_clean refuses a second row for the key.
CreateFeeStructure(k, amount) ==
    /\ fee[k] = Nothing
    /\ fee' = [fee EXCEPT ![k] = [amount |-> amount, is_active |-> TRUE]]
    /\ UNCHANGED <<roll, lodged, award, bill, bilCall>>

\* create_scholarship; one for each student and year.
CreateScholarship(s, k) ==
    /\ award[s] = Nothing
    /\ award' = [award EXCEPT ![s] = [coverage |-> k.coverage, value |-> k.value,
                                      is_active |-> TRUE]]
    /\ UNCHANGED <<roll, lodged, fee, bill, bilCall>>

\* The row with key `on` a PATCH is about to save, all of its columns.
Edit(c, what, row, on) ==
    /\ bilCall[c] = BilIdle
    /\ bilCall' = [bilCall EXCEPT ![c] = [BilIdle EXCEPT !.do = what, !.ready = row, !.on = on]]
    /\ UNCHANGED <<roll, lodged, fee, award, bill>>

\* FeeStructureViewSet.perform_update: of what the serializer holds only the
\* amount and is_active reach update_fee_structure.
LoadFeeStructure(c, k) ==
    /\ fee[k] # Nothing
    /\ \/ \E a \in Amounts : Edit(c, "fee", [fee[k] EXCEPT !.amount = a], k)
       \/ Edit(c, "fee", [fee[k] EXCEPT !.is_active = ~@], k)

\* ScholarshipViewSet.perform_update: never the coverage type.
LoadScholarship(c, s) ==
    /\ award[s] # Nothing
    /\ \/ \E k \in Coverages : /\ k.coverage = award[s].coverage
                               /\ Edit(c, "award", [award[s] EXCEPT !.value = k.value], <<s>>)
       \/ Edit(c, "award", [award[s] EXCEPT !.is_active = ~@], <<s>>)

\* update_fee_structure and update_scholarship save.
SaveEdit(c) ==
    LET call == bilCall[c]
    IN  /\ call.do \in {"fee", "award"}
        /\ fee' = IF call.do = "fee" THEN [fee EXCEPT ![call.on] = call.ready] ELSE fee
        /\ award' = IF call.do = "award" THEN [award EXCEPT ![call.on[1]] = call.ready] ELSE award
        /\ bilCall' = [bilCall EXCEPT ![c] = [BilIdle EXCEPT !.do = "saved"]]
        /\ UNCHANGED <<roll, lodged, bill>>

\* Registration, in enrollment.
RollChanges(s) ==
    /\ roll' = IF s \in roll THEN roll \ {s} ELSE roll \cup {s}
    /\ UNCHANGED <<lodged, fee, award, bill, bilCall>>

----------------------------------------------------------------------------
(* Invoicing.                                                              *)

\* _applicable_fee_structure.
Priced(s) == fee[FeeKey(s)] # Nothing /\ fee[FeeKey(s)].is_active

\* fee_for_active_allocation.
HostelFeeFor(s) == IF s \in lodged THEN LodgingFee ELSE 0

\* The amounts generate_invoice puts together: the scholarship covers the tuition,
\* never the hostel fee.
Price(s) ==
    LET tuition == fee[FeeKey(s)].amount
    IN [tuition |-> tuition, amount |-> tuition + HostelFeeFor(s),
        discount |-> IF award[s] # Nothing /\ award[s].is_active
                     THEN DiscountFor(award[s], tuition) ELSE 0]

\* InvoiceViewSet.generate_for_semester: students_registered_in, read once;
\* InvoiceViewSet.generate: one student, registered or not.
Generate(c, what, students) ==
    /\ bilCall[c] = BilIdle
    /\ bilCall' = [bilCall EXCEPT ![c] = [BilIdle EXCEPT !.do = what, !.roll = students,
                                                        !.todo = students]]
    /\ UNCHANGED <<roll, lodged, fee, award, bill>>

\* The student a request is at: sorted() goes by id.
AtStudent(c) == Min(bilCall[c].todo)
Invoicing(c) == bilCall[c].do \in {"batch", "single"} /\ bilCall[c].todo # {}

\* DuplicateInvoice and ConfigurationError: a batch notes the student and goes on.
Skip(call, noted) == IF call.do = "single" THEN [call EXCEPT !.do = "refused"] ELSE noted

\* generate_invoice up to the number it draws: is there an invoice, and what
\* would it charge?
PrepareInvoice(c) ==
    LET s == AtStudent(c)
        call == bilCall[c]
    IN  /\ Invoicing(c) /\ call.ready = Nothing
        /\ bilCall' = [bilCall EXCEPT ![c] =
              IF bill[s] # Nothing
              THEN Skip(call, [call EXCEPT !.todo = @ \ {s}, !.skipped = @ \cup {s}])
              ELSE IF ~Priced(s)
              THEN Skip(call, [call EXCEPT !.todo = @ \ {s}, !.unpriced = @ \cup {s}])
              ELSE [call EXCEPT !.ready = Price(s)]]
        /\ UNCHANGED <<roll, lodged, fee, award, bill>>

\* Mutant: full_clean is left out, and a late save replaces the invoice.
InsertInvoiceUnchecked(c) ==
    LET s == AtStudent(c)
        call == bilCall[c]
    IN  /\ Invoicing(c) /\ call.ready # Nothing
        /\ bill' = [bill EXCEPT ![s] = call.ready]
        /\ bilCall' = [bilCall EXCEPT ![c] =
              [call EXCEPT !.todo = @ \ {s}, !.created = @ \cup {s}, !.ready = Nothing]]
        /\ UNCHANGED <<roll, lodged, fee, award>>

\* full_clean and save.  The call waited for whoever held the invoice sequence:
\* an invoice issued since the check fails full_clean with a ValidationError,
\* which is no DuplicateInvoice, and the loop of a batch ends there.
InsertInvoice(c) ==
    LET s == AtStudent(c)
        call == bilCall[c]
    IN  /\ Invoicing(c) /\ call.ready # Nothing
        /\ IF bill[s] = Nothing
           THEN /\ bill' = [bill EXCEPT ![s] = call.ready]
                /\ bilCall' = [bilCall EXCEPT ![c] =
                     [call EXCEPT !.todo = @ \ {s}, !.created = @ \cup {s}, !.ready = Nothing]]
           ELSE /\ bill' = bill
                /\ bilCall' = [bilCall EXCEPT ![c] =
                     [call EXCEPT !.do = "aborted", !.ready = Nothing]]
        /\ UNCHANGED <<roll, lodged, fee, award>>

BilNext ==
    \/ \E k \in FeeKeys, a \in Amounts : CreateFeeStructure(k, a)
    \/ \E s \in Payers, k \in Coverages : CreateScholarship(s, k)
    \/ \E s \in Payers : RollChanges(s)
    \/ \E c \in BilCalls :
          \/ \E k \in FeeKeys : LoadFeeStructure(c, k)
          \/ \E s \in Payers : LoadScholarship(c, s) \/ Generate(c, "single", {s})
          \/ Generate(c, "batch", roll)
          \/ SaveEdit(c) \/ PrepareInvoice(c) \/ InsertInvoice(c)

BilSpec == BilInit /\ [][BilNext]_bilVars

----------------------------------------------------------------------------
\* Whoever generates at the same time as whom, an invoice comes from one request;
\* a batch answers for everybody it has passed, billed, skipped for an invoice
\* that another request issued or for want of a fee; where it breaks off, against
\* BatchesGoOn, another request billed that student under its hands; and a
\* scholarship takes off no more than the tuition, the hostel fee staying due
\* (generate_invoice, generate_invoices_for_semester).  InvoiceAdmin, which adds and
\* edits invoices by hand, is not modelled.
BillingIsSound ==
    /\ \A s \in Payers :
          /\ Cardinality({c \in BilCalls : s \in bilCall[c].created})
                = IF bill[s] = Nothing THEN 0 ELSE 1
          /\ bill[s] # Nothing =>
                /\ bill[s].discount <= bill[s].tuition
                /\ bill[s].amount - bill[s].tuition \in {0, LodgingFee}
    /\ \A c \in BilCalls :
          LET call == bilCall[c]
              Others == UNION {bilCall[d].created : d \in BilCalls \ {c}}
          IN  /\ call.roll \ call.todo = call.created \cup call.skipped \cup call.unpriced
              /\ call.skipped \subseteq Others
              /\ call.do = "aborted" => AtStudent(c) \in Others

\* "Skips (rather than fails) a student who already has one" and reports it
\* (generate_invoices_for_semester): a request for several students, which only a batch
\* is, does not break off.
BatchesGoOn ==
    \A c \in BilCalls : Cardinality(bilCall[c].roll) > 1 => bilCall[c].do # "aborted"
=============================================================================
