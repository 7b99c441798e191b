------------------------------ MODULE Finance ------------------------------
(***************************************************************************)
(* Invoices, payments and refunds (backend/apps/finance).  A call is one   *)
(* HTTP request.  Its view loads an instance, the service decides on that  *)
(* instance and saves the whole row: what was loaded may be stale by then. *)
(*                                                                         *)
(* The models are audit_sensitive, so a transaction holds the audit chain  *)
(* from its first save to its commit (module Transactions) and what it     *)
(* reads in between is current.  A call is therefore two steps: what it    *)
(* reads before its first lock, and everything after it.                   *)
(***************************************************************************)
EXTENDS Fees, FiniteSets, FiniteSetsExt

CONSTANTS
    Invoices,   \* one for each student and semester
    Payments,   \* payments by their unique reference
    Refunds,    \* refund requests
    Calls,      \* concurrent requests
    InvoiceOf,  \* the invoice a payment is made against
    MethodOf,   \* its method
    PaymentOf,  \* the payment a refund returns
    Bills,      \* what generate_invoice may find: fee, hostel fee, scholarship
    Amount,     \* the amount of a payment or a refund, which no validator keeps positive
    None

ASSUME BillsAssumption == \A b \in Bills : NetAmount(b) \in Int
ASSUME OwnersAssumption ==
    /\ InvoiceOf \in [Payments -> Invoices]
    /\ MethodOf \in [Payments -> {"cash", "cheque", "bank_slip", "mobile_money"}]
    /\ PaymentOf \in [Refunds -> Payments]
    /\ None \notin Payments \cup Refunds
ASSUME AmountAssumption ==
    /\ IsFiniteSet(Payments)
    /\ Amount \in [Payments \cup Refunds -> Int]

VARIABLES
    invoice,      \* Invoice.status; "none": not issued
    net,          \* Invoice.net_amount
    payment,      \* Payment.status
    receipt,      \* Payment.receipt_number, 0: none
    lastReceipt,  \* the receipt numbers' IdSequence
    provider,     \* what the mobile-money provider knows of each payment
    refund,       \* Refund.status
    finCall,      \* what each call does, to which row, and the invoice it loaded
    revoked,      \* history: invoices one of whose confirmed payments was undone
    approved      \* history: refunds somebody approved

finVars == <<invoice, net, payment, receipt, lastReceipt, provider, refund, finCall,
            revoked, approved>>

InvoiceStatus == {"issued", "partially_paid", "paid", "cancelled", "written_off"}
PaymentStatus == {"pending", "confirmed", "failed", "cancelled"}
RefundStatus == {"requested", "approved", "rejected", "paid"}
PaymentCalls == {"cash", "confirm", "reject", "poll", "webhook"}
RefundCalls == {"request", "approve", "decline", "pay"}
Idle == [do |-> "none", on |-> None, seen |-> "none"]

FinTypeOK ==
    /\ invoice \in [Invoices -> InvoiceStatus \cup {"none"}]
    /\ net \in [Invoices -> Int]
    /\ payment \in [Payments -> PaymentStatus \cup {"none"}]
    /\ receipt \in [Payments -> Nat]
    /\ lastReceipt \in Nat
    /\ provider \in [Payments -> PaymentStatus \cup {"none"}]
    /\ refund \in [Refunds -> RefundStatus \cup {"none"}]
    /\ finCall \in [Calls ->
          {Idle}
          \cup [do : PaymentCalls, on : Payments, seen : InvoiceStatus]
          \cup [do : RefundCalls, on : Refunds, seen : {"none"}]]
    /\ revoked \in SUBSET Invoices
    /\ approved \in SUBSET Refunds

FinInit ==
    /\ invoice = [i \in Invoices |-> "none"]
    /\ net = [i \in Invoices |-> 0]
    /\ payment = [p \in Payments |-> "none"]
    /\ receipt = [p \in Payments |-> 0]
    /\ lastReceipt = 0
    /\ provider = [p \in Payments |-> "none"]
    /\ refund = [r \in Refunds |-> "none"]
    /\ finCall = [c \in Calls |-> Idle]
    /\ revoked = {}
    /\ approved = {}

----------------------------------------------------------------------------
Confirmed(i) == {p \in Payments : InvoiceOf[p] = i /\ payment[p] = "confirmed"}

\* aggregate(Sum("amount")) over a set of payments or of refunds.
Sum(rows) == MapThenSumSet(LAMBDA x : Amount[x], rows)

Balance(i) == net[i] - Sum(Confirmed(i))

\* payment.refunds.exclude(status=REJECTED)
Claims(p) == {r \in Refunds : PaymentOf[r] = p /\ refund[r] \notin {"none", "rejected"}}

StatusFor(owed, paid) ==
    IF paid >= owed THEN "paid"
    ELSE IF paid > 0 THEN "partially_paid" ELSE "issued"

Load(c, what, row, status) ==
    finCall' = [finCall EXCEPT ![c] = [do |-> what, on |-> row, seen |-> status]]
Done(c) == finCall' = [finCall EXCEPT ![c] = Idle]

----------------------------------------------------------------------------
(* Invoicing and recording.                                                *)

\* The check and the constraint on (student, semester) admit one invoice; a
\* second call raises DuplicateInvoice.
GenerateInvoice(i, bill) ==
    /\ invoice[i] = "none"
    /\ invoice' = [invoice EXCEPT ![i] = "issued"]
    /\ net' = [net EXCEPT ![i] = NetAmount(bill)]
    /\ UNCHANGED <<payment, receipt, lastReceipt, provider, refund, finCall, revoked, approved>>

\* record_manual_payment of a cheque or a bank slip.
RecordManualPayment(p) ==
    /\ MethodOf[p] \in {"cheque", "bank_slip"}
    /\ invoice[InvoiceOf[p]] # "none"
    /\ payment[p] = "none"
    /\ payment' = [payment EXCEPT ![p] = "pending"]
    /\ UNCHANGED <<invoice, net, receipt, lastReceipt, provider, refund, finCall,
                   revoked, approved>>

\* record_manual_payment in cash up to its first save: the invoice is loaded.
RecordCash(c, p) ==
    /\ finCall[c] = Idle
    /\ MethodOf[p] = "cash"
    /\ invoice[InvoiceOf[p]] # "none"
    /\ payment[p] = "none"
    /\ Load(c, "cash", p, invoice[InvoiceOf[p]])
    /\ UNCHANGED <<invoice, net, payment, receipt, lastReceipt, provider, refund,
                   revoked, approved>>

\* initiate_mobile_payment, of the amount asked for or of the whole balance.
InitiateMobilePayment(p) ==
    /\ MethodOf[p] = "mobile_money"
    /\ invoice[InvoiceOf[p]] # "none"
    /\ payment[p] = "none"
    /\ Amount[p] > 0
    /\ payment' = [payment EXCEPT ![p] = "pending"]
    /\ provider' = [provider EXCEPT ![p] = "pending"]
    /\ UNCHANGED <<invoice, net, receipt, lastReceipt, refund, finCall, revoked, approved>>

\* The payer approves, refuses or lets the request lapse.
ProviderDecides(p, state) ==
    /\ provider[p] = "pending"
    /\ provider' = [provider EXCEPT ![p] = state]
    /\ UNCHANGED <<invoice, net, payment, receipt, lastReceipt, refund, finCall,
                   revoked, approved>>

----------------------------------------------------------------------------
(* Deciding a payment.                                                     *)

\* get_object, or the webhook's query, and the check that it is pending; a
\* payment already decided raises, or is returned as it is.  The webhook acts
\* on a verified event only; delivered twice, it starts two calls.
LoadPayment(c, p, what) ==
    /\ finCall[c] = Idle
    /\ payment[p] = "pending"
    /\ what = "webhook" => provider[p] = "confirmed"
    /\ Load(c, what, p, invoice[InvoiceOf[p]])
    /\ UNCHANGED <<invoice, net, payment, receipt, lastReceipt, provider, refund,
                   revoked, approved>>

\* Mutant: the invoice's status is taken from the balance before the payment.
RefreshBeforeSave(i, seen, p) ==
    LET new == StatusFor(net[i], Sum(Confirmed(i)))
    IN IF seen \in {"cancelled", "written_off"} \/ new = seen THEN invoice[i] ELSE new

\* _refresh_invoice_status: the balance is read, the status compared with the
\* one on the loaded instance.
Refresh(i, seen, p) ==
    LET new == StatusFor(net[i], Sum(Confirmed(i) \cup {p}))
    IN IF seen \in {"cancelled", "written_off"} \/ new = seen THEN invoice[i] ELSE new

\* The call has reached _confirm_payment.
Confirming(c) ==
    \/ finCall[c].do \in {"confirm", "webhook"}
    \/ finCall[c].do = "poll" /\ provider[finCall[c].on] = "confirmed"
    \/ finCall[c].do = "cash" /\ payment[finCall[c].on] = "none"

\* _confirm_payment: the receipt is drawn, the payment saved, the invoice
\* refreshed.
ConfirmPayment(c) ==
    /\ Confirming(c)
    /\ LET p == finCall[c].on
           i == InvoiceOf[p]
       IN /\ payment' = [payment EXCEPT ![p] = "confirmed"]
          /\ receipt' = [receipt EXCEPT ![p] = lastReceipt + 1]
          /\ invoice' = [invoice EXCEPT ![i] = Refresh(i, finCall[c].seen, p)]
    /\ lastReceipt' = lastReceipt + 1
    /\ Done(c)
    /\ UNCHANGED <<net, provider, refund, revoked, approved>>

\* PaymentProvider.status: a reference it does not know, that of a bank slip
\* say, is reported as failed.
ProviderStatus(p) == IF provider[p] = "none" THEN "failed" ELSE provider[p]

\* What reject_manual_payment and poll_mobile_payment make of a payment that
\* is not confirmed.
Refused(c) ==
    {status \in {"failed", "cancelled"} :
        \/ finCall[c].do = "reject" /\ status = "failed"
        \/ finCall[c].do = "poll" /\ status = ProviderStatus(finCall[c].on)}

\* Mutant: only the status is written, save(update_fields=["status"]).
RefusePaymentStatusOnly(c) ==
    /\ \E status \in Refused(c) :
          payment' = [payment EXCEPT ![finCall[c].on] = status]
    /\ revoked' = IF payment[finCall[c].on] = "confirmed"
                  THEN revoked \cup {InvoiceOf[finCall[c].on]} ELSE revoked
    /\ Done(c)
    /\ UNCHANGED <<invoice, net, receipt, lastReceipt, provider, refund, approved>>

\* The loaded row is saved whole: it had no receipt.
RefusePayment(c) ==
    /\ \E status \in Refused(c) :
          payment' = [payment EXCEPT ![finCall[c].on] = status]
    /\ receipt' = [receipt EXCEPT ![finCall[c].on] = 0]
    /\ revoked' = IF payment[finCall[c].on] = "confirmed"
                  THEN revoked \cup {InvoiceOf[finCall[c].on]} ELSE revoked
    /\ Done(c)
    /\ UNCHANGED <<invoice, net, lastReceipt, provider, refund, approved>>

\* An error, a poll that finds the payment pending, a reference already taken:
\* nothing is committed.
Abandon(c) ==
    /\ finCall[c] # Idle
    /\ Done(c)
    /\ UNCHANGED <<invoice, net, payment, receipt, lastReceipt, provider, refund,
                   revoked, approved>>

----------------------------------------------------------------------------
(* Refunds.                                                                *)

\* request_refund up to its save: the payment and what is claimed of it.
RequestRefund(c, r) ==
    /\ finCall[c] = Idle
    /\ refund[r] = "none"
    /\ \A d \in Calls : finCall[d].on # r   \* each request makes a row of its own
    /\ payment[PaymentOf[r]] = "confirmed"
    /\ Amount[r] <= Amount[PaymentOf[r]] - Sum(Claims(PaymentOf[r]))
    /\ Load(c, "request", r, "none")
    /\ UNCHANGED <<invoice, net, payment, receipt, lastReceipt, provider, refund,
                   revoked, approved>>

\* Mutant: a refund is paid out from any open state.
LoadRefundUnchecked(c, r, what) ==
    /\ finCall[c] = Idle
    /\ IF what = "pay" THEN refund[r] \in {"requested", "approved"}
                       ELSE refund[r] = "requested"
    /\ Load(c, what, r, "none")
    /\ UNCHANGED <<invoice, net, payment, receipt, lastReceipt, provider, refund,
                   revoked, approved>>

\* get_object and the status check of decide_refund and mark_refund_paid.
LoadRefund(c, r, what) ==
    /\ finCall[c] = Idle
    /\ refund[r] = IF what = "pay" THEN "approved" ELSE "requested"
    /\ Load(c, what, r, "none")
    /\ UNCHANGED <<invoice, net, payment, receipt, lastReceipt, provider, refund,
                   revoked, approved>>

Decision ==
    [request |-> "requested", approve |-> "approved", decline |-> "rejected", pay |-> "paid"]

\* The save of request_refund, decide_refund or mark_refund_paid.
SaveRefund(c) ==
    /\ finCall[c].do \in RefundCalls
    /\ refund' = [refund EXCEPT ![finCall[c].on] = Decision[finCall[c].do]]
    /\ approved' = IF finCall[c].do = "approve" THEN approved \cup {finCall[c].on} ELSE approved
    /\ Done(c)
    /\ UNCHANGED <<invoice, net, payment, receipt, lastReceipt, provider, revoked>>

----------------------------------------------------------------------------
Record ==
    \/ \E i \in Invoices, b \in Bills : GenerateInvoice(i, b)
    \/ \E p \in Payments : RecordManualPayment(p) \/ InitiateMobilePayment(p)
    \/ \E p \in Payments, state \in {"confirmed", "failed", "cancelled"} : ProviderDecides(p, state)

Begin(c) ==
    \/ \E p \in Payments : RecordCash(c, p)
    \/ \E p \in Payments, what \in PaymentCalls \ {"cash"} : LoadPayment(c, p, what)
    \/ \E r \in Refunds : RequestRefund(c, r)
    \/ \E r \in Refunds, what \in RefundCalls \ {"request"} : LoadRefund(c, r, what)

FinNext ==
    \/ Record
    \/ \E c \in Calls :
          Begin(c) \/ ConfirmPayment(c) \/ RefusePayment(c) \/ SaveRefund(c) \/ Abandon(c)

FinSpec == FinInit /\ [][FinNext]_finVars

----------------------------------------------------------------------------
(* Properties.                                                             *)

\* Invoices no confirmation of which was undone by a late rejection, and none of
\* whose confirmed payments is a reversal entered with a negative amount.
Undisturbed == {i \in Invoices : i \notin revoked /\ \A p \in Confirmed(i) : Amount[p] >= 0}

\* The status of an undisturbed invoice is the one its confirmed payments give it,
\* although each confirmation compares with an instance loaded before the others
\* committed and saves nothing when they agree.  InvoiceAdmin and PaymentAdmin, which
\* edit amounts without a refresh, are not modelled.
InvoiceStatusIsCurrent ==
    \A i \in Invoices : invoice[i] # "none" /\ i \in Undisturbed =>
        invoice[i] = IF Confirmed(i) = {} THEN "issued"
                     ELSE StatusFor(net[i], Sum(Confirmed(i)))

\* FR-FIN-06: a payment has a receipt exactly while it is confirmed, no two
\* payments share one, and none is ahead of the sequence, whoever decided last.
ReceiptMeansConfirmed ==
    /\ \A p \in Payments : receipt[p] # 0 <=> payment[p] = "confirmed"
    /\ \A p, q \in Payments : receipt[p] # 0 /\ receipt[p] = receipt[q] => p = q
    /\ \A p \in Payments : receipt[p] <= lastReceipt

\* FR-FIN-08: money goes back only on a refund somebody approved, whichever
\* requests and decisions race.
PaidOutWasApproved ==
    \A r \in Refunds : refund[r] = "paid" => r \in approved

\* fee_balance_for_student: the balance that keeps a student from registering.
FeeHold(i) == invoice[i] \in {"issued", "partially_paid"} /\ Balance(i) > 0

\* A student is held exactly while money is owed, if the invoice is undisturbed.
HoldsAreRight ==
    \A i \in Invoices : invoice[i] # "none" /\ i \in Undisturbed => (FeeHold(i) <=> Balance(i) > 0)

\* PaymentViewSet: "a named action that enforces its own rule (confirmation
\* only from pending, ...)": what has been decided stays decided.
DecidedOnlyFromPending ==
    [][\A p \in Payments : payment[p] \in {"confirmed", "failed", "cancelled"}
          => payment'[p] = payment[p] /\ receipt'[p] = receipt[p]]_<<payment, receipt>>

\* request_refund: "This would refund more than was paid."
RefundsWithinPayment ==
    \A p \in Payments : Sum(Claims(p)) <= Amount[p]
=============================================================================
