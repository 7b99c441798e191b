--------------------------- MODULE FinanceProofs ---------------------------
(***************************************************************************)
(* For any invoices, payments, refunds and concurrent calls: the status of *)
(* an undisturbed invoice is the one its confirmed payments give it,       *)
(* receipts belong to confirmed payments, and only approved refunds are    *)
(* paid.                                                                   *)
(*                                                                         *)
(* A confirmation skips its save when the new status equals the one on the *)
(* instance it loaded.  That is safe because the loaded status is never    *)
(* ahead of the stored one (SeenIsOld) and the stored one never ahead of   *)
(* the new one, the total of confirmed payments only growing.  It does so  *)
(* as long as no confirmed payment is undone or of a negative amount.      *)
(***************************************************************************)
EXTENDS Finance, FiniteSums, TLAPS

\* The status a is not further along than b.
NotAhead(a, b) ==
    \/ a = "issued" /\ b \in {"issued", "partially_paid", "paid"}
    \/ a = "partially_paid" /\ b \in {"partially_paid", "paid"}
    \/ a = "paid" /\ b = "paid"

\* The invoice a call has loaded exists and has not gone back since.
SeenIsOld ==
    \A c \in Calls : finCall[c].do \in PaymentCalls =>
        LET i == InvoiceOf[finCall[c].on]
        IN /\ invoice[i] # "none"
           /\ i \in Undisturbed => NotAhead(finCall[c].seen, invoice[i])

PaymentHasInvoice ==
    \A p \in Payments : payment[p] # "none" => invoice[InvoiceOf[p]] # "none"

\* An approval is behind every approved or paid refund and every payout begun.
ApprovalsInv ==
    /\ \A r \in Refunds : refund[r] \in {"approved", "paid"} => r \in approved
    /\ \A c \in Calls : finCall[c].do = "pay" => finCall[c].on \in approved

FinInv == FinTypeOK /\ InvoiceStatusIsCurrent /\ SeenIsOld /\ PaymentHasInvoice
          /\ ReceiptMeansConfirmed /\ ApprovalsInv

----------------------------------------------------------------------------
(* What a call holds.                                                      *)

\* A call that decides a payment has loaded a payment and the status of its
\* invoice; a refund call has loaded a refund.
LEMMA CallType ==
    ASSUME FinTypeOK, NEW c \in Calls
    PROVE  /\ finCall[c].do \in PaymentCalls =>
                  finCall[c].on \in Payments /\ finCall[c].seen \in InvoiceStatus
           /\ finCall[c].do \in RefundCalls => finCall[c].on \in Refunds
           /\ finCall[c].do \in PaymentCalls \cup RefundCalls \cup {"none"}
<1>1. finCall[c] \in {Idle}
          \cup [do : PaymentCalls, on : Payments, seen : InvoiceStatus]
          \cup [do : RefundCalls, on : Refunds, seen : {"none"}]
  BY DEF FinTypeOK
<1>2. CASE finCall[c] = Idle
  BY <1>2 DEF Idle, PaymentCalls, RefundCalls
<1>3. CASE finCall[c] \in [do : PaymentCalls, on : Payments, seen : InvoiceStatus]
  BY <1>3 DEF PaymentCalls, RefundCalls
<1>4. CASE finCall[c] \in [do : RefundCalls, on : Refunds, seen : {"none"}]
  BY <1>4 DEF PaymentCalls, RefundCalls
<1> QED
  BY <1>1, <1>2, <1>3, <1>4

\* _confirm_payment and the refusals act on a payment that was loaded.
LEMMA DecidingCall ==
    ASSUME FinTypeOK, NEW c \in Calls, Confirming(c) \/ Refused(c) # {}
    PROVE  finCall[c].do \in PaymentCalls
  BY DEF Confirming, Refused, PaymentCalls

\* More money never moves an invoice's status back.
LEMMA StatusIsMonotone ==
    ASSUME NEW owed \in Int, NEW a \in Int, NEW b \in Int, a <= b
    PROVE  /\ NotAhead(StatusFor(owed, a), StatusFor(owed, b))
           /\ NotAhead("issued", StatusFor(owed, b))
           /\ StatusFor(owed, a) \in {"issued", "partially_paid", "paid"}
  BY DEF NotAhead, StatusFor

\* What is paid only grows while no payment is negative.
LEMMA IncomeGrows ==
    ASSUME NEW S \in SUBSET Payments, \A p \in S : Amount[p] >= 0, NEW T \in SUBSET S
    PROVE  Sum(S) \in Int /\ Sum(T) \in Int /\ Sum(T) <= Sum(S)
<1>1. IsFiniteSet(S) /\ IsFiniteSet(T)
  BY AmountAssumption, FS_Subset
<1>2. \A p \in S : Amount[p] \in Nat
  BY AmountAssumption
<1>3. \A U : Sum(U) = Total(Amount, U)
  BY DEF Sum, Total
<1>4. Total(Amount, S) \in Nat /\ Total(Amount, T) \in Nat
  BY <1>1, <1>2, SumSplitsOff
<1>5. Total(Amount, T) <= Total(Amount, S)
  BY <1>1, <1>2, SumGrows
<1> QED
  BY <1>3, <1>4, <1>5

\* NotAhead is an order.
LEMMA NotAheadOrder ==
    /\ \A a, b, d : NotAhead(a, b) /\ NotAhead(b, d) => NotAhead(a, d)
    /\ \A a, b : NotAhead(a, b) /\ NotAhead(b, a) => a = b
  BY DEF NotAhead

----------------------------------------------------------------------------
(* Type correctness.                                                       *)

\* Every step keeps invoices, payments, refunds and calls within their types.
LEMMA TypeStep ==
    ASSUME FinTypeOK, PaymentHasInvoice, [FinNext]_finVars
    PROVE  FinTypeOK'
<1> USE OwnersAssumption
<1>1. ASSUME NEW i \in Invoices, NEW b \in Bills, GenerateInvoice(i, b)
      PROVE  FinTypeOK'
  <2>1. NetAmount(b) \in Int
    BY BillsAssumption
  <2> QED
    BY <1>1, <2>1 DEF GenerateInvoice, FinTypeOK, InvoiceStatus
<1>2. ASSUME NEW p \in Payments, RecordManualPayment(p)
      PROVE  FinTypeOK'
  BY <1>2 DEF RecordManualPayment, FinTypeOK, PaymentStatus
<1>3. ASSUME NEW p \in Payments, InitiateMobilePayment(p)
      PROVE  FinTypeOK'
  BY <1>3 DEF InitiateMobilePayment, FinTypeOK, PaymentStatus
<1>4. ASSUME NEW p \in Payments, NEW state \in {"confirmed", "failed", "cancelled"},
             ProviderDecides(p, state)
      PROVE  FinTypeOK'
  BY <1>4 DEF ProviderDecides, FinTypeOK, PaymentStatus
<1>5. ASSUME NEW c \in Calls, NEW p \in Payments, RecordCash(c, p)
      PROVE  FinTypeOK'
  BY <1>5 DEF RecordCash, Load, FinTypeOK, PaymentCalls
<1>6. ASSUME NEW c \in Calls, NEW p \in Payments, NEW what \in PaymentCalls,
             LoadPayment(c, p, what)
      PROVE  FinTypeOK'
  BY <1>6 DEF LoadPayment, Load, FinTypeOK, PaymentHasInvoice
<1>7. ASSUME NEW c \in Calls, NEW r \in Refunds, RequestRefund(c, r)
      PROVE  FinTypeOK'
  BY <1>7 DEF RequestRefund, Load, FinTypeOK, RefundCalls
<1>8. ASSUME NEW c \in Calls, NEW r \in Refunds, NEW what \in RefundCalls,
             LoadRefund(c, r, what)
      PROVE  FinTypeOK'
  BY <1>8 DEF LoadRefund, Load, FinTypeOK
<1>9. ASSUME NEW c \in Calls, ConfirmPayment(c)
      PROVE  FinTypeOK'
  <2> DEFINE p == finCall[c].on
             i == InvoiceOf[p]
  <2>1. p \in Payments /\ i \in Invoices
    BY <1>9, DecidingCall, CallType DEF ConfirmPayment
  <2>2. Refresh(i, finCall[c].seen, p) \in InvoiceStatus \cup {"none"}
    BY <2>1 DEF Refresh, StatusFor, FinTypeOK, InvoiceStatus
  <2> QED
    BY <1>9, <2>1, <2>2 DEF ConfirmPayment, Done, FinTypeOK, PaymentStatus
<1>10. ASSUME NEW c \in Calls, RefusePayment(c)
       PROVE  FinTypeOK'
  <2>1. finCall[c].on \in Payments
    BY <1>10, DecidingCall, CallType DEF RefusePayment
  <2>2. PICK status \in Refused(c) : payment' = [payment EXCEPT ![finCall[c].on] = status]
    BY <1>10 DEF RefusePayment
  <2>3. status \in PaymentStatus
    BY <2>2 DEF Refused, PaymentStatus
  <2> QED
    BY <1>10, <2>1, <2>2, <2>3 DEF RefusePayment, Done, FinTypeOK
<1>11. ASSUME NEW c \in Calls, SaveRefund(c)
       PROVE  FinTypeOK'
  <2>1. finCall[c].on \in Refunds
    BY <1>11, CallType DEF SaveRefund
  <2>2. Decision[finCall[c].do] \in RefundStatus
    BY <1>11 DEF SaveRefund, Decision, RefundCalls, RefundStatus
  <2> QED
    BY <1>11, <2>1, <2>2 DEF SaveRefund, Done, FinTypeOK
<1>12. ASSUME NEW c \in Calls, Abandon(c)
       PROVE  FinTypeOK'
  BY <1>12 DEF Abandon, Done, FinTypeOK
<1>13. CASE UNCHANGED finVars
  BY <1>13 DEF finVars, FinTypeOK
<1> QED
  BY <1>1, <1>2, <1>3, <1>4, <1>5, <1>6, <1>7, <1>8, <1>9, <1>10, <1>11, <1>12, <1>13
     DEF FinNext, Record, Begin

----------------------------------------------------------------------------
(* Invoices.                                                               *)

\* What the status of an invoice has to be.
Due(i) == IF Confirmed(i) = {} THEN "issued" ELSE StatusFor(net[i], Sum(Confirmed(i)))

\* A confirmation leaves the invoice with the status its payments give it, also
\* when it finds nothing to save; and that status is not behind the old one.
LEMMA ConfirmationRefreshes ==
    ASSUME FinInv, NEW c \in Calls, ConfirmPayment(c),
           InvoiceOf[finCall[c].on] \in Undisturbed'
    PROVE  LET i == InvoiceOf[finCall[c].on]
           IN /\ invoice'[i] = StatusFor(net[i], Sum(Confirmed(i) \cup {finCall[c].on}))
              /\ NotAhead(invoice[i], invoice'[i])
<1>1. PICK p \in Payments, i \in Invoices :
          p = finCall[c].on /\ i = InvoiceOf[p] /\ finCall[c].do \in PaymentCalls
  BY DecidingCall, CallType, OwnersAssumption DEF ConfirmPayment, FinInv
<1> DEFINE new == StatusFor(net[i], Sum(Confirmed(i) \cup {p}))
<1>a. Confirmed(i)' = Confirmed(i) \cup {p} /\ revoked' = revoked
  BY <1>1 DEF ConfirmPayment, Confirmed, FinInv, FinTypeOK
<1>b. i \in Undisturbed /\ \A q \in Confirmed(i) \cup {p} : Amount[q] >= 0
  BY <1>1, <1>a DEF Undisturbed
<1>2. invoice[i] # "none" /\ NotAhead(finCall[c].seen, invoice[i])
  BY <1>1, <1>b DEF FinInv, SeenIsOld
<1>3. /\ Sum(Confirmed(i)) \in Int
      /\ Sum(Confirmed(i) \cup {p}) \in Int
      /\ Sum(Confirmed(i)) <= Sum(Confirmed(i) \cup {p})
  <2>1. Confirmed(i) \cup {p} \in SUBSET Payments /\ Confirmed(i) \in SUBSET (Confirmed(i) \cup {p})
    BY <1>1 DEF Confirmed
  <2> QED
    BY <1>b, <2>1, IncomeGrows
<1>4. net[i] \in Int
  BY <1>1 DEF FinInv, FinTypeOK
<1>5. invoice[i] = Due(i)
  BY <1>1, <1>2, <1>b DEF FinInv, InvoiceStatusIsCurrent, Due
<1>6. NotAhead(invoice[i], new)
  BY <1>3, <1>4, <1>5, StatusIsMonotone DEF Due
<1>7. invoice'[i] = IF finCall[c].seen \in {"cancelled", "written_off"} \/ new = finCall[c].seen
                    THEN invoice[i] ELSE new
  BY <1>1 DEF ConfirmPayment, Refresh, FinInv, FinTypeOK
<1>8. finCall[c].seen \notin {"cancelled", "written_off"}
  BY <1>2 DEF NotAhead
<1>9. CASE new = finCall[c].seen
  <2>1. invoice[i] = new
    BY <1>2, <1>6, <1>9, NotAheadOrder
  <2> QED
    BY <1>1, <2>1, <1>6, <1>7
<1>10. CASE new # finCall[c].seen
  BY <1>1, <1>6, <1>7, <1>8, <1>10
<1> QED
  BY <1>1, <1>9, <1>10

\* A step that changes no invoice, no net amount and no set of confirmed
\* payments keeps the statuses current.
LEMMA CurrentUnchanged ==
    ASSUME InvoiceStatusIsCurrent, UNCHANGED <<invoice, net>>, revoked \subseteq revoked',
           \A i \in Invoices : i \notin revoked' => Confirmed(i)' = Confirmed(i)
    PROVE  InvoiceStatusIsCurrent'
<1> SUFFICES ASSUME NEW i \in Invoices, invoice'[i] # "none", i \in Undisturbed'
             PROVE  invoice'[i] = IF Confirmed(i)' = {} THEN "issued"
                                  ELSE StatusFor(net'[i], Sum(Confirmed(i)'))
  BY DEF InvoiceStatusIsCurrent
<1>1. Confirmed(i)' = Confirmed(i) /\ i \in Undisturbed
  BY DEF Undisturbed
<1> QED
  BY <1>1 DEF InvoiceStatusIsCurrent

\* Nothing makes an invoice undisturbed again.
LEMMA DisturbedForGood ==
    ASSUME FinInv, [FinNext]_finVars, NEW i \in Invoices, i \in Undisturbed'
    PROVE  i \in Undisturbed
<1> USE OwnersAssumption
<1>1. ASSUME NEW p \in Payments, payment' = [payment EXCEPT ![p] = "confirmed"], UNCHANGED revoked
      PROVE  i \in Undisturbed
  BY <1>1 DEF Undisturbed, Confirmed, FinInv, FinTypeOK
<1>2. ASSUME revoked \subseteq revoked', \A p \in Payments :
             payment[p] = "confirmed" => payment'[p] = "confirmed" \/ InvoiceOf[p] \in revoked'
      PROVE  i \in Undisturbed
  BY <1>2 DEF Undisturbed, Confirmed
<1>3. ASSUME NEW c \in Calls, ConfirmPayment(c)
      PROVE  i \in Undisturbed
  BY <1>1, <1>3, DecidingCall, CallType DEF ConfirmPayment, FinInv
<1>4. ASSUME NEW c \in Calls, RefusePayment(c)
      PROVE  i \in Undisturbed
  <2>1. PICK p \in Payments : p = finCall[c].on
    BY <1>4, DecidingCall, CallType DEF RefusePayment, FinInv
  <2>2. \A q \in Payments : q # p => payment'[q] = payment[q]
    BY <1>4, <2>1 DEF RefusePayment, FinInv, FinTypeOK
  <2> QED
    BY <1>2, <1>4, <2>1, <2>2 DEF RefusePayment
<1>5. ASSUME NEW p \in Payments, RecordManualPayment(p) \/ InitiateMobilePayment(p)
      PROVE  i \in Undisturbed
  BY <1>2, <1>5 DEF RecordManualPayment, InitiateMobilePayment, FinInv, FinTypeOK
<1>6. ASSUME NEW c \in Calls, Begin(c) \/ SaveRefund(c) \/ Abandon(c)
      PROVE  UNCHANGED <<payment, revoked>>
  BY <1>6 DEF Begin, RecordCash, LoadPayment, RequestRefund, LoadRefund, SaveRefund, Abandon
<1>7. ASSUME NEW p \in Payments, NEW state, ProviderDecides(p, state)
      PROVE  UNCHANGED <<payment, revoked>>
  BY <1>7 DEF ProviderDecides
<1>8. ASSUME NEW j \in Invoices, NEW b \in Bills, GenerateInvoice(j, b)
      PROVE  UNCHANGED <<payment, revoked>>
  BY <1>8 DEF GenerateInvoice
<1> QED
  BY <1>2, <1>3, <1>4, <1>5, <1>6, <1>7, <1>8 DEF FinNext, Record, finVars

\* The status of every invoice stays current.
LEMMA CurrentStep ==
    ASSUME FinInv, [FinNext]_finVars
    PROVE  InvoiceStatusIsCurrent'
<1> USE OwnersAssumption
<1>1. ASSUME NEW i \in Invoices, NEW b \in Bills, GenerateInvoice(i, b)
      PROVE  InvoiceStatusIsCurrent'
  <2>1. Confirmed(i) = {}
    BY <1>1 DEF Confirmed, GenerateInvoice, FinInv, PaymentHasInvoice
  <2>2. \A j \in Invoices : Confirmed(j)' = Confirmed(j)
    BY <1>1 DEF Confirmed, GenerateInvoice
  <2>3. ASSUME NEW j \in Invoices, invoice'[j] # "none", j \in Undisturbed'
        PROVE  invoice'[j] = IF Confirmed(j)' = {} THEN "issued"
                             ELSE StatusFor(net'[j], Sum(Confirmed(j)'))
    <3>1. CASE j = i
      BY <1>1, <2>1, <2>2, <3>1 DEF GenerateInvoice, FinInv, FinTypeOK
    <3>2. CASE j # i
      <4>1. invoice'[j] = invoice[j] /\ net'[j] = net[j] /\ j \in Undisturbed
        BY <1>1, <2>3, <3>2, DisturbedForGood DEF GenerateInvoice, FinInv, FinTypeOK, FinNext, Record
      <4> QED
        BY <2>2, <2>3, <4>1 DEF FinInv, InvoiceStatusIsCurrent
    <3> QED
      BY <3>1, <3>2
  <2> QED
    BY <2>3 DEF InvoiceStatusIsCurrent
<1>2. ASSUME NEW p \in Payments, NEW status \in {"pending", "failed", "cancelled"},
             payment' = [payment EXCEPT ![p] = status],
             UNCHANGED <<invoice, net>>, revoked \subseteq revoked',
             payment[p] = "confirmed" => InvoiceOf[p] \in revoked'
      PROVE  InvoiceStatusIsCurrent'
  <2>1. \A j \in Invoices : j \notin revoked' => Confirmed(j)' = Confirmed(j)
    BY <1>2 DEF Confirmed, FinInv, FinTypeOK
  <2> QED
    BY <1>2, <2>1, CurrentUnchanged DEF FinInv
<1>3. ASSUME NEW c \in Calls, ConfirmPayment(c)
      PROVE  InvoiceStatusIsCurrent'
  <2>1. PICK p \in Payments : p = finCall[c].on
    BY <1>3, DecidingCall, CallType DEF ConfirmPayment, FinInv
  <2> DEFINE i == InvoiceOf[p]
  <2>2. /\ UNCHANGED <<net, revoked>>
        /\ payment' = [payment EXCEPT ![p] = "confirmed"]
        /\ i \in Invoices
    BY <1>3, <2>1 DEF ConfirmPayment
  <2>3. ASSUME NEW j \in Invoices, invoice'[j] # "none", j \in Undisturbed'
        PROVE  invoice'[j] = IF Confirmed(j)' = {} THEN "issued"
                             ELSE StatusFor(net'[j], Sum(Confirmed(j)'))
    <3>1. CASE j = i
      <4>1. Confirmed(j)' = Confirmed(j) \cup {p}
        BY <2>2, <3>1 DEF Confirmed, FinInv, FinTypeOK
      <4>2. invoice'[j] = StatusFor(net[j], Sum(Confirmed(j) \cup {p}))
        BY <1>3, <2>1, <2>2, <2>3, <3>1, ConfirmationRefreshes
      <4> HIDE DEF i
      <4> QED
        BY <2>2, <4>1, <4>2
    <3>2. CASE j # i
      <4>1. Confirmed(j)' = Confirmed(j)
        BY <2>2, <3>2 DEF Confirmed, FinInv, FinTypeOK
      <4>2. invoice'[j] = invoice[j]
        BY <1>3, <2>1, <3>2 DEF ConfirmPayment, FinInv, FinTypeOK
      <4> QED
        BY <2>2, <2>3, <4>1, <4>2, DisturbedForGood DEF FinInv, InvoiceStatusIsCurrent
    <3> QED
      BY <3>1, <3>2
  <2> QED
    BY <2>3 DEF InvoiceStatusIsCurrent
<1>4. ASSUME NEW c \in Calls, RefusePayment(c)
      PROVE  InvoiceStatusIsCurrent'
  <2>1. PICK status \in Refused(c) : payment' = [payment EXCEPT ![finCall[c].on] = status]
    BY <1>4 DEF RefusePayment
  <2>2. status \in {"pending", "failed", "cancelled"}
    BY DEF Refused
  <2>3. finCall[c].on \in Payments
    BY <2>1, DecidingCall, CallType DEF FinInv
  <2> QED
    BY <1>2, <1>4, <2>1, <2>2, <2>3 DEF RefusePayment
<1>5. CASE UNCHANGED <<invoice, net, payment, revoked>>
  BY <1>5, CurrentUnchanged DEF FinInv, Confirmed
<1>6. ASSUME NEW p \in Payments, RecordManualPayment(p) \/ InitiateMobilePayment(p)
      PROVE  InvoiceStatusIsCurrent'
  BY <1>2, <1>6 DEF RecordManualPayment, InitiateMobilePayment
<1>7. ASSUME NEW c \in Calls, Begin(c) \/ SaveRefund(c) \/ Abandon(c)
      PROVE  UNCHANGED <<invoice, net, payment, revoked>>
  BY <1>7 DEF Begin, RecordCash, LoadPayment, RequestRefund, LoadRefund, SaveRefund, Abandon
<1>8. ASSUME NEW p \in Payments, NEW state, ProviderDecides(p, state)
      PROVE  UNCHANGED <<invoice, net, payment, revoked>>
  BY <1>8 DEF ProviderDecides
<1> QED
  BY <1>1, <1>3, <1>4, <1>5, <1>6, <1>7, <1>8 DEF FinNext, Record, finVars

\* What a call has loaded stays old, and payments keep their invoices.
LEMMA SeenStep ==
    ASSUME FinInv, [FinNext]_finVars
    PROVE  SeenIsOld' /\ PaymentHasInvoice'
<1> USE OwnersAssumption
<1> DEFINE Forward ==
        \A i \in Invoices : invoice[i] # "none" =>
            /\ invoice'[i] # "none"
            /\ i \in Undisturbed' => NotAhead(invoice[i], invoice'[i])
<1>1. \A i \in Invoices : invoice[i] # "none" /\ i \in Undisturbed => NotAhead(invoice[i], invoice[i])
  <2> SUFFICES ASSUME NEW i \in Invoices, invoice[i] # "none", i \in Undisturbed
               PROVE  NotAhead(invoice[i], invoice[i])
    OBVIOUS
  <2>1. invoice[i] \in {"issued", "partially_paid", "paid"}
    BY DEF FinInv, InvoiceStatusIsCurrent, StatusFor
  <2> QED
    BY <2>1 DEF NotAhead
<1>2. ASSUME UNCHANGED invoice
      PROVE  Forward
  BY <1>1, <1>2, DisturbedForGood
<1>3. ASSUME NEW c \in Calls, ConfirmPayment(c)
      PROVE  Forward /\ PaymentHasInvoice'
  <2>1. PICK p \in Payments : p = finCall[c].on
    BY <1>3, DecidingCall, CallType DEF ConfirmPayment, FinInv
  <2> DEFINE i == InvoiceOf[p]
  <2>2. i \in Invoices /\ invoice[i] # "none"
    BY <1>3, <2>1, DecidingCall DEF ConfirmPayment, FinInv, SeenIsOld
  <2>3. invoice'[i] # "none"
    BY <1>3, <2>1, <2>2 DEF ConfirmPayment, Refresh, StatusFor, FinInv, FinTypeOK
  <2>4. \A j \in Invoices : j # i => invoice'[j] = invoice[j]
    BY <1>3, <2>1 DEF ConfirmPayment, FinInv, FinTypeOK
  <2>5. UNCHANGED revoked
    BY <1>3 DEF ConfirmPayment
  <2>6. i \in Undisturbed' => NotAhead(invoice[i], invoice'[i])
    BY <1>3, <2>1, ConfirmationRefreshes
  <2>7. Forward
    <3> HIDE DEF i
    <3> QED
      BY <1>1, <2>2, <2>3, <2>4, <2>6, DisturbedForGood
  <2>8. PaymentHasInvoice'
    BY <1>3, <2>1, <2>2, <2>3, <2>4 DEF ConfirmPayment, PaymentHasInvoice, FinInv, FinTypeOK
  <2> QED
    BY <2>7, <2>8
<1>4. ASSUME Forward,
             \A c \in Calls : finCall'[c].do \in PaymentCalls => finCall'[c] = finCall[c]
      PROVE  SeenIsOld'
  <2> SUFFICES ASSUME NEW c \in Calls, finCall'[c].do \in PaymentCalls
               PROVE  LET i == InvoiceOf[finCall'[c].on]
                      IN /\ invoice'[i] # "none"
                         /\ i \in Undisturbed' => NotAhead(finCall'[c].seen, invoice'[i])
    BY DEF SeenIsOld
  <2>1. finCall'[c] = finCall[c]
    BY <1>4
  <2>2. PICK i \in Invoices : i = InvoiceOf[finCall[c].on]
    BY <2>1, CallType DEF FinInv
  <2>3. invoice[i] # "none" /\ (i \in Undisturbed => NotAhead(finCall[c].seen, invoice[i]))
    BY <2>1, <2>2 DEF FinInv, SeenIsOld
  <2> QED
    BY <1>4, <2>1, <2>2, <2>3, NotAheadOrder, DisturbedForGood
<1>5. ASSUME NEW c \in Calls, Done(c)
      PROVE  \A d \in Calls : finCall'[d].do \in PaymentCalls => finCall'[d] = finCall[d]
  BY <1>5 DEF Done, Idle, PaymentCalls, FinInv, FinTypeOK
<1>6. ASSUME NEW c \in Calls, NEW p \in Payments, NEW what,
             Load(c, what, p, invoice[InvoiceOf[p]]), UNCHANGED <<invoice, revoked>>,
             invoice[InvoiceOf[p]] # "none"
      PROVE  SeenIsOld'
  <2> SUFFICES ASSUME NEW d \in Calls, finCall'[d].do \in PaymentCalls
               PROVE  LET i == InvoiceOf[finCall'[d].on]
                      IN /\ invoice'[i] # "none"
                         /\ i \in Undisturbed' => NotAhead(finCall'[d].seen, invoice'[i])
    BY DEF SeenIsOld
  <2>1. CASE d = c
    <3>1. finCall'[d] = [do |-> what, on |-> p, seen |-> invoice[InvoiceOf[p]]]
      BY <1>6, <2>1 DEF Load, FinInv, FinTypeOK
    <3>2. PICK i \in Invoices : i = InvoiceOf[p]
      OBVIOUS
    <3> QED
      BY <1>1, <1>6, <3>1, <3>2, DisturbedForGood
  <2>2. CASE d # c
    <3>1. finCall'[d] = finCall[d]
      BY <1>6, <2>2 DEF Load, FinInv, FinTypeOK
    <3>2. PICK i \in Invoices : i = InvoiceOf[finCall[d].on]
      BY <3>1, CallType DEF FinInv
    <3>3. invoice[i] # "none" /\ (i \in Undisturbed => NotAhead(finCall[d].seen, invoice[i]))
      BY <3>1, <3>2 DEF FinInv, SeenIsOld
    <3> QED
      BY <1>6, <3>1, <3>2, <3>3, DisturbedForGood
  <2> QED
    BY <2>1, <2>2
<1>7. ASSUME NEW c \in Calls, NEW r \in Refunds, NEW what \in RefundCalls, Load(c, what, r, "none")
      PROVE  \A d \in Calls : finCall'[d].do \in PaymentCalls => finCall'[d] = finCall[d]
  BY <1>7 DEF Load, PaymentCalls, RefundCalls, FinInv, FinTypeOK
<1>8. ASSUME UNCHANGED <<invoice, payment>>
      PROVE  PaymentHasInvoice'
  BY <1>8 DEF PaymentHasInvoice, FinInv
<1>9. ASSUME NEW i \in Invoices, NEW b \in Bills, GenerateInvoice(i, b)
      PROVE  SeenIsOld' /\ PaymentHasInvoice'
  <2>1. Forward
    BY <1>1, <1>9, DisturbedForGood DEF GenerateInvoice, FinInv, FinTypeOK
  <2>2. SeenIsOld'
    BY <1>4, <1>9, <2>1 DEF GenerateInvoice
  <2>3. PaymentHasInvoice'
    BY <1>9 DEF GenerateInvoice, PaymentHasInvoice, FinInv, FinTypeOK
  <2> QED
    BY <2>2, <2>3
<1>10. ASSUME NEW p \in Payments, RecordManualPayment(p) \/ InitiateMobilePayment(p)
       PROVE  SeenIsOld' /\ PaymentHasInvoice'
  <2>1. UNCHANGED <<invoice, revoked, finCall>>
    BY <1>10 DEF RecordManualPayment, InitiateMobilePayment
  <2>2. SeenIsOld'
    BY <1>2, <1>4, <2>1
  <2>3. PaymentHasInvoice'
    BY <1>10 DEF RecordManualPayment, InitiateMobilePayment, PaymentHasInvoice, FinInv, FinTypeOK
  <2> QED
    BY <2>2, <2>3
<1>11. ASSUME NEW c \in Calls, NEW p \in Payments, NEW what,
              RecordCash(c, p) \/ LoadPayment(c, p, what)
       PROVE  SeenIsOld' /\ PaymentHasInvoice'
  <2>1. UNCHANGED <<invoice, revoked, payment>> /\ invoice[InvoiceOf[p]] # "none"
    BY <1>11 DEF RecordCash, LoadPayment, FinInv, PaymentHasInvoice
  <2> QED
    BY <1>6, <1>8, <1>11, <2>1 DEF RecordCash, LoadPayment
<1>12. ASSUME NEW c \in Calls, NEW r \in Refunds, NEW what \in RefundCalls,
              RequestRefund(c, r) \/ LoadRefund(c, r, what)
       PROVE  SeenIsOld' /\ PaymentHasInvoice'
  <2>1. UNCHANGED <<invoice, revoked, payment>>
    BY <1>12 DEF RequestRefund, LoadRefund
  <2>2. \A d \in Calls : finCall'[d].do \in PaymentCalls => finCall'[d] = finCall[d]
    BY <1>7, <1>12 DEF RequestRefund, LoadRefund, RefundCalls
  <2> QED
    BY <1>2, <1>4, <1>8, <2>1, <2>2
<1>13. ASSUME NEW c \in Calls, RefusePayment(c)
       PROVE  SeenIsOld' /\ PaymentHasInvoice'
  <2>1. PICK p \in Payments : p = finCall[c].on
    BY <1>13, DecidingCall, CallType DEF RefusePayment, FinInv
  <2>2. invoice[InvoiceOf[p]] # "none"
    BY <1>13, <2>1, DecidingCall DEF RefusePayment, FinInv, SeenIsOld
  <2>3. UNCHANGED invoice /\ revoked \subseteq revoked' /\ Done(c)
    BY <1>13 DEF RefusePayment
  <2>4. PaymentHasInvoice'
    BY <1>13, <2>1, <2>2, <2>3 DEF RefusePayment, PaymentHasInvoice, FinInv, FinTypeOK
  <2> QED
    BY <1>2, <1>4, <1>5, <2>3, <2>4
<1>14. ASSUME NEW c \in Calls, SaveRefund(c) \/ Abandon(c)
       PROVE  SeenIsOld' /\ PaymentHasInvoice'
  <2>1. UNCHANGED <<invoice, revoked, payment>> /\ Done(c)
    BY <1>14 DEF SaveRefund, Abandon
  <2> QED
    BY <1>2, <1>4, <1>5, <1>8, <2>1
<1>15. ASSUME NEW c \in Calls, ConfirmPayment(c)
       PROVE  SeenIsOld'
  BY <1>3, <1>4, <1>5, <1>15 DEF ConfirmPayment
<1>16. ASSUME UNCHANGED <<invoice, revoked, payment, finCall>>
       PROVE  SeenIsOld' /\ PaymentHasInvoice'
  BY <1>2, <1>4, <1>8, <1>16
<1>17. ASSUME NEW p \in Payments, NEW state, ProviderDecides(p, state)
       PROVE  UNCHANGED <<invoice, revoked, payment, finCall>>
  BY <1>17 DEF ProviderDecides
<1>18. "request" \in RefundCalls
  BY DEF RefundCalls
<1> HIDE DEF Forward
<1> QED
  BY <1>3, <1>9, <1>10, <1>11, <1>12, <1>13, <1>14, <1>15, <1>16, <1>17, <1>18
     DEF FinNext, Record, Begin, finVars

----------------------------------------------------------------------------
(* Receipts and refunds.                                                   *)

\* A receipt belongs to one confirmed payment.
LEMMA ReceiptStep ==
    ASSUME FinInv, [FinNext]_finVars
    PROVE  ReceiptMeansConfirmed'
<1>1. ASSUME UNCHANGED <<payment, receipt, lastReceipt>>
      PROVE  ReceiptMeansConfirmed'
  BY <1>1 DEF FinInv, ReceiptMeansConfirmed
<1>2. ASSUME NEW p \in Payments, RecordManualPayment(p) \/ InitiateMobilePayment(p)
      PROVE  ReceiptMeansConfirmed'
  BY <1>2 DEF RecordManualPayment, InitiateMobilePayment, FinInv, FinTypeOK, ReceiptMeansConfirmed
<1>3. ASSUME NEW c \in Calls, ConfirmPayment(c)
      PROVE  ReceiptMeansConfirmed'
  <2>1. PICK p \in Payments : p = finCall[c].on
    BY <1>3, DecidingCall, CallType DEF ConfirmPayment, FinInv
  <2>2. /\ payment' = [payment EXCEPT ![p] = "confirmed"]
        /\ receipt' = [receipt EXCEPT ![p] = lastReceipt + 1]
        /\ lastReceipt' = lastReceipt + 1
    BY <1>3, <2>1 DEF ConfirmPayment
  <2> QED
    BY <2>2 DEF FinInv, FinTypeOK, ReceiptMeansConfirmed
<1>4. ASSUME NEW c \in Calls, RefusePayment(c)
      PROVE  ReceiptMeansConfirmed'
  <2>1. PICK p \in Payments : p = finCall[c].on
    BY <1>4, DecidingCall, CallType DEF RefusePayment, FinInv
  <2>2. PICK status \in Refused(c) : payment' = [payment EXCEPT ![p] = status]
    BY <1>4, <2>1 DEF RefusePayment
  <2>3. status # "confirmed"
    BY DEF Refused
  <2>4. receipt' = [receipt EXCEPT ![p] = 0] /\ UNCHANGED lastReceipt
    BY <1>4, <2>1 DEF RefusePayment
  <2> QED
    BY <2>2, <2>3, <2>4 DEF FinInv, FinTypeOK, ReceiptMeansConfirmed
<1>5. ASSUME NEW c \in Calls, Begin(c) \/ SaveRefund(c) \/ Abandon(c)
      PROVE  UNCHANGED <<payment, receipt, lastReceipt>>
  BY <1>5 DEF Begin, RecordCash, LoadPayment, RequestRefund, LoadRefund, SaveRefund, Abandon
<1>6. ASSUME NEW p \in Payments, NEW state, ProviderDecides(p, state)
      PROVE  UNCHANGED <<payment, receipt, lastReceipt>>
  BY <1>6 DEF ProviderDecides
<1>7. ASSUME NEW i \in Invoices, NEW b \in Bills, GenerateInvoice(i, b)
      PROVE  UNCHANGED <<payment, receipt, lastReceipt>>
  BY <1>7 DEF GenerateInvoice
<1> QED
  BY <1>1, <1>2, <1>3, <1>4, <1>5, <1>6, <1>7 DEF FinNext, Record, finVars

\* Approval comes before payment.
LEMMA ApprovalStep ==
    ASSUME FinInv, [FinNext]_finVars
    PROVE  ApprovalsInv'
<1>1. ASSUME UNCHANGED <<refund, approved>>,
             \A c \in Calls : finCall'[c].do = "pay" => finCall'[c].on \in approved
      PROVE  ApprovalsInv'
  BY <1>1 DEF FinInv, ApprovalsInv
<1>2. ASSUME NEW c \in Calls, Done(c)
      PROVE  \A d \in Calls : finCall'[d].do = "pay" => finCall'[d].on \in approved
  BY <1>2 DEF Done, Idle, FinInv, FinTypeOK, ApprovalsInv
<1>3. ASSUME NEW c \in Calls, NEW what, NEW row, NEW status, Load(c, what, row, status),
             what = "pay" => row \in approved
      PROVE  \A d \in Calls : finCall'[d].do = "pay" => finCall'[d].on \in approved
  <2> SUFFICES ASSUME NEW d \in Calls, finCall'[d].do = "pay"
               PROVE  finCall'[d].on \in approved
    OBVIOUS
  <2>1. CASE d = c
    <3>1. finCall'[d] = [do |-> what, on |-> row, seen |-> status]
      BY <1>3, <2>1 DEF Load, FinInv, FinTypeOK
    <3> QED
      BY <1>3, <3>1
  <2>2. CASE d # c
    <3>1. finCall'[d] = finCall[d]
      BY <1>3, <2>2 DEF Load, FinInv, FinTypeOK
    <3> QED
      BY <3>1 DEF FinInv, ApprovalsInv
  <2> QED
    BY <2>1, <2>2
<1>4. ASSUME NEW c \in Calls, NEW p \in Payments, NEW what \in PaymentCalls,
             RecordCash(c, p) \/ LoadPayment(c, p, what)
      PROVE  ApprovalsInv'
  BY <1>1, <1>3, <1>4 DEF RecordCash, LoadPayment, PaymentCalls
<1>5. ASSUME NEW c \in Calls, NEW r \in Refunds, NEW what \in RefundCalls,
             RequestRefund(c, r) \/ LoadRefund(c, r, what)
      PROVE  ApprovalsInv'
  <2>1. CASE RequestRefund(c, r)
    BY <1>1, <1>3, <2>1 DEF RequestRefund
  <2>2. CASE LoadRefund(c, r, what)
    <3>1. what = "pay" => r \in approved
      BY <2>2 DEF LoadRefund, FinInv, ApprovalsInv
    <3> QED
      BY <1>1, <1>3, <2>2, <3>1 DEF LoadRefund
  <2> QED
    BY <1>5, <2>1, <2>2
<1>6. ASSUME NEW c \in Calls, ConfirmPayment(c) \/ RefusePayment(c) \/ Abandon(c)
      PROVE  ApprovalsInv'
  BY <1>1, <1>2, <1>6 DEF ConfirmPayment, RefusePayment, Abandon
<1>7. ASSUME NEW c \in Calls, SaveRefund(c)
      PROVE  ApprovalsInv'
  <2>1. PICK r \in Refunds : r = finCall[c].on
    BY <1>7, CallType DEF SaveRefund, FinInv
  <2>2. refund' = [refund EXCEPT ![r] = Decision[finCall[c].do]]
    BY <1>7, <2>1 DEF SaveRefund
  <2>3. approved \subseteq approved'
    BY <1>7 DEF SaveRefund
  <2>4. Decision[finCall[c].do] \in {"approved", "paid"} => r \in approved'
    BY <1>7, <2>1 DEF SaveRefund, Decision, RefundCalls, FinInv, ApprovalsInv
  <2>5. \A d \in Calls : finCall'[d].do = "pay" => finCall'[d].on \in approved
    BY <1>2, <1>7 DEF SaveRefund
  <2> QED
    BY <2>2, <2>3, <2>4, <2>5 DEF FinInv, FinTypeOK, ApprovalsInv
<1>8. ASSUME UNCHANGED <<refund, approved, finCall>>
      PROVE  ApprovalsInv'
  BY <1>8 DEF FinInv, ApprovalsInv
<1>9. ASSUME Record
      PROVE  UNCHANGED <<refund, approved, finCall>>
  BY <1>9 DEF Record, GenerateInvoice, RecordManualPayment, InitiateMobilePayment, ProviderDecides
<1>10. "cash" \in PaymentCalls /\ "request" \in RefundCalls
  BY DEF PaymentCalls, RefundCalls
<1> QED
  BY <1>4, <1>5, <1>6, <1>7, <1>8, <1>9, <1>10 DEF FinNext, Begin, finVars

----------------------------------------------------------------------------
(* The theorems.                                                           *)

\* The inductive invariant holds in every behaviour of the finance services.
LEMMA FinanceInvariant == FinSpec => []FinInv
<1>1. FinInit => FinInv
  <2> SUFFICES ASSUME FinInit PROVE FinInv
    OBVIOUS
  <2>1. FinTypeOK
    BY DEF FinInit, FinTypeOK
  <2>2. SeenIsOld /\ ApprovalsInv
    BY DEF FinInit, Idle, SeenIsOld, ApprovalsInv, PaymentCalls
  <2>3. InvoiceStatusIsCurrent /\ PaymentHasInvoice /\ ReceiptMeansConfirmed
    BY DEF FinInit, InvoiceStatusIsCurrent, PaymentHasInvoice, ReceiptMeansConfirmed
  <2> QED
    BY <2>1, <2>2, <2>3 DEF FinInv
<1>2. FinInv /\ [FinNext]_finVars => FinInv'
  <2> SUFFICES ASSUME FinInv, [FinNext]_finVars PROVE FinInv'
    OBVIOUS
  <2>1. FinTypeOK /\ PaymentHasInvoice
    BY DEF FinInv
  <2> QED
    BY <2>1, TypeStep, CurrentStep, SeenStep, ReceiptStep, ApprovalStep DEF FinInv
<1> QED
  BY <1>1, <1>2, PTL DEF FinSpec

\* Invoices, payments, refunds and calls stay within their types.
THEOREM FinanceTypes == FinSpec => []FinTypeOK
<1>1. FinInv => FinTypeOK
  BY DEF FinInv
<1> QED
  BY <1>1, FinanceInvariant, PTL

\* However confirmations overlap, _refresh_invoice_status leaves every undisturbed
\* invoice with the status its confirmed payments give it.
THEOREM InvoicesAreCurrent == FinSpec => []InvoiceStatusIsCurrent
<1>1. FinInv => InvoiceStatusIsCurrent
  BY DEF FinInv
<1> QED
  BY <1>1, FinanceInvariant, PTL

\* On an undisturbed invoice fee_balance_for_student holds a student exactly while
\* money is owed.
THEOREM FeeHoldsAreRight == FinSpec => []HoldsAreRight
<1>1. FinInv => HoldsAreRight
  <2> SUFFICES ASSUME FinInv, NEW i \in Invoices, invoice[i] # "none", i \in Undisturbed,
                      Balance(i) > 0
               PROVE  invoice[i] \in {"issued", "partially_paid"}
    BY DEF HoldsAreRight, FeeHold
  <2>1. Confirmed(i) \in SUBSET Payments
    BY DEF Confirmed
  <2>2. Sum(Confirmed(i)) \in Int /\ net[i] \in Int
    BY <2>1, IncomeGrows DEF FinInv, FinTypeOK, Undisturbed
  <2>3. ~(Sum(Confirmed(i)) >= net[i])
    BY <2>2 DEF Balance
  <2> QED
    BY <2>3 DEF FinInv, InvoiceStatusIsCurrent, StatusFor
<1> QED
  BY <1>1, FinanceInvariant, PTL

\* A receipt number is on one payment, and that payment is confirmed.
THEOREM ReceiptsAreSound == FinSpec => []ReceiptMeansConfirmed
<1>1. FinInv => ReceiptMeansConfirmed
  BY DEF FinInv
<1> QED
  BY <1>1, FinanceInvariant, PTL

\* No interleaving of requests and decisions pays a refund nobody approved.
THEOREM PayoutsWereApproved == FinSpec => []PaidOutWasApproved
<1>1. FinInv => PaidOutWasApproved
  BY DEF FinInv, ApprovalsInv, PaidOutWasApproved
<1> QED
  BY <1>1, FinanceInvariant, PTL
=============================================================================
