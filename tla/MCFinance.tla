----------------------------- MODULE MCFinance -----------------------------
(***************************************************************************)
(* One invoice of 3 (a fee of 4, a hostel fee of 1 and half the fee        *)
(* covered) paid by a bank slip of 1, a mobile payment of 2 and 2 in cash, *)
(* so that any two of them pay or nearly pay it, and two refund requests   *)
(* of 2 each on the mobile payment.                                        *)
(***************************************************************************)
EXTENDS Finance, TLC

MCAmount == ("slip" :> 1) @@ ("mobile" :> 2) @@ ("cash" :> 2) @@ ("refund1" :> 2) @@ ("refund2" :> 2)

MCInvoiceOf == [p \in Payments |-> "invoice"]
MCMethodOf == [p \in Payments |->
    CASE p = "slip" -> "bank_slip" [] p = "mobile" -> "mobile_money" [] OTHER -> "cash"]
MCPaymentOf == [r \in Refunds |-> "mobile"]
MCBills == {[fee |-> 4, hostel |-> 1, award |-> [coverage |-> "percentage", value |-> 50]],
            [fee |-> 4, hostel |-> 0, award |-> [coverage |-> "fixed_amount", value |-> 9]]}
=============================================================================
