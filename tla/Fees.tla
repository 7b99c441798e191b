-------------------------------- MODULE Fees --------------------------------
(***************************************************************************)
(* The arithmetic of a bill, in hundredths (backend/apps/finance/models).  *)
(***************************************************************************)
EXTENDS Integers

\* n / d rounded half to even, as Decimal.quantize does.
HalfEven(n, d) ==
    LET q == n \div d
        r == n % d
    IN IF 2 * r > d \/ (2 * r = d /\ q % 2 = 1) THEN q + 1 ELSE q

\* Scholarship.discount_for: at most the tuition it is taken from.
DiscountFor(award, amount) ==
    LET discount == CASE award.coverage = "none" -> 0
                      [] award.coverage = "percentage" -> HalfEven(amount * award.value, 100)
                      [] award.coverage = "fixed_amount" -> award.value
    IN IF discount < amount THEN discount ELSE amount

\* Invoice.net_amount.
NetAmount(bill) == bill.fee + bill.hostel - DiscountFor(bill.award, bill.fee)
=============================================================================
