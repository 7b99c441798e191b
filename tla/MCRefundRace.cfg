SPECIFICATION FinSpec
CONSTANTS
  Invoices = {"invoice"}
  Payments = {"slip", "mobile", "cash"}
  Refunds = {"refund1", "refund2"}
  Calls = {c1, c2}
  InvoiceOf <- MCInvoiceOf
  MethodOf <- MCMethodOf
  PaymentOf <- MCPaymentOf
  Bills <- MCBills
  Amount <- MCAmount
  None = "no row"
CHECK_DEADLOCK FALSE
INVARIANT RefundsWithinPayment
