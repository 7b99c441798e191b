--------------------------- MODULE MCTransactions ---------------------------
(***************************************************************************)
(* One day a clerk admits a student while the cashier takes cash and a     *)
(* batch is imported whose legacy record carries the number 2.  On another *)
(* the cashier shares the receipt numbers with two confirmations of one    *)
(* bank slip, which take the two locks in the opposite order, and with its *)
(* rejection.                                                              *)
(***************************************************************************)
EXTENDS Transactions, TLC

Receipt == "receipt_no"
StudentId == "student_id"

Programs ==
    ("cash" :> RecordCashPayment(Receipt)) @@
    ("confirm" :> ConfirmPayment(Receipt, "slip")) @@
    ("again" :> ConfirmPayment(Receipt, "slip")) @@
    ("reject" :> RejectPayment(Receipt, "slip")) @@
    ("admit" :> CreateStudent(StudentId)) @@
    ("import" :> ImportStudents(StudentId, 2))

Days == {{"cash", "admit", "import"}, {"cash", "confirm", "again", "reject"}}

\* The clerk tries again after an error.
MCAttempts == [t \in Requests |-> IF t = "admit" THEN 2 ELSE 1]

MCProgram == [t \in Requests |-> Programs[t]]

\* What is submitted is submitted on the same day.
MCNext == Next /\ \E day \in Days : {t \in Requests : attempts'[t] > 0} \subseteq day
MCSpec == Init /\ [][MCNext]_vars /\ Fairness
=============================================================================
