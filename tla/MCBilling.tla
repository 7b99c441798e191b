----------------------------- MODULE MCBilling -----------------------------
(***************************************************************************)
(* A small instance of the billing of a semester.                          *)
(***************************************************************************)
EXTENDS Billing, TLC

\* Two students of one programme and level, the second from abroad; a scholarship of
\* more than the fees.
MCProgrammeLevel == [s \in Payers |-> 1]
MCNationality == [s \in Payers |-> IF s = 1 THEN "South Sudanese" ELSE "other"]
MCCoverages == {[coverage |-> "fixed_amount", value |-> 9]}
=============================================================================
