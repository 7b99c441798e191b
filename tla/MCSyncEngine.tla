---------------------------- MODULE MCSyncEngine ----------------------------
(***************************************************************************)
(* Two instances: a payment reference that two devices and a bursar all    *)
(* enter, with two different amounts; and a mark two lecturers enter.       *)
(***************************************************************************)
EXTENDS SyncEngine, TLC

PaymentEntity == "key" :> "finance.payment"
MarkEntity == "key" :> "examinations.mark"
MCKeyOf == (1 :> "key") @@ (2 :> "key") @@ (101 :> "key")
MCValueOf == (1 :> 10) @@ (2 :> 20) @@ (101 :> 10)
=============================================================================
