------------------------------- MODULE SyncOps -------------------------------
(***************************************************************************)
(* The operations the two halves of offline sync exchange.  An operation   *)
(* is its client_op_id; ids are numbered in the order the user created     *)
(* them, which is the order of createdAt and of every batch.               *)
(***************************************************************************)
EXTENDS Naturals, FiniteSets

CONSTANT Ops

ASSUME OpsAssumption == Ops \subseteq Nat \ {0}
=============================================================================
