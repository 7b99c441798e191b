-------------------------- MODULE IdempotentLedger --------------------------
(***************************************************************************)
(* The promise of the SyncOperation ledger (core/models.py: "a replay is a *)
(* no-op that returns the original result instead of creating a second     *)
(* record"): each operation is decided at most once, and it has its effect *)
(* exactly when it is decided as applied.                                  *)
(***************************************************************************)
EXTENDS Naturals

CONSTANT Ops

VARIABLES outcome, effects

Init ==
    /\ outcome = [o \in Ops |-> "undecided"]
    /\ effects = [o \in Ops |-> 0]

Apply(o) ==
    /\ outcome[o] = "undecided"
    /\ outcome' = [outcome EXCEPT ![o] = "applied"]
    /\ effects' = [effects EXCEPT ![o] = @ + 1]

Hold(o, why) ==
    /\ outcome[o] = "undecided"
    /\ outcome' = [outcome EXCEPT ![o] = why]
    /\ UNCHANGED effects

Next == \E o \in Ops : Apply(o) \/ Hold(o, "conflict") \/ Hold(o, "rejected")

Spec == Init /\ [][Next]_<<outcome, effects>>
=============================================================================
