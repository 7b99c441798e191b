---------------------------- MODULE MCOfflineSync ----------------------------
(***************************************************************************)
(* A clerk queues two admission forms for the same person: "typed the form *)
(* again after the app appeared to lose it" (registry/sync.py).            *)
(***************************************************************************)
EXTENDS OfflineSync, TLC

MCEntityOf == "person" :> "registry.student"
MCKeyOf == [o \in Writes |-> "person"]
MCValueOf == [o \in Writes |-> 1]

\* Workers and flush calls are interchangeable.
Symmetry == Permutations(Workers) \cup Permutations(Flushes)
=============================================================================
