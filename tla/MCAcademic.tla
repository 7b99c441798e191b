----------------------------- MODULE MCAcademic -----------------------------
(***************************************************************************)
(* A small instance of the academic offices.                               *)
(***************************************************************************)
EXTENDS Academic, TLC

\* Course 2 takes the whole load and requires course 1.
MCCreditHours == 1 :> 1 @@ 2 :> 2
MCRequired == {<<2, 1>>}

\* Two components, one third out of 2 and two thirds out of 3, and a scale in thirds.
MCSchemes == {[weight |-> 1, max |-> 2], [weight |-> 2, max |-> 3]}
MCScale == "A" :> [min |-> 2, max |-> 3, point |-> 1] @@ "B" :> [min |-> 1, max |-> 1, point |-> 1]
           @@ "C" :> [min |-> 0, max |-> 0, point |-> 0]

\* Every office has its interchangeable pair, of requests, slots or registrations:
\* one set of two model values stands for all of them.
Symmetry == Permutations(EnrCalls)

\* What follows the first save on a stale read is not explored: the properties
\* make an exception of it.
NoRace == ~linksRaced /\ enrRaced = {} /\ markRaced = {} /\ resRaced = {} /\ ~ttRaced

\* The windows of the second semester do not close before those of the first.
CalendarOrder == phase[2] <= phase[1]
=============================================================================
