----------------------------- MODULE MeritList -----------------------------
(***************************************************************************)
(* The merit list of a programme's intake (backend/apps/admissions/        *)
(* merit_list.py): a pure function of the candidates' scores, their        *)
(* attributes and the programme's quota rules.  The candidates and the     *)
(* rules change between two lists.                                         *)
(***************************************************************************)
EXTENDS Integers, FiniteSets, FiniteSetsExt, Sequences

CONSTANTS
    Candidates,     \* application ids: the order that breaks ties
    ScoreValues,
    Attributes,     \* the category:value pairs seats are reserved for, of one category each
    MaxSeats, MaxReserved,
    Absent

ASSUME MeritAssumption ==
    /\ Candidates \subseteq Nat /\ IsFiniteSet(Candidates)
    /\ ScoreValues \subseteq Nat /\ MaxSeats \in Nat /\ MaxReserved \in Nat

VARIABLES
    candidate,      \* per application: score (Unscored: none yet) and attributes, or Absent
    quota           \* quota_rules: `total` seats (-1: no cap), reserved buckets in order

meritVars == <<candidate, quota>>

\* _UNSCORED: below every score.
Unscored == -1
NoCap == -1

Candidate == [score : ScoreValues \cup {Unscored}, attributes : SUBSET Attributes]
Bucket == [attribute : Attributes, seats : 0..MaxSeats]

MeritInit ==
    /\ candidate = [a \in Candidates |-> Absent]
    /\ quota = [total |-> NoCap, reserved |-> << >>]

\* The application is submitted, reviewed or edited ...
EditCandidate(a, new) ==
    /\ candidate' = [candidate EXCEPT ![a] = new]
    /\ UNCHANGED quota

\* ... or withdrawn or enrolled, which takes it off the list; a declined one stays on it.
LeaveIntake(a) ==
    /\ candidate[a] # Absent
    /\ candidate' = [candidate EXCEPT ![a] = Absent]
    /\ UNCHANGED quota

\* The programme's rules are edited: the cap, one more bucket, or no buckets.
EditQuota(total, reserved) ==
    /\ quota' = [total |-> total, reserved |-> reserved]
    /\ UNCHANGED candidate

MeritNext ==
    \/ \E a \in Candidates, new \in Candidate : EditCandidate(a, new)
    \/ \E a \in Candidates : LeaveIntake(a)
    \/ \E total \in 0..MaxSeats \cup {NoCap} : EditQuota(total, quota.reserved)
    \/ EditQuota(quota.total, << >>)
    \/ \E b \in Bucket : /\ Len(quota.reserved) < MaxReserved
                         /\ EditQuota(quota.total, Append(quota.reserved, b))

MeritSpec == MeritInit /\ [][MeritNext]_meritVars

----------------------------------------------------------------------------
\* build_merit_list: the applications from submitted to rejected.
Listed == {a \in Candidates : candidate[a] # Absent}

\* _sort_key: best score first, then the lower id.
Outranks(a, b) ==
    \/ candidate[a].score > candidate[b].score
    \/ candidate[a].score = candidate[b].score /\ a < b

\* The first n of S in the order of the ranking: fewer than n of S outrank them.
Best(n, S) == {a \in S : Cardinality({b \in S : Outranks(b, a)}) < n}

\* Reserved seats: each bucket in its order takes the best with its attribute that no
\* earlier bucket has taken.
FilledUpTo[i \in 0..Len(quota.reserved)] ==
    IF i = 0 THEN {}
    ELSE LET bucket == quota.reserved[i]
             taken == FilledUpTo[i - 1]
         IN taken \cup Best(bucket.seats,
                            {a \in Listed \ taken : bucket.attribute \in candidate[a].attributes})

ReservedSeats == FilledUpTo[Len(quota.reserved)]

SeatsReserved ==
    LET seats == [i \in DOMAIN quota.reserved |-> quota.reserved[i].seats]
    IN MapThenSumSet(LAMBDA i : seats[i], DOMAIN seats)

\* Mutant: seats a bucket could not fill are lost.
AdmittedLosing ==
    IF quota.total = NoCap THEN Listed
    ELSE ReservedSeats \cup
         Best(Max({0, quota.total - SeatsReserved}), Listed \ ReservedSeats)

\* generate_merit_list: who is admitted.
Admitted ==
    IF quota.total = NoCap THEN Listed
    ELSE ReservedSeats \cup
         Best(Max({0, quota.total - Cardinality(ReservedSeats)}), Listed \ ReservedSeats)

\* The type invariant.
MeritTypeOK ==
    /\ candidate \in [Candidates -> Candidate \cup {Absent}]
    /\ quota \in [total : 0..MaxSeats \cup {NoCap}, reserved : Seq(Bucket)]
    /\ Len(quota.reserved) <= MaxReserved

\* The list's policies (merit_list.py): all seats are used when there are
\* applicants and, if the buckets fit, no more than the seats; nobody left out
\* outranks somebody admitted on merit alone, or somebody admitted for attributes
\* that they have too.
MeritListIsFair ==
    /\ Cardinality(Admitted) >= Min({quota.total, Cardinality(Listed)})
    /\ quota.total # NoCap /\ SeatsReserved <= quota.total => Cardinality(Admitted) <= quota.total
    /\ \A out \in Listed \ Admitted, in \in Admitted :
          Outranks(out, in) =>
              /\ in \in ReservedSeats
              /\ ~ candidate[in].attributes \subseteq candidate[out].attributes
=============================================================================
