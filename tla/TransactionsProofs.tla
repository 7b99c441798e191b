------------------------- MODULE TransactionsProofs -------------------------
(***************************************************************************)
(* The audit chain and the number sequences for any number of requests and *)
(* any programs.  Both arguments have the same shape: what a transaction   *)
(* has not committed exists only under a lock it holds, and a lock has one *)
(* holder, so at most one transaction has an uncommitted extension of the  *)
(* chain (of a scope) and its own view of it is intact.                    *)
(***************************************************************************)
EXTENDS Transactions, FiniteSetTheorems, TLAPS

\* A lock has one holder.
LocksAreExclusive ==
    \A t, u \in Requests : \A l \in held[t] : l \in held[u] => t = u

\* Uncommitted audit rows exist only under the chain lock, and are as well linked
\* as the log they extend.
ChainInv ==
    /\ \A t \in Requests : wrote[t] # {} => Chain \in held[t]
    /\ \A t \in Requests : \A e \in log \cup wrote[t] : e.id <= lastId
    /\ \A t \in Requests : BrokenLinks(log \cup wrote[t]) = {}

\* Uncommitted numbers exist only under their scope's lock.
NumberInv ==
    \A t \in Requests, s \in Scopes :
        /\ drawn[t][s] # {} => s \in held[t]
        /\ \A n \in drawn[t][s] : n > counter[s]

FiniteDraws == \A t \in Requests, s \in Scopes : IsFiniteSet(drawn[t][s])

IInv == TypeOK /\ FiniteDraws /\ LocksAreExclusive /\ ChainInv /\ NumberInv /\ ChainIntact

\* The step a request is at belongs to its program.
LEMMA StepType ==
    ASSUME TypeOK, NEW t \in Requests, step[t] <= Len(Program[t])
    PROVE  /\ Program[t][step[t]] \in Steps
           /\ Program[t][step[t]].do # "audit" => Scope(t) \in Scopes
  BY ProgramAssumption DEF TypeOK, Scope

\* A rollback takes back exactly what its own transaction did.
LEMMA AbortStep ==
    ASSUME IInv, NEW t \in Requests, Abort(t)
    PROVE  IInv'
  <1> USE DEF IInv, TypeOK
  <1>1. TypeOK'
    BY DEF Abort, NoneDrawn
  <1>2. FiniteDraws'
    BY FS_EmptySet DEF Abort, FiniteDraws, NoneDrawn
  <1>3. LocksAreExclusive'
    BY DEF Abort, LocksAreExclusive
  <1>4. ChainInv'
    <2>1. \A u \in Requests : wrote'[u] = IF u = t THEN {} ELSE wrote[u]
      BY DEF Abort
    <2>2. \A u \in Requests : held'[u] = IF u = t THEN {} ELSE held[u]
      BY DEF Abort
    <2>3. log' = log /\ lastId' = lastId
      BY DEF Abort
    <2>4. BrokenLinks(log \cup {}) = {}
      BY DEF ChainIntact, BrokenLinks
    <2>5. \A u \in Requests : BrokenLinks(log' \cup wrote'[u]) = {}
      BY <2>1, <2>3, <2>4 DEF ChainInv
    <2> QED BY <2>1, <2>2, <2>3, <2>5 DEF ChainInv
  <1>5. NumberInv'
    BY DEF Abort, NumberInv, NoneDrawn
  <1>6. ChainIntact'
    BY DEF Abort, ChainIntact, BrokenLinks, Newest
  <1> QED BY <1>1, <1>2, <1>3, <1>4, <1>5, <1>6

\* A step that writes no audit row and gives up no lock keeps the chain.
LEMMA ChainFrame ==
    ASSUME IInv, UNCHANGED <<log, wrote, lastId>>,
           \A u \in Requests : held[u] \subseteq held'[u]
    PROVE  ChainInv' /\ ChainIntact'
  <1>1. \A u \in Requests : BrokenLinks(log' \cup wrote'[u]) = {}
    BY DEF IInv, ChainInv
  <1>2. ChainIntact'
    BY DEF IInv, ChainIntact
  <1> QED BY <1>1, <1>2 DEF IInv, ChainInv

\* A step that draws no number and gives up no lock keeps the numbers.
LEMMA NumberFrame ==
    ASSUME IInv, UNCHANGED <<counter, drawn>>,
           \A u \in Requests : held[u] \subseteq held'[u]
    PROVE  NumberInv' /\ FiniteDraws'
  BY DEF IInv, NumberInv, FiniteDraws

\* A request takes a lock nobody else holds.
LEMMA LockStep ==
    ASSUME IInv, NEW t \in Requests, NEW l \in Scopes \cup {Chain},
           \A u \in Others(t) : l \notin held[u],
           held' = [held EXCEPT ![t] = @ \cup {l}]
    PROVE  LocksAreExclusive' /\ \A u \in Requests : held[u] \subseteq held'[u]
  BY DEF IInv, TypeOK, LocksAreExclusive, Others

\* A request begins with no number and no lock.
LEMMA SubmitStep ==
    ASSUME IInv, NEW t \in Requests, Submit(t)
    PROVE  IInv'
  <1>1. TypeOK'
    BY DEF IInv, TypeOK, Submit
  <1>2. LocksAreExclusive'
    BY DEF IInv, LocksAreExclusive, Submit
  <1> QED BY <1>1, <1>2, ChainFrame, NumberFrame DEF IInv, Submit

\* A drawn number lies above last_value and under the scope's lock.
LEMMA AllocateStep ==
    ASSUME IInv, NEW t \in Requests, Allocate(t)
    PROVE  IInv'
  <1> DEFINE s == Scope(t)
             n == counter[s] + Cardinality(drawn[t][s]) + 1
  <1>1. s \in Scopes
    BY StepType DEF IInv, Allocate, At
  <1>2. Cardinality(drawn[t][s]) \in Nat /\ counter[s] \in Nat
    BY <1>1, FS_CardinalityType DEF IInv, FiniteDraws, TypeOK
  <1>3. n \in Nat /\ n > counter[s]
    BY <1>2
  <1>4. LocksAreExclusive' /\ \A u \in Requests : held[u] \subseteq held'[u]
    BY <1>1, LockStep DEF Allocate
  <1>5. drawn' = [drawn EXCEPT ![t] = [drawn[t] EXCEPT ![s] = drawn[t][s] \cup {n}]]
    BY DEF Allocate
  <1>6. TypeOK'
    BY <1>1, <1>3, <1>5 DEF IInv, TypeOK, Allocate, Advance
  <1>7. FiniteDraws'
    <2>1. IsFiniteSet(drawn[t][s] \cup {n})
      BY <1>1, FS_AddElement DEF IInv, FiniteDraws
    <2> QED BY <1>1, <1>5, <2>1 DEF IInv, FiniteDraws, TypeOK
  <1>8. NumberInv'
    <2>1. s \in held'[t] /\ counter' = counter
      BY DEF Allocate, IInv, TypeOK
    <2> QED BY <1>1, <1>3, <1>4, <1>5, <2>1 DEF IInv, NumberInv, TypeOK
  <1>9. ChainInv' /\ ChainIntact'
    BY <1>4, ChainFrame DEF Allocate
  <1> QED BY <1>4, <1>6, <1>7, <1>8, <1>9 DEF IInv

\* A numbered save takes the number its locked sequence row gave.
LEMMA SaveNumberedStep ==
    ASSUME IInv, NEW t \in Requests, SaveNumbered(t)
    PROVE  IInv'
  <1>1. Scope(t) \in Scopes /\ Program[t][step[t]] \in Steps
    BY StepType DEF IInv, SaveNumbered, At
  <1>2. NumberOf(t) \in Nat
    BY <1>1, FS_CardinalityType DEF NumberOf, IInv, FiniteDraws, TypeOK, Steps
  <1>a. [scope |-> Scope(t), number |-> NumberOf(t), row |-> Program[t][step[t]].row, by |-> t] \in Row
    BY <1>1, <1>2 DEF Row, Steps
  <1>3. TypeOK'
    BY <1>a DEF IInv, TypeOK, SaveNumbered, Advance
  <1>4. LocksAreExclusive'
    BY DEF IInv, LocksAreExclusive, SaveNumbered
  <1> QED BY <1>3, <1>4, ChainFrame, NumberFrame DEF IInv, SaveNumbered

\* A row saved blank takes no number and no lock of the sequences.
LEMMA SaveBlankStep ==
    ASSUME IInv, NEW t \in Requests, SaveBlank(t)
    PROVE  IInv'
  <1>1. Scope(t) \in Scopes /\ Program[t][step[t]] \in Steps
    BY StepType DEF IInv, SaveBlank, At
  <1>2. [scope |-> Scope(t), number |-> 0, row |-> Program[t][step[t]].row, by |-> t] \in Row
    BY <1>1 DEF Row, Steps
  <1>3. TypeOK'
    BY <1>2 DEF IInv, TypeOK, SaveBlank, Advance
  <1>4. LocksAreExclusive'
    BY DEF IInv, LocksAreExclusive, SaveBlank
  <1> QED BY <1>3, <1>4, ChainFrame, NumberFrame DEF IInv, SaveBlank

\* The new entry is newer than all others and points to the newest its writer
\* sees; nobody else has uncommitted entries.
LEMMA WriteStep ==
    ASSUME IInv, NEW t \in Requests, Write(t)
    PROVE  IInv'
  <1>1. PICK tail \in 0..lastId :
           /\ Newest(log \cup wrote[t], tail)
           /\ wrote' = [wrote EXCEPT ![t] = @ \cup
                 {[id |-> lastId + 1, prev |-> tail, by |-> t, step |-> step[t]]}]
    BY DEF Write
  <1> DEFINE new == [id |-> lastId + 1, prev |-> tail, by |-> t, step |-> step[t]]
             view == log \cup wrote[t]
  <1>2. new \in Entry /\ lastId \in Nat /\ lastId' = lastId + 1 /\ log' = log
    BY DEF Write, IInv, TypeOK, Entry
  <1>3. LocksAreExclusive' /\ \A u \in Requests : held[u] \subseteq held'[u]
    BY LockStep DEF Write, ChainIsFree
  <1>4. TypeOK'
    BY <1>1, <1>2 DEF IInv, TypeOK, Write, Advance
  <1>5. view \subseteq Entry /\ \A e \in view : e.id \in Nat /\ e.id < new.id
    BY <1>2 DEF IInv, TypeOK, ChainInv, Entry
  <1>6. BrokenLinks(view \cup {new}) = {}
    <2>1. ASSUME NEW e \in view
          PROVE  Newest({r \in view \cup {new} : r.id < e.id}, e.prev)
      <3>1. {r \in view \cup {new} : r.id < e.id} = {r \in view : r.id < e.id}
        BY <1>2, <1>5
      <3>2. Newest({r \in view : r.id < e.id}, e.prev)
        BY DEF IInv, ChainInv, BrokenLinks
      <3> QED BY <3>1, <3>2
    <2>2. {r \in view \cup {new} : r.id < new.id} = view
      BY <1>2, <1>5
    <2>3. Newest({r \in view \cup {new} : r.id < new.id}, new.prev)
      BY <1>1, <2>2
    <2> QED BY <2>1, <2>3 DEF BrokenLinks
  <1>7. \A u \in Requests : wrote'[u] = IF u = t THEN wrote[t] \cup {new} ELSE wrote[u]
    BY <1>1 DEF IInv, TypeOK
  <1>8. \A u \in Requests : BrokenLinks(log' \cup wrote'[u]) = {}
    <2>1. log' \cup wrote'[t] = view \cup {new}
      BY <1>2, <1>7
    <2>2. \A u \in Requests : u # t => log' \cup wrote'[u] = log \cup wrote[u]
      BY <1>2, <1>7
    <2> QED BY <1>6, <2>1, <2>2 DEF IInv, ChainInv
  <1>9. ChainInv'
    <2>1. Chain \in held'[t]
      BY DEF Write, IInv, TypeOK
    <2>2. \A u \in Requests : wrote'[u] # {} => Chain \in held'[u]
      BY <1>3, <1>7, <2>1 DEF IInv, ChainInv
    <2>3. \A u \in Requests : \A e \in log' \cup wrote'[u] : e.id <= lastId'
      <3>1. \A u \in Requests : \A e \in log \cup wrote[u] :
               e.id \in Nat /\ e.id <= lastId
        BY DEF IInv, ChainInv, TypeOK, Entry
      <3>2. \A u \in Requests : \A e \in log' \cup wrote'[u] :
               e = new \/ e \in log \cup wrote[u]
        BY <1>2, <1>7
      <3>3. new.id = lastId'
        BY <1>2
      <3> QED BY <1>2, <3>1, <3>2, <3>3
    <2> QED BY <1>8, <2>2, <2>3 DEF ChainInv
  <1>10. ChainIntact'
    BY <1>2 DEF IInv, ChainIntact
  <1>11. NumberInv' /\ FiniteDraws'
    BY <1>3, NumberFrame DEF Write
  <1> QED BY <1>3, <1>4, <1>9, <1>10, <1>11 DEF IInv

\* A commit publishes the view of the only transaction that extends the chain,
\* and moves last_value past the numbers of the only one that drew from a scope.
LEMMA CommitStep ==
    ASSUME IInv, NEW t \in Requests, Commit(t)
    PROVE  IInv'
  <1>1. \A u \in Requests : wrote'[u] = IF u = t THEN {} ELSE wrote[u]
    BY DEF Commit, IInv, TypeOK
  <1>2. \A u \in Requests : held'[u] = IF u = t THEN {} ELSE held[u]
    BY DEF Commit, IInv, TypeOK
  <1>3. \A u \in Requests : drawn'[u] = IF u = t THEN NoneDrawn ELSE drawn[u]
    BY DEF Commit, IInv, TypeOK
  <1>4. \A s \in Scopes : Cardinality(drawn[t][s]) \in Nat
    BY FS_CardinalityType DEF IInv, FiniteDraws
  <1>5. TypeOK'
    BY <1>4 DEF IInv, TypeOK, Commit, NoneDrawn, Replaced
  <1>6. FiniteDraws'
    BY <1>3, FS_EmptySet DEF IInv, FiniteDraws, NoneDrawn
  <1>7. LocksAreExclusive'
    BY <1>2 DEF IInv, LocksAreExclusive
  <1>8. log' = log \cup wrote[t] /\ lastId' = lastId
    BY DEF Commit
  <1>9. ChainIntact'
    BY <1>8 DEF IInv, ChainIntact, ChainInv
  <1>10. ChainInv'
    <2>1. CASE wrote[t] = {}
      <3>1. log' = log
        BY <1>8, <2>1
      <3>2. \A u \in Requests : wrote'[u] = wrote[u]
        BY <1>1, <2>1
      <3>3. \A u \in Requests : wrote'[u] # {} => Chain \in held'[u]
        BY <1>1, <1>2 DEF IInv, ChainInv
      <3>4. \A u \in Requests : BrokenLinks(log' \cup wrote'[u]) = {}
        BY <3>1, <3>2 DEF IInv, ChainInv
      <3>5. \A u \in Requests : \A e \in log' \cup wrote'[u] : e.id <= lastId'
        BY <1>8, <3>1, <3>2 DEF IInv, ChainInv
      <3> QED BY <3>3, <3>4, <3>5 DEF ChainInv
    <2>2. CASE wrote[t] # {}
      <3>1. \A u \in Requests : u # t => wrote[u] = {}
        BY <2>2 DEF IInv, ChainInv, LocksAreExclusive
      <3>2. \A u \in Requests : wrote'[u] = {}
        BY <1>1, <3>1
      <3>3. \A u \in Requests : log' \cup wrote'[u] = log \cup wrote[t]
        BY <1>8, <3>2
      <3>4. BrokenLinks(log \cup wrote[t]) = {}
        BY DEF IInv, ChainInv
      <3>5. \A u \in Requests : BrokenLinks(log' \cup wrote'[u]) = {}
        BY <3>3, <3>4
      <3>6. \A u \in Requests : \A e \in log' \cup wrote'[u] : e.id <= lastId'
        BY <1>8, <3>3 DEF IInv, ChainInv
      <3> QED BY <3>2, <3>5, <3>6 DEF ChainInv
    <2> QED BY <2>1, <2>2
  <1>11. NumberInv'
    <2>1. ASSUME NEW u \in Requests, NEW s \in Scopes, u # t, drawn[u][s] # {}
          PROVE  counter'[s] = counter[s]
      <3>1. drawn[t][s] = {}
        BY <2>1 DEF IInv, NumberInv, LocksAreExclusive
      <3>2. Cardinality(drawn[t][s]) = 0
        BY <3>1, FS_EmptySet
      <3> QED BY <3>2 DEF Commit, IInv, TypeOK
    <2> QED BY <1>2, <1>3, <2>1 DEF IInv, NumberInv, NoneDrawn
  <1> QED BY <1>5, <1>6, <1>7, <1>9, <1>10, <1>11 DEF IInv

\* A swallowed audit failure only moves the request on.
LEMMA WriteFailsStep ==
    ASSUME IInv, NEW t \in Requests, WriteFails(t)
    PROVE  IInv'
  <1>1. CASE Abort(t)
    BY <1>1, AbortStep
  <1>2. CASE /\ Advance(t)
             /\ UNCHANGED <<counter, issued, overwritten, log, lastId, state, attempts, held,
                            drawn, saved, wrote>>
    <2>1. TypeOK'
      BY <1>2 DEF IInv, TypeOK, Advance
    <2>2. LocksAreExclusive'
      BY <1>2 DEF IInv, LocksAreExclusive
    <2> QED BY <1>2, <2>1, <2>2, ChainFrame, NumberFrame DEF IInv
  <1> QED BY <1>1, <1>2 DEF WriteFails

\* The sequences and their locks stay consistent.
LEMMA InvariantHolds == Spec => []IInv
  <1>1. Init => IInv
    <2> SUFFICES ASSUME Init PROVE IInv
      OBVIOUS
    <2>1. TypeOK
      BY DEF Init, TypeOK, NoneDrawn
    <2>2. FiniteDraws
      BY FS_EmptySet DEF Init, FiniteDraws, NoneDrawn
    <2> QED BY <2>1, <2>2 DEF IInv, Init, LocksAreExclusive, ChainInv, NumberInv, NoneDrawn,
                             ChainIntact, BrokenLinks
  <1>2. IInv /\ [Next]_vars => IInv'
    <2> SUFFICES ASSUME IInv, [Next]_vars PROVE IInv'
      OBVIOUS
    <2>1. ASSUME NEW t \in Requests, Proceed(t) PROVE IInv'
      BY <2>1, AllocateStep, SaveNumberedStep, SaveBlankStep, AbortStep, WriteStep, CommitStep
         DEF Proceed, NumberTaken
    <2>2. ASSUME NEW t \in Requests, Fail(t) \/ DeadlockVictim(t) PROVE IInv'
      BY <2>2, AbortStep DEF Fail, DeadlockVictim
    <2>3. CASE UNCHANGED vars
      <3>1. TypeOK' /\ LocksAreExclusive'
        BY <2>3 DEF vars, IInv, TypeOK, LocksAreExclusive
      <3> QED BY <2>3, <3>1, ChainFrame, NumberFrame DEF vars, IInv
    <2> QED BY <2>1, <2>2, <2>3, SubmitStep, WriteFailsStep DEF Next
  <1> QED BY <1>1, <1>2, PTL DEF Spec

\* The state stays within its types, whatever the programs draw and write.
THEOREM TypeCorrect == Spec => []TypeOK
  BY InvariantHolds, PTL DEF IInv

\* verify_chain never finds a break: the advisory lock, held to the end of the
\* outermost transaction, makes the committed log one chain.
THEOREM ChainIsAlwaysIntact == Spec => []ChainIntact
  BY InvariantHolds, PTL DEF IInv

\* No two transactions ever hold the same number of a scope, and none holds one
\* that last_value has passed.
THEOREM NumbersAreUnique == Spec => []NumbersAreNotShared
  <1>1. IInv => NumbersAreNotShared
    BY DEF IInv, NumberInv, LocksAreExclusive, NumbersAreNotShared, Others
  <1> QED BY <1>1, InvariantHolds, PTL

----------------------------------------------------------------------------
(* What a commit publishes: the numbers a transaction has drawn continue    *)
(* last_value without a hole and each is on a row it has saved, except the  *)
(* one it is about to save; its audit rows cover the steps behind it.       *)

\* The number t has drawn last and saves in its next step.
AboutToSave(t, s, n) ==
    /\ step[t] <= Len(Program[t])
    /\ \E p \in Payments \cup {New} : Program[t][step[t]] = Save(s, p)
    /\ n = counter[s] + Cardinality(drawn[t][s])

Saved(t, s, n) == \E r \in saved[t] : r.scope = s /\ r.number = n

DrawsAreSaved ==
    \A t \in Requests, s \in Scopes :
        /\ drawn[t][s] = (counter[s] + 1)..(counter[s] + Cardinality(drawn[t][s]))
        /\ \A n \in drawn[t][s] : Saved(t, s, n) \/ AboutToSave(t, s, n)

\* Nothing is left of a transaction that is not under way.
IdleHoldsNothing ==
    \A t \in Requests : state[t] # "running" => drawn[t] = NoneDrawn /\ wrote[t] = {}

WritesCoverSteps ==
    \A t \in Requests :
        /\ \A e \in wrote[t] : e.by = t
        /\ state[t] = "running" =>
              \A i \in 1..Len(Program[t]) : i < step[t] => Audited(t, i, wrote[t])

\* A row of a payment belongs to a request that decides it; what a committed row was
\* before another save, two committed requests have decided.
RowsAreOwned ==
    /\ \A t \in Requests : \A r \in saved[t] : r.by = t /\ (r.row # New => r.row \in Decides(t))
    /\ \A r \in issued : state[r.by] = "committed"
    /\ \A r \in overwritten : DecidedTwice(r)

OutcomeInv == RowsAreOwned /\ DrawsAreSaved /\ IdleHoldsNothing /\ WritesCoverSteps /\ NoGaps /\ AuditMatchesCommits

\* A request under way has not committed, and ends its life otherwise.
LEMMA OwnedFrame ==
    ASSUME IInv, RowsAreOwned, NEW t \in Requests, state[t] # "committed",
           \A u \in Requests : u # t => state'[u] = state[u],
           \A u \in Requests : saved'[u] \subseteq saved[u],
           UNCHANGED <<issued, overwritten>>
    PROVE  RowsAreOwned'
  <1>1. \A r \in issued \cup overwritten : r.by \in Requests
    BY DEF IInv, TypeOK, Row
  <1>2. \A r \in issued : state'[r.by] = "committed"
    BY <1>1 DEF RowsAreOwned
  <1>3. ASSUME NEW r \in overwritten
        PROVE  DecidedTwice(r)'
    <2>1. PICK u \in Others(r.by) : state[u] = "committed" /\ r.row \in Decides(u)
      BY DEF RowsAreOwned, DecidedTwice
    <2>2. state'[u] = "committed"
      BY <2>1 DEF Others
    <2> QED BY <2>1, <2>2 DEF DecidedTwice, Others
  <1> QED BY <1>2, <1>3 DEF RowsAreOwned

\* The gaps are those of payments decided twice, and these stay.
LEMMA GapsFrame ==
    ASSUME NoGaps, RowsAreOwned', UNCHANGED <<counter, issued, overwritten>>
    PROVE  NoGaps'
  BY DEF NoGaps, RowsAreOwned

\* A rollback leaves nothing behind, so there is nothing to account for.
LEMMA OutcomeAbort ==
    ASSUME IInv, OutcomeInv, NEW t \in Requests, state[t] = "running", Abort(t)
    PROVE  OutcomeInv'
  <1> USE DEF OutcomeInv
  <1>1. /\ \A u \in Requests : drawn'[u] = IF u = t THEN NoneDrawn ELSE drawn[u]
        /\ \A u \in Requests : saved'[u] = IF u = t THEN {} ELSE saved[u]
        /\ \A u \in Requests : wrote'[u] = IF u = t THEN {} ELSE wrote[u]
        /\ \A u \in Requests : state'[u] = IF u = t THEN "failed" ELSE state[u]
        /\ UNCHANGED <<counter, issued, overwritten, log, step>>
    BY DEF Abort, IInv, TypeOK
  <1>2. DrawsAreSaved'
    <2>1. \A s \in Scopes : (counter[s] + 1)..(counter[s] + Cardinality({})) = {}
      BY FS_EmptySet DEF IInv, TypeOK
    <2>2. \A s \in Scopes : drawn'[t][s] = {}
      BY <1>1 DEF NoneDrawn
    <2>3. \A s \in Scopes : drawn'[t][s] = (counter'[s] + 1)..(counter'[s] + Cardinality(drawn'[t][s]))
      BY <1>1, <2>1, <2>2
    <2>4. \A u \in Requests : u # t => drawn'[u] = drawn[u] /\ saved'[u] = saved[u]
      BY <1>1
    <2> QED BY <1>1, <2>2, <2>3, <2>4 DEF DrawsAreSaved, Saved, AboutToSave
  <1>3. IdleHoldsNothing' /\ WritesCoverSteps'
    BY <1>1 DEF IdleHoldsNothing, WritesCoverSteps
  <1>4. AuditMatchesCommits'
    <2>1. \A e \in log : e.by \in Requests
      BY DEF IInv, TypeOK, Entry
    <2> QED BY <1>1, <2>1 DEF AuditMatchesCommits
  <1>5. RowsAreOwned'
    BY <1>1, OwnedFrame
  <1>6. NoGaps'
    BY <1>1, <1>5, GapsFrame
  <1> QED BY <1>2, <1>3, <1>4, <1>5, <1>6

\* A request that begins has written nothing.
LEMMA OutcomeSubmit ==
    ASSUME IInv, OutcomeInv, NEW t \in Requests, Submit(t)
    PROVE  OutcomeInv'
  <1> USE DEF OutcomeInv
  <1>1. /\ \A u \in Requests : state'[u] = IF u = t THEN "running" ELSE state[u]
        /\ \A u \in Requests : step'[u] = IF u = t THEN 1 ELSE step[u]
        /\ state[t] \in {"ready", "failed"}
        /\ UNCHANGED <<counter, issued, overwritten, log, drawn, saved, wrote>>
    BY DEF Submit, IInv, TypeOK
  <1>2. DrawsAreSaved'
    <2>1. \A s \in Scopes : drawn[t][s] = {}
      BY <1>1 DEF IdleHoldsNothing, NoneDrawn
    <2> QED BY <1>1, <2>1 DEF DrawsAreSaved, Saved, AboutToSave
  <1>3. IdleHoldsNothing' /\ WritesCoverSteps'
    BY <1>1 DEF IdleHoldsNothing, WritesCoverSteps
  <1>4. AuditMatchesCommits'
    <2>1. \A e \in log : e.by \in Requests
      BY DEF IInv, TypeOK, Entry
    <2> QED BY <1>1, <2>1 DEF AuditMatchesCommits
  <1>5. RowsAreOwned'
    BY <1>1, OwnedFrame
  <1>6. NoGaps'
    BY <1>1, <1>5, GapsFrame
  <1> QED BY <1>2, <1>3, <1>4, <1>5, <1>6

\* The step just taken is not audit-sensitive, or its entry is among the new ones.
LEMMA AdvanceKeepsAudit ==
    ASSUME IInv, OutcomeInv, NEW t \in Requests, state[t] = "running", Advance(t),
           step[t] <= Len(Program[t]), UNCHANGED <<state, log>>,
           \A u \in Requests : wrote[u] \subseteq wrote'[u],
           \A u \in Requests : \A e \in wrote'[u] : e.by = u,
           \A u \in Requests : u # t => wrote'[u] = wrote[u],
           Audited(t, step[t], wrote'[t])
    PROVE  WritesCoverSteps' /\ AuditMatchesCommits'
  <1> USE DEF OutcomeInv
  <1>1. \A u \in Requests : step'[u] = IF u = t THEN step[t] + 1 ELSE step[u]
    BY DEF Advance, IInv, TypeOK
  <1>0. step[t] \in Nat
    BY DEF IInv, TypeOK
  <1>2. WritesCoverSteps'
    <2>1. ASSUME NEW i \in 1..Len(Program[t]), i < step[t] + 1
          PROVE  Audited(t, i, wrote'[t])
      <3>1. CASE i = step[t]
        BY <3>1
      <3>2. CASE i # step[t]
        <4>1. Audited(t, i, wrote[t])
          BY <1>0, <2>1, <3>2 DEF WritesCoverSteps
        <4> QED BY <4>1 DEF Audited
      <3> QED BY <3>1, <3>2
    <2> QED BY <1>1, <2>1 DEF WritesCoverSteps
  <1> QED BY <1>2 DEF AuditMatchesCommits

\* The new number follows the ones before it, and the next step saves it.
LEMMA OutcomeAllocate ==
    ASSUME IInv, OutcomeInv, NEW t \in Requests, Allocate(t)
    PROVE  OutcomeInv'
  <1> USE DEF OutcomeInv
  <1>a. PICK s : s = Scope(t)
    OBVIOUS
  <1>b. PICK c : c = Cardinality(drawn[t][s])
    OBVIOUS
  <1>c. PICK n : n = counter[s] + c + 1
    OBVIOUS
  <1>0. /\ state[t] = "running"
        /\ step[t] \in 1..Len(Program[t])
        /\ Program[t][step[t]].do = "draw"
        /\ Program[t][step[t]].scope = s
    BY <1>a DEF Allocate, At, Scope, IInv, TypeOK
  <1>1. /\ s \in Scopes
        /\ step[t] + 1 <= Len(Program[t])
        /\ \E p \in Payments \cup {New} : Program[t][step[t] + 1] = Save(s, p)
        /\ ~Program[t][step[t]].sensitive
    <2>1. ServiceLike(Program[t]) /\ Program[t] \in Seq(Steps)
      BY ServicesAssumption, ProgramAssumption
    <2>2. s \in Scopes
      BY <1>0, <1>a, StepType DEF IInv
    <2>3. step[t] + 1 <= Len(Program[t])
      BY <1>0, <2>1 DEF ServiceLike
    <2>4. \E p \in Payments \cup {New} : Program[t][step[t] + 1] = Save(s, p)
      BY <1>0, <2>1 DEF ServiceLike
    <2>5. ~Program[t][step[t]].sensitive
      BY <1>0, <2>1 DEF ServiceLike
    <2> QED BY <2>2, <2>3, <2>4, <2>5
  <1>2. counter[s] \in Nat /\ c \in Nat /\ IsFiniteSet(drawn[t][s])
    BY <1>1, <1>b, FS_CardinalityType DEF IInv, FiniteDraws, TypeOK
  <1>3. n \notin drawn[t][s]
    BY <1>1, <1>2, <1>b, <1>c DEF DrawsAreSaved
  <1>4. Cardinality(drawn[t][s] \cup {n}) = c + 1
    BY <1>2, <1>3, <1>b, FS_AddElement
  <1>5. /\ \A u \in Requests, z \in Scopes :
              drawn'[u][z] = IF u = t /\ z = s THEN drawn[t][s] \cup {n} ELSE drawn[u][z]
        /\ \A u \in Requests : step'[u] = IF u = t THEN step[t] + 1 ELSE step[u]
        /\ UNCHANGED <<counter, saved, state, wrote, issued, overwritten, log>>
    BY <1>1, <1>a, <1>b, <1>c DEF Allocate, Advance, IInv, TypeOK
  <1>6. DrawsAreSaved'
    <2>1. drawn'[t][s] = (counter[s] + 1)..(counter[s] + Cardinality(drawn'[t][s]))
      <3>1. drawn[t][s] = (counter[s] + 1)..(counter[s] + c)
        BY <1>1, <1>b DEF DrawsAreSaved
      <3>2. (counter[s] + 1)..(counter[s] + (c + 1)) = (counter[s] + 1)..(counter[s] + c) \cup {n}
        BY <1>2, <1>c
      <3>3. drawn'[t][s] = drawn[t][s] \cup {n}
        BY <1>1, <1>5
      <3> QED BY <1>4, <3>1, <3>2, <3>3
    <2>2. AboutToSave(t, s, n)'
      <3>1. drawn'[t][s] = drawn[t][s] \cup {n} /\ counter' = counter /\ step'[t] = step[t] + 1
        BY <1>1, <1>5
      <3>2. n = counter[s] + (c + 1)
        BY <1>2, <1>c
      <3> QED BY <1>1, <1>4, <3>1, <3>2 DEF AboutToSave
    <2>3. \A z \in Scopes : \A m \in drawn[t][z] : Saved(t, z, m)
      <3>1. \A z, p : Program[t][step[t]] # Save(z, p)
        BY <1>0 DEF Save
      <3> QED BY <3>1 DEF DrawsAreSaved, AboutToSave
    <2>4. \A z \in Scopes : \A m \in drawn'[t][z] : Saved(t, z, m)' \/ AboutToSave(t, z, m)'
      BY <1>5, <2>2, <2>3 DEF Saved
    <2>5. \A u \in Requests : u # t => \A z \in Scopes : \A m \in drawn'[u][z] :
                 Saved(u, z, m)' \/ AboutToSave(u, z, m)'
      BY <1>5 DEF DrawsAreSaved, Saved, AboutToSave
    <2>6. \A u \in Requests, z \in Scopes :
             drawn'[u][z] = (counter[z] + 1)..(counter[z] + Cardinality(drawn'[u][z]))
      BY <1>5, <2>1 DEF DrawsAreSaved
    <2> QED BY <1>5, <2>4, <2>5, <2>6 DEF DrawsAreSaved
  <1>7. WritesCoverSteps' /\ AuditMatchesCommits'
    <2>1. Audited(t, step[t], wrote'[t])
      BY <1>1 DEF Audited
    <2>2. Advance(t) /\ step[t] <= Len(Program[t])
      BY DEF Allocate, At
    <2>3. \A u \in Requests : \A e \in wrote'[u] : e.by = u
      BY <1>5 DEF WritesCoverSteps
    <2> QED BY <1>0, <1>5, <2>1, <2>2, <2>3, AdvanceKeepsAudit
  <1>8. IdleHoldsNothing'
    BY <1>0, <1>5 DEF IdleHoldsNothing, Allocate, IInv, TypeOK
  <1>9. RowsAreOwned'
    BY <1>0, <1>5, OwnedFrame
  <1>10. NoGaps'
    BY <1>5, <1>9, GapsFrame
  <1> QED BY <1>6, <1>7, <1>8, <1>9, <1>10

\* The row just saved carries the number drawn before it, unless it brought its own
\* or was loaded blank.
LEMMA OutcomeSave ==
    ASSUME IInv, OutcomeInv, NEW t \in Requests, SaveNumbered(t) \/ SaveBlank(t)
    PROVE  OutcomeInv'
  <1> USE DEF OutcomeInv
  <1>0. /\ state[t] = "running"
        /\ step[t] \in 1..Len(Program[t])
        /\ Program[t][step[t]].do \in {"save", "blank"}
    BY DEF SaveNumbered, SaveBlank, At, IInv, TypeOK
  <1>1. Program[t][step[t]].sensitive => Program[t][step[t]].do = "audit"
    BY <1>0, ServicesAssumption DEF ServiceLike
  <1>2. Audited(t, step[t], wrote[t])
    BY <1>0, <1>1 DEF Audited
  <1>a. PICK n : n = IF Program[t][step[t]].do = "save" THEN NumberOf(t) ELSE 0
    OBVIOUS
  <1>b. PICK row : row = [scope |-> Scope(t), number |-> n, row |-> Program[t][step[t]].row, by |-> t]
    OBVIOUS
  <1>3. /\ saved' = [saved EXCEPT ![t] = @ \cup {row}]
        /\ \A u \in Requests : step'[u] = IF u = t THEN step[t] + 1 ELSE step[u]
        /\ UNCHANGED <<counter, drawn, state, wrote, issued, overwritten, log>>
    BY <1>a, <1>b DEF SaveNumbered, SaveBlank, At, Advance, IInv, TypeOK
  <1>c. \A u \in Requests : saved'[u] = IF u = t THEN saved[u] \cup {row} ELSE saved[u]
    BY <1>3 DEF IInv, TypeOK
  <1>4. \A s \in Scopes : \A m \in drawn[t][s] : AboutToSave(t, s, m) => Saved(t, s, m)'
    <2> SUFFICES ASSUME NEW s \in Scopes, NEW m, AboutToSave(t, s, m)
                 PROVE  Saved(t, s, m)'
      OBVIOUS
    <2>1. Program[t][step[t]].do = "save" /\ Scope(t) = s /\ NumberOf(t) = m
      BY DEF AboutToSave, Save, Scope, NumberOf
    <2>2. row.scope = s /\ row.number = m
      BY <1>a, <1>b, <2>1
    <2> QED BY <1>c, <2>2 DEF Saved
  <1>5. DrawsAreSaved'
    <2>1. \A u \in Requests, s \in Scopes : \A m \in drawn[u][s] :
             Saved(u, s, m) => Saved(u, s, m)'
      BY <1>c DEF Saved
    <2>2. \A u \in Requests, s \in Scopes : \A m \in drawn[u][s] :
             u # t /\ AboutToSave(u, s, m) => AboutToSave(u, s, m)'
      BY <1>3 DEF AboutToSave
    <2>3. \A u \in Requests, s \in Scopes : \A m \in drawn[u][s] :
             Saved(u, s, m)' \/ AboutToSave(u, s, m)'
      BY <1>4, <2>1, <2>2 DEF DrawsAreSaved
    <2> QED BY <1>3, <2>3 DEF DrawsAreSaved
  <1>6. WritesCoverSteps' /\ AuditMatchesCommits'
    BY <1>0, <1>2, <1>3, AdvanceKeepsAudit DEF WritesCoverSteps, SaveNumbered, SaveBlank
  <1>7. RowsAreOwned'
    <2>1. row.by = t /\ (row.row # New => row.row \in Decides(t))
      <3>1. row.row = Program[t][step[t]].row /\ row.by = t
        BY <1>b
      <3> QED BY <1>0, <3>1 DEF Decides
    <2>2. ASSUME NEW u \in Requests, NEW r \in saved'[u]
          PROVE  r.by = u /\ (r.row # New => r.row \in Decides(u))
      <3>1. CASE r \in saved[u]
        BY <3>1 DEF RowsAreOwned
      <3>2. CASE r \notin saved[u]
        <4>1. u = t /\ r = row
          BY <1>c, <2>2, <3>2
        <4> QED BY <2>1, <4>1
      <3> QED BY <3>1, <3>2
    <2>3. \A r \in overwritten : DecidedTwice(r)'
      BY <1>3 DEF RowsAreOwned, DecidedTwice
    <2> QED BY <1>3, <2>2, <2>3 DEF RowsAreOwned
  <1>8. NoGaps'
    BY <1>3, <1>7, GapsFrame
  <1> QED BY <1>3, <1>5, <1>6, <1>7, <1>8 DEF IdleHoldsNothing

\* An audit step draws and saves nothing; it leaves its entry, or was not sensitive.
LEMMA OutcomeAudit ==
    ASSUME IInv, OutcomeInv, NEW t \in Requests, At(t, "audit"), Advance(t),
           UNCHANGED <<counter, issued, overwritten, log, state, drawn, saved>>,
           \A u \in Requests : wrote[u] \subseteq wrote'[u],
           \A u \in Requests : u # t => wrote'[u] = wrote[u],
           \A e \in wrote'[t] : e.by = t,
           Audited(t, step[t], wrote'[t])
    PROVE  OutcomeInv'
  <1> USE DEF OutcomeInv
  <1>1. /\ state[t] = "running"
        /\ step[t] <= Len(Program[t])
        /\ \A s, p : Program[t][step[t]] # Save(s, p)
    BY DEF At, Save
  <1>2. \A u \in Requests : step'[u] = IF u = t THEN step[t] + 1 ELSE step[u]
    BY DEF Advance, IInv, TypeOK
  <1>3. DrawsAreSaved'
    <2>1. \A s \in Scopes : \A n \in drawn[t][s] : Saved(t, s, n)
      BY <1>1 DEF DrawsAreSaved, AboutToSave
    <2>2. \A u \in Requests, s \in Scopes : \A n \in drawn[u][s] :
             /\ Saved(u, s, n) => Saved(u, s, n)'
             /\ u # t /\ AboutToSave(u, s, n) => AboutToSave(u, s, n)'
      BY <1>2 DEF Saved, AboutToSave
    <2>3. \A u \in Requests, s \in Scopes : \A n \in drawn[u][s] :
             Saved(u, s, n)' \/ AboutToSave(u, s, n)'
      BY <2>1, <2>2 DEF DrawsAreSaved
    <2> QED BY <2>3 DEF DrawsAreSaved
  <1>4. WritesCoverSteps' /\ AuditMatchesCommits'
    BY <1>1, AdvanceKeepsAudit DEF WritesCoverSteps
  <1>5. IdleHoldsNothing'
    BY <1>1 DEF IdleHoldsNothing
  <1>6. RowsAreOwned'
    BY <1>1, OwnedFrame
  <1>7. NoGaps'
    BY <1>6, GapsFrame
  <1> QED BY <1>3, <1>4, <1>5, <1>6, <1>7

\* The commit puts the drawn numbers into last_value together with the rows that carry
\* them, and the audit rows into the log together with the changes they describe.
LEMMA OutcomeCommit ==
    ASSUME IInv, OutcomeInv, NEW t \in Requests, Commit(t)
    PROVE  OutcomeInv'
  <1> USE DEF OutcomeInv
  <1>1. /\ \A u \in Requests : drawn'[u] = IF u = t THEN NoneDrawn ELSE drawn[u]
        /\ \A u \in Requests : saved'[u] = IF u = t THEN {} ELSE saved[u]
        /\ \A u \in Requests : wrote'[u] = IF u = t THEN {} ELSE wrote[u]
        /\ \A u \in Requests : state'[u] = IF u = t THEN "committed" ELSE state[u]
        /\ \A s \in Scopes : counter'[s] = counter[s] + Cardinality(drawn[t][s])
        /\ issued' = (issued \ Replaced(t)) \cup saved[t]
        /\ overwritten' = overwritten \cup Replaced(t)
        /\ log' = log \cup wrote[t]
        /\ step' = step
        /\ state[t] = "running"
        /\ ~(step[t] <= Len(Program[t]))
        /\ \A i \in 1..Len(Program[t]) : i < step[t]
    BY ProgramAssumption DEF Commit, IInv, TypeOK
  <1>2. \A s \in Scopes : counter[s] \in Nat /\ Cardinality(drawn[t][s]) \in Nat
    BY FS_CardinalityType DEF IInv, FiniteDraws, TypeOK
  <1>3. \A s \in Scopes : \A n \in drawn[t][s] : Saved(t, s, n)
    BY <1>1 DEF DrawsAreSaved, AboutToSave
  <1>a. RowsAreOwned'
    <2>1. \A r \in issued \cup overwritten \cup saved[t] : r.by \in Requests
      BY DEF IInv, TypeOK, Row
    <2>2. \A r \in issued' : state'[r.by] = "committed"
      BY <1>1, <2>1 DEF RowsAreOwned
    <2>3. ASSUME NEW r \in overwritten
          PROVE  DecidedTwice(r)'
      <3>1. PICK u \in Others(r.by) : state[u] = "committed" /\ r.row \in Decides(u)
        BY DEF RowsAreOwned, DecidedTwice
      <3>2. state'[u] = "committed"
        BY <1>1, <3>1 DEF Others
      <3> QED BY <3>1, <3>2 DEF DecidedTwice, Others
    <2>4. ASSUME NEW r \in Replaced(t)
          PROVE  DecidedTwice(r)'
      <3>1. PICK q \in saved[t] : q.row = r.row /\ r.row # New /\ r \in issued
        BY DEF Replaced
      <3>2. r.row \in Decides(t)
        BY <3>1 DEF RowsAreOwned
      <3>3. t \in Others(r.by) /\ state'[t] = "committed"
        BY <1>1, <2>1, <3>1 DEF RowsAreOwned, Others
      <3> QED BY <3>2, <3>3 DEF DecidedTwice, Others
    <2>5. \A u \in Requests : \A r \in saved'[u] : r.by = u /\ (r.row # New => r.row \in Decides(u))
      BY <1>1 DEF RowsAreOwned
    <2>6. \A r \in overwritten' : DecidedTwice(r)'
      BY <1>1, <2>3, <2>4
    <2> QED BY <2>2, <2>5, <2>6 DEF RowsAreOwned
  <1>4. NoGaps'
    <2> SUFFICES ASSUME NEW s \in Scopes, NEW n \in 1..counter'[s]
                 PROVE  \/ \E r \in issued' : r.scope = s /\ r.number = n
                        \/ \E r \in overwritten' : r.scope = s /\ r.number = n
      BY <1>a DEF NoGaps, RowsAreOwned
    <2>1. CASE n <= counter[s]
      <3>1. \E r \in issued \cup overwritten : r.scope = s /\ r.number = n
        BY <1>1, <1>2, <2>1 DEF NoGaps
      <3>2. issued \cup overwritten \subseteq issued' \cup overwritten'
        BY <1>1
      <3> QED BY <3>1, <3>2
    <2>2. CASE n > counter[s]
      <3>1. n \in drawn[t][s]
        BY <1>1, <1>2, <2>2 DEF DrawsAreSaved
      <3> QED BY <1>1, <1>3, <3>1 DEF Saved
    <2> QED BY <1>1, <1>2, <2>1, <2>2
  <1>5. DrawsAreSaved'
    <2>0. Cardinality({}) = 0
      BY FS_EmptySet
    <2>a. \A s \in Scopes : drawn'[t][s] = {}
      BY <1>1 DEF NoneDrawn
    <2>b. \A s \in Scopes : counter'[s] \in Nat
      BY <1>1, <1>2
    <2>1. \A s \in Scopes : drawn'[t][s] = {} /\ Cardinality(drawn'[t][s]) = 0 /\ counter'[s] \in Nat
      BY <2>0, <2>a, <2>b
    <2>2. ASSUME NEW u \in Requests, u # t, NEW s \in Scopes, drawn[u][s] # {}
          PROVE  counter'[s] = counter[s]
      <3>1. drawn[t][s] = {}
        BY <2>2 DEF IInv, NumberInv, LocksAreExclusive
      <3>2. Cardinality(drawn[t][s]) = 0 /\ counter[s] \in Nat
        BY <1>2, <2>0, <3>1
      <3> QED BY <1>1, <3>2
    <2>3. ASSUME NEW u \in Requests, u # t, NEW s \in Scopes, drawn[u][s] = {}
          PROVE  drawn'[u][s] = (counter'[s] + 1)..(counter'[s] + Cardinality(drawn'[u][s]))
      <3>1. drawn'[u][s] = {} /\ Cardinality(drawn'[u][s]) = 0
        BY <1>1, <2>3, FS_EmptySet
      <3> QED BY <2>1, <3>1
    <2>4. ASSUME NEW u \in Requests, u # t, NEW s \in Scopes, drawn[u][s] # {}
          PROVE  /\ drawn'[u][s] = (counter'[s] + 1)..(counter'[s] + Cardinality(drawn'[u][s]))
                 /\ \A n \in drawn'[u][s] : Saved(u, s, n)' \/ AboutToSave(u, s, n)'
      <3>1. counter'[s] = counter[s] /\ drawn'[u] = drawn[u] /\ saved'[u] = saved[u] /\ step' = step
        BY <1>1, <2>2, <2>4
      <3> QED BY <3>1 DEF DrawsAreSaved, Saved, AboutToSave
    <2>5. \A s \in Scopes : drawn'[t][s] = (counter'[s] + 1)..(counter'[s] + Cardinality(drawn'[t][s]))
      <3>1. \A c \in Nat : (c + 1)..(c + 0) = {}
        OBVIOUS
      <3> QED BY <2>0, <2>a, <2>b, <3>1
    <2>6. \A u \in Requests, s \in Scopes : u # t /\ drawn[u][s] = {} => drawn'[u][s] = {}
      BY <1>1
    <2> QED BY <2>1, <2>3, <2>4, <2>5, <2>6 DEF DrawsAreSaved
  <1>6. IdleHoldsNothing' /\ WritesCoverSteps'
    BY <1>1 DEF IdleHoldsNothing, WritesCoverSteps
  <1>7. AuditMatchesCommits'
    <2>1. \A e \in log : e.by \in Requests
      BY DEF IInv, TypeOK, Entry
    <2>2. \A e \in log' : state'[e.by] = "committed"
      BY <1>1, <2>1 DEF AuditMatchesCommits, WritesCoverSteps
    <2>3. \A i \in 1..Len(Program[t]) : Audited(t, i, wrote[t])
      BY <1>1 DEF WritesCoverSteps
    <2>4. \A u \in Requests, i \in Nat :
             Audited(u, i, log) \/ Audited(u, i, wrote[t]) => Audited(u, i, log')
      BY <1>1 DEF Audited
    <2>5. ASSUME NEW u \in Requests, state'[u] = "committed", NEW i \in 1..Len(Program[u])
          PROVE  Audited(u, i, log')
      <3>1. CASE u = t
        BY <2>3, <2>4, <2>5, <3>1
      <3>2. CASE u # t
        <4>1. state[u] = "committed"
          BY <1>1, <2>5, <3>2
        <4> QED BY <2>4, <2>5, <4>1 DEF AuditMatchesCommits
      <3> QED BY <3>1, <3>2
    <2> QED BY <2>2, <2>5 DEF AuditMatchesCommits
  <1> QED BY <1>a, <1>4, <1>5, <1>6, <1>7

\* What is written is accounted for.
LEMMA OutcomeHolds == Spec => [](IInv /\ OutcomeInv)
  <1>1. Init => OutcomeInv
    <2> SUFFICES ASSUME Init PROVE OutcomeInv
      OBVIOUS
    <2>1. DrawsAreSaved
      BY FS_EmptySet DEF Init, NoneDrawn, DrawsAreSaved
    <2> QED BY <2>1 DEF Init, NoneDrawn, OutcomeInv, IdleHoldsNothing, WritesCoverSteps,
                       RowsAreOwned, NoGaps, AuditMatchesCommits
  <1>2. IInv /\ OutcomeInv /\ [Next]_vars => OutcomeInv'
    <2> SUFFICES ASSUME IInv, OutcomeInv, [Next]_vars PROVE OutcomeInv'
      OBVIOUS
    <2>1. ASSUME NEW t \in Requests, NumberTaken(t) \/ Fail(t) \/ DeadlockVictim(t)
          PROVE  OutcomeInv'
      BY <2>1, OutcomeAbort DEF NumberTaken, Fail, DeadlockVictim, WaitsFor, At
    <2>2. ASSUME NEW t \in Requests, Write(t) PROVE OutcomeInv'
      <3>0. PICK tail \in 0..lastId : wrote' = [wrote EXCEPT ![t] =
                @ \cup {[id |-> lastId + 1, prev |-> tail, by |-> t, step |-> step[t]]}]
        BY <2>2 DEF Write
      <3>a. PICK e : e = [id |-> lastId + 1, prev |-> tail, by |-> t, step |-> step[t]]
        OBVIOUS
      <3>1. wrote' = [wrote EXCEPT ![t] = @ \cup {e}] /\ e.by = t /\ e.step = step[t]
        BY <3>0, <3>a
      <3>2. /\ \A u \in Requests : wrote[u] \subseteq wrote'[u]
            /\ \A u \in Requests : u # t => wrote'[u] = wrote[u]
            /\ e \in wrote'[t]
            /\ \A d \in wrote'[t] : d.by = t
        BY <3>1 DEF IInv, TypeOK, OutcomeInv, WritesCoverSteps
      <3>3. Audited(t, step[t], wrote'[t])
        BY <3>1, <3>2 DEF Audited
      <3> QED BY <2>2, <3>2, <3>3, OutcomeAudit DEF Write
    <2>3. ASSUME NEW t \in Requests, WriteFails(t) PROVE OutcomeInv'
      <3>1. CASE Program[t][step[t]].sensitive
        BY <2>3, <3>1, OutcomeAbort DEF WriteFails, At
      <3>2. CASE ~Program[t][step[t]].sensitive
        <4>1. Audited(t, step[t], wrote'[t])
          BY <3>2 DEF Audited
        <4> QED BY <2>3, <3>2, <4>1, OutcomeAudit DEF WriteFails, OutcomeInv, WritesCoverSteps
      <3> QED BY <3>1, <3>2
    <2>4. CASE UNCHANGED vars
      BY <2>4 DEF vars, OutcomeInv, DrawsAreSaved, Saved, AboutToSave, IdleHoldsNothing,
                  WritesCoverSteps, RowsAreOwned, DecidedTwice, NoGaps, AuditMatchesCommits
    <2> QED BY <2>1, <2>2, <2>3, <2>4, OutcomeSubmit, OutcomeAllocate, OutcomeSave, OutcomeCommit
            DEF Next, Proceed
  <1> QED BY <1>1, <1>2, InvariantHolds, PTL DEF Spec

\* Receipts, invoices and registration numbers: whichever transactions rolled back,
\* deadlocked or brought numbers of their own, every number up to last_value is on a
\* committed row, or was on a payment's that two committed requests decided.
THEOREM SequencesHaveNoGaps == Spec => []NoGaps
  BY OutcomeHolds, PTL DEF OutcomeInv

\* The log has all the sensitive entries of what was committed and none of what was
\* rolled back.
THEOREM LogMatchesCommits == Spec => []AuditMatchesCommits
  BY OutcomeHolds, PTL DEF OutcomeInv

----------------------------------------------------------------------------
\* Calling one service after the other inside a transaction makes a service.
LEMMA ServicesCompose ==
    ASSUME NEW p \in Seq(Steps), NEW q \in Seq(Steps), ServiceLike(p), ServiceLike(q)
    PROVE  ServiceLike(p \o q)
  <1>1. p \o q \in Seq(Steps) /\ Len(p \o q) = Len(p) + Len(q)
    OBVIOUS
  <1>2. \A i \in 1..Len(p) : (p \o q)[i] = p[i]
    OBVIOUS
  <1>3. \A i \in 1..Len(q) : (p \o q)[i + Len(p)] = q[i]
    OBVIOUS
  <1>4. Len(p) \in Nat /\ Len(q) \in Nat
    OBVIOUS
  <1> SUFFICES ASSUME NEW i \in 1..Len(p \o q)
               PROVE  /\ (p \o q)[i].do = "draw" =>
                            /\ i < Len(p \o q)
                            /\ \E x \in Payments \cup {New} : (p \o q)[i + 1] = Save((p \o q)[i].scope, x)
                      /\ (p \o q)[i].sensitive => (p \o q)[i].do = "audit"
    BY DEF ServiceLike
  <1>5. CASE i <= Len(p)
    <2>1. i \in 1..Len(p) /\ (p \o q)[i] = p[i]
      BY <1>1, <1>2, <1>4, <1>5
    <2>2. p[i].do = "draw" => i < Len(p) /\ \E x \in Payments \cup {New} : p[i + 1] = Save(p[i].scope, x)
      BY <2>1 DEF ServiceLike
    <2>3. p[i].do = "draw" => (p \o q)[i + 1] = p[i + 1]
      BY <1>2, <1>4, <2>1, <2>2
    <2>4. p[i].sensitive => p[i].do = "audit"
      BY <2>1 DEF ServiceLike
    <2> QED BY <1>1, <1>4, <2>1, <2>2, <2>3, <2>4
  <1>6. CASE i > Len(p)
    <2>1. PICK j \in 1..Len(q) : i = j + Len(p)
      <3>1. i - Len(p) \in 1..Len(q) /\ i = (i - Len(p)) + Len(p)
        BY <1>1, <1>4, <1>6
      <3> QED BY <3>1
    <2>2. (p \o q)[i] = q[j]
      BY <1>3, <2>1
    <2>3. q[j].do = "draw" => j < Len(q) /\ \E x \in Payments \cup {New} : q[j + 1] = Save(q[j].scope, x)
      BY <2>1 DEF ServiceLike
    <2>4. q[j].do = "draw" => (p \o q)[i + 1] = q[j + 1]
      <3>1. q[j].do = "draw" => j + 1 \in 1..Len(q) /\ i + 1 = (j + 1) + Len(p)
        BY <1>4, <2>1, <2>3
      <3> QED BY <1>3, <3>1
    <2>5. q[j].sensitive => q[j].do = "audit"
      BY <2>1 DEF ServiceLike
    <2> QED BY <1>1, <1>4, <2>1, <2>2, <2>3, <2>4, <2>5
  <1> QED BY <1>1, <1>4, <1>5, <1>6

\* A drawn number that goes on a row, and the entry of that save.
LEMMA NumberedSave ==
    ASSUME NEW s \in Scopes, NEW x \in Payments \cup {New}, NEW b \in BOOLEAN
    PROVE  /\ <<Draw(s), Save(s, x), Audit(b)>> \in Seq(Steps)
           /\ ServiceLike(<<Draw(s), Save(s, x), Audit(b)>>)
  <1> DEFINE p == <<Draw(s), Save(s, x), Audit(b)>>
  <1>1. Len(p) = 3 /\ p[1] = Draw(s) /\ p[2] = Save(s, x) /\ p[3] = Audit(b)
    OBVIOUS
  <1>2. Draw(s) \in Steps /\ Save(s, x) \in Steps /\ Audit(b) \in Steps
    BY DEF Draw, Save, Audit, Steps
  <1>3. p \in Seq(Steps)
    BY <1>2
  <1> HIDE DEF p
  <1>4. /\ p[1].scope = s /\ p[2].do = "save" /\ p[3].do = "audit"
        /\ ~p[1].sensitive /\ ~p[2].sensitive
    BY <1>1 DEF Draw, Save, Audit
  <1>5. ASSUME NEW i \in 1..3
        PROVE  /\ p[i].do = "draw" =>
                     i < 3 /\ \E y \in Payments \cup {New} : p[i + 1] = Save(p[i].scope, y)
               /\ p[i].sensitive => p[i].do = "audit"
    <2>1. CASE i = 1
      BY <1>1, <1>4, <2>1
    <2>2. CASE i = 2 \/ i = 3
      BY <1>4, <2>2
    <2> QED BY <2>1, <2>2
  <1>6. ServiceLike(p)
    BY <1>1, <1>5 DEF ServiceLike
  <1> QED BY <1>3, <1>6 DEF p

\* The services the backend runs satisfy what is assumed of programs.
THEOREM ServicesAreServiceLike ==
    ASSUME NEW s \in Scopes, NEW n \in Nat, NEW x \in Payments
    PROVE  /\ ServiceLike(CreateStudent(s)) /\ ServiceLike(CreateStudentAs(s, n))
           /\ ServiceLike(ImportStudents(s, n)) /\ ServiceLike(ConvertToStudent(s))
           /\ ServiceLike(CreateApplication(s)) /\ ServiceLike(GenerateInvoice(s))
           /\ ServiceLike(ConfirmPayment(s, x)) /\ ServiceLike(RejectPayment(s, x))
           /\ ServiceLike(RecordCashPayment(s))
           /\ ServiceLike(IssueCertificate(s)) /\ ServiceLike(DecideTranscriptRequest(s))
  <1>0. /\ InsertAs(s, n) \in Steps /\ Blank(s, x) \in Steps
        /\ Audit(TRUE) \in Steps /\ Audit(FALSE) \in Steps
    BY DEF Steps, Insert, InsertAs, Blank, Save, Audit
  <1>1. CreateStudent(s) \in Seq(Steps) /\ ServiceLike(CreateStudent(s))
    BY NumberedSave DEF CreateStudent, Insert
  <1>2. CreateStudentAs(s, n) \in Seq(Steps) /\ ServiceLike(CreateStudentAs(s, n))
    BY <1>0 DEF CreateStudentAs, ServiceLike, Insert, InsertAs, Save, Audit
  <1>3. ServiceLike(ImportStudents(s, n))
    BY <1>1, <1>2, ServicesCompose DEF ImportStudents
  <1>4. <<Audit(TRUE)>> \in Seq(Steps) /\ ServiceLike(<<Audit(TRUE)>>)
    BY <1>0 DEF ServiceLike, Audit
  <1>5. <<Audit(FALSE)>> \in Seq(Steps) /\ ServiceLike(<<Audit(FALSE)>>)
    BY <1>0 DEF ServiceLike, Audit
  <1>6. ServiceLike(ConvertToStudent(s))
    BY <1>1, <1>4, ServicesCompose DEF ConvertToStudent
  <1>7. ServiceLike(CreateApplication(s)) /\ ServiceLike(GenerateInvoice(s))
    BY NumberedSave DEF CreateApplication, GenerateInvoice, Insert
  <1>8. ASSUME NEW y \in Payments \cup {New}
        PROVE  ConfirmPayment(s, y) \in Seq(Steps) /\ ServiceLike(ConfirmPayment(s, y))
    <2> DEFINE p == <<Draw(s), Save(s, y), Audit(TRUE)>>
               q == <<Audit(TRUE)>>
    <2>1. p \in Seq(Steps) /\ ServiceLike(p)
      BY NumberedSave
    <2>3. ConfirmPayment(s, y) = p \o q
      BY DEF ConfirmPayment
    <2>4. q \in Seq(Steps) /\ ServiceLike(q)
      BY <1>4
    <2> HIDE DEF p, q
    <2>5. p \o q \in Seq(Steps) /\ ServiceLike(p \o q)
      BY <2>1, <2>4, ServicesCompose
    <2> QED BY <2>3, <2>5
  <1>9. ServiceLike(RecordCashPayment(s))
    BY <1>4, <1>8, ServicesCompose DEF RecordCashPayment
  <1>a. ServiceLike(RejectPayment(s, x))
    BY <1>0 DEF RejectPayment, ServiceLike, Blank, Save, Audit
  <1>10. IssueCertificate(s) \in Seq(Steps) /\ ServiceLike(IssueCertificate(s))
    BY NumberedSave DEF IssueCertificate, Insert
  <1>11. ServiceLike(DecideTranscriptRequest(s))
    BY <1>5, <1>10, ServicesCompose DEF DecideTranscriptRequest
  <1> QED BY <1>1, <1>2, <1>3, <1>6, <1>7, <1>8, <1>9, <1>a, <1>10, <1>11
=============================================================================
