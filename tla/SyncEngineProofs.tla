-------------------------- MODULE SyncEngineProofs --------------------------
(***************************************************************************)
(* What holds of the sync engine for any number of workers, operations,    *)
(* keys and resolvers.  Everything rests on one inductive invariant: the   *)
(* types, the ownership of a claimed operation, and the agreement of the   *)
(* ledger with the number of commits and the rows.                         *)
(***************************************************************************)
EXTENDS SyncEngine, TLAPS

IInv == TypeOK /\ OneOwner /\ AtMostOnce /\ LedgerMatchesData /\ RepliesAreTrue

\* A worker has one current operation: ids are totally ordered.
LEMMA CurrentIsUnique ==
    ASSUME TypeOK, NEW w \in Workers, NEW o \in Ops, NEW p \in Ops,
           Current(w, o), Current(w, p)
    PROVE  o = p
  BY OpsAssumption DEF Current, TypeOK

\* Every value the variables take is one the code's types allow: no status
\* outside SyncStatus, no result for an operation that was not sent.
LEMMA TypeStep == TypeOK /\ [Next]_engineVars => TypeOK'
  <1> SUFFICES ASSUME TypeOK, [Next]_engineVars PROVE TypeOK'
    OBVIOUS
  <1> USE DEF TypeOK, LedgerStatus, Reply, Resolution, WorkerState, NoResults
  <1>1. ASSUME NEW w \in Workers, NEW b \in SUBSET Ops, Receive(w, b)
        PROVE  TypeOK'
    BY <1>1 DEF Receive
  <1>2. ASSUME NEW w \in Workers, NEW o \in Ops, ApplyOperation(w, o)
        PROVE  TypeOK'
    <2>1. CASE Refuse(w, o)
      BY <2>1 DEF Refuse, Conclude
    <2>2. CASE Claim(w, o)
      BY <2>2 DEF Claim, Goto
    <2>3. CASE Replay(w, o)
      BY <2>3 DEF Replay, Conclude
    <2>4. CASE HandlerCheck(w, o)
      BY <2>4 DEF HandlerCheck, Goto
    <2>5. CASE HandlerCommit(w, o)
      <3>1. o \in Writes /\ KeyOf[o] \in Keys /\ Rows(o) \subseteq Writes
        BY KeysAssumption DEF Writes, Rows
      <3>2. RowsAfter(w, o) \subseteq Writes
        BY <3>1 DEF RowsAfter
      <3>3. db' \in [Keys -> SUBSET Writes]
        BY <2>5, <3>1, <3>2 DEF HandlerCommit
      <3> QED BY <2>5, <3>3 DEF HandlerCommit, Conclude
    <2>6. CASE HandlerFail(w, o)
      BY <2>6 DEF HandlerFail, Goto
    <2>7. CASE MarkRejected(w, o)
      BY <2>7 DEF MarkRejected, Conclude
    <2>8. CASE RecordConflict(w, o)
      BY <2>8 DEF RecordConflict, Goto
    <2>9. CASE FileConflict(w, o)
      BY <2>9 DEF FileConflict, Conclude
    <2> QED BY <1>2, <2>1, <2>2, <2>3, <2>4, <2>5, <2>6, <2>7, <2>8, <2>9
            DEF ApplyOperation
  <1>3. ASSUME NEW w \in Workers, Respond(w) \/ WorkerCrash(w)
        PROVE  TypeOK'
    <2>1. CASE Respond(w)
      BY <2>1 DEF Respond
    <2>2. CASE WorkerCrash(w)
      BY <2>2 DEF WorkerCrash
    <2> QED BY <1>3, <2>1, <2>2
  <1>4. ASSUME NEW r \in Resolvers, Resolve(r)
        PROVE  TypeOK'
    <2>1. ASSUME NEW o \in Ops, LoadConflict(r, o) PROVE TypeOK'
      BY <2>1 DEF LoadConflict
    <2>2. ASSUME NEW d \in Resolution, SaveResolution(r, d) PROVE TypeOK'
      BY <2>2 DEF SaveResolution
    <2> QED BY <1>4, <2>1, <2>2 DEF Resolve
  <1>5. ASSUME NEW n \in Online, OnlineWrite(n)
        PROVE  TypeOK'
    <2>1. n \in Writes /\ KeyOf[n] \in Keys
      BY KeysAssumption DEF Writes
    <2>2. db' \in [Keys -> SUBSET Writes]
      BY <1>5, <2>1 DEF OnlineWrite
    <2> QED BY <1>5, <2>2 DEF OnlineWrite
  <1>6. CASE UNCHANGED engineVars
    BY <1>6 DEF engineVars
  <1> QED BY <1>1, <1>2, <1>3, <1>4, <1>5, <1>6 DEF Next

\* The engine's state stays within its types, for any set of workers.
THEOREM TypeCorrect == Spec => []TypeOK
  <1>1. Init => TypeOK
    BY DEF Init, TypeOK, LedgerStatus, Reply, WorkerState, NoResults, NoOp
  <1> QED BY <1>1, TypeStep, PTL DEF Spec

\* A worker's step on an operation leaves every operation with one owner: the
\* claim needs an absent ledger row, a verdict needs the claim.
LEMMA OwnerStep ==
    ASSUME IInv, NEW w \in Workers, NEW o \in Ops, ApplyOperation(w, o)
    PROVE  OneOwner'
  <1> USE DEF IInv, OneOwner, Holds, TypeOK
  <1>0. \A p \in Ops : Current(w, o) /\ Current(w, p) => o = p
    BY CurrentIsUnique
  <1>1. CASE Refuse(w, o)
    BY <1>0, <1>1 DEF Refuse, Conclude, Current
  <1>2. CASE Claim(w, o)
    BY <1>0, <1>2 DEF Claim, Goto, Current
  <1>3. CASE Replay(w, o)
    BY <1>0, <1>3 DEF Replay, Conclude, Current
  <1>4. CASE HandlerCheck(w, o)
    <2>1. \E state \in {"writing", "conflicting", "rejecting"} :
             pc' = [pc EXCEPT ![w] = state]
      BY <1>4 DEF HandlerCheck, Goto
    <2>2. ledger' = ledger /\ todo' = todo /\ pc[w] = "claimed"
      BY <1>4 DEF HandlerCheck, Goto
    <2> QED BY <2>1, <2>2 DEF Current
  <1>5. CASE HandlerCommit(w, o)
    BY <1>0, <1>5 DEF HandlerCommit, Conclude, Current
  <1>6. CASE HandlerFail(w, o)
    BY <1>0, <1>6 DEF HandlerFail, Goto, Current
  <1>7. CASE MarkRejected(w, o)
    <2>1. \A v \in Workers, p \in Ops : Holds(v, p)' => Holds(v, p) /\ v # w
      BY <1>7 DEF MarkRejected, Conclude, Current
    <2>2. Holds(w, o)
      BY <1>7 DEF MarkRejected
    <2>3. \A v \in Workers, p \in Ops : Holds(v, p)' => p # o
      BY <2>1, <2>2
    <2> QED BY <1>7, <2>1, <2>3 DEF MarkRejected, Conclude
  <1>8. CASE RecordConflict(w, o)
    BY <1>0, <1>8 DEF RecordConflict, Goto, Current
  <1>9. CASE FileConflict(w, o)
    BY <1>0, <1>9 DEF FileConflict, Conclude, Current
  <1> QED BY <1>1, <1>2, <1>3, <1>4, <1>5, <1>6, <1>7, <1>8, <1>9 DEF ApplyOperation

\* The only way a worker moves a ledger status: from absent to pending by the
\* claim, from pending to a verdict by the worker that holds the operation.
LEMMA LedgerStep ==
    ASSUME IInv, NEW w \in Workers, NEW o \in Ops, ApplyOperation(w, o)
    PROVE  \/ ledger' = ledger
           \/ /\ ledger[o] = "none"
              /\ ledger' = [ledger EXCEPT ![o] = "pending"]
           \/ /\ ledger[o] = "pending"
              /\ \E s \in {"applied", "conflict", "rejected"} :
                    ledger' = [ledger EXCEPT ![o] = s]
  <1> USE DEF IInv, OneOwner, Holds
  <1>1. CASE Claim(w, o)
    BY <1>1 DEF Claim
  <1>2. CASE HandlerCommit(w, o)
    BY <1>2 DEF HandlerCommit
  <1>3. CASE MarkRejected(w, o)
    BY <1>3 DEF MarkRejected
  <1>4. CASE RecordConflict(w, o)
    BY <1>4 DEF RecordConflict
  <1> QED BY <1>1, <1>2, <1>3, <1>4
          DEF ApplyOperation, Refuse, Replay, HandlerCheck, HandlerFail, FileConflict

\* A handler commits only an operation that is still pending, so the count goes
\* from 0 to 1 together with the APPLIED mark, and no other step touches either.
LEMMA DataStep ==
    ASSUME IInv, NEW w \in Workers, NEW o \in Ops, ApplyOperation(w, o)
    PROVE  AtMostOnce' /\ LedgerMatchesData'
  <1> USE DEF IInv, TypeOK, AtMostOnce, LedgerMatchesData
  <1>1. CASE HandlerCommit(w, o)
    <2>1. ledger[o] = "pending"
      BY <1>1 DEF HandlerCommit, OneOwner, Holds
    <2>2. applications[o] = 0
      BY <2>1
    <2>3. KeyOf[o] \in Keys
      BY KeysAssumption DEF Writes
    <2>4. RowsAfter(w, o) \subseteq db[KeyOf[o]] \cup {o}
      BY DEF RowsAfter, Rows
    <2>5. \A k \in Keys : db'[k] \subseteq db[k] \cup {o}
      BY <1>1, <2>3, <2>4 DEF HandlerCommit
    <2>6. /\ applications' = [applications EXCEPT ![o] = 1]
          /\ ledger' = [ledger EXCEPT ![o] = "applied"]
      BY <1>1, <2>2 DEF HandlerCommit
    <2> QED BY <2>5, <2>6
  <1>2. CASE ~HandlerCommit(w, o)
    <2>1. applications' = applications /\ db' = db
      BY <1>2 DEF ApplyOperation, Refuse, Claim, Replay, HandlerCheck, HandlerFail,
                  MarkRejected, RecordConflict, FileConflict
    <2>2. \A p \in Ops : (ledger'[p] = "applied") <=> (ledger[p] = "applied")
      <3>1. CASE Claim(w, o)
        BY <3>1 DEF Claim
      <3>2. CASE MarkRejected(w, o)
        BY <3>2 DEF MarkRejected, OneOwner, Holds
      <3>3. CASE RecordConflict(w, o)
        BY <3>3 DEF RecordConflict, OneOwner, Holds
      <3> QED BY <1>2, <3>1, <3>2, <3>3
              DEF ApplyOperation, Refuse, Replay, HandlerCheck, HandlerFail, FileConflict
    <2> QED BY <2>1, <2>2
  <1> QED BY <1>1, <1>2

\* A recorded reply stays true: statuses a reply speaks of are never left, and a
\* SyncConflict row is never deleted.
LEMMA ReplyStep ==
    ASSUME IInv, NEW w \in Workers, NEW o \in Ops, ApplyOperation(w, o)
    PROVE  RepliesAreTrue'
  <1> USE DEF IInv, TypeOK
  <1>1. \A p \in Ops :
           /\ ledger[p] \in {"applied", "conflict"} => ledger'[p] = ledger[p]
           /\ ledger[p] # "none" => ledger'[p] # "none"
    BY LedgerStep
  <1>2. \A p \in Ops : conflict[p] # "none" => conflict'[p] # "none"
    BY DEF ApplyOperation, Refuse, Claim, Replay, HandlerCheck, HandlerCommit, HandlerFail,
           MarkRejected, RecordConflict, FileConflict
  <1>3. CASE UNCHANGED results
    BY <1>1, <1>2, <1>3 DEF RepliesAreTrue
  <1>4. ASSUME NEW reply \in Reply,
               results' = [results EXCEPT ![w][o] = reply],
               reply = "applied" => ledger'[o] = "applied",
               reply = "conflict" => ledger'[o] = "conflict" /\ conflict'[o] # "none",
               reply = "duplicate" => ledger'[o] # "none"
        PROVE  RepliesAreTrue'
    BY <1>1, <1>2, <1>4 DEF RepliesAreTrue, Reply
  <1>5. CASE Refuse(w, o)
    BY <1>4, <1>5 DEF Refuse, Conclude, Reply
  <1>6. CASE Replay(w, o)
    BY <1>4, <1>6 DEF Replay, Conclude, Reply
  <1>7. CASE HandlerCommit(w, o)
    BY <1>4, <1>7 DEF HandlerCommit, Conclude, Reply
  <1>8. CASE MarkRejected(w, o)
    BY <1>4, <1>8 DEF MarkRejected, Conclude, Reply
  <1>9. CASE FileConflict(w, o)
    <2>1. ledger[o] = "conflict"
      BY <1>9 DEF FileConflict, OneOwner, Holds
    <2> QED BY <1>4, <1>9, <2>1 DEF FileConflict, Conclude, Reply
  <1> QED BY <1>3, <1>5, <1>6, <1>7, <1>8, <1>9
          DEF ApplyOperation, Claim, HandlerCheck, HandlerFail, RecordConflict, Goto

\* The inductive invariant is preserved by every step of the engine.
LEMMA InvariantStep == IInv /\ [Next]_engineVars => IInv'
  <1> SUFFICES ASSUME IInv, [Next]_engineVars PROVE IInv'
    OBVIOUS
  <1>0. TypeOK'
    BY TypeStep DEF IInv
  <1>1. ASSUME NEW w \in Workers, NEW o \in Ops, ApplyOperation(w, o)
        PROVE  IInv'
    BY <1>0, <1>1, OwnerStep, DataStep, ReplyStep DEF IInv
  <1>2. ASSUME NEW w \in Workers, UNCHANGED <<db, ledger, conflict, applications>>,
               pc'[w] \in {"idle", "next"},
               \A v \in Workers \ {w} : pc'[v] = pc[v] /\ todo'[v] = todo[v],
               results' = [results EXCEPT ![w] = NoResults]
        PROVE  IInv'
    <2>1. OneOwner'
      BY <1>2 DEF IInv, TypeOK, OneOwner, Holds, Current
    <2>2. RepliesAreTrue'
      BY <1>2 DEF IInv, TypeOK, RepliesAreTrue, NoResults
    <2> QED BY <1>0, <1>2, <2>1, <2>2 DEF IInv, AtMostOnce, LedgerMatchesData
  <1>3. ASSUME NEW w \in Workers, NEW b \in SUBSET Ops, Receive(w, b)
        PROVE  IInv'
    BY <1>2, <1>3 DEF Receive, IInv, TypeOK
  <1>4. ASSUME NEW w \in Workers, Respond(w)
        PROVE  IInv'
    BY <1>2, <1>4 DEF Respond, IInv, TypeOK
  <1>5. ASSUME NEW w \in Workers, WorkerCrash(w)
        PROVE  IInv'
    BY <1>2, <1>5 DEF WorkerCrash, IInv, TypeOK
  <1>6. ASSUME NEW r \in Resolvers, Resolve(r)
        PROVE  IInv'
    <2>1. UNCHANGED <<db, ledger, applications, pc, todo, results>>
      BY <1>6 DEF Resolve, LoadConflict, SaveResolution
    <2>2. \A o \in Ops : conflict[o] # "none" => conflict'[o] # "none"
      BY <1>6 DEF Resolve, LoadConflict, SaveResolution, Resolution, IInv, TypeOK
    <2>3. OneOwner' /\ AtMostOnce' /\ LedgerMatchesData'
      BY <2>1 DEF IInv, OneOwner, Holds, Current, AtMostOnce, LedgerMatchesData
    <2>4. RepliesAreTrue'
      BY <2>1, <2>2 DEF IInv, RepliesAreTrue
    <2> QED BY <1>0, <2>3, <2>4 DEF IInv
  <1>7. ASSUME NEW n \in Online, OnlineWrite(n)
        PROVE  IInv'
    <2>1. UNCHANGED <<ledger, conflict, applications, pc, todo, results>>
      BY <1>7 DEF OnlineWrite
    <2>2. n \notin Ops /\ KeyOf[n] \in Keys
      BY OnlineAssumption, KeysAssumption DEF Writes
    <2>3. \A k \in Keys : db'[k] \subseteq db[k] \cup {n}
      BY <1>7, <2>2 DEF OnlineWrite, IInv, TypeOK
    <2>4. OneOwner' /\ AtMostOnce' /\ RepliesAreTrue'
      BY <2>1 DEF IInv, OneOwner, Holds, Current, AtMostOnce, RepliesAreTrue
    <2>5. LedgerMatchesData'
      BY <2>1, <2>2, <2>3 DEF IInv, LedgerMatchesData
    <2> QED BY <1>0, <2>4, <2>5 DEF IInv
  <1>8. CASE UNCHANGED engineVars
    BY <1>0, <1>8 DEF engineVars, IInv, OneOwner, Holds, Current, AtMostOnce,
                      LedgerMatchesData, RepliesAreTrue
  <1> QED BY <1>1, <1>3, <1>4, <1>5, <1>6, <1>7, <1>8 DEF Next

\* The engine starts sound.
LEMMA InitIsSound == Init => IInv
  <1> SUFFICES ASSUME Init PROVE IInv
    OBVIOUS
  <1>1. TypeOK
    BY DEF Init, TypeOK, LedgerStatus, Reply, WorkerState, NoResults, NoOp
  <1> QED BY <1>1 DEF IInv, Init, OneOwner, Holds, AtMostOnce, LedgerMatchesData,
                      RepliesAreTrue, NoResults

\* The engine stays sound.
LEMMA InvariantHolds == Spec => []IInv
  BY InitIsSound, InvariantStep, PTL DEF Spec

\* No interleaving of workers, resent batches and crashes makes a handler commit
\* an operation twice.
THEOREM AppliedAtMostOnce == Spec => []AtMostOnce
  BY InvariantHolds, PTL DEF IInv

\* The committed claim keeps every operation with a single worker.
THEOREM ClaimIsExclusive == Spec => []OneOwner
  BY InvariantHolds, PTL DEF IInv

\* The ledger says APPLIED exactly of the operations whose write is committed.
THEOREM LedgerIsEvidence == Spec => []LedgerMatchesData
  BY InvariantHolds, PTL DEF IInv

\* Every outcome in a response is backed by the ledger and the conflict table.
THEOREM ResponsesAreTrue == Spec => []RepliesAreTrue
  BY InvariantHolds, PTL DEF IInv

\* A verdict in the ledger is never revised.
THEOREM VerdictsAreFinal == Spec => DecisionIsFinal
  <1>1. ASSUME IInv, [Next]_engineVars, NEW o \in Ops,
               ledger[o] \in {"applied", "conflict", "rejected"}
        PROVE  ledger'[o] = ledger[o]
    <2>1. ASSUME NEW w \in Workers, NEW p \in Ops, ApplyOperation(w, p)
          PROVE  ledger'[o] = ledger[o]
      BY <1>1, <2>1, LedgerStep DEF IInv, TypeOK
    <2> QED BY <1>1, <2>1 DEF Next, engineVars, Receive, Respond, WorkerCrash, Resolve,
                LoadConflict, SaveResolution, OnlineWrite
  <1>2. IInv /\ [Next]_engineVars =>
          [\A o \in Ops : ledger[o] \in {"applied", "conflict", "rejected"}
                              => ledger'[o] = ledger[o]]_ledger
    BY <1>1
  <1> QED BY <1>2, InvariantHolds, PTL DEF Spec, DecisionIsFinal

\* A stored payment row is never replaced, whoever writes next.
THEOREM PaymentsAreWrittenOnce == Spec => PaymentIsWrittenOnce
  <1>1. ASSUME TypeOK, [Next]_engineVars, NEW k \in Keys,
               EntityOf[k] = "finance.payment", db[k] # {}
        PROVE  db'[k] = db[k]
    <2>1. ASSUME NEW w \in Workers, NEW o \in Ops, HandlerCommit(w, o)
          PROVE  db'[k] = db[k]
      <3>1. CASE KeyOf[o] = k
        BY <1>1, <2>1, <3>1 DEF HandlerCommit, Collides, RowsAfter, Rows, Entity, TypeOK
      <3>2. CASE KeyOf[o] # k
        BY <1>1, <2>1, <3>2 DEF HandlerCommit, TypeOK
      <3> QED BY <3>1, <3>2
    <2>2. ASSUME NEW n \in Online, OnlineWrite(n)
          PROVE  db'[k] = db[k]
      BY <1>1, <2>2 DEF OnlineWrite, Rows, Entity, TypeOK
    <2> QED BY <1>1, <2>1, <2>2 DEF Next, engineVars, Receive, Respond, WorkerCrash, Resolve,
                LoadConflict, SaveResolution, ApplyOperation, Refuse, Claim, Replay,
                HandlerCheck, HandlerFail, MarkRejected, RecordConflict, FileConflict
  <1>2. TypeOK /\ [Next]_engineVars =>
          [\A k \in Keys : EntityOf[k] = "finance.payment" /\ db[k] # {}
                               => db'[k] = db[k]]_db
    BY <1>1
  <1> QED BY <1>2, TypeCorrect, PTL DEF Spec, PaymentIsWrittenOnce

\* Every engine behaviour is, seen through the ledger, a behaviour of the
\* abstract idempotent ledger: each verdict is one abstract step, everything
\* else stutters.
THEOREM EngineImplementsPromise == Spec => ImplementsPromise
  <1> DEFINE out == [o \in Ops |-> IF ledger[o] \in {"none", "pending"}
                                   THEN "undecided" ELSE ledger[o]]
  <1>1. Init => Promise!Init
    BY DEF Init, Promise!Init
  <1>2. ASSUME IInv, [Next]_engineVars
        PROVE  [Promise!Next]_<<out, applications>>
    <2>1. ASSUME NEW w \in Workers, NEW o \in Ops, HandlerCommit(w, o)
          PROVE  Promise!Apply(o)
      <3>1. ledger[o] = "pending"
        BY <1>2, <2>1 DEF HandlerCommit, IInv, OneOwner, Holds
      <3> QED BY <1>2, <2>1, <3>1 DEF HandlerCommit, Promise!Apply, IInv, TypeOK
    <2>2. ASSUME NEW w \in Workers, NEW o \in Ops, MarkRejected(w, o)
          PROVE  Promise!Hold(o, "rejected")
      <3>1. ledger[o] = "pending"
        BY <1>2, <2>2 DEF MarkRejected, IInv, OneOwner, Holds
      <3> QED BY <1>2, <2>2, <3>1 DEF MarkRejected, Promise!Hold, IInv, TypeOK
    <2>3. ASSUME NEW w \in Workers, NEW o \in Ops, RecordConflict(w, o)
          PROVE  Promise!Hold(o, "conflict")
      <3>1. ledger[o] = "pending"
        BY <1>2, <2>3 DEF RecordConflict, IInv, OneOwner, Holds
      <3> QED BY <1>2, <2>3, <3>1 DEF RecordConflict, Promise!Hold, IInv, TypeOK
    <2>4. ASSUME NEW w \in Workers, NEW o \in Ops, Claim(w, o)
          PROVE  UNCHANGED <<out, applications>>
      BY <1>2, <2>4 DEF Claim, IInv, TypeOK
    <2>5. CASE UNCHANGED <<ledger, applications>>
      BY <2>5
    <2> QED
      <3>1. \/ UNCHANGED <<ledger, applications>>
            \/ \E w \in Workers, o \in Ops :
                  HandlerCommit(w, o) \/ MarkRejected(w, o) \/ RecordConflict(w, o) \/ Claim(w, o)
        BY <1>2 DEF Next, engineVars, Receive, Respond, WorkerCrash, Resolve,
              LoadConflict, SaveResolution, OnlineWrite, ApplyOperation, Refuse, Replay,
              HandlerCheck, HandlerFail, FileConflict
      <3> QED BY <3>1, <2>1, <2>2, <2>3, <2>4, <2>5 DEF Promise!Next
  <1> QED BY <1>1, <1>2, InvariantHolds, PTL DEF Spec, ImplementsPromise, Promise!Spec
=============================================================================
