----------------------------- MODULE SyncEngine -----------------------------
(***************************************************************************)
(* The server half of offline sync: backend/apps/core/sync.  A worker is   *)
(* one HTTP request being served (gunicorn runs several at once); it walks *)
(* its batch oldest first and runs apply_operation on each operation.      *)
(*                                                                         *)
(* ATOMIC_REQUESTS is off, so every statement outside transaction.atomic   *)
(* commits by itself.  The boundaries of the actions below are exactly the *)
(* commits: the claim (one transaction), the handler together with the     *)
(* APPLIED mark (a second one), the rejection (one UPDATE), the conflict   *)
(* (an UPDATE and then an INSERT).  Inside the handler's transaction the   *)
(* check reads committed rows (READ COMMITTED) before the write does.      *)
(***************************************************************************)
EXTENDS SyncOps

CONSTANTS
    Online,     \* writes staff make through the ordinary endpoints
    Workers,    \* concurrent HTTP requests
    Resolvers,  \* concurrent conflict-resolution requests
    Keys,       \* natural keys: national id, (registration, assessment), ...
    EntityOf,   \* the entity a key belongs to
    KeyOf,      \* the natural key a write is about
    ValueOf,    \* the value it carries (score, amount, status)
    Copies      \* copies of a library item

Entities == {"registry.student", "examinations.mark", "finance.payment",
             "attendance.sessionrecord", "library.loan"}

Writes == Ops \cup Online

ASSUME OnlineAssumption == Online \cap Ops = {}
ASSUME KeysAssumption == /\ KeyOf \in [Writes -> Keys]
                         /\ EntityOf \in [Keys -> Entities]
ASSUME CopiesAssumption == Copies \in Nat
ASSUME ValueAssumption == DOMAIN ValueOf = Writes

VARIABLES
    db,           \* committed rows of each key, each row the write it shows
    ledger,       \* SyncOperation.status by client_op_id; "none": no row
    conflict,     \* SyncConflict.status by operation; "none": no row
    applications, \* history: how often the operation's handler committed
    onlineDone,   \* online writes already made
    pc,           \* where each worker is in apply_operation
    todo,         \* what is left of its batch
    found,        \* did the handler under way see a stored row
    results,      \* the outcomes collected for the response
    loaded        \* the conflict each resolver has read and found open

engineVars == <<db, ledger, conflict, applications, onlineDone,
                pc, todo, found, results, loaded>>

LedgerStatus == {"none", "pending", "applied", "conflict", "rejected"}
Reply == {"applied", "duplicate", "conflict", "rejected"}
Resolution == {"resolved_server", "resolved_client", "dismissed"}
WorkerState == {"idle", "next", "claimed", "writing", "conflicting",
                "filing", "rejecting"}
NoOp == 0
NoResults == [o \in Ops |-> "none"]

TypeOK ==
    /\ db \in [Keys -> SUBSET Writes]
    /\ ledger \in [Ops -> LedgerStatus]
    /\ conflict \in [Ops -> {"none", "open"} \cup Resolution]
    /\ applications \in [Ops -> Nat]
    /\ onlineDone \in SUBSET Online
    /\ pc \in [Workers -> WorkerState]
    /\ todo \in [Workers -> SUBSET Ops]
    /\ found \in [Workers -> BOOLEAN]
    /\ results \in [Workers -> [Ops -> Reply \cup {"none"}]]
    /\ loaded \in [Resolvers -> Ops \cup {NoOp}]

Init ==
    /\ db = [k \in Keys |-> {}]
    /\ ledger = [o \in Ops |-> "none"]
    /\ conflict = [o \in Ops |-> "none"]
    /\ applications = [o \in Ops |-> 0]
    /\ onlineDone = {}
    /\ pc = [w \in Workers |-> "idle"]
    /\ todo = [w \in Workers |-> {}]
    /\ found = [w \in Workers |-> FALSE]
    /\ results = [w \in Workers |-> NoResults]
    /\ loaded = [r \in Resolvers |-> NoOp]

----------------------------------------------------------------------------
(* A batch is worked through in submission order.                          *)
Current(w, o) == o \in todo[w] /\ \A p \in todo[w] : o <= p

\* The worker is past the claim on o and has not concluded.
Holds(w, o) ==
    /\ pc[w] \in {"claimed", "writing", "conflicting", "filing", "rejecting"}
    /\ Current(w, o)

Entity(o) == EntityOf[KeyOf[o]]
Rows(o) == db[KeyOf[o]]

\* The worker has an outcome for o and turns to the next operation.
Conclude(w, o, reply) ==
    /\ pc' = [pc EXCEPT ![w] = "next"]
    /\ todo' = [todo EXCEPT ![w] = @ \ {o}]
    /\ results' = [results EXCEPT ![w][o] = reply]

Goto(w, state) ==
    /\ pc' = [pc EXCEPT ![w] = state]
    /\ UNCHANGED <<todo, results>>

----------------------------------------------------------------------------
(* Requests.                                                               *)

\* SyncBatchView.post accepts a non-empty batch without repeated ids (a set).
Receive(w, batch) ==
    /\ pc[w] = "idle"
    /\ batch # {}
    /\ pc' = [pc EXCEPT ![w] = "next"]
    /\ todo' = [todo EXCEPT ![w] = batch]
    /\ results' = [results EXCEPT ![w] = NoResults]
    /\ UNCHANGED <<db, ledger, conflict, applications, onlineDone, found, loaded>>

\* The response leaves; the worker is free.
Respond(w) ==
    /\ pc[w] = "next"
    /\ todo[w] = {}
    /\ pc' = [pc EXCEPT ![w] = "idle"]
    /\ results' = [results EXCEPT ![w] = NoResults]
    /\ UNCHANGED <<db, ledger, conflict, applications, onlineDone, todo, found, loaded>>

\* Power fails, or the process is killed: what was not committed is gone.
WorkerCrash(w) ==
    /\ pc[w] # "idle"
    /\ pc' = [pc EXCEPT ![w] = "idle"]
    /\ todo' = [todo EXCEPT ![w] = {}]
    /\ results' = [results EXCEPT ![w] = NoResults]
    /\ found' = [found EXCEPT ![w] = FALSE]
    /\ UNCHANGED <<db, ledger, conflict, applications, onlineDone, loaded>>

----------------------------------------------------------------------------
(* apply_operation.                                                        *)

\* Unknown entity, unsupported action or missing permission: answered before
\* the ledger is looked at, and without a trace in it.
Refuse(w, o) ==
    /\ pc[w] = "next"
    /\ Current(w, o)
    /\ Conclude(w, o, "rejected")
    /\ UNCHANGED <<db, ledger, conflict, applications, onlineDone, found, loaded>>

\* Mutant: a stale PENDING row is taken over instead of being a replay.
ClaimTakesOverPending(w, o) ==
    /\ pc[w] = "next"
    /\ Current(w, o)
    /\ ledger[o] \in {"none", "pending"}
    /\ ledger' = [ledger EXCEPT ![o] = "pending"]
    /\ Goto(w, "claimed")
    /\ UNCHANGED <<db, conflict, applications, onlineDone, found, loaded>>

\* The INSERT of the PENDING row commits and the operation is this worker's.
Claim(w, o) ==
    /\ pc[w] = "next"
    /\ Current(w, o)
    /\ ledger[o] = "none"
    /\ ledger' = [ledger EXCEPT ![o] = "pending"]
    /\ Goto(w, "claimed")
    /\ UNCHANGED <<db, conflict, applications, onlineDone, found, loaded>>

\* The INSERT hits the unique client_op_id: whatever the row's status is, the
\* answer is DUPLICATE.
Replay(w, o) ==
    /\ pc[w] = "next"
    /\ Current(w, o)
    /\ ledger[o] # "none"
    /\ Conclude(w, o, "duplicate")
    /\ UNCHANGED <<db, ledger, conflict, applications, onlineDone, found, loaded>>

\* A stored row a handler refuses to write over.  Attendance and loans have
\* no such check.
Diverges(o) ==
    \/ /\ Entity(o) = "registry.student"
       /\ Rows(o) # {}
    \/ /\ Entity(o) \in {"examinations.mark", "finance.payment"}
       /\ \E r \in Rows(o) : ValueOf[r] # ValueOf[o]

\* handler.apply up to its last read of the natural key.  A payload that does
\* not validate raises; a divergent row raises SyncConflictDetected.
HandlerCheck(w, o) ==
    /\ pc[w] = "claimed"
    /\ Current(w, o)
    /\ \/ Goto(w, "rejecting") /\ UNCHANGED found
       \/ Diverges(o) /\ Goto(w, "conflicting") /\ UNCHANGED found
       \/ /\ ~Diverges(o)
          /\ Goto(w, "writing")
          /\ found' = [found EXCEPT ![w] = Rows(o) # {}]
    /\ UNCHANGED <<db, ledger, conflict, applications, onlineDone, loaded>>

\* The rows of o's key once the handler has written, by what each service
\* does: create_student inserts; a payment found with the same amount is left
\* alone; marks and session records are updated in place; checkout_item adds a
\* loan.
RowsAfter(w, o) ==
    CASE Entity(o) \in {"registry.student", "library.loan"} -> Rows(o) \cup {o}
      [] Entity(o) = "finance.payment" -> IF found[w] THEN Rows(o) ELSE {o}
      [] OTHER -> {o}

\* Mutant: Payment.reference is not unique.
CollidesWithoutConstraint(w, o) == FALSE

\* An INSERT under a unique constraint, a row having appeared since the check.
Collides(w, o) ==
    /\ Entity(o) \in {"finance.payment", "examinations.mark", "attendance.sessionrecord"}
    /\ ~found[w]
    /\ Rows(o) # {}

NoCopyLeft(o) == Entity(o) = "library.loan" /\ Cardinality(Rows(o)) >= Copies

\* Mutant: an error after the commit (in _audit_overwrites) is taken for a
\* failure of the handler.
HandlerCommitThenFail(w, o) ==
    /\ pc[w] = "writing"
    /\ Current(w, o)
    /\ ~NoCopyLeft(o)
    /\ Entity(o) # "examinations.mark" => ~Collides(w, o)
    /\ db' = [db EXCEPT ![KeyOf[o]] = RowsAfter(w, o)]
    /\ ledger' = [ledger EXCEPT ![o] = "applied"]
    /\ applications' = [applications EXCEPT ![o] = @ + 1]
    /\ Goto(w, "rejecting")
    /\ found' = [found EXCEPT ![w] = FALSE]
    /\ UNCHANGED <<conflict, onlineDone, loaded>>

\* The write, the APPLIED mark and the COMMIT.  record_mark reads the key again
\* before it writes, so it may also update the row that appeared in between;
\* the other INSERTs cannot.
HandlerCommit(w, o) ==
    /\ pc[w] = "writing"
    /\ Current(w, o)
    /\ ~NoCopyLeft(o)
    /\ Entity(o) # "examinations.mark" => ~Collides(w, o)
    /\ db' = [db EXCEPT ![KeyOf[o]] = RowsAfter(w, o)]
    /\ ledger' = [ledger EXCEPT ![o] = "applied"]
    /\ applications' = [applications EXCEPT ![o] = @ + 1]
    /\ Conclude(w, o, "applied")
    /\ found' = [found EXCEPT ![w] = FALSE]
    /\ UNCHANGED <<conflict, onlineDone, loaded>>

\* The write fails (a unique constraint, no copy left): everything the
\* handler did is rolled back.
HandlerFail(w, o) ==
    /\ pc[w] = "writing"
    /\ Current(w, o)
    /\ Collides(w, o) \/ NoCopyLeft(o)
    /\ Goto(w, "rejecting")
    /\ found' = [found EXCEPT ![w] = FALSE]
    /\ UNCHANGED <<db, ledger, conflict, applications, onlineDone, loaded>>

\* Mutant: one bad operation ends the batch.
MarkRejectedAbortsBatch(w, o) ==
    /\ pc[w] = "rejecting"
    /\ Current(w, o)
    /\ ledger' = [ledger EXCEPT ![o] = "rejected"]
    /\ pc' = [pc EXCEPT ![w] = "next"]
    /\ todo' = [todo EXCEPT ![w] = {}]
    /\ results' = [results EXCEPT ![w][o] = "rejected"]
    /\ UNCHANGED <<db, conflict, applications, onlineDone, found, loaded>>

\* _mark_rejected, after the rollback.
MarkRejected(w, o) ==
    /\ pc[w] = "rejecting"
    /\ Current(w, o)
    /\ ledger' = [ledger EXCEPT ![o] = "rejected"]
    /\ Conclude(w, o, "rejected")
    /\ UNCHANGED <<db, conflict, applications, onlineDone, found, loaded>>

\* _record_conflict: the ledger row first,
RecordConflict(w, o) ==
    /\ pc[w] = "conflicting"
    /\ Current(w, o)
    /\ ledger' = [ledger EXCEPT ![o] = "conflict"]
    /\ Goto(w, "filing")
    /\ UNCHANGED <<db, conflict, applications, onlineDone, found, loaded>>

\* Mutant: the conflict is answered before its row is written.
FileConflictLater(w, o) ==
    /\ pc[w] = "filing"
    /\ Current(w, o)
    /\ Conclude(w, o, "conflict")
    /\ UNCHANGED <<db, ledger, conflict, applications, onlineDone, found, loaded>>

\* then, in a statement of its own, the SyncConflict row.
FileConflict(w, o) ==
    /\ pc[w] = "filing"
    /\ Current(w, o)
    /\ conflict' = [conflict EXCEPT ![o] = "open"]
    /\ Conclude(w, o, "conflict")
    /\ UNCHANGED <<db, ledger, applications, onlineDone, found, loaded>>

----------------------------------------------------------------------------
(* SyncConflictResolveView.post: the conflict is read, found open, and saved *)
(* without a lock; the stored record itself is not touched.                 *)

LoadConflict(r, o) ==
    /\ loaded[r] = NoOp
    /\ conflict[o] = "open"
    /\ loaded' = [loaded EXCEPT ![r] = o]
    /\ UNCHANGED <<db, ledger, conflict, applications, onlineDone, pc, todo, found, results>>

\* Mutant: resolving a conflict also marks the operation applied.
SaveResolutionMarksApplied(r, decision) ==
    /\ loaded[r] # NoOp
    /\ conflict' = [conflict EXCEPT ![loaded[r]] = decision]
    /\ ledger' = [ledger EXCEPT ![loaded[r]] = "applied"]
    /\ loaded' = [loaded EXCEPT ![r] = NoOp]
    /\ UNCHANGED <<db, applications, onlineDone, pc, todo, found, results>>

SaveResolution(r, decision) ==
    /\ loaded[r] # NoOp
    /\ conflict' = [conflict EXCEPT ![loaded[r]] = decision]
    /\ loaded' = [loaded EXCEPT ![r] = NoOp]
    /\ UNCHANGED <<db, ledger, applications, onlineDone, pc, todo, found, results>>

(* The same services called by the online endpoints: create_student and     *)
(* record_mark check no divergence there, payments keep their unique        *)
(* reference, loans their limit.                                            *)
OnlineWrite(n) ==
    /\ n \notin onlineDone
    /\ ~NoCopyLeft(n)
    /\ Entity(n) = "finance.payment" => Rows(n) = {}
    /\ db' = [db EXCEPT ![KeyOf[n]] =
                 IF Entity(n) \in {"registry.student", "library.loan"}
                 THEN @ \cup {n} ELSE {n}]
    /\ onlineDone' = onlineDone \cup {n}
    /\ UNCHANGED <<ledger, conflict, applications, pc, todo, found, results, loaded>>

----------------------------------------------------------------------------
ApplyOperation(w, o) ==
    \/ Refuse(w, o)
    \/ Claim(w, o)
    \/ Replay(w, o)
    \/ HandlerCheck(w, o)
    \/ HandlerCommit(w, o)
    \/ HandlerFail(w, o)
    \/ MarkRejected(w, o)
    \/ RecordConflict(w, o)
    \/ FileConflict(w, o)

Resolve(r) ==
    \/ \E o \in Ops : LoadConflict(r, o)
    \/ \E d \in Resolution : SaveResolution(r, d)

Next ==
    \/ \E w \in Workers, batch \in SUBSET Ops : Receive(w, batch)
    \/ \E w \in Workers, o \in Ops : ApplyOperation(w, o)
    \/ \E w \in Workers : Respond(w) \/ WorkerCrash(w)
    \/ \E r \in Resolvers : Resolve(r)
    \/ \E n \in Online : OnlineWrite(n)

Spec == Init /\ [][Next]_engineVars

----------------------------------------------------------------------------
(* Properties.                                                             *)

\* "A dropped connection cannot produce two student records" (outbox.ts): however
\* often a batch is resent, to however many workers, and wherever a worker dies,
\* the handler of an operation commits at most once.  SyncOperationAdmin, which lets
\* a superuser delete a row of the ledger, is not modelled.
AtMostOnce == \A o \in Ops : applications[o] <= 1

\* The ledger is evidence: an operation is marked APPLIED exactly when its
\* handler's write is in the database, and an operation that is pending, held or
\* rejected has no row there.
LedgerMatchesData ==
    \A o \in Ops :
        /\ (ledger[o] = "applied") <=> (applications[o] >= 1)
        /\ ledger[o] # "applied" => \A k \in Keys : o \notin db[k]

\* The committed claim is a lock that outlives its transaction: two workers are
\* never both past the claim on one operation, and what a worker holds nobody
\* else decides, so the handler's verdict falls on a row that is still PENDING.
OneOwner ==
    /\ \A w \in Workers, o \in Ops :
          Holds(w, o) => ledger[o] = IF pc[w] = "filing" THEN "conflict" ELSE "pending"
    /\ \A w, v \in Workers : \A o \in Ops : Holds(w, o) /\ Holds(v, o) => w = v

\* What a response says is true when it is sent: "applied" is committed,
\* "conflict" has a SyncConflict row a registrar can find, "duplicate" has a
\* ledger row.
RepliesAreTrue ==
    \A w \in Workers, o \in Ops :
        /\ results[w][o] = "applied" => ledger[o] = "applied"
        /\ results[w][o] = "conflict" => ledger[o] = "conflict" /\ conflict[o] # "none"
        /\ results[w][o] = "duplicate" => ledger[o] # "none"

\* Two devices that queue the same payment reference, and a bursar who types it
\* online, leave one payment, and no later write replaces it.
PaymentIsWrittenOnce ==
    [][\A k \in Keys : EntityOf[k] = "finance.payment" /\ db[k] # {} => db'[k] = db[k]]_db

\* Once an operation is applied, held or rejected, no replay, crash or
\* resolution gives it another status.
DecisionIsFinal ==
    [][\A o \in Ops : ledger[o] \in {"applied", "conflict", "rejected"}
                          => ledger'[o] = ledger[o]]_ledger

\* What the engine promises, stated without claims, workers or transactions.
Promise == INSTANCE IdempotentLedger WITH
    outcome <- [o \in Ops |-> IF ledger[o] \in {"none", "pending"} THEN "undecided" ELSE ledger[o]],
    effects <- applications

\* The engine implements the idempotency promise of SyncOperation.
ImplementsPromise == Promise!Spec

\* ARCHITECTURE section 7 of marks and money: a write that diverges from the
\* stored value is never applied over it.
DivergenceNeverOverwrites ==
    [][\A k \in Keys, o \in Ops :
          EntityOf[k] \in {"examinations.mark", "finance.payment"} /\ o \in db'[k] \ db[k]
             => \A r \in db[k] : ValueOf[r] = ValueOf[o]]_db
=============================================================================
