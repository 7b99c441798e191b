---------------------------- MODULE Transactions ----------------------------
(***************************************************************************)
(* The two shared resources nearly every write of the backend goes through:*)
(* the numbered identifiers of core.IdSequence and the audit hash chain of *)
(* the audit app.  A request is one service call inside transaction.atomic *)
(* (PostgreSQL, READ COMMITTED); its program lists, in the order of the    *)
(* code, the numbers it draws, the numbered rows it saves and the audit    *)
(* entries those saves append.                                             *)
(*                                                                         *)
(* The row of a sequence is locked by SELECT FOR UPDATE, the chain by an   *)
(* advisory transaction lock: both are kept until the outermost            *)
(* transaction ends.  PostgreSQL ends a cycle of waiting transactions by   *)
(* aborting one of them.                                                   *)
(***************************************************************************)
EXTENDS Naturals, FiniteSets, Sequences

CONSTANTS
    Requests,    \* concurrent service calls
    Scopes,      \* IdSequence.scope: "student_id:...", "receipt_no:2026", ...
    Payments,    \* the rows of payments recorded earlier and still pending
    Program,     \* what each request does, a sequence of steps
    MaxAttempts  \* how often the user submits each request

----------------------------------------------------------------------------
(* The steps, and the services as programs.                                *)

New == "new"   \* a row of the request's own, not one it has loaded
ASSUME NewAssumption == New \notin Payments

Draw(s) == [do |-> "draw", scope |-> s, number |-> 0, row |-> New, sensitive |-> FALSE]
Save(s, p) == [do |-> "save", scope |-> s, number |-> 0, row |-> p, sensitive |-> FALSE]
Insert(s) == Save(s, New)
InsertAs(s, n) == [Insert(s) EXCEPT !.number = n]
Blank(s, p) == [Save(s, p) EXCEPT !.do = "blank"]
Audit(sensitive) ==
    [do |-> "audit", scope |-> "none", number |-> 0, row |-> New, sensitive |-> sensitive]

\* create_student with a generated id; Student is not audit_sensitive.
CreateStudent(s) == <<Draw(s), Insert(s), Audit(FALSE)>>

\* create_student with the id of a legacy record.
CreateStudentAs(s, n) == <<InsertAs(s, n), Audit(FALSE)>>

\* import_students, one transaction for the batch: here a row that carries a
\* legacy id and a row that needs a new one.
ImportStudents(s, n) == CreateStudentAs(s, n) \o CreateStudent(s)

\* convert_to_student: the student first, then the application.
ConvertToStudent(s) == CreateStudent(s) \o <<Audit(TRUE)>>

CreateApplication(s) == <<Draw(s), Insert(s), Audit(TRUE)>>

GenerateInvoice(s) == <<Draw(s), Insert(s), Audit(TRUE)>>

\* _confirm_payment of a payment loaded while it was pending, by confirm, poll or
\* webhook: the receipt, the payment, the invoice's status.
ConfirmPayment(s, p) == <<Draw(s), Save(s, p), Audit(TRUE)>> \o <<Audit(TRUE)>>

\* reject_manual_payment, or a poll that finds it failed: the row loaded while
\* it had no receipt is saved whole.
RejectPayment(s, p) == <<Blank(s, p), Audit(TRUE)>>

\* record_manual_payment in cash: the payment is saved, then confirmed.
RecordCashPayment(s) == <<Audit(TRUE)>> \o ConfirmPayment(s, New)

\* issue_certificate; a transcript is preceded by the request it decides.
IssueCertificate(s) == <<Draw(s), Insert(s), Audit(TRUE)>>
DecideTranscriptRequest(s) == <<Audit(FALSE)>> \o IssueCertificate(s)

Steps == [do : {"draw", "save", "blank", "audit"}, scope : Scopes \cup {"none"},
          number : Nat, row : Payments \cup {New}, sensitive : BOOLEAN]

ASSUME ProgramAssumption ==
    /\ Program \in [Requests -> Seq(Steps)]
    /\ \A t \in Requests : \A i \in 1..Len(Program[t]) :
          Program[t][i].do # "audit" => Program[t][i].scope \in Scopes

\* What every service above has in common: a number drawn goes on the row saved next,
\* and what is sensitive is an audit entry.
ServiceLike(program) ==
    \A i \in 1..Len(program) :
        /\ program[i].do = "draw" => /\ i < Len(program)
                                     /\ \E p \in Payments \cup {New} :
                                           program[i + 1] = Save(program[i].scope, p)
        /\ program[i].sensitive => program[i].do = "audit"

ASSUME ServicesAssumption == \A t \in Requests : ServiceLike(Program[t])
ASSUME AttemptsAssumption == MaxAttempts \in [Requests -> Nat]

VARIABLES
    counter,   \* committed IdSequence.last_value by scope
    issued,    \* committed rows and the numbers they carry, 0: none
    overwritten, \* history: committed rows as they were before another save
    log,       \* committed AuditLog rows
    lastId,    \* AuditLog's id sequence, which no rollback takes back
    state,     \* of each request
    step,      \* its place in its program
    attempts,  \* how often it has been submitted
    held,      \* the locks its transaction holds
    drawn,     \* the numbers it has drawn from each scope
    saved,     \* its uncommitted numbered rows
    wrote      \* its uncommitted audit rows

vars == <<counter, issued, overwritten, log, lastId, state, step, attempts, held, drawn,
          saved, wrote>>

Chain == "chain"
Row == [scope : Scopes, number : Nat, row : Payments \cup {New}, by : Requests]
Entry == [id : Nat \ {0}, prev : Nat, by : Requests, step : Nat]

TypeOK ==
    /\ counter \in [Scopes -> Nat]
    /\ issued \in SUBSET Row
    /\ overwritten \in SUBSET Row
    /\ log \in SUBSET Entry
    /\ lastId \in Nat
    /\ state \in [Requests -> {"ready", "running", "committed", "failed"}]
    /\ step \in [Requests -> Nat \ {0}]
    /\ attempts \in [Requests -> Nat]
    /\ held \in [Requests -> SUBSET (Scopes \cup {Chain})]
    /\ drawn \in [Requests -> [Scopes -> SUBSET Nat]]
    /\ saved \in [Requests -> SUBSET Row]
    /\ wrote \in [Requests -> SUBSET Entry]

NoneDrawn == [s \in Scopes |-> {}]

Init ==
    /\ counter = [s \in Scopes |-> 0]
    /\ issued = {}
    /\ overwritten = {}
    /\ log = {}
    /\ lastId = 0
    /\ state = [t \in Requests |-> "ready"]
    /\ step = [t \in Requests |-> 1]
    /\ attempts = [t \in Requests |-> 0]
    /\ held = [t \in Requests |-> {}]
    /\ drawn = [t \in Requests |-> NoneDrawn]
    /\ saved = [t \in Requests |-> {}]
    /\ wrote = [t \in Requests |-> {}]

----------------------------------------------------------------------------
\* The request is about to take a step of the given kind.
At(t, what) ==
    /\ state[t] = "running"
    /\ step[t] <= Len(Program[t])
    /\ Program[t][step[t]].do = what

Scope(t) == Program[t][step[t]].scope
Advance(t) == step' = [step EXCEPT ![t] = @ + 1]
Others(t) == Requests \ {t}

\* The payments a request decides.
Decides(t) == {Program[t][i].row : i \in 1..Len(Program[t])} \ {New}

\* The transaction of t ends without a trace, except in the id sequence.
Abort(t) ==
    /\ state' = [state EXCEPT ![t] = "failed"]
    /\ held' = [held EXCEPT ![t] = {}]
    /\ drawn' = [drawn EXCEPT ![t] = NoneDrawn]
    /\ saved' = [saved EXCEPT ![t] = {}]
    /\ wrote' = [wrote EXCEPT ![t] = {}]
    /\ UNCHANGED <<counter, issued, overwritten, log, lastId, step, attempts>>

\* The user submits the request, or submits it again after an error; a payment
\* is loaded, and checked to be pending, before its transaction takes a lock.
Submit(t) ==
    /\ state[t] \in {"ready", "failed"}
    /\ attempts[t] < MaxAttempts[t]
    /\ \A u \in Others(t) : state[u] = "committed" => Decides(u) \cap Decides(t) = {}
    /\ state' = [state EXCEPT ![t] = "running"]
    /\ step' = [step EXCEPT ![t] = 1]
    /\ attempts' = [attempts EXCEPT ![t] = @ + 1]
    /\ UNCHANGED <<counter, issued, overwritten, log, lastId, held, drawn, saved,
                   wrote>>

----------------------------------------------------------------------------
(* IdSequence.allocate.  The INSERT of a missing row is serialised by its   *)
(* unique scope exactly as SELECT FOR UPDATE serialises the existing row.   *)

\* Mutant: last_value is read and written back without the lock.
AllocateWithoutLock(t) ==
    /\ At(t, "draw")
    /\ drawn' = [drawn EXCEPT ![t][Scope(t)] =
                    @ \cup {counter[Scope(t)] + Cardinality(@) + 1}]
    /\ Advance(t)
    /\ UNCHANGED <<counter, issued, overwritten, log, lastId, state, attempts, held,
                   saved, wrote>>

\* Mutant: the counter is committed at once, as a database sequence would.
AllocateOutsideTransaction(t) ==
    /\ At(t, "draw")
    /\ counter' = [counter EXCEPT ![Scope(t)] = @ + 1]
    /\ Advance(t)
    /\ UNCHANGED <<issued, overwritten, log, lastId, state, attempts, held, drawn,
                   saved, wrote>>

Allocate(t) ==
    /\ At(t, "draw")
    /\ \A u \in Others(t) : Scope(t) \notin held[u]
    /\ held' = [held EXCEPT ![t] = @ \cup {Scope(t)}]
    /\ drawn' = [drawn EXCEPT ![t][Scope(t)] =
                    @ \cup {counter[Scope(t)] + Cardinality(@) + 1}]
    /\ Advance(t)
    /\ UNCHANGED <<counter, issued, overwritten, log, lastId, state, attempts, saved,
                   wrote>>

\* The number a save puts on its row: the one supplied, or the last one drawn.
NumberOf(t) ==
    IF Program[t][step[t]].number # 0
    THEN Program[t][step[t]].number
    ELSE counter[Scope(t)] + Cardinality(drawn[t][Scope(t)])

Taken(rows, t) == \E r \in rows : r.scope = Scope(t) /\ r.number = NumberOf(t)

\* Another transaction has updated the row this one is about to save.
RowIsLocked(t, u) ==
    \E r \in saved[u] : r.row = Program[t][step[t]].row /\ r.row # New

\* full_clean and the INSERT or UPDATE.  The unique constraint waits for a
\* transaction that has saved the same number, the UPDATE for one of the same row.
SaveNumbered(t) ==
    /\ At(t, "save")
    /\ \A u \in Others(t) : ~Taken(saved[u], t) /\ ~RowIsLocked(t, u)
    /\ ~Taken(issued \cup saved[t], t)
    /\ saved' = [saved EXCEPT ![t] =
                    @ \cup {[scope |-> Scope(t), number |-> NumberOf(t),
                             row |-> Program[t][step[t]].row, by |-> t]}]
    /\ Advance(t)
    /\ UNCHANGED <<counter, issued, overwritten, log, lastId, state, attempts, held,
                   drawn, wrote>>

\* The UPDATE of a row that was loaded without a number.
SaveBlank(t) ==
    /\ At(t, "blank")
    /\ \A u \in Others(t) : ~RowIsLocked(t, u)
    /\ saved' = [saved EXCEPT ![t] =
                    @ \cup {[scope |-> Scope(t), number |-> 0,
                             row |-> Program[t][step[t]].row, by |-> t]}]
    /\ Advance(t)
    /\ UNCHANGED <<counter, issued, overwritten, log, lastId, state, attempts, held,
                   drawn, wrote>>

\* The number is on another row already: ValidationError, and a rollback.
NumberTaken(t) ==
    /\ At(t, "save")
    /\ Taken(issued \cup saved[t], t)
    /\ Abort(t)

----------------------------------------------------------------------------
(* The audit chain.                                                        *)

ChainIsFree(t) == \A u \in Others(t) : Chain \notin held[u]

\* id is that of the newest of the rows, or the genesis value 0.
Newest(rows, id) ==
    \/ rows = {} /\ id = 0
    \/ /\ \E r \in rows : r.id = id
       /\ \A r \in rows : r.id <= id

\* Mutant: the tail is read before the lock is taken, so without it.
WriteWithoutLock(t) ==
    /\ At(t, "audit")
    /\ \E tail \in 0..lastId :
          /\ Newest(log \cup wrote[t], tail)
          /\ wrote' = [wrote EXCEPT ![t] =
                @ \cup {[id |-> lastId + 1, prev |-> tail, by |-> t, step |-> step[t]]}]
    /\ lastId' = lastId + 1
    /\ Advance(t)
    /\ UNCHANGED <<counter, issued, overwritten, log, state, attempts, held, drawn,
                   saved>>

\* _write: under the chain lock, an entry that points to the newest one it sees.
Write(t) ==
    /\ At(t, "audit")
    /\ ChainIsFree(t)
    /\ held' = [held EXCEPT ![t] = @ \cup {Chain}]
    /\ \E tail \in 0..lastId :
          /\ Newest(log \cup wrote[t], tail)
          /\ wrote' = [wrote EXCEPT ![t] =
                @ \cup {[id |-> lastId + 1, prev |-> tail, by |-> t, step |-> step[t]]}]
    /\ lastId' = lastId + 1
    /\ Advance(t)
    /\ UNCHANGED <<counter, issued, overwritten, log, state, attempts, drawn, saved>>

\* Mutant: no model is audit_sensitive.
WriteFailsQuietly(t) ==
    /\ At(t, "audit")
    /\ Advance(t)
    /\ UNCHANGED <<counter, issued, overwritten, log, lastId, state, attempts, held,
                   drawn, saved, wrote>>

\* _safe_write when _write raises: the savepoint and the lock taken in it are
\* gone.  A sensitive change goes with it, any other goes on unrecorded.
WriteFails(t) ==
    /\ At(t, "audit")
    /\ IF Program[t][step[t]].sensitive
       THEN Abort(t)
       ELSE /\ Advance(t)
            /\ UNCHANGED <<counter, issued, overwritten, log, lastId, state,
                           attempts, held, drawn, saved, wrote>>

----------------------------------------------------------------------------
(* How a transaction ends.                                                 *)

\* The committed rows that the rows of t take the place of.
Replaced(t) == {r \in issued : r.row # New /\ \E q \in saved[t] : q.row = r.row}

\* Mutant: the locks belong to the session, not to the transaction.
CommitKeepsLocks(t) ==
    /\ state[t] = "running"
    /\ step[t] > Len(Program[t])
    /\ state' = [state EXCEPT ![t] = "committed"]
    /\ counter' = [s \in Scopes |-> counter[s] + Cardinality(drawn[t][s])]
    /\ issued' = (issued \ Replaced(t)) \cup saved[t]
    /\ overwritten' = overwritten \cup Replaced(t)
    /\ log' = log \cup wrote[t]
    /\ drawn' = [drawn EXCEPT ![t] = NoneDrawn]
    /\ saved' = [saved EXCEPT ![t] = {}]
    /\ wrote' = [wrote EXCEPT ![t] = {}]
    /\ UNCHANGED <<lastId, step, attempts, held>>

Commit(t) ==
    /\ state[t] = "running"
    /\ step[t] > Len(Program[t])
    /\ state' = [state EXCEPT ![t] = "committed"]
    /\ counter' = [s \in Scopes |-> counter[s] + Cardinality(drawn[t][s])]
    /\ issued' = (issued \ Replaced(t)) \cup saved[t]
    /\ overwritten' = overwritten \cup Replaced(t)
    /\ log' = log \cup wrote[t]
    /\ held' = [held EXCEPT ![t] = {}]
    /\ drawn' = [drawn EXCEPT ![t] = NoneDrawn]
    /\ saved' = [saved EXCEPT ![t] = {}]
    /\ wrote' = [wrote EXCEPT ![t] = {}]
    /\ UNCHANGED <<lastId, step, attempts>>

\* A domain error, a timeout, or the power: the transaction rolls back.
Fail(t) ==
    /\ state[t] = "running"
    /\ Abort(t)

\* t waits for u.
WaitsFor(t, u) ==
    \/ At(t, "draw") /\ Scope(t) \in held[u]
    \/ At(t, "save") /\ (Taken(saved[u], t) \/ RowIsLocked(t, u))
    \/ At(t, "blank") /\ RowIsLocked(t, u)
    \/ At(t, "audit") /\ Chain \in held[u]

\* PostgreSQL aborts one transaction of a cycle of waiting ones.
DeadlockVictim(t) ==
    /\ \E u \in Others(t) : WaitsFor(t, u)
    /\ \E cycle \in SUBSET {u \in Requests : state[u] = "running"} :
          /\ t \in cycle
          /\ \A u \in cycle : /\ \E v \in cycle \ {u} : WaitsFor(u, v)
                              /\ \E v \in cycle \ {u} : WaitsFor(v, u)
    /\ Abort(t)

Proceed(t) ==
    \/ Allocate(t) \/ SaveNumbered(t) \/ SaveBlank(t) \/ NumberTaken(t)
    \/ Write(t) \/ Commit(t)

Next == \E t \in Requests :
    Submit(t) \/ Proceed(t) \/ WriteFails(t) \/ Fail(t) \/ DeadlockVictim(t)

(* A running request goes on when it can, and the database ends deadlocks. *)
Fairness == \A t \in Requests : WF_vars(Proceed(t)) /\ WF_vars(DeadlockVictim(t))

Spec == Init /\ [][Next]_vars
FairSpec == Spec /\ Fairness

----------------------------------------------------------------------------
(* verify_chain: the rows that do not point to their predecessor.          *)
BrokenLinks(rows) ==
    {e \in rows : ~Newest({r \in rows : r.id < e.id}, e.prev)}

(* Properties.                                                             *)

\* verify_chain finds the committed log intact at every moment: no two entries
\* claim the same predecessor, whoever wrote, rolled back or died in between.
ChainIntact == BrokenLinks(log) = {}

\* A drawn number is nobody else's: not of a transaction under way, not on a
\* committed row that was numbered from the sequence.  IdSequenceAdmin, where
\* last_value can be edited, is not modelled.
NumbersAreNotShared ==
    \A t \in Requests, s \in Scopes :
        /\ \A u \in Others(t) : drawn[t][s] \cap drawn[u][s] = {}
        /\ \A n \in drawn[t][s] : n > counter[s]

\* Another committed request decided the same payment.
DecidedTwice(r) ==
    \E t \in Others(r.by) : state[t] = "committed" /\ r.row \in Decides(t)

\* A rollback returns its numbers, although the docstring of allocate expects it to
\* leave a gap: every number up to last_value is on a committed row.  The one gap there
\* is: it was on a payment until a second decision, loaded before the first committed,
\* was saved over it.
NoGaps ==
    \A s \in Scopes : \A n \in 1..counter[s] :
        \/ \E r \in issued : r.scope = s /\ r.number = n
        \/ \E r \in overwritten : r.scope = s /\ r.number = n /\ DecidedTwice(r)

Audited(t, i, entries) ==
    Program[t][i].sensitive => \E e \in entries : e.by = t /\ e.step = i

\* Grades and money: a committed change has all its audit entries, and the log
\* has none of a change that was rolled back.
AuditMatchesCommits ==
    /\ \A e \in log : state[e.by] = "committed"
    /\ \A t \in Requests : state[t] = "committed" =>
          \A i \in 1..Len(Program[t]) : Audited(t, i, log)

\* No request waits for ever, although services take the two locks in opposite
\* orders: cash payments the chain before the receipt row, confirmations after.
EveryRequestEnds ==
    \A t \in Requests : state[t] = "running" ~> state[t] \in {"committed", "failed"}
=============================================================================
