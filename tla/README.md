# UniACMIS: a TLA+ verification project

UniACMIS is a university administration system: a Django/DRF backend on
PostgreSQL (`src/backend/apps/*`) and a Next.js front end that goes on working
without a connection (`src/frontend`). It runs on campuses where power and links
fail daily, so the hard part of it is not the forms: it is what happens to a
write when the response is lost, the process dies, two people press the same
button, or a transaction rolls back after a number has been printed on it.

This directory models those parts in TLA+, checks them with TLC on small
instances and proves the central invariants with TLAPS for every instance.

## 1. Inventory

| Component | State | Operations | Interacts through |
|---|---|---|---|
| sync engine (`core/sync`) | `SyncOperation` ledger, `SyncConflict`, the domain rows | batch post, `apply_operation`, conflict resolution | handlers registered by the apps; ledger uniqueness |
| offline outbox (`frontend/lib/outbox.ts`, `sync.ts`) | IndexedDB records, `flushing`, `backoffUntil` | enqueue, flush, clear, auto sync | `POST /sync/batch/` |
| API client (`frontend/lib/api.ts`) | tokens | request, refresh | fetch |
| identifier sequences (`core.IdSequence`, `*/id_generation.py`) | `last_value` per scope | allocate | row lock until commit |
| audit trail (`audit`) | hash-chained `AuditLog` | save/delete hooks, `record_action`, `verify_chain` | advisory lock until commit |
| finance | fee structures, scholarships, invoices, payments, receipts, refunds | invoice (one, a batch), pay, confirm, reject, poll, webhook, refund | payment provider; receipts from `IdSequence`; holds |
| registry, alumni | students, status history; profiles of graduates | create, import, edit, delete, change status | ids; audit; sync handler |
| admissions | applications, fee payments, reviews, merit list | apply, pay, submit, review, decide, convert | provider; registry, ids |
| curriculum | versions, the prerequisite graph | add, change and remove links; activate a version | enrollment asks it |
| academics | grading scales, the calendar | edit and validate bands; grade; GPA and CGPA | examinations, enrollment |
| enrollment | registrations, prior completions | register, drop, complete | holds, curriculum, credit limits |
| examinations | assessments, marks, approvals, appeals | record, moderate, flag; compute; approve, publish; appeal | enrollment, sync handler |
| attendance | sessions, records, waivers | take the register, waive, eligibility | sync handler |
| timetabling | class and exam slots, publication | schedule, move, publish, delete | rooms and staff |
| library | items, loans, the fine rate | check out, return, lose, waive | row lock on checkout; holds; sync handler |
| hostel | rooms, allocations | allocate, vacate, edit a room | row lock on allocation; fees |
| documents | transcript requests, issued documents | request, decide, issue, revoke, verify | ids; holds |
| hr | leave, contracts, appraisals | ask, endorse, decide; contract, end; appraise | roles |
| accounts | users, roles, groups, sign-in columns, MFA | grant, revoke, sync roles, delete; sign in, enrol, disable; administer | audit |
| communications | announcements, portal messages | send | SMS and e-mail providers |
| Django admin (`*/admin.py`) | none of its own | forms and actions on nearly every table, most of them past the services | every app |
| reporting, service worker and pages, backup scripts | none of their own | | |

What is hard here, and so what the properties are about:

* **Retries.** A batch whose response was lost is sent again, possibly while the
  first worker is still at it.
* **Crashes between commits.** `ATOMIC_REQUESTS` is off; `apply_operation` commits
  its claim, its handler and its conflict record separately.
* **Check-then-act without a lock.** Handlers and services read an instance,
  decide, and write later.
* **Shared counters and one global chain.** Nearly every write takes the row of
  an identifier sequence, the audit chain's lock, or both, in different orders,
  and keeps them until the outer transaction ends.
* **Checks that walk a table.** Prerequisite cycles, clashes, credit limits and
  beds are checked against what is stored and saved afterwards; long sequences of
  legal edits, or two at once, are what could get past them.
* **Effects that cannot be rolled back.** Announcements leave before the
  transaction that records them commits.
* **Rounding.** Bands, weights, averages and discounts are decimal arithmetic.
* **The way round the services.** The Django admin is "ICT's working interface"; its forms
  save rows without the checks, the history or the groups that go with them.
* **The device.** Its guard against a second flush is set after an `await`; its
  module state dies with the tab, its store does not.

`PROJECT.json` lists each hazard at its line with the property that would catch
it going wrong. Three have none and say why: the starvation of a queue whose head is
a full batch of refused entries, the entry left `syncing` by a browser that died, and
negative amounts. Where a property excepts the rows of the very race a hazard is
about, the hazard says so: the property then shows that nothing but the race breaks
the rule, not that the race cannot happen.

## 2. Modules

| Module | Models |
|---|---|
| `SyncOps` | the operations both halves of sync share |
| `IdempotentLedger` | abstract: an operation is decided once and takes effect only if applied |
| `SyncEngine` | `core/sync`: batches, the ledger, handlers, conflicts, crashes |
| `Outbox` | `outbox.ts` and `sync.ts`: store, flush, backoff, device |
| `OfflineSync` | `Outbox` and `SyncEngine` joined by a link that fails |
| `Transactions` | `IdSequence.allocate`, the audit chain, and the services as transactions over both |
| `Finance` | invoices, payments, receipts and refunds, decided on instances loaded earlier |
| `Fees` | the arithmetic of a bill |
| `Billing` | fee structures, scholarships, single and batch invoicing |
| `Curriculum` | prerequisite links and curriculum versions |
| `Enrollment` | course registration against window, holds, credits and prerequisites |
| `Grading` | grading scales, `validate_bands`, `grade_for`, GPA and CGPA |
| `Marks` | assessments, marks, irregularities, the result of a registration |
| `Results` | approval, publication and appeals |
| `Attendance` | the register, waivers and the exam block |
| `Timetabling` | class and exam slots, clashes, publication |
| `Admissions`, `MeritList` | the life cycle of an application; the ranked and reserved seats |
| `Registry` | students, status history, alumni profiles |
| `Documents` | transcript requests, issued and revoked documents |
| `Library`, `Hostel` | copies and loans; beds and residents |
| `HR` | leave, contracts, appraisals and who may decide them |
| `Accounts`, `SignIn` | roles, groups and the trail; failed attempts, lockout, MFA, backup codes |
| `Communications` | announcements and their messages |
| `Academic`, `Campus` | the academic and the administrative offices composed |
| `FiniteSums` | theorems about sums over finite sets |
| `SyncEngineProofs`, `TransactionsProofs`, `FinanceProofs`, `OfflineSyncProofs` | theorems and proofs of the module each is named after |
| `AcademicProofs` | the academic offices, and `Academic` |
| `RecordsProofs`, `CampusProofs` | registry, documents, library, hostel, HR, sign-in; admissions, the merit list, communications, billing, accounts and `Campus` |
| `MC*` | the instances TLC checks |

### Sync engine

A worker is one HTTP request. Its program counter names the commits of
`apply_operation` and nothing finer: `Refuse` (the gate: unknown entity, action or
missing permission; whether it applies is a free choice, since permissions can be
revoked at any time), `Claim` or `Replay` (the INSERT of the PENDING row, committed
on its own), `HandlerCheck` (up to the handler's last read of the natural key),
`HandlerCommit` or `HandlerFail`, then `MarkRejected`, or `RecordConflict` followed
by `FileConflict`. `WorkerCrash` is possible between any two. The five handlers are
told apart by what they check (`Diverges`), what a unique constraint stops
(`Collides`), and what they leave in the table (`RowsAfter`). A payload that does not
validate is a free choice of `HandlerCheck`. `db` keeps the writes a key's rows show,
so "the same score" is `ValueOf`.

Left out: the payload beyond natural key and value; timestamps (no code path compares
them); `_audit_overwrites`, which writes nothing because no handler returns
`overwrote`. An operation without a natural key (a student without a national id)
is an operation whose key nobody shares.

### Outbox and the link

`flush()` is cut at its awaits: the guard's early returns (`StartFlush`), the read
of the queue (`ReadQueue`, where `flushing` is set), marking (`MarkSyncing`), the
request, one `Record` per result, and `FinishFlush`. `outbox.update` (a get and a put)
and the marking of a batch are one step each; `attempts` and the length of the backoff
are abstracted to whether the backoff is running. `outbox.remove` is exported but
never called. In `OfflineSync` staff writes and resolutions take no step
(`Online` and `Resolvers` are empty): they are `SyncEngine`'s subject.

### Transactions

A request is a program of steps: draw a number, save a numbered row, append an audit
entry. The programs (`CreateStudent`, `RecordCashPayment`, ...) list the steps in the
order of the services. Locks are kept until the transaction ends; `DeadlockVictim` is
PostgreSQL breaking a cycle; `Fail` is any error or crash before the commit. The hash of
an entry is modelled by the id of its predecessor, which is what the chain
pins down; `verify_chain` is `BrokenLinks`. One entry stands for the entries one `save`
writes. The ids of `AuditLog` come from a database sequence and are not given back.

The payments in `Payments` were recorded earlier. `ConfirmPayment` draws a receipt number and
saves it on such a row, as the UPDATE in `_confirm_payment` does; `RejectPayment` saves the
row back as it was loaded, without a number. The pending check is of an instance loaded
before the first lock, so a request may be submitted as long as no other has committed a
decision, and two requests under way may both decide the payment. The number of the row a
commit replaces moves to `overwritten`, a history variable; `NoGaps` allows a number to be
found there, and only if two committed requests decided that payment.

### Finance

A call is one request in two steps: what it reads before its first lock (the
instance the view loads, the claims `request_refund` sums) and the rest of its transaction,
during which it holds the audit chain, so that nothing sensitive commits in between.
A save writes the whole loaded row. `ConfirmPayment` is `_confirm_payment` with the draw
of the receipt and `_refresh_invoice_status`, reached from the bursar's confirmation,
the provider's webhook, a poll, and cash; `RefusePayment` is a rejection or a poll that
reports failure; `Abandon` is everything that commits nothing. Amounts are any integers, as
no validator keeps them positive; `Sum` is the database's. What an invoice is made of is an
input of `GenerateInvoice` here and state in `Billing`, which shares `Fees` with it. The
statuses `cancelled` and `written_off` exist but no operation sets them. `revoked` records
invoices a confirmed payment of which was undone by a stale rejection: nothing refreshes
those. What is claimed of an invoice's status is claimed of `Undisturbed` ones, which are not
revoked and have no confirmed payment of a negative amount: with one, the skipped save of a
stale instance can leave the invoice paid with money owed (see the hazards).

### The offices

The other apps are alike: a view loads a row with `get_object`, a service checks what it
sees, and `save()` writes the whole row, with nothing locked between. So a request is a
load and a later save, carried in a `...Call` variable; where the code does lock
(`select_for_update` on an item at checkout, on a room at allocation) or does everything in
one transaction that no other write can split, it is one step. A `...Raced` variable
records that a save overwrote what another request had committed since the load. It is a
history variable: no guard reads it. The properties are stated without exception
where the code guarantees them, and "unless raced" where it does not. The exceptions are
hazards of `PROJECT.json`. The runs reach each of them but two: marks and timetabling
run one request at a time, which no other overtakes; the theorems about them hold for any
number of requests. Writes of the Django admin that go past a service and break what the
service promises are excepted the same way (`byHand`, `handmade`, `administered`, and the
blank number of a record added by hand), where they are modelled; section 5 lists those that are not.

* `Curriculum`: `Prerequisite.clean` walks the stored graph; the link is inserted
  afterwards. A version is draft, active or retired, at most one active at a time.
* `Enrollment`: `register_course` in the order of its checks: window, duplicates, prerequisites,
  credits, holds (a provider that raises counts as a hold). A semester
  moves through the phases of its calendar.
* `Grading`: percentages in steps of `GRADE_BAND_STEP`, so that a gap of less than a step
  does not exist; averages in hundredths with the rounding of `Decimal.quantize`.
* `Marks`, `Results`: a mark's row (score, moderation, irregularity) is one save; the
  result adds the rounded components. An approval is per programme or for all.
* `Attendance`: a register is one transaction; an excused absence leaves the denominator of
  the percentage, which is compared with the threshold.
* `Timetabling`: both schedules have the same operations; a behaviour follows one.
* `Admissions`, `MeritList`: the provider's answer about the fee, submission, reviews and
  their average, the decision, the conversion. The list is a function of the
  candidates and the quota rules, checked against its stated policies; a declined candidate
  stays listed, as in `build_merit_list`; a candidate may have
  several of the attributes (gender, state, disability) that seats are reserved for.
* `Registry`: `ALLOWED_TRANSITIONS`, the history row of each change, the import, soft deletion.
  In the admin a student is added in any status, without a number and without history, which the unique
  number lets happen once; the form's change of status is handed to `change_status` too
  late and saves nothing; alumni profiles are added and deleted freely.
* `Documents`, `Library`, `Hostel`, `HR`: the status graphs, with holds, fines, capacity and
  departments as the services check them. A room may be edited below its occupancy. HR, ICT,
  management and superusers (`Unscoped`) see all leave, so a head of department with one of these
  roles endorses for any department; nobody checks that endorser or decider is not the asker.
* `Accounts`: assignment, group and audit entry are three writes; `resync_groups` repairs
  groups; the admin's forms write assignments or groups alone; deleting a user nulls the actor of the entries they caused, as
  `SET_NULL` does.
* `SignIn`: one account; codes are abstracted to the secret or the list they belong to. ICT's PUT,
  PATCH and admin form save every column as it was loaded, `mfa_enabled` and in the form the
  count and the lockout as chosen; `unlock_accounts` is one UPDATE.
* `Communications`: a message leaves when its channel is called, and is accepted when the call
  does not raise (the receipt's own `accepted` is ignored by the code); a failing channel is
  skipped; a crash before the commit loses the record, not the messages.
* `Billing`: a batch is one transaction per student and keeps what it has answered;
  `InsertInvoice` is where the unique constraint decides between two of them, and where a
  batch breaks off.

`Academic` and `Campus` put them side by side as a sum: a behaviour follows one
office. They write no table of another, and what one asks of another (holds, the links in
force, the default scale, the student's record) is a constant or changes freely, so an
interleaving reaches no state of an office that the sum does not. The interactions that
do share state have compositions of their own: `OfflineSync` and `Transactions`.

## 3. Runs

| Run | Question | Bounds |
|---|---|---|
| `sync_engine` | does the ledger keep retries, races and crashes apart? | two operations and one online write on one payment reference with two amounts, two workers, two registrars, crashes unbounded |
| `offline_sync` | is anything lost or left unanswered between device and server? | two operations, two concurrent flushes, two workers, one fault |
| `offline_sync_liveness` | is every entry answered in the end? | two operations, one flush loop, two workers, two faults |
| `transactions` | do numbers and the audit chain survive rollbacks and deadlocks? | six requests over two scopes on two days: cash, an admission tried twice and an import; cash, two confirmations and a rejection of one slip |
| `academic` | do rules on registration, grades, results, attendance and slots survive long and overlapping edits? | three courses, one version, two edits; one student, two courses of which one takes the whole load, two semesters; three bands over 0..3; two components and one request on marks; two programmes and one appeal; two registrations, two sessions, a threshold of 60 %; two slots, three times, one room, one lecturer |
| `campus` | do the offices' records stay consistent with each other and with the decisions? | two overlapping requests everywhere; one application with two reviewers; three candidates for two seats; one student number and the admin's blank one, three status changes; two transcript requests; one copy, two loans; one room; two heads of department, one of them in management too; two roles, a trail of two; one notice to three people; two students, one from abroad, and a scholarship above the fee; a lockout after two failures of at most three; one invoice of 3 (or fully covered), payments of 1, 2 and 2 by slip, mobile and cash, two refunds of 2 |
| `mark_race` (violation) | is a divergent mark never applied? | as `sync_engine`, on a mark |
| `silent_drop` (violation) | does "synced" mean applied? | one operation, no fault at all |
| `late_rejection` (violation) | is a payment decided only while it is pending? | one invoice of 3, three payments, two refunds, two calls, as in `campus` |
| `refund_race` (violation) | do refunds stay within the payment? | the same |
| `cgpa` (violation) | do semester summaries give the CGPA of the courses? | two semesters of up to two courses of 1 to 3 credits, four grade points |
| `batch` (violation) | does a batch go on past a student who is billed meanwhile? | two students, two requests |

Why the bounds are enough to be interesting: two operations on one key with different
values give every handler outcome (applied, same value, divergent, collision); two
workers give every race on a claim; one fault under two flushes already reaches the
response lost after the commit, the dead worker behind a PENDING row and the tab
dying in the middle of a batch. Six requests on two scopes reach the deadlock of chain and
receipt row, the collision of a legacy id with a generated one, a number drawn
again after a rollback, and a receipt number replaced by a second one. Behaviour that needs more entries than a batch holds is not
reached (see the plan).

In `academic` and `campus` one set of two model values stands for the requests of every
office, so that one symmetry serves them all; a third request would overlap one of
two others in a way two already do. `NoRace` is a constraint: the states right after a
stale save, or after the admin has written roles or alumni by hand, are still checked, what follows them is not explored, because every property
excepts them, with two exceptions. What admissions promise of the fee stands even then, so an
application is followed on until it is reviewed (`FeeOnly`); so does what the sign-in
promises of backup codes, and an account is followed on until a failure or the use of a code
(`MfaOnly`), but not past a write of ICT. In `academic` the windows of the second semester close no earlier than those of
the first (`CalendarOrder`); in `campus` at most one entry is missing from the audit trail at
a time (`OneMissed`), one student record at a time is followed past its admission and requests
that overlap are about one record (`OneRecord`), and the reserved buckets of a quota are for
different attributes (`BucketsDiffer`). One request on marks (two make two million states) still meets a
registration dropped and a scheme changed between its read and its save.

`offline_sync`, `academic`, `campus` and the runs on `Transactions` and `Finance` have
`CHECK_DEADLOCK FALSE`, because they stop when every entry has been answered or cleared,
every request has used its attempts, and an office has spent its ids, numbers or entries.
`sync_engine` does not: a device may always send its batch again.

### What the violation runs show

* `silent_drop`: an entry the server rejected is `failed`; `pending()` selects
  failed entries too, so the next flush sends it again; the ledger has a row, so the answer
  is DUPLICATE; `sync.ts:78` takes that for success, removes the error and marks the
  entry `synced`, and `clearSynced` may delete it. The same happens to a held conflict
  and to an operation whose worker died after the claim.
* `mark_race`: the divergence check of `MarkHandler` and the write in `record_mark` are two
  reads without a lock; a mark entered in between is overwritten with another score,
  and no conflict is filed.
* `late_rejection`: confirm and reject check an instance loaded without a lock; the
  later save wins over a decision already made.
* `refund_race`: two overlapping refund requests both pass the check against what was paid.
* `cgpa`: `weighted_semester_cgpa` averages averages that are rounded already. Its docstring calls
  it "mathematically equivalent to `cgpa()`"; it can be a hundredth off, which decides a class of
  degree at its boundary. `SummariesAgreeWithCourses` shows that it is never more.
* `batch`: the batch finds no invoice, another request inserts one, and `full_clean` raises an error
  the loop does not catch. The docstring says it "skips (rather than fails)" such a student.

Disagreements that need no run, because one step of the model shows them or nothing in the code
would prevent them (`findings` of `PROJECT.json` has the quotations):

* The docstring at `core/models.py:107` expects a rolled-back transaction to leave a gap. `allocate`
  writes inside the caller's transaction, so a rollback takes the increment back and no gap is
  left (`NoGaps`); the price is that a legacy id equal to the next generated one makes every
  admission in its scope fail, again and again, on the same number.
* Deleting a user updates the audit entries that user caused (`Accounts.EraseUser`); their hash was
  taken over `actor_id`, so `verify_chain` reports them as altered after they were written.
* The admin's change of a student's status saves nothing (`Registry.AdminChangeStatus`), and a
  student added there has neither number nor history (`AdminAddStudent`).
* "Whoever asks is never whoever decides" (`hr/models.py:96`) is enforced nowhere (`HR.LoadLeave`).
* A certificate can be issued twice (`documents/models.py:4` says once).
* The admin, "the registrar's working view for building both schedules", saves slots without the clash
  checks.

### Fairness

`OfflineSync`: a flush that was started runs on and a served request is served
(weak fairness: nothing else has to happen for the event loop or the worker to
proceed); the interval timer of `startAutoSync` keeps calling `flush`; the backoff is a
timestamp that passes; the link returns. Submitting a request has strong
fairness, because an outage can interrupt it again and again but workers do become
free. Users, staff and faults are owed nothing. `EveryEntryAnswered` excludes behaviours in which
the browser died in the middle of a flush: an entry left `syncing` is not selected by
`pending()` again (it stays in the store, which `NothingLostOnTheWay` checks).

`Transactions`: a running request takes its next step when it is not blocked, and the
database breaks deadlocks (`deadlock_timeout`). Without the second assumption
`EveryRequestEnds` fails on the cash payment and the confirmation, which take the chain and
the receipt row in opposite orders.

## 4. Proofs

All constants are arbitrary: any sets of operations, workers, keys, requests, scopes,
people, courses, rooms and any programs. The assumptions are the named `ASSUME`s of the
modules: types of the constants; markers such as `NoSlot` and `NoLoan` distinct from what they
stand in for; the sets that are counted or summed over (assessments, sessions, courses, letters,
reviewers, candidates, residents, people, role codes) finite; credits and grade points not negative; ids distinct from online writes; and programs made as the
services are (`ServiceLike`: what is drawn is saved by the next step, and only audit steps are
sensitive), which `ServicesAreServiceLike` proves of the ten services modelled. TLC evaluates them in
the runs.

* `SyncEngineProofs`. The inductive invariant is `TypeOK /\ OneOwner /\ AtMostOnce /\
  LedgerMatchesData /\ RepliesAreTrue`. `AtMostOnce` alone is not inductive: that a handler
  commits once needs to know that whoever is about to commit finds the row PENDING and
  that nobody else is past the claim (`OneOwner`), and that PENDING means not yet
  applied (`LedgerMatchesData`). From it follow `VerdictsAreFinal` and
  `PaymentsAreWrittenOnce` (action properties) and `EngineImplementsPromise`: initial states map to
  initial states, and every step is one decision of `IdempotentLedger` or a stutter.
* `TransactionsProofs`. `ChainIntact` speaks of committed rows, so its strengthening speaks
  of what a transaction is about to add: at most one transaction holds the chain
  (`LocksAreExclusive`), only the holder has uncommitted entries, these are newer than all
  committed ones and themselves chained to the committed tail (`ChainInv`). Numbers:
  only the holder of a scope has drawn from it, and it has drawn exactly the values
  following `last_value` (`NumberInv`, with `FiniteDraws` for cardinalities).
* `FinanceProofs`. `InvoiceStatusIsCurrent` is not inductive: a confirmation skips its save when
  the new status equals the loaded one, so the proof needs that what a call has loaded is
  never ahead of what is stored (`SeenIsOld`), that the stored status is never ahead of the new one
  (on an undisturbed invoice the sum only grows, `SumGrows`), and that a payment's invoice exists. `FeeHoldsAreRight` is the
  consequence a student notices. Receipts and approvals are conjuncts of the same invariant.

* `TransactionsProofs`, second part. `NoGaps` needs what happens between a draw and its save:
  the numbers a request has drawn are exactly those following `last_value`, and each is
  saved or is the one its next step saves (`DrawsAreSaved`); a request that is
  not running has nothing (`IdleHoldsNothing`). So a commit, which comes after the last step,
  moves the counter over saved numbers only; and a committed row gives way only to another
  request's row for the same payment, which that request then decides too. `AuditMatchesCommits` needs that every
  sensitive step a request has passed has its entry among its own (`WritesCoverSteps`).
* `OfflineSyncProofs`. Towards the server every step of the composition is a step of the
  engine or a stutter (`EngineStep`, `CompositionRunsTheEngine`), so the theorems of `SyncEngineProofs`
  hold end to end (`EndToEndPromise`). Towards the device one answer is followed from the
  ledger to the store: a worker somebody waits for has, for each operation that was sent, an
  outcome or the operation still before it (`WaitersAreServed`), and a verdict of
  success has a ledger row (`VerdictsAreBacked`).
* `FiniteSums`. Sums and counts of rows appear in many properties. The provers cannot instantiate an
  induction theorem, but they can use that strict inclusion of finite sets is well
  founded: a claim that fails for some set fails for a smallest one, from which one element
  is taken. That gives what is needed of `MapThenSumSet`: an element's share is its own value
  whatever the order (`SumSplitsOff`), sums are monotone (`SumGrows`, `SumBounded`), the sum of a disjoint union is the sum of
  the sums (`SumOfUnion`), and the names of the elements do not count (`SumRenamed`).
* The offices, in `AcademicProofs`, `RecordsProofs` and `CampusProofs`. Their properties make an
  exception of rows that a stale save wrote. The inductive invariants share one conjunct,
  the `...ReadsAreCurrent`: what a request has loaded is still on record, unless a save
  has marked the request stale. A guard checked on the loaded copy then holds of the row, or the save
  is recorded as the race. The proofs follow behaviours past a race,
  where TLC stops (`NoRace`), and say that a race on one row
  spoils no other row. What each office needs beyond that:
  * prerequisites: `Closed` sets. The walk of `Prerequisite.clean` ends, after as many rounds as
    there are courses, in a set that no link leaves; a new link from outside into such a set
    closes no cycle. A checked edit that was not overtaken still has such a set
    (`MayAdd`). That the walk has ended is the one place where the number of courses counts;
  * registration: the load with the new course is within the limit as long as the request is
    current (`EnrFits`), and `SumSplitsOff` makes the sum after the save that sum;
  * marks: each rounded component is at most its weight, so `SumBounded` bounds the percentage
    by the weights, which make 100; attendance: the percentage is compared by cross-multiplication, and
    without a worse mark neither side of the comparison moves the wrong way; timetables: what
    a current request will save fits every other slot (`FitsAt`); results: what is approved,
    Senate approved last (`SenateStands`);
  * grading scales: `ValidScalesGradeEveryMark` is an equivalence. The sorted order exists for every finite
    set of bands (`SortedExists`, a smallest set without one). In a valid order bands only climb
    (`ChainClimbs`), and the last band beginning at or below a percentage contains it
    (`ChainCovers`); conversely, if every percentage has one band, the step after the end of a
    band is the beginning of the next (`CoverChains`);
  * averages: a rounded semester average, times its credits, is at most half the credits away from
    the semester's points (`SummaryNear`). Two semesters together are then half their credits
    away, and rounding once more makes it a hundredth (`RoundedNear`). The totals of the joined
    list are sums of totals by `SumOfUnion` and `SumRenamed`;
  * merit list: `Best(n, S)` has n members, or all of S, as the lowest-ranked can be taken away
    without changing the others' places (`BestSize`), and has everybody who outranks one of it
    (`BestIsUpward`). `FairSoFar` is the invariant of the loop over the buckets;
  * registry: an allowed change makes a `Chain` one longer; documents, library, hostel: one more row is one
    more in the count; HR: an endorsement is by a head of the right department from the moment
    it is made; sign-in: no code of a list still to come, or unused, has been used (`CodesAreFresh`);
  * admissions: the fee was confirmed of the row on record and of every copy in a request's
    hands (`FeeWasPaid`), which is why a stale save cannot get an application past the draft;
  * announcements: the loop invariant `Reached`, over those already passed; billing: an
    invoice has exactly one request that created it (`ByAnother`); accounts: a new entry of the trail
    decides about its own role and no other (`NewEntryDecides`).
  `OfficesRunSideBySide` and `CampusRunsEveryOffice` show that a behaviour of the composition is one of
  each office, so all of this holds in `Academic` and `Campus`, whose types follow.

Type correctness of `SyncEngine`, `Transactions` and `Finance`, and that a verdict is final, are
proved and need no run of their own.

Only model-checked: the two liveness properties, `EveryEntryAnswered` and `EveryRequestEnds` (fairness is out of
the prover's reach). Every invariant and every action property that a passing run checks is also proved.
The proofs of the offices are about their `...Raced` variables as the model sets them; that a save
is marked as a race whenever it is one is part of the model, not of the theorems.

## 5. Not modelled

* Presentation: PDFs, templates of numbers, serializers' field formats, pages, static caching
  by the service worker.
* Read-only code: reports, dashboards, scoping filters of queries, `eligibility.py` (comparisons of an
  applicant's grades), `waiting_list_priority` (a ranking no allocation consults).
* Plain rows, created and edited without a rule that relates them to others: faculties,
  departments, programmes, courses, years and semesters, rooms, sponsors, next of kin,
  alumni events, uploaded documents.
* Most of the Django admin. Modelled are what it writes to students and alumni profiles, role
  assignments, groups and accounts, the library's rate, and the bands of a grading scale; prerequisites are
  checked in it by the same `clean`. Not modelled are its forms for invoices, payments, fees
  and scholarships; assessments, marks, approvals and appeals; registrations; attendance and
  waivers; slots; allocations; contracts, leave and appraisals; issued documents and requests;
  announcements; applications; loans; curriculum versions; the conflicts of sync, and the deletion of
  a row of its ledger; `last_value` of a sequence. Statuses are read-only in several of them, in
  others they are free, and no service is called: the properties hold of what goes through
  the API. The comment of each property concerned names the form.
* Tokens and password rules, which are a library's; the providers' own services.
* `pg_dump` and `pg_restore`; migrations and seed data.

The handlers for attendance and loans are modelled in `SyncEngine`, but the instances checked
are payments, marks and students. See the components of `PROJECT.json` for each part
and its status.

## 6. Plan

In order:

1. A bounded-batch run of `OfflineSync` for starvation at the head of the queue.
2. The rest of the Django admin, office by office: slots and registrations first, which the
   registrar edits there.
3. `waiting_list_priority`, `eligibility.py`.
4. The race variables: a theorem that a save not marked as a race has read what is on
   record, office by office, so that `...Raced` need not be read in the model.

