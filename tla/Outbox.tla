------------------------------- MODULE Outbox -------------------------------
(***************************************************************************)
(* The client half of offline sync: frontend/lib/outbox.ts (the IndexedDB  *)
(* store) and frontend/lib/sync.ts (flush and its triggers).  A flush is   *)
(* one call of flush(); the action boundaries are its awaits.  The store   *)
(* survives the browser, everything else is lost with it.                  *)
(*                                                                         *)
(* The server's answer is left open here: Answer takes any outcome for     *)
(* each operation.  OfflineSync closes it with the engine.                 *)
(***************************************************************************)
EXTENDS SyncOps

CONSTANTS
    Flushes,   \* concurrent calls of flush()
    MaxBatch   \* MAX_BATCH

ASSUME MaxBatchAssumption == MaxBatch \in Nat \ {0}

VARIABLES
    outbox,    \* the OutboxStatus of each stored operation; "absent": not entered,
               \* "cleared": deleted by clearSynced
    online,    \* navigator.onLine
    flushing,  \* the module's guard
    backoff,   \* Date.now() < backoffUntil
    fpc,       \* where each flush is
    batch,     \* the operations it sends, minus the results already recorded
    verdict    \* the response, per operation; "error": the request threw

clientVars == <<outbox, online, flushing, backoff, fpc, batch, verdict>>

NoVerdict == [o \in Ops |-> "none"]
Threw == [o \in Ops |-> "error"]

ClientInit ==
    /\ outbox = [o \in Ops |-> "absent"]
    /\ online = TRUE
    /\ flushing = FALSE
    /\ backoff = FALSE
    /\ fpc = [f \in Flushes |-> "idle"]
    /\ batch = [f \in Flushes |-> {}]
    /\ verdict = [f \in Flushes |-> NoVerdict]

----------------------------------------------------------------------------
(* The store.                                                              *)

\* outbox.enqueue; operations are entered one after the other.
Enqueue(o) ==
    /\ outbox[o] = "absent"
    /\ \A p \in Ops : p < o => outbox[p] # "absent"
    /\ outbox' = [outbox EXCEPT ![o] = "pending"]
    /\ UNCHANGED <<online, flushing, backoff, fpc, batch, verdict>>

\* What outbox.pending returns.
Queued == {o \in Ops : outbox[o] \in {"pending", "failed"}}

\* queued.slice(0, MAX_BATCH) of the queue sorted by createdAt.
Oldest(queue) ==
    {o \in queue : Cardinality({p \in queue : p < o}) < MaxBatch}

\* outbox.update on the listed operations: records that are gone stay gone.
Updated(ops, status) ==
    [o \in Ops |-> IF o \in ops /\ outbox[o] \notin {"absent", "cleared"}
                   THEN status ELSE outbox[o]]

ClearSynced ==
    /\ \E o \in Ops : outbox[o] = "synced"
    /\ outbox' = [o \in Ops |-> IF outbox[o] = "synced" THEN "cleared" ELSE outbox[o]]
    /\ UNCHANGED <<online, flushing, backoff, fpc, batch, verdict>>

----------------------------------------------------------------------------
(* flush().                                                                *)

\* The three early returns are read before the first await.  "force" is the
\* call made by the online event, the Send button and the student form.
StartFlush(f, force) ==
    /\ fpc[f] = "idle"
    /\ ~flushing
    /\ force \/ (~backoff /\ online)
    /\ fpc' = [fpc EXCEPT ![f] = "reading"]
    /\ UNCHANGED <<outbox, online, flushing, backoff, batch, verdict>>

\* await outbox.pending() returns; only now is the guard set.
ReadQueue(f) ==
    /\ fpc[f] = "reading"
    /\ IF Queued = {}
       THEN fpc' = [fpc EXCEPT ![f] = "idle"] /\ UNCHANGED <<flushing, batch>>
       ELSE /\ fpc' = [fpc EXCEPT ![f] = "marking"]
            /\ flushing' = TRUE
            /\ batch' = [batch EXCEPT ![f] = Oldest(Queued)]
    /\ UNCHANGED <<outbox, online, backoff, verdict>>

MarkSyncing(f) ==
    /\ fpc[f] = "marking"
    /\ outbox' = Updated(batch[f], "syncing")
    /\ fpc' = [fpc EXCEPT ![f] = "sending"]
    /\ UNCHANGED <<online, flushing, backoff, batch, verdict>>

\* fetch() with a connection.
Send(f) ==
    /\ fpc[f] = "sending"
    /\ online
    /\ fpc' = [fpc EXCEPT ![f] = "awaiting"]
    /\ UNCHANGED <<outbox, online, flushing, backoff, batch, verdict>>

\* The request throws: no connection when it is made, the connection lost while
\* it is under way, or an HTTP error instead of results.
RequestThrows(f) ==
    /\ \/ fpc[f] = "sending" /\ ~online
       \/ fpc[f] = "awaiting"
    /\ fpc' = [fpc EXCEPT ![f] = "recording"]
    /\ verdict' = [verdict EXCEPT ![f] = Threw]
    /\ UNCHANGED <<outbox, online, flushing, backoff, batch>>

Answer(f, response) ==
    /\ fpc[f] = "awaiting"
    /\ fpc' = [fpc EXCEPT ![f] = "recording"]
    /\ verdict' = [verdict EXCEPT ![f] = response]
    /\ UNCHANGED <<outbox, online, flushing, backoff, batch>>

\* Mutant: any answer of the server counts as confirmation.
StatusForAnyAnswer(reply) == IF reply = "error" THEN "pending" ELSE "synced"

\* Mutant: the catch block does not put the batch back.
StatusForForgetsErrors(reply) ==
    CASE reply \in {"applied", "duplicate"} -> "synced"
      [] reply \in {"conflict", "rejected"} -> "failed"
      [] OTHER -> "syncing"

\* What each outcome does to the stored operation.
StatusFor(reply) ==
    CASE reply \in {"applied", "duplicate"} -> "synced"
      [] reply \in {"conflict", "rejected"} -> "failed"
      [] OTHER -> "pending"

\* One awaited outbox.update of the results loop, or of the catch block.
Record(f, o) ==
    /\ fpc[f] = "recording"
    /\ o \in batch[f] /\ \A p \in batch[f] : o <= p
    /\ outbox' = Updated({o}, StatusFor(verdict[f][o]))
    /\ batch' = [batch EXCEPT ![f] = @ \ {o}]
    /\ verdict' = IF verdict[f] = Threw THEN verdict ELSE [verdict EXCEPT ![f][o] = "none"]
    /\ UNCHANGED <<online, flushing, backoff, fpc>>

\* The end of the call: backoff is reset by a response and started by an error;
\* finally clears the guard.
FinishFlush(f) ==
    /\ fpc[f] = "recording"
    /\ batch[f] = {}
    /\ backoff' = (verdict[f] = Threw)
    /\ flushing' = FALSE
    /\ fpc' = [fpc EXCEPT ![f] = "idle"]
    /\ verdict' = [verdict EXCEPT ![f] = NoVerdict]
    /\ UNCHANGED <<outbox, online, batch>>

----------------------------------------------------------------------------
(* The device.                                                             *)

BackoffElapses ==
    /\ backoff
    /\ backoff' = FALSE
    /\ UNCHANGED <<outbox, online, flushing, fpc, batch, verdict>>

GoOffline ==
    /\ online
    /\ online' = FALSE
    /\ UNCHANGED <<outbox, flushing, backoff, fpc, batch, verdict>>

\* The online event also ends the backoff; the flush it starts is StartFlush.
GoOnline ==
    /\ ~online
    /\ online' = TRUE
    /\ backoff' = FALSE
    /\ UNCHANGED <<outbox, flushing, fpc, batch, verdict>>

\* The tab is closed or the laptop loses power, and is opened again.
BrowserCrash ==
    /\ \E f \in Flushes : fpc[f] # "idle"
    /\ flushing' = FALSE
    /\ backoff' = FALSE
    /\ fpc' = [f \in Flushes |-> "idle"]
    /\ batch' = [f \in Flushes |-> {}]
    /\ verdict' = [f \in Flushes |-> NoVerdict]
    /\ UNCHANGED <<outbox, online>>
=============================================================================
