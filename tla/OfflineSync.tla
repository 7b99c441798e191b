---------------------------- MODULE OfflineSync ----------------------------
(***************************************************************************)
(* Offline sync end to end: the outbox of one device and the server's      *)
(* engine, joined by HTTP requests that may be cut at any moment.  A       *)
(* request that reaches the server is served by a worker; when the         *)
(* connection is lost the worker goes on, and its response has nowhere to  *)
(* go.  Staff writing online and resolving conflicts are the engine's own  *)
(* concern (SyncEngine) and take no step here.                             *)
(***************************************************************************)
EXTENDS Outbox, SyncEngine

CONSTANTS
    MaxFaults,  \* lost connections, worker crashes and outages, together
    None

ASSUME NoneAssumption == None \notin Flushes

VARIABLES
    caller,   \* the flush that waits for each worker's response, or None
    faults,   \* faults so far
    crashed   \* history: the browser has died in the middle of a flush

netVars == <<caller, faults, crashed>>
vars == <<clientVars, engineVars, netVars>>

SyncInit ==
    /\ ClientInit
    /\ Init
    /\ caller = [w \in Workers |-> None]
    /\ faults = 0
    /\ crashed = FALSE

Fault == faults < MaxFaults /\ faults' = faults + 1
HangUp(f) == caller' = [w \in Workers |-> IF caller[w] = f THEN None ELSE caller[w]]

----------------------------------------------------------------------------
\* The request arrives at a free worker.
Submit(f, w) ==
    /\ Send(f)
    /\ Receive(w, batch[f])
    /\ caller' = [caller EXCEPT ![w] = f]
    /\ UNCHANGED <<faults, crashed>>

\* The worker's response reaches the flush that is waiting for it.
Reply_(f, w) ==
    /\ caller[w] = f
    /\ Respond(w)
    /\ Answer(f, results[w])
    /\ caller' = [caller EXCEPT ![w] = None]
    /\ UNCHANGED <<faults, crashed>>

\* Nobody waits for this response any more.
ReplyLost(w) ==
    /\ caller[w] = None
    /\ Respond(w)
    /\ UNCHANGED <<clientVars, caller, faults, crashed>>

\* The connection is lost under a request that is being served.
ConnectionLost(f) ==
    /\ fpc[f] = "awaiting"
    /\ Fault
    /\ RequestThrows(f)
    /\ HangUp(f)
    /\ UNCHANGED <<engineVars, crashed>>

\* The request cannot be made, or the worker that served it has died.
RequestFails(f) ==
    /\ \A w \in Workers : caller[w] # f
    /\ RequestThrows(f)
    /\ UNCHANGED <<engineVars, netVars>>

ServerCrash(w) ==
    /\ Fault
    /\ WorkerCrash(w)
    /\ caller' = [caller EXCEPT ![w] = None]
    /\ UNCHANGED <<clientVars, crashed>>

Outage ==
    /\ Fault
    /\ GoOffline
    /\ UNCHANGED <<engineVars, caller, crashed>>

ClientDies ==
    /\ Fault
    /\ BrowserCrash
    /\ crashed' = TRUE
    /\ caller' = [w \in Workers |-> None]
    /\ UNCHANGED engineVars

----------------------------------------------------------------------------
ServerStep(w) ==
    /\ \E o \in Ops : ApplyOperation(w, o)
    /\ UNCHANGED <<clientVars, netVars>>

FlushStep(f) ==
    /\ \/ ReadQueue(f)
       \/ MarkSyncing(f)
       \/ \E o \in Ops : Record(f, o)
       \/ FinishFlush(f)
    /\ UNCHANGED <<engineVars, netVars>>

\* The 30-second interval of startAutoSync.
TimerFlush(f) ==
    /\ StartFlush(f, FALSE)
    /\ UNCHANGED <<engineVars, netVars>>

\* The online event, the Send button, the student form.
ForcedFlush(f) ==
    /\ StartFlush(f, TRUE)
    /\ UNCHANGED <<engineVars, netVars>>

UserStep ==
    /\ (\E o \in Ops : Enqueue(o)) \/ ClearSynced
    /\ UNCHANGED <<engineVars, netVars>>

LinkReturns == GoOnline /\ UNCHANGED <<engineVars, netVars>>

BackoffEnds == BackoffElapses /\ UNCHANGED <<engineVars, netVars>>

SyncNext ==
    \/ \E f \in Flushes, w \in Workers : Submit(f, w) \/ Reply_(f, w)
    \/ \E w \in Workers : ServerStep(w) \/ ReplyLost(w) \/ ServerCrash(w)
    \/ \E f \in Flushes : FlushStep(f) \/ TimerFlush(f) \/ ForcedFlush(f)
                           \/ ConnectionLost(f) \/ RequestFails(f)
    \/ UserStep
    \/ LinkReturns
    \/ BackoffEnds
    \/ Outage
    \/ ClientDies

(* Fairness.  A request being served is served to its end, and a flush that *)
(* was started runs on, unless a fault of the bounded kind ends it; the link *)
(* comes back, the backoff runs out, and the interval timer keeps calling    *)
(* flush.  The user, the staff and the faults are owed nothing.              *)
SyncFairness ==
    /\ \A w \in Workers : WF_vars(ServerStep(w)) /\ WF_vars(ReplyLost(w))
    /\ \A f \in Flushes :
          /\ WF_vars(FlushStep(f))
          /\ WF_vars(RequestFails(f))
          /\ SF_vars(\E w \in Workers : Submit(f, w))
          /\ WF_vars(\E w \in Workers : Reply_(f, w))
    /\ WF_vars(\E f \in Flushes : TimerFlush(f))
    /\ WF_vars(LinkReturns)
    /\ WF_vars(BackoffEnds)

SyncSpec == SyncInit /\ [][SyncNext]_vars /\ SyncFairness

----------------------------------------------------------------------------
(* Properties.                                                             *)

\* outbox.ts, "durable": until the server has a ledger row for an operation
\* the device keeps it, whatever is lost or dies on the way.
NothingLostOnTheWay ==
    \A o \in Ops : outbox[o] \in {"synced", "cleared"} => ledger[o] # "none"

\* "Per-operation results" (ARCHITECTURE section 7): a response that reaches a
\* flush has an outcome for each operation the flush sent, even when some of
\* them failed on the way, a worker died or another flush was cut off.
EveryOperationHasAnOutcome ==
    \A f \in Flushes : fpc[f] = "recording" =>
        \A o \in batch[f] : verdict[f][o] # "none"

\* "Operations are retried until acknowledged" (ARCHITECTURE section 7): as
\* long as the browser survives, every entry is answered in the end, through
\* outages, lost connections and worker crashes.
EveryEntryAnswered ==
    \A o \in Ops : outbox[o] = "pending" ~>
        (outbox[o] \in {"synced", "failed", "cleared"} \/ crashed)

\* outbox.ts, "never silently dropped": what the device marks as synced, and
\* lets the user clear, has been applied on the server; an entry the server held
\* or rejected stays with its error.
SavedMeansApplied ==
    \A o \in Ops : outbox[o] \in {"synced", "cleared"} => ledger[o] = "applied"
=============================================================================
