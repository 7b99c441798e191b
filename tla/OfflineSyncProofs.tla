------------------------- MODULE OfflineSyncProofs -------------------------
(***************************************************************************)
(* The outbox, the link and the engine together, for any number of         *)
(* operations, flushes, workers and faults.  Towards the server the        *)
(* composition takes only steps the engine knows, so everything            *)
(* SyncEngineProofs shows of the engine holds end to end; towards the      *)
(* device the argument follows one answer from the ledger through the      *)
(* worker's results and the flush's verdict into the store.                *)
(***************************************************************************)
EXTENDS OfflineSync, SyncEngineProofs

ClientType ==
    /\ outbox \in [Ops -> {"absent", "pending", "syncing", "failed", "synced", "cleared"}]
    /\ fpc \in [Flushes -> {"idle", "reading", "marking", "sending", "awaiting", "recording"}]
    /\ batch \in [Flushes -> SUBSET Ops]
    /\ verdict \in [Flushes -> [Ops -> Reply \cup {"none", "error"}]]
    /\ caller \in [Workers -> Flushes \cup {None}]

\* A worker that somebody waits for has, for every operation that was sent, either an
\* outcome or the operation still before it; a flush waits for one worker at a time.
WaitersAreServed ==
    \A w \in Workers, f \in Flushes : caller[w] = f =>
        /\ fpc[f] = "awaiting"
        /\ \A o \in batch[f] : o \in todo[w] \/ results[w][o] # "none"
        /\ \A v \in Workers : caller[v] = f => v = w

\* What a flush takes for success has a row in the ledger.
VerdictsAreBacked ==
    \A f \in Flushes, o \in Ops :
        verdict[f][o] \in {"applied", "duplicate"} => ledger[o] # "none"

LinkInv == /\ ClientType /\ WaitersAreServed /\ VerdictsAreBacked
           /\ EveryOperationHasAnOutcome /\ NothingLostOnTheWay

----------------------------------------------------------------------------
\* Towards the server every step of the composition is a step of the engine.
LEMMA EngineStep ==
    ASSUME ClientType, [SyncNext]_vars
    PROVE  [Next]_engineVars
  <1>1. ASSUME NEW f \in Flushes, NEW w \in Workers, Submit(f, w)
        PROVE  Next
    BY <1>1 DEF Submit, ClientType, Next
  <1>2. ASSUME NEW f \in Flushes, NEW w \in Workers, Reply_(f, w)
        PROVE  Next
    BY <1>2 DEF Reply_, Next
  <1>3. ASSUME NEW w \in Workers, ServerStep(w) \/ ReplyLost(w) \/ ServerCrash(w)
        PROVE  Next
    BY <1>3 DEF ServerStep, ReplyLost, ServerCrash, Next
  <1>4. ASSUME NEW f \in Flushes,
               FlushStep(f) \/ TimerFlush(f) \/ ForcedFlush(f) \/ ConnectionLost(f) \/ RequestFails(f)
        PROVE  UNCHANGED engineVars
    BY <1>4 DEF FlushStep, TimerFlush, ForcedFlush, ConnectionLost, RequestFails
  <1>5. CASE UserStep \/ LinkReturns \/ BackoffEnds \/ Outage \/ ClientDies
    BY <1>5 DEF UserStep, LinkReturns, BackoffEnds, Outage, ClientDies
  <1>6. CASE UNCHANGED vars
    BY <1>6 DEF vars
  <1> QED BY <1>1, <1>2, <1>3, <1>4, <1>5, <1>6 DEF SyncNext

\* No step takes a ledger row away.
LEMMA LedgerGrows ==
    ASSUME IInv, [Next]_engineVars, NEW o \in Ops, ledger[o] # "none"
    PROVE  ledger'[o] # "none"
  <1>1. ASSUME NEW w \in Workers, NEW p \in Ops, ApplyOperation(w, p)
        PROVE  ledger'[o] # "none"
    BY <1>1, LedgerStep DEF IInv, TypeOK
  <1> QED BY <1>1 DEF Next, engineVars, Receive, Respond, WorkerCrash, Resolve,
              LoadConflict, SaveResolution, OnlineWrite

\* An operation leaves a worker's list only with an outcome.
LEMMA WorkStep ==
    ASSUME IInv, NEW w \in Workers, NEW p \in Ops, ApplyOperation(w, p)
    PROVE  /\ \A v \in Workers \ {w} : todo'[v] = todo[v] /\ results'[v] = results[v]
           /\ \A o \in Ops : o \in todo[w] \/ results[w][o] # "none" =>
                                o \in todo'[w] \/ results'[w][o] # "none"
  <1> USE DEF IInv, TypeOK
  <1>1. ASSUME NEW r \in Reply, Conclude(w, p, r)
        PROVE  /\ \A v \in Workers \ {w} : todo'[v] = todo[v] /\ results'[v] = results[v]
               /\ \A o \in Ops : o \in todo[w] \/ results[w][o] # "none" =>
                                    o \in todo'[w] \/ results'[w][o] # "none"
    BY <1>1 DEF Conclude, Reply
  <1>2. CASE UNCHANGED <<todo, results>>
    BY <1>2
  <1>3. \/ UNCHANGED <<todo, results>>
        \/ \E r \in Reply : Conclude(w, p, r)
    BY DEF ApplyOperation, Refuse, Claim, Replay, HandlerCheck, HandlerCommit, HandlerFail,
           MarkRejected, RecordConflict, FileConflict, Goto, Reply
  <1> QED BY <1>1, <1>2, <1>3

----------------------------------------------------------------------------
\* The request and the response: what a flush waits for is what it sent, and what it
\* takes over is the worker's complete list of outcomes.
LEMMA RequestStep ==
    ASSUME IInv, LinkInv, NEW f \in Flushes, NEW w \in Workers, Submit(f, w) \/ Reply_(f, w)
    PROVE  LinkInv'
  <1> USE NoneAssumption DEF LinkInv, ClientType
  <1>0. IInv => TypeOK /\ RepliesAreTrue
    BY DEF IInv
  <1>1. CASE Submit(f, w)
    <2> USE <1>1 DEF Submit, Send, Receive
    <2>1. ClientType'
      OBVIOUS
    <2>2. \A v \in Workers : caller[v] # f
      BY DEF WaitersAreServed
    <2>3. WaitersAreServed'
      BY <2>2, <1>0 DEF WaitersAreServed, TypeOK
    <2> QED BY <2>1, <2>3 DEF VerdictsAreBacked, EveryOperationHasAnOutcome, NothingLostOnTheWay
  <1>2. CASE Reply_(f, w)
    <2> USE <1>2 DEF Reply_, Respond, Answer
    <2>0. results[w] \in [Ops -> Reply \cup {"none"}]
      BY <1>0 DEF TypeOK
    <2>1. ClientType'
      BY <2>0
    <2>2. WaitersAreServed'
      BY <1>0 DEF WaitersAreServed, TypeOK
    <2>3. VerdictsAreBacked'
      BY <1>0 DEF VerdictsAreBacked, RepliesAreTrue
    <2>4. EveryOperationHasAnOutcome'
      BY DEF WaitersAreServed, EveryOperationHasAnOutcome
    <2> QED BY <2>1, <2>2, <2>3, <2>4 DEF NothingLostOnTheWay
  <1> QED BY <1>1, <1>2

\* A worker's own steps keep their promise to whoever waits, and a worker that dies or
\* answers nobody owes nothing.
LEMMA WorkerStep ==
    ASSUME IInv, LinkInv, NEW w \in Workers, ServerStep(w) \/ ReplyLost(w) \/ ServerCrash(w)
    PROVE  LinkInv'
  <1> USE NoneAssumption DEF LinkInv
  <1>0. UNCHANGED clientVars
    BY DEF ServerStep, ReplyLost, ServerCrash
  <1>1. [Next]_engineVars
    BY DEF ServerStep, ReplyLost, ServerCrash, Next
  <1>2. \A o \in Ops : ledger[o] # "none" => ledger'[o] # "none"
    BY <1>1, LedgerGrows
  <1>3. ClientType'
    BY <1>0 DEF clientVars, ClientType, ServerStep, ReplyLost, ServerCrash, netVars
  <1>4. WaitersAreServed'
    <2> USE DEF WaitersAreServed, ClientType, IInv, TypeOK, clientVars
    <2>1. CASE ServerStep(w)
      <3>1. PICK p \in Ops : ApplyOperation(w, p)
        BY <2>1 DEF ServerStep
      <3>2. caller' = caller
        BY <2>1 DEF ServerStep, netVars
      <3> QED BY <1>0, <3>1, <3>2, WorkStep
    <2>2. CASE ReplyLost(w)
      BY <1>0, <2>2 DEF ReplyLost, Respond
    <2>3. CASE ServerCrash(w)
      BY <1>0, <2>3 DEF ServerCrash, WorkerCrash
    <2> QED BY <2>1, <2>2, <2>3
  <1> QED BY <1>0, <1>2, <1>3, <1>4
          DEF clientVars, VerdictsAreBacked, EveryOperationHasAnOutcome, NothingLostOnTheWay, ClientType

\* The steps of one flush: only Record touches the store with an answer, and it takes
\* success from a verdict the ledger backs.
LEMMA FlushSteps ==
    ASSUME LinkInv, NEW f \in Flushes,
           FlushStep(f) \/ TimerFlush(f) \/ ForcedFlush(f) \/ ConnectionLost(f) \/ RequestFails(f)
    PROVE  LinkInv'
  <1> USE NoneAssumption DEF LinkInv, ClientType, engineVars, netVars
  <1>1. ASSUME UNCHANGED <<engineVars, netVars>>, ReadQueue(f)
        PROVE  LinkInv'
    <2>1. Oldest(Queued) \subseteq Ops
      BY DEF Oldest, Queued
    <2>2. /\ fpc[f] = "reading"
          /\ \E state \in {"idle", "marking"} : fpc' = [fpc EXCEPT ![f] = state]
          /\ \E ops \in SUBSET Ops : batch' = [batch EXCEPT ![f] = ops]
          /\ UNCHANGED <<outbox, verdict>>
      BY <1>1, <2>1 DEF ReadQueue
    <2> QED BY <1>1, <2>2 DEF WaitersAreServed, VerdictsAreBacked,
                EveryOperationHasAnOutcome, NothingLostOnTheWay
  <1>2. ASSUME UNCHANGED <<engineVars, netVars>>, MarkSyncing(f)
        PROVE  LinkInv'
    BY <1>2 DEF MarkSyncing, Updated, WaitersAreServed, VerdictsAreBacked,
                EveryOperationHasAnOutcome, NothingLostOnTheWay
  <1>3. ASSUME UNCHANGED <<engineVars, netVars>>, NEW o \in Ops, Record(f, o)
        PROVE  LinkInv'
    <2> USE <1>3 DEF Record
    <2>1. /\ StatusFor(verdict[f][o]) \in {"synced", "failed", "pending"}
          /\ StatusFor(verdict[f][o]) = "synced" => verdict[f][o] \in {"applied", "duplicate"}
      BY DEF StatusFor, Reply
    <2>2. ClientType' /\ NothingLostOnTheWay'
      BY <2>1 DEF Updated, NothingLostOnTheWay, VerdictsAreBacked
    <2>3. \A g \in Flushes, p \in Ops : verdict'[g][p] \in {verdict[g][p], "none"}
      OBVIOUS
    <2>4. VerdictsAreBacked'
      BY <2>3 DEF VerdictsAreBacked
    <2>5. EveryOperationHasAnOutcome'
      <3>1. CASE verdict[f] = Threw
        BY <3>1 DEF EveryOperationHasAnOutcome
      <3>2. CASE verdict[f] # Threw
        BY <3>2 DEF EveryOperationHasAnOutcome
      <3> QED BY <3>1, <3>2
    <2>6. WaitersAreServed'
      BY DEF WaitersAreServed
    <2> QED BY <2>2, <2>4, <2>5, <2>6
  <1>4. ASSUME UNCHANGED <<engineVars, netVars>>, FinishFlush(f)
        PROVE  LinkInv'
    BY <1>4 DEF FinishFlush, NoVerdict, WaitersAreServed, VerdictsAreBacked,
                EveryOperationHasAnOutcome, NothingLostOnTheWay
  <1>5. ASSUME UNCHANGED <<engineVars, netVars>>, NEW force \in BOOLEAN, StartFlush(f, force)
        PROVE  LinkInv'
    BY <1>5 DEF StartFlush, WaitersAreServed, VerdictsAreBacked,
                EveryOperationHasAnOutcome, NothingLostOnTheWay
  <1>6. ASSUME UNCHANGED engineVars, RequestThrows(f),
               \A w \in Workers : caller'[w] \in {caller[w], None} \ {f},
               caller' \in [Workers -> Flushes \cup {None}]
        PROVE  LinkInv'
    BY <1>6 DEF RequestThrows, Threw, WaitersAreServed, VerdictsAreBacked,
                EveryOperationHasAnOutcome, NothingLostOnTheWay
  <1>7. CASE ConnectionLost(f)
    BY <1>6, <1>7 DEF ConnectionLost, HangUp
  <1>8. CASE RequestFails(f)
    BY <1>6, <1>8 DEF RequestFails
  <1> QED BY <1>1, <1>2, <1>3, <1>4, <1>5, <1>7, <1>8 DEF FlushStep, TimerFlush, ForcedFlush

\* The user, the link and the browser: nothing they do calls an entry synced, and a
\* browser that dies waits for nobody.
LEMMA DeviceStep ==
    ASSUME LinkInv, UserStep \/ LinkReturns \/ BackoffEnds \/ Outage \/ ClientDies
    PROVE  LinkInv'
  <1> USE NoneAssumption DEF LinkInv, ClientType, engineVars, netVars
  <1>1. CASE UserStep
    BY <1>1 DEF UserStep, Enqueue, ClearSynced, WaitersAreServed, VerdictsAreBacked,
                EveryOperationHasAnOutcome, NothingLostOnTheWay
  <1>2. CASE LinkReturns \/ BackoffEnds \/ Outage
    BY <1>2 DEF LinkReturns, GoOnline, BackoffEnds, BackoffElapses, Outage, GoOffline,
                WaitersAreServed, VerdictsAreBacked, EveryOperationHasAnOutcome, NothingLostOnTheWay
  <1>3. CASE ClientDies
    BY <1>3 DEF ClientDies, BrowserCrash, NoVerdict, WaitersAreServed, VerdictsAreBacked,
                EveryOperationHasAnOutcome, NothingLostOnTheWay
  <1> QED BY <1>1, <1>2, <1>3

\* The engine's invariant and the link's are inductive together.
LEMMA SyncStep == (IInv /\ LinkInv) /\ [SyncNext]_vars => (IInv /\ LinkInv)'
  <1> SUFFICES ASSUME IInv, LinkInv, [SyncNext]_vars PROVE IInv' /\ LinkInv'
    OBVIOUS
  <1>1. IInv'
    BY EngineStep, InvariantStep DEF LinkInv
  <1>2. CASE UNCHANGED vars
    <2>1. UNCHANGED <<outbox, fpc, batch, verdict, caller, todo, results, ledger>>
      BY <1>2 DEF vars, clientVars, engineVars, netVars
    <2> QED BY <1>1, <2>1 DEF LinkInv, ClientType, WaitersAreServed, VerdictsAreBacked,
                EveryOperationHasAnOutcome, NothingLostOnTheWay
  <1> QED BY <1>1, <1>2, RequestStep, WorkerStep, FlushSteps, DeviceStep DEF SyncNext

\* The engine and the link between device and server stay sound.
LEMMA SyncInvariant == SyncSpec => [](IInv /\ LinkInv)
  <1>1. SyncInit => IInv /\ LinkInv
    <2> SUFFICES ASSUME SyncInit PROVE IInv /\ LinkInv
      OBVIOUS
    <2>1. IInv
      BY InitIsSound DEF SyncInit
    <2> QED BY <2>1, NoneAssumption
            DEF SyncInit, ClientInit, NoVerdict, LinkInv, ClientType, WaitersAreServed,
                VerdictsAreBacked, EveryOperationHasAnOutcome, NothingLostOnTheWay
  <1> QED BY <1>1, SyncStep, PTL DEF SyncSpec

\* However requests, responses, workers and browsers are lost, an entry leaves the
\* device's queue as synced only when the server has a ledger row for it.
THEOREM NothingIsLost == SyncSpec => []NothingLostOnTheWay
  BY SyncInvariant, PTL DEF LinkInv

\* A response that reaches its flush answers every operation of the batch.
THEOREM ResponsesAreComplete == SyncSpec => []EveryOperationHasAnOutcome
  BY SyncInvariant, PTL DEF LinkInv

\* The device, the faults and the link do to the server only what the engine's own
\* specification allows.
THEOREM CompositionRunsTheEngine == SyncSpec => Spec
  <1>1. SyncInit => Init
    BY DEF SyncInit
  <1>2. IInv /\ LinkInv /\ [SyncNext]_vars => [Next]_engineVars
    BY EngineStep DEF LinkInv
  <1> QED BY <1>1, <1>2, SyncInvariant, PTL DEF SyncSpec, Spec

\* End to end, from the user's entry to the committed row: an operation takes effect at
\* most once, and what the server decides is what the idempotent ledger promises.
THEOREM EndToEndPromise == SyncSpec => []AtMostOnce /\ ImplementsPromise
  BY CompositionRunsTheEngine, AppliedAtMostOnce, EngineImplementsPromise, PTL
=============================================================================
