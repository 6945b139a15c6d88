----------------------- MODULE TaskContinuationProofs -----------------------
(***************************************************************************)
(* Proofs about TaskContinuation: what one ready signal may start, and what *)
(* a settlement or the end of a cancellation means, for every number of     *)
(* Jobs, crashes and lost answers.                                          *)
(***************************************************************************)
EXTENDS TaskContinuation, FiniteSetTheorems, TLAPS

----------------------------------------------------------------------------
(* The inductive invariant *)

Reserved == {j \in Jobs : entry[j] # "none"}

\* The types of the four parts of the state.
BackendTypes ==
    /\ ready \subseteq Jobs /\ bound \subseteq Jobs /\ cancelAt \subseteq Jobs
    /\ ledger \in Seq(Jobs)
    /\ IsFiniteSet(Reserved) /\ Len(ledger) = Cardinality(Reserved)
    /\ entry \in [Jobs -> Status]
    /\ attempts \in [Jobs -> 0..1]
    /\ root \in [Jobs -> {"none", "active", "closed"}] /\ liable \subseteq Jobs
    /\ revoked \in BOOLEAN /\ taskActive \in BOOLEAN

AdapterTypes ==
    /\ runtime \in BOOLEAN /\ running \in BOOLEAN /\ ended \in BOOLEAN
    /\ exited \in BOOLEAN /\ acked \in BOOLEAN
    /\ prompted \subseteq Jobs /\ cached \subseteq Jobs
    /\ shelved \subseteq Jobs /\ gaps \subseteq Gaps
    /\ current \in Jobs \cup {None}

GatewayTypes ==
    /\ session \in BOOLEAN /\ cancelling \in BOOLEAN /\ rested \in BOOLEAN
    /\ hold \in Jobs \cup {None} /\ marker \in Jobs \cup {None}
    /\ target \in Jobs \cup {None}
    /\ pc \in PC
    /\ handler \in {"idle", "target", "fence", "fencestop", "stop"}
    /\ handler # "idle" => target \in Jobs
    /\ snap \in [job : Jobs \cup {None}, status : Status, cancel : BOOLEAN, may : BOOLEAN]
    /\ pc # "idle" => snap.job \in Jobs

HistoryTypes ==
    /\ post \in [Jobs -> Post]
    /\ runs \in [Jobs -> Nat]
    /\ live \subseteq Jobs
    /\ lost \in BOOLEAN
    /\ faults \in 0..MaxFaults

\* The dispatch fence: a row has its attempt exactly when it may have crossed
\* the boundary to the adapter, and before that nothing was sent.
Fenced ==
    \A j \in Jobs :
        /\ attempts[j] = 0 <=> entry[j] \in {"none", "reserved", "cancelled"}
        /\ attempts[j] = 0 => runs[j] = 0 /\ post[j] = "none"

\* A prompt is sent once: the poller posts right behind the fence, and a
\* request on its way has not been served.
SentOnce ==
    /\ pc = "post" => /\ attempts[snap.job] = 1
                      /\ runs[snap.job] = 0 /\ post[snap.job] = "none"
    /\ \A j \in Jobs : post[j] = "sent" => runs[j] = 0

\* Nothing of j's run is left and none can start again.
Over(j) == j \notin live /\ runs[j] = 1 /\ root[j] = "closed"

\* The adapter's record of the current root is about a run that took place.
CurrentRoot ==
    /\ \A j \in live : runs[j] = 1
    /\ current # None => /\ runs[current] = 1
                         /\ acked => root[current] = "closed"
                         /\ exited => current \notin live

\* The adapter does not doubt j's run: it knows nothing of it, or has its
\* settled receipt.
Proven(j) ==
    /\ j \notin shelved
    /\ current = j => j \in cached /\ ~running /\ "unproven" \notin gaps

\* A settled receipt, a settlement under way and a settled row are about a run
\* that is over and proven, the row's also about one whose calls are accounted
\* for; a cancellation ends with a row that is over or never ran.
SettlementIsOver ==
    /\ \A j \in cached : Over(j) /\ Proven(j)
    /\ pc = "settle" => Over(snap.job) /\ Proven(snap.job)
    /\ \A j \in Jobs : entry[j] = "settled" => Over(j) /\ Proven(j) /\ j \notin liable
    /\ pc = "clear" => entry[snap.job] \in Settled

IInv ==
    /\ BackendTypes /\ AdapterTypes /\ GatewayTypes /\ HistoryTypes
    /\ Fenced
    /\ SentOnce
    /\ AtMostOneRun
    /\ CurrentRoot
    /\ SettlementIsOver

----------------------------------------------------------------------------
(* Types *)

\* The initial state has its types.
LEMMA InitTypes == Init => BackendTypes /\ AdapterTypes /\ GatewayTypes /\ HistoryTypes
<1> SUFFICES ASSUME Init
             PROVE  BackendTypes /\ AdapterTypes /\ GatewayTypes /\ HistoryTypes
  OBVIOUS
<1>1. BackendTypes
  <2>1. Reserved = {}
    BY DEF Init, Reserved
  <2>2. IsFiniteSet(Reserved) /\ Len(ledger) = Cardinality(Reserved)
    BY <2>1, FS_EmptySet DEF Init
  <2>3. revoked \in BOOLEAN /\ taskActive \in BOOLEAN
    BY DEF Init
  <2>4. ledger \in Seq(Jobs) /\ attempts \in [Jobs -> 0..1] /\ entry \in [Jobs -> Status]
    BY DEF Init, Status
  <2> QED BY <2>2, <2>3, <2>4 DEF Init, BackendTypes
<1>2. AdapterTypes
  BY DEF Init, AdapterTypes
<1>3. GatewayTypes
  BY DEF Init, GatewayTypes, PC, NoSnap, None, Status, Settled
<1>4. HistoryTypes
  <2>1. lost \in BOOLEAN
    BY DEF Init
  <2>2. faults \in 0..MaxFaults /\ runs \in [Jobs -> Nat]
    BY MaxFaultsAssumption DEF Init
  <2> QED BY <2>1, <2>2 DEF Init, HistoryTypes, Post
<1> QED BY <1>1, <1>2, <1>3, <1>4

\* The types of the four parts are the module's type invariant.
LEMMA TypesTogether == BackendTypes /\ AdapterTypes /\ GatewayTypes /\ HistoryTypes => TypeOK
<1> SUFFICES ASSUME BackendTypes, AdapterTypes, GatewayTypes, HistoryTypes PROVE TypeOK
  OBVIOUS
<1>1. Len(ledger) = Cardinality({j \in Jobs : entry[j] # "none"})
  BY DEF BackendTypes, Reserved
<1>2. /\ {revoked, taskActive, runtime, running, ended, exited, acked,
          session, cancelling, rested, lost} \subseteq BOOLEAN
      /\ {current, hold, marker, target} \subseteq Jobs \cup {None}
  BY DEF BackendTypes, AdapterTypes, GatewayTypes, HistoryTypes
<1> QED
  BY <1>1, <1>2 DEF TypeOK, BackendTypes, AdapterTypes, GatewayTypes, HistoryTypes

\* What the ledger's transactions do to one row.
LedgerMove(j) ==
    \/ entry'[j] = entry[j] /\ attempts'[j] = attempts[j]
    \/ entry[j] = "none" /\ entry'[j] = "reserved" /\ attempts'[j] = attempts[j]
    \/ entry[j] = "reserved" /\ entry'[j] = "cancelled" /\ attempts'[j] = attempts[j]
    \/ entry[j] = "reserved" /\ entry'[j] = "outcome_unknown" /\ attempts'[j] = 1
    \/ /\ entry[j] \in {"outcome_unknown", "accepted"} /\ entry'[j] = "accepted"
       /\ attempts'[j] = attempts[j]
    \/ /\ pc = "settle" /\ snap.job = j /\ MaySettle(j)
       /\ entry'[j] = "settled" /\ attempts'[j] = attempts[j]

\* A fence changes the rows it names, if they are still reserved.
LEMMA FenceMoves ==
    ASSUME BackendTypes, NEW S \in SUBSET Jobs, FenceRows(S), UNCHANGED attempts
    PROVE  /\ \A j \in Jobs : LedgerMove(j)
           /\ entry' \in [Jobs -> Status] /\ cancelAt' \subseteq Jobs
  BY DEF BackendTypes, FenceRows, LedgerMove, Status, Settled

\* Every step moves every row as LedgerMove says, and types stay types.
LEMMA EveryLedgerMove ==
    ASSUME BackendTypes, GatewayTypes, Next
    PROVE  /\ \A j \in Jobs : LedgerMove(j)
           /\ entry' \in [Jobs -> Status]
           /\ attempts' \in [Jobs -> 0..1]
           /\ cancelAt' \subseteq Jobs
<1> DEFINE Move == /\ \A j \in Jobs : LedgerMove(j)
                   /\ entry' \in [Jobs -> Status]
                   /\ attempts' \in [Jobs -> 0..1]
                   /\ cancelAt' \subseteq Jobs
<1>1. UNCHANGED <<entry, attempts, cancelAt>> => Move
  BY DEF BackendTypes, LedgerMove
<1>2. ASSUME NEW S \in SUBSET Jobs, FenceRows(S), UNCHANGED attempts PROVE Move
  BY <1>2, FenceMoves DEF BackendTypes
<1>3. CASE Reserve
  <2>1. snap.job \in Jobs
    BY <1>3 DEF Reserve, GatewayTypes
  <2>2. CASE runtime /\ Reservable(snap.job)
    BY <1>3, <2>1, <2>2 DEF Reserve, Reservable, LedgerMove, BackendTypes, Status, Settled
  <2>3. CASE ~(runtime /\ Reservable(snap.job))
    BY <1>1, <1>3, <2>3 DEF Reserve
  <2> QED BY <2>2, <2>3
<1>4. CASE ReadReceipt
  <2>1. snap.job \in Jobs /\ UNCHANGED cancelAt
    BY <1>4 DEF ReadReceipt, GatewayTypes
  <2>2. CASE UNCHANGED <<entry, attempts>>
    BY <1>1, <2>1, <2>2
  <2>3. CASE /\ entry[snap.job] = "reserved"
             /\ entry' = [entry EXCEPT ![snap.job] = "outcome_unknown"]
             /\ attempts' = [attempts EXCEPT ![snap.job] = 1]
    BY <2>1, <2>3 DEF LedgerMove, BackendTypes, Status, Settled
  <2> QED BY <1>4, <2>2, <2>3 DEF ReadReceipt
<1>5. CASE Dispatch
  <2>1. snap.job \in Jobs
    BY <1>5 DEF Dispatch, GatewayTypes
  <2>2. CASE MayDispatch(snap.job)
    BY <1>5, <2>1, <2>2 DEF Dispatch, MayDispatch, LedgerMove, BackendTypes, Status, Settled
  <2>3. CASE ~MayDispatch(snap.job) /\ revoked
    BY <1>2, <1>5, <2>3 DEF Dispatch
  <2>4. CASE ~MayDispatch(snap.job) /\ ~revoked
    BY <1>1, <1>5, <2>4 DEF Dispatch
  <2> QED BY <2>2, <2>3, <2>4
<1>6. CASE RecordAccepted
  <2>1. snap.job \in Jobs
    BY <1>6 DEF RecordAccepted, GatewayTypes
  <2>2. CASE MayAccept(snap.job)
    BY <1>6, <2>1, <2>2 DEF RecordAccepted, MayAccept, LedgerMove, BackendTypes, Status
  <2>3. CASE ~MayAccept(snap.job)
    BY <1>1, <1>6, <2>3 DEF RecordAccepted
  <2> QED BY <2>2, <2>3
<1>7. CASE RecordSettled
  <2>1. snap.job \in Jobs
    BY <1>7 DEF RecordSettled, GatewayTypes
  <2>2. CASE MaySettle(snap.job)
    BY <1>7, <2>1, <2>2 DEF RecordSettled, LedgerMove, BackendTypes, Status, Settled
  <2>3. CASE ~MaySettle(snap.job)
    BY <1>1, <1>7, <2>3 DEF RecordSettled
  <2> QED BY <2>2, <2>3
<1>8. CASE FenceTick
  <2>1. snap.job \in Jobs /\ FenceRows({snap.job}) /\ UNCHANGED attempts
    BY <1>8 DEF FenceTick, GatewayTypes
  <2> QED BY <1>2, <2>1
<1>9. CASE UserFence
  <2>1. target \in Jobs /\ UNCHANGED attempts
    BY <1>9 DEF UserFence, GatewayTypes
  <2> QED BY <1>1, <1>2, <1>9, <2>1 DEF UserFence
<1>10. CASE RevokePermission
  BY <1>2, <1>10 DEF RevokePermission
<1>11. CASE \/ Peek \/ PeekNothing \/ ReadClaim \/ HoldSession \/ PostPrompt \/ AwaitPrompt
            \/ ReleaseHold \/ CancelTick \/ ClearMarker
  BY <1>1, <1>11 DEF Peek, PeekNothing, ReadClaim, HoldSession, PostPrompt, AwaitPrompt,
     ReleaseHold, CancelTick, ClearMarker, backend
<1>12. CASE CancelTarget
  BY <1>1, <1>12 DEF CancelTarget
<1>13. ASSUME NEW j \in Jobs,
              \/ SignalReady(j) \/ SubmitPrompt(j) \/ PromptLost(j) \/ DomainCall(j)
              \/ CallAccounted(j) \/ DeliverTerminal(j) \/ UserCancel(j)
       PROVE Move
  BY <1>1, <1>13 DEF SignalReady, SubmitPrompt, PromptLost, DomainCall, CallAccounted,
     DeliverTerminal, CloseRoot, AckTerminal, UserCancel, backend
<1>14. CASE \/ TaskEnds \/ OrdinaryTurn \/ CloseGap \/ ProofLost \/ RunEnds \/ UserTarget
            \/ UserStop \/ IdleRelease \/ RestoreSession \/ GatewayCrash \/ AdapterCrash
  BY <1>1, <1>14 DEF TaskEnds, OrdinaryTurn, CloseGap, ProofLost, RunEnds, UserTarget, UserStop,
     IdleRelease, RestoreSession, GatewayCrash, AdapterCrash, backend
<1> QED
  BY <1>3, <1>4, <1>5, <1>6, <1>7, <1>8, <1>9, <1>10, <1>11, <1>12, <1>13, <1>14
  DEF Next, PollerStep

\* The ledger grows by the one row that is reserved, or no row is.
LEMMA LedgerGrows ==
    ASSUME BackendTypes, GatewayTypes, Next
    PROVE  \/ UNCHANGED ledger /\ Reserved' = Reserved
           \/ \E j \in Jobs \ Reserved :
                ledger' = Append(ledger, j) /\ Reserved' = Reserved \cup {j}
<1>1. CASE Reserve /\ runtime /\ Reservable(snap.job)
  BY <1>1 DEF Reserve, Reservable, Reserved, GatewayTypes, BackendTypes
<1>2. CASE ~(Reserve /\ runtime /\ Reservable(snap.job))
  <2>1. UNCHANGED ledger
    BY <1>2 DEF Next, PollerStep, Peek, PeekNothing, Reserve, ReadClaim, HoldSession,
       ReadReceipt, Dispatch, PostPrompt, AwaitPrompt, RecordAccepted, RecordSettled,
       ReleaseHold, CancelTick, FenceTick, CancelTarget, ClearMarker, SignalReady,
       SubmitPrompt, PromptLost, DomainCall, CallAccounted, DeliverTerminal, CloseRoot,
       AckTerminal, UserCancel, RevokePermission, TaskEnds, OrdinaryTurn, CloseGap, ProofLost,
       RunEnds, UserTarget, UserFence, UserStop, IdleRelease, RestoreSession, GatewayCrash,
       AdapterCrash, backend
  <2>2. \A j \in Jobs : ~(entry[j] = "none" /\ entry'[j] = "reserved")
    <3>1. CASE UNCHANGED entry
      BY <3>1
    <3>2. ASSUME NEW S, FenceRows(S)
          PROVE \A j \in Jobs : ~(entry[j] = "none" /\ entry'[j] = "reserved")
      BY <3>2 DEF FenceRows
    <3>3. CASE Reserve
      BY <1>2, <3>1, <3>3 DEF Reserve
    <3>4. CASE ReadReceipt \/ Dispatch \/ RecordAccepted \/ RecordSettled
      BY <3>2, <3>4 DEF ReadReceipt, Dispatch, RecordAccepted, RecordSettled, BackendTypes
    <3>5. CASE FenceTick \/ UserFence \/ RevokePermission
      BY <3>1, <3>2, <3>5 DEF FenceTick, UserFence, RevokePermission
    <3>6. CASE ~(\/ Reserve \/ ReadReceipt \/ Dispatch \/ RecordAccepted \/ RecordSettled
                 \/ FenceTick \/ UserFence \/ RevokePermission)
      <4>1. UNCHANGED entry
        BY <3>6 DEF Next, PollerStep, Peek, PeekNothing, ReadClaim, HoldSession, PostPrompt,
           AwaitPrompt, ReleaseHold, CancelTick, CancelTarget, ClearMarker, SignalReady,
           SubmitPrompt, PromptLost, DomainCall, CallAccounted, DeliverTerminal, CloseRoot,
           AckTerminal, UserCancel, TaskEnds, OrdinaryTurn, CloseGap, ProofLost, RunEnds,
           UserTarget, UserStop, IdleRelease, RestoreSession, GatewayCrash, AdapterCrash,
           backend
      <4> QED BY <3>1, <4>1
    <3> QED BY <3>3, <3>4, <3>5, <3>6
  <2>3. \A j \in Jobs : entry'[j] = "none" <=> entry[j] = "none"
    BY <2>2, EveryLedgerMove DEF LedgerMove, MaySettle
  <2> QED BY <2>1, <2>3 DEF Reserved
<1> QED BY <1>1, <1>2

\* The request of a Job, its runs, its processes and its root.
RunMove(j) ==
    \/ /\ post'[j] = post[j] /\ runs'[j] = runs[j]
       /\ j \in live' => j \in live
       /\ root'[j] \in {root[j], "closed"}
    \/ /\ pc = "post" /\ pc' # "post" /\ snap.job = j
       /\ post'[j] = "sent" /\ runs'[j] = runs[j]
       /\ j \in live' => j \in live
       /\ root'[j] = root[j]
    \/ /\ post[j] = "sent" /\ post'[j] \in {"none", "accepted"} /\ runs'[j] = runs[j]
       /\ j \in live' => j \in live
       /\ root'[j] = root[j]
    \/ /\ post[j] = "sent" /\ post'[j] = "accepted" /\ runs'[j] = runs[j] + 1
       /\ root'[j] = "active"

\* The adapter's current root and its settled receipts.
RootMove ==
    /\ \/ /\ current' = current
          /\ acked' => acked \/ current = None \/ root[current] = "closed"
          /\ exited' => exited \/ current = None \/ current \notin live'
       \/ current' = None
       \/ /\ current' \in Jobs /\ post[current'] = "sent" /\ ~acked' /\ ~exited'
          /\ runs'[current'] = runs[current'] + 1
    /\ \A j \in cached' \ cached : j = current /\ exited /\ acked

\* A receipt put away is the current root's.
LEMMA Remembered ==
    ASSUME AdapterTypes, NEW S \in SUBSET Jobs, Remember(S)
    PROVE  /\ cached' \subseteq Jobs
           /\ \A j \in cached' \ cached : j = current /\ exited /\ acked
  BY DEF AdapterTypes, Remember, Receipt

\* So is a doubt put away.
LEMMA Shelved ==
    ASSUME AdapterTypes, Shelve
    PROVE  /\ shelved' \subseteq Jobs
           /\ \A j \in shelved' \ shelved : Receipt(j) = "unknown"
  BY DEF AdapterTypes, Shelve

\* Every step moves every run as RunMove says and the adapter's record as
\* RootMove says, and types stay types.
LEMMA EveryRunMove ==
    ASSUME BackendTypes, AdapterTypes, GatewayTypes, HistoryTypes, Next
    PROVE  /\ \A j \in Jobs : RunMove(j)
           /\ RootMove
           /\ AdapterTypes'
           /\ root' \in [Jobs -> {"none", "active", "closed"}] /\ liable' \subseteq Jobs
           /\ post' \in [Jobs -> Post] /\ runs' \in [Jobs -> Nat] /\ live' \subseteq Jobs
<1> DEFINE Types == /\ AdapterTypes'
                    /\ root' \in [Jobs -> {"none", "active", "closed"}] /\ liable' \subseteq Jobs
                    /\ post' \in [Jobs -> Post] /\ runs' \in [Jobs -> Nat]
                    /\ live' \subseteq Jobs
           Move == (\A j \in Jobs : RunMove(j)) /\ RootMove /\ Types
<1>1. ASSUME UNCHANGED <<root, post, runs, live>> PROVE \A j \in Jobs : RunMove(j)
  BY <1>1 DEF RunMove
<1>2. ASSUME UNCHANGED <<current, acked, exited, cached>> PROVE RootMove
  BY <1>2 DEF RootMove
<1>3. ASSUME UNCHANGED <<roots, post, runs, live, adapter>> PROVE Move
  BY <1>1, <1>2, <1>3 DEF roots, adapter, receipts, AdapterTypes, BackendTypes, HistoryTypes
<1>4. ASSUME NEW j \in Jobs, SubmitPrompt(j) PROVE Move
  <2>1. /\ post[j] = "sent" /\ UNCHANGED liable
        /\ \/ post' = [post EXCEPT ![j] = "accepted"]
           \/ post' = [post EXCEPT ![j] = "none"] /\ UNCHANGED runs
    BY <1>4 DEF SubmitPrompt
  <2>2. CASE j \in prompted \/ ~RootAdmitted
    <3>1. UNCHANGED <<root, runs, live, adapter>>
      BY <1>4, <2>2 DEF SubmitPrompt
    <3>2. \A k \in Jobs : RunMove(k)
      BY <2>1, <3>1 DEF RunMove, HistoryTypes
    <3>3. RootMove /\ Types
      BY <1>2, <2>1, <3>1 DEF adapter, receipts, AdapterTypes, BackendTypes, HistoryTypes, Post
    <3> QED BY <3>2, <3>3
  <2>3. CASE j \notin prompted /\ RootAdmitted
    <3>1. /\ Remember(Jobs) /\ Shelve /\ StartRoot(j) /\ UNCHANGED runtime
          /\ post' = [post EXCEPT ![j] = "accepted"]
      BY <1>4, <2>3 DEF SubmitPrompt
    <3>2. \A k \in Jobs : RunMove(k)
      BY <2>1, <3>1 DEF StartRoot, RunMove, HistoryTypes, BackendTypes
    <3>3. RootMove
      BY <2>1, <3>1, Remembered DEF StartRoot, RootMove, HistoryTypes
    <3>4. AdapterTypes'
      BY <3>1, Remembered, Shelved DEF StartRoot, AdapterTypes
    <3>5. /\ root' \in [Jobs -> {"none", "active", "closed"}] /\ live' \subseteq Jobs
          /\ post' \in [Jobs -> Post] /\ runs' \in [Jobs -> Nat]
      BY <2>1, <3>1 DEF StartRoot, HistoryTypes, BackendTypes, Post
    <3> QED BY <2>1, <3>2, <3>3, <3>4, <3>5 DEF BackendTypes
  <2> QED BY <2>2, <2>3
<1>5. ASSUME NEW j \in Jobs, PromptLost(j) PROVE Move
  <2>1. \A k \in Jobs : RunMove(k)
    BY <1>5 DEF PromptLost, RunMove, HistoryTypes, backend, roots
  <2>2. RootMove /\ AdapterTypes'
    BY <1>2, <1>5 DEF PromptLost, adapter, receipts, AdapterTypes
  <2>3. /\ root' \in [Jobs -> {"none", "active", "closed"}] /\ live' \subseteq Jobs
        /\ post' \in [Jobs -> Post] /\ runs' \in [Jobs -> Nat] /\ liable' \subseteq Jobs
    BY <1>5 DEF PromptLost, HistoryTypes, BackendTypes, Post, backend, roots
  <2> QED BY <2>1, <2>2, <2>3
<1>6. ASSUME NEW j \in Jobs, CloseRoot(j), UNCHANGED <<post, runs>> PROVE Move
  <2>1. UNCHANGED <<adapter, liable, live>> /\ root' = [root EXCEPT ![j] = "closed"]
    BY <1>6 DEF CloseRoot
  <2>2. \A k \in Jobs : RunMove(k)
    BY <1>6, <2>1 DEF RunMove, BackendTypes
  <2> QED BY <1>2, <1>6, <2>1, <2>2
          DEF adapter, receipts, AdapterTypes, HistoryTypes, BackendTypes
<1>7. ASSUME NEW j \in Jobs, AckTerminal(j), UNCHANGED <<post, runs>> PROVE Move
  <2>1. /\ current = j /\ root[j] = "closed" /\ live' = live \ {j}
        /\ UNCHANGED <<root, liable, runtime, prompted, current, running, ended>>
        /\ UNCHANGED <<gaps, cached, shelved>>
        /\ acked' = TRUE /\ exited' = TRUE
    BY <1>7 DEF AckTerminal, Ackable, backend, roots, receipts
  <2>2. \A k \in Jobs : RunMove(k)
    BY <1>7, <2>1 DEF RunMove, BackendTypes
  <2>3. RootMove
    BY <2>1 DEF RootMove
  <2> QED BY <1>7, <2>1, <2>2, <2>3 DEF AdapterTypes, HistoryTypes, BackendTypes
<1>8. ASSUME NEW j \in Jobs, StopRoot(j), UNCHANGED <<roots, post, runs>> PROVE Move
  <2>1. /\ current = j /\ UNCHANGED <<runtime, prompted, current, acked, gaps, cached, shelved>>
        /\ ended' = TRUE /\ UNCHANGED <<root, liable>>
        /\ \/ UNCHANGED <<running, exited, live>>
           \/ running' = FALSE /\ exited' = TRUE /\ live' = live \ {j}
    BY <1>8 DEF StopRoot, Stoppable, receipts, roots
  <2>2. \A k \in Jobs : RunMove(k)
    BY <1>8, <2>1 DEF RunMove, BackendTypes
  <2>3. RootMove
    BY <2>1 DEF RootMove
  <2>4. AdapterTypes'
    BY <2>1 DEF AdapterTypes
  <2> QED BY <1>8, <2>1, <2>2, <2>3, <2>4 DEF HistoryTypes, BackendTypes
<1>9. CASE OrdinaryTurn
  <2>1. /\ Remember(Jobs) /\ Shelve /\ current' = None /\ gaps' = {}
        /\ UNCHANGED <<runtime, prompted, running, ended, exited, acked>>
        /\ UNCHANGED <<root, liable, post, runs, live>>
    BY <1>9 DEF OrdinaryTurn, backend, roots, history
  <2>2. RootMove /\ AdapterTypes'
    BY <2>1, Remembered, Shelved DEF RootMove, AdapterTypes
  <2> QED BY <1>1, <2>1, <2>2 DEF HistoryTypes, BackendTypes
<1>10. CASE RunEnds
  <2>1. /\ UNCHANGED <<runtime, prompted, current, acked, gaps, cached, shelved>>
        /\ UNCHANGED <<root, liable, post, runs>>
        /\ running' = FALSE /\ ended' = TRUE
        /\ \/ UNCHANGED <<exited, live>>
           \/ exited' = TRUE /\ live' = live \ {current}
    BY <1>10 DEF RunEnds, backend, roots, receipts
  <2>2. (\A k \in Jobs : RunMove(k)) /\ RootMove
    BY <2>1 DEF RunMove, RootMove
  <2> QED BY <2>1, <2>2 DEF AdapterTypes, HistoryTypes, BackendTypes
<1>11. CASE ReadReceipt
  <2>1. /\ snap.job \in Jobs /\ Remember({snap.job})
        /\ UNCHANGED <<runtime, prompted, current, running, ended, exited, acked, gaps, shelved>>
        /\ UNCHANGED <<root, liable, post, runs, live>>
    BY <1>11 DEF ReadReceipt, history, roots, GatewayTypes
  <2>2. RootMove /\ AdapterTypes'
    BY <2>1, Remembered DEF RootMove, AdapterTypes
  <2> QED BY <1>1, <2>1, <2>2 DEF HistoryTypes, BackendTypes
<1>12. CASE IdleRelease
  <2>1. /\ runtime' = FALSE /\ ForgetRuntime /\ UNCHANGED <<root, liable, post, runs, live>>
    BY <1>12 DEF IdleRelease, backend, roots, history
  <2> QED BY <1>1, <2>1 DEF ForgetRuntime, RootMove, AdapterTypes, HistoryTypes, BackendTypes
<1>13. CASE AdapterCrash
  <2>1. /\ runtime' = FALSE /\ ForgetRuntime /\ UNCHANGED <<root, liable, runs>>
        /\ live' \subseteq live
        /\ post' = [j \in Jobs |-> IF post[j] = "sent" THEN "none" ELSE post[j]]
    BY <1>13 DEF AdapterCrash, backend, roots
  <2>2. \A k \in Jobs : RunMove(k)
    BY <2>1 DEF RunMove
  <2>3. RootMove /\ AdapterTypes'
    BY <2>1 DEF ForgetRuntime, RootMove, AdapterTypes
  <2>4. post' \in [Jobs -> Post]
    BY <2>1 DEF HistoryTypes, Post
  <2> QED BY <2>1, <2>2, <2>3, <2>4 DEF HistoryTypes, BackendTypes
<1>14. CASE RestoreSession
  <2>1. /\ runtime' = TRUE
        /\ UNCHANGED <<prompted, current, running, ended, exited, acked, gaps, cached, shelved>>
        /\ UNCHANGED <<root, liable, post, runs, live>>
    BY <1>14 DEF RestoreSession, backend, roots, receipts, history
  <2> QED BY <1>1, <1>2, <2>1 DEF AdapterTypes, HistoryTypes, BackendTypes
<1>14a. ASSUME NEW j \in Jobs, DomainCall(j) PROVE Move
  <2>1. /\ gaps' \subseteq gaps \cup {"open"} /\ liable' \subseteq liable \cup {j}
        /\ UNCHANGED <<runtime, prompted, current, running, ended, exited, acked>>
        /\ UNCHANGED <<cached, shelved, root, post, runs, live>>
    BY <1>14a DEF DomainCall, receipts
  <2> QED BY <1>1, <1>2, <2>1 DEF Gaps, AdapterTypes, HistoryTypes, BackendTypes
<1>14b. ASSUME NEW j \in Jobs, CallAccounted(j) PROVE Move
  <2>1. UNCHANGED <<adapter, root, post, runs, live>> /\ liable' = liable \ {j}
    BY <1>14b DEF CallAccounted, history
  <2> QED BY <1>1, <1>2, <2>1 DEF adapter, receipts, AdapterTypes, HistoryTypes, BackendTypes
<1>14c. CASE CloseGap \/ ProofLost
  <2>1. /\ gaps' \subseteq gaps \cup {"unproven"}
        /\ UNCHANGED <<runtime, prompted, current, running, ended, exited, acked>>
        /\ UNCHANGED <<cached, shelved, root, liable, post, runs, live>>
    BY <1>14c DEF CloseGap, ProofLost, receipts, backend, roots, history
  <2> QED BY <1>1, <1>2, <2>1 DEF Gaps, AdapterTypes, HistoryTypes, BackendTypes
<1>15. CASE PostPrompt
  <2>1. /\ pc = "post" /\ pc' = "await" /\ post' = [post EXCEPT ![snap.job] = "sent"]
        /\ UNCHANGED <<root, liable, adapter, runs, live>> /\ snap.job \in Jobs
    BY <1>15 DEF PostPrompt, Goto, backend, roots, GatewayTypes
  <2>2. \A k \in Jobs : RunMove(k)
    BY <2>1 DEF RunMove, HistoryTypes
  <2>3. post' \in [Jobs -> Post]
    BY <2>1 DEF HistoryTypes, Post
  <2> QED BY <1>2, <2>1, <2>2, <2>3
          DEF adapter, receipts, AdapterTypes, HistoryTypes, BackendTypes
<1>16. CASE CancelTarget
  <2>1. snap.job \in Jobs /\ UNCHANGED <<post, runs>>
    BY <1>16 DEF CancelTarget, GatewayTypes
  <2>2. \/ CloseRoot(snap.job) \/ AckTerminal(snap.job)
        \/ StopRoot(snap.job) /\ UNCHANGED roots
        \/ UNCHANGED <<adapter, roots, live>>
    BY <1>16 DEF CancelTarget, roots
  <2> QED BY <1>3, <1>6, <1>7, <1>8, <2>1, <2>2
<1>17. ASSUME NEW j \in Jobs, DeliverTerminal(j) PROVE Move
  BY <1>6, <1>7, <1>17 DEF DeliverTerminal
<1>18. CASE UserStop
  <2>1. target \in Jobs /\ UNCHANGED <<roots, post, runs>>
    BY <1>18 DEF UserStop, GatewayTypes, backend
  <2>2. StopRoot(target) \/ UNCHANGED <<adapter, live>>
    BY <1>18 DEF UserStop
  <2> QED BY <1>3, <1>8, <2>1, <2>2
<1>19. CASE \/ Peek \/ PeekNothing \/ Reserve \/ ReadClaim \/ HoldSession \/ Dispatch
            \/ AwaitPrompt \/ RecordAccepted \/ RecordSettled \/ ReleaseHold \/ CancelTick
            \/ FenceTick \/ ClearMarker
  BY <1>3, <1>19 DEF Peek, PeekNothing, Reserve, ReadClaim, HoldSession, Dispatch,
     AwaitPrompt, RecordAccepted, RecordSettled, ReleaseHold, CancelTick, FenceTick,
     ClearMarker, backend, history
<1>20. ASSUME NEW j \in Jobs, SignalReady(j) \/ UserCancel(j) PROVE Move
  BY <1>3, <1>20 DEF SignalReady, UserCancel, backend, history
<1>21. CASE RevokePermission \/ TaskEnds \/ UserTarget \/ UserFence \/ GatewayCrash
  BY <1>3, <1>21 DEF RevokePermission, TaskEnds, UserTarget, UserFence, GatewayCrash,
     backend, history
<1> QED
  BY <1>4, <1>5, <1>9, <1>10, <1>11, <1>12, <1>13, <1>14, <1>15, <1>16, <1>17, <1>18,
     <1>19, <1>20, <1>21, <1>14a, <1>14b, <1>14c
  DEF Next, PollerStep

\* The evidence about the runs: Backend admits a call of an active root only, a
\* receipt that is put away is settled and a doubt an unknown one, and while no
\* prompt starts it a root does not run again, nor is it doubted once it ended.
ProofMove ==
    /\ \A j \in Jobs : j \in liable' => j \in liable \/ root[j] = "active"
    /\ \A j \in cached' \ cached : Receipt(j) = "settled"
    /\ \A j \in shelved' \ shelved : Receipt(j) = "unknown"
    /\ current' = current /\ current \in Jobs /\ post[current] # "sent" =>
         /\ running' => running
         /\ "unproven" \in gaps' => "unproven" \in gaps \/ running
         /\ cached \subseteq cached'

\* Every step moves the evidence as ProofMove says.
LEMMA EveryProofMove ==
    ASSUME AdapterTypes, GatewayTypes, Next
    PROVE  ProofMove
<1>1. ASSUME UNCHANGED <<liable, current, running, gaps, cached, shelved>> PROVE ProofMove
  BY <1>1 DEF ProofMove
<1>2. ASSUME NEW j, StopRoot(j) \/ UNCHANGED adapter, UNCHANGED liable PROVE ProofMove
  BY <1>2 DEF StopRoot, adapter, receipts, ProofMove
<1>3. ASSUME NEW j \in Jobs, CloseRoot(j) \/ AckTerminal(j) PROVE ProofMove
  BY <1>1, <1>3 DEF CloseRoot, AckTerminal, adapter, receipts, backend, roots
<1>4. ASSUME NEW j \in Jobs, SubmitPrompt(j) PROVE ProofMove
  BY <1>2, <1>4 DEF SubmitPrompt, StartRoot, Remember, Shelve, ProofMove
<1>5. ASSUME NEW j \in Jobs, DomainCall(j) PROVE ProofMove
  BY <1>5 DEF DomainCall, receipts, ProofMove
<1>6. ASSUME NEW j \in Jobs, CallAccounted(j) PROVE ProofMove
  BY <1>6 DEF CallAccounted, adapter, receipts, ProofMove
<1>7. CASE OrdinaryTurn
  <2>1. UNCHANGED liable /\ current' = None /\ Remember(Jobs) /\ Shelve
    BY <1>7 DEF OrdinaryTurn, backend, roots
  <2>2. None \notin Jobs
    BY JobsAssumption DEF None
  <2> QED BY <2>1, <2>2 DEF Remember, Shelve, ProofMove
<1>8. CASE CloseGap \/ ProofLost
  BY <1>8 DEF CloseGap, ProofLost, backend, roots, receipts, ProofMove
<1>9. CASE RunEnds
  BY <1>9 DEF RunEnds, backend, roots, receipts, ProofMove
<1>10. CASE ReadReceipt
  BY <1>10 DEF ReadReceipt, roots, Remember, ProofMove
<1>11. CASE IdleRelease \/ AdapterCrash
  <2>1. UNCHANGED liable /\ ForgetRuntime
    BY <1>11 DEF IdleRelease, AdapterCrash, backend, roots
  <2>2. None \notin Jobs
    BY JobsAssumption DEF None
  <2> QED BY <2>1, <2>2 DEF ForgetRuntime, ProofMove
<1>12. CASE RestoreSession
  BY <1>1, <1>12 DEF RestoreSession, backend, roots, receipts
<1>13. CASE CancelTarget
  <2>1. snap.job \in Jobs /\ UNCHANGED liable
    BY <1>13 DEF CancelTarget, GatewayTypes
  <2>2. \/ CloseRoot(snap.job) \/ AckTerminal(snap.job) \/ StopRoot(snap.job)
        \/ UNCHANGED adapter
    BY <1>13 DEF CancelTarget
  <2> QED BY <1>2, <1>3, <2>1, <2>2
<1>14. CASE UserStop
  BY <1>2, <1>14 DEF UserStop, backend, roots
<1>15. ASSUME NEW j \in Jobs, DeliverTerminal(j) PROVE ProofMove
  BY <1>3, <1>15 DEF DeliverTerminal
<1>16. CASE \/ Peek \/ PeekNothing \/ Reserve \/ ReadClaim \/ HoldSession \/ Dispatch
            \/ PostPrompt \/ AwaitPrompt \/ RecordAccepted \/ RecordSettled \/ ReleaseHold
            \/ CancelTick \/ FenceTick \/ ClearMarker
  BY <1>2, <1>16 DEF Peek, PeekNothing, Reserve, ReadClaim, HoldSession, Dispatch, PostPrompt,
     AwaitPrompt, RecordAccepted, RecordSettled, ReleaseHold, CancelTick, FenceTick,
     ClearMarker, backend, roots
<1>17. ASSUME NEW j \in Jobs, SignalReady(j) \/ PromptLost(j) \/ UserCancel(j) PROVE ProofMove
  BY <1>2, <1>17 DEF SignalReady, PromptLost, UserCancel, backend, roots
<1>18. CASE RevokePermission \/ TaskEnds \/ UserTarget \/ UserFence \/ GatewayCrash
  BY <1>2, <1>18 DEF RevokePermission, TaskEnds, UserTarget, UserFence, GatewayCrash,
     backend, roots
<1> QED
  BY <1>4, <1>5, <1>6, <1>7, <1>8, <1>9, <1>10, <1>11, <1>12, <1>13, <1>14, <1>15, <1>16,
     <1>17, <1>18
  DEF Next, PollerStep

\* What the poller may have read of a reservation.
Snaps == [job : Jobs \cup {None}, status : Status, cancel : BOOLEAN, may : BOOLEAN]

\* The intents that the Backend returns are about Jobs of the task.
LEMMA IntentTypes == BackendTypes => \A j \in Jobs : Intent(j) \in Snaps /\ Intent(j).job = j
  BY DEF BackendTypes, Intent, Snaps, Unresolved

\* What a peek may find.
LEMMA PeekedTypes ==
    ASSUME BackendTypes
    PROVE  \A s \in Peeked : s \in Snaps /\ s.job \in Jobs
<1>1. NoSnap \in Snaps
  BY DEF NoSnap, Snaps, None, Status
<1>2. \A j \in Jobs : [NoSnap EXCEPT !.job = j] \in Snaps /\ [NoSnap EXCEPT !.job = j].job = j
  BY DEF NoSnap, Snaps, None, Status
<1>3. CASE UnresolvedRows # {}
  <2>1. FirstUnresolved \subseteq Jobs
    BY DEF FirstUnresolved, UnresolvedRows, BackendTypes
  <2> QED BY <1>3, <2>1, IntentTypes DEF Peeked
<1>4. CASE UnresolvedRows = {} /\ \E j \in Jobs : Reservable(j)
  BY <1>2, <1>4 DEF Peeked
<1>5. CASE UnresolvedRows = {} /\ ~(\E j \in Jobs : Reservable(j))
  <2>1. ledger # <<>> => ledger[1] \in Jobs
    BY DEF BackendTypes
  <2> QED BY <1>5, <2>1, IntentTypes DEF Peeked
<1> QED BY <1>3, <1>4, <1>5

\* What a step may do to the poller: only a fence that is new takes it to the
\* prompt, only a settled receipt to the settlement, and only a row that is
\* settled or cancelled to the end of a cancellation.
PollerMove ==
    /\ pc' = "post" =>
         \/ pc = "post" /\ snap' = snap
         \/ pc = "dispatch" /\ snap' = snap /\ attempts[snap.job] = 0 /\ attempts'[snap.job] = 1
    /\ pc' = "settle" =>
         \/ pc = "settle" /\ snap' = snap
         \/ pc = "accept" /\ snap' = snap /\ snap.job \in cached
    /\ pc' = "clear" =>
         \/ pc = "clear" /\ snap' = snap
         \/ pc = "target" /\ snap' = snap /\ entry[snap.job] \in Settled

\* Every step moves the poller as PollerMove says and keeps its types.
LEMMA EveryPollerMove ==
    ASSUME BackendTypes, GatewayTypes, Next
    PROVE  /\ PollerMove
           /\ pc' \in PC /\ snap' \in Snaps /\ (pc' # "idle" => snap'.job \in Jobs)
<1> DEFINE Move == /\ PollerMove
                   /\ pc' \in PC /\ snap' \in Snaps /\ (pc' # "idle" => snap'.job \in Jobs)
<1>0. /\ pc \in PC /\ snap \in Snaps /\ (pc # "idle" => snap.job \in Jobs) /\ NoSnap \in Snaps
      /\ attempts \in [Jobs -> 0..1]
  BY DEF GatewayTypes, BackendTypes, Snaps, NoSnap, None, Status
<1>1. ASSUME UNCHANGED <<pc, snap>> PROVE Move
  BY <1>0, <1>1 DEF PollerMove
<1>2. ASSUME Return PROVE Move
  BY <1>0, <1>2 DEF Return, Goto, PollerMove, PC
<1>3. ASSUME NEW place \in PC \ {"post", "settle", "clear"}, NEW s \in Snaps, s.job \in Jobs,
             Goto(place, s)
      PROVE Move
  BY <1>0, <1>3 DEF Goto, PollerMove
<1>4. ASSUME NEW place \in PC \ {"post", "settle", "clear"}, NEW s \in Snaps, s.job \in Jobs,
             GotoOrLose(place, s)
      PROVE Move
  BY <1>2, <1>3, <1>4 DEF GotoOrLose
<1>5. CASE Peek
  <2>1. PICK s \in Peeked : Goto(IF s.status = "none" THEN "claim" ELSE "intent", s)
    BY <1>5 DEF Peek
  <2>2. s \in Snaps /\ s.job \in Jobs
    BY PeekedTypes
  <2> QED BY <1>3, <2>1, <2>2 DEF PC
<1>6. CASE Reserve
  BY <1>0, <1>2, <1>4, <1>6 DEF Reserve, PC
<1>7. CASE ReadClaim
  BY <1>0, <1>2, <1>3, <1>7, IntentTypes DEF ReadClaim, PC
<1>8. CASE HoldSession
  <2>1. (Goto("receipt", snap) \/ Return) /\ snap.job \in Jobs
    BY <1>0, <1>8 DEF HoldSession
  <2> QED BY <1>0, <1>2, <1>3, <2>1 DEF PC
<1>9. CASE ReadReceipt
  <2>1. /\ \/ Goto("dispatch", snap) \/ Goto("accept", snap) \/ Goto("finish", snap)
           \/ Return
        /\ snap.job \in Jobs
    BY <1>0, <1>9 DEF ReadReceipt
  <2> QED BY <1>0, <1>2, <1>3, <2>1 DEF PC
<1>10. CASE Dispatch
  <2>1. CASE MayDispatch(snap.job)
    <3>1. /\ pc = "dispatch" /\ snap.job \in Jobs
          /\ attempts[snap.job] = 0 /\ attempts'[snap.job] = 1
      BY <1>0, <1>10, <2>1 DEF Dispatch, MayDispatch
    <3>2. Goto("post", snap) \/ Return
      BY <1>10, <2>1 DEF Dispatch, GotoOrLose
    <3> QED BY <1>0, <1>2, <3>1, <3>2 DEF Goto, PollerMove, PC
  <2>2. CASE ~MayDispatch(snap.job)
    BY <1>2, <1>10, <2>2 DEF Dispatch
  <2> QED BY <2>1, <2>2
<1>11. CASE PostPrompt
  BY <1>0, <1>3, <1>11 DEF PostPrompt, PC
<1>12. CASE AwaitPrompt
  BY <1>0, <1>2, <1>3, <1>12 DEF AwaitPrompt, PC
<1>13. CASE RecordAccepted
  <2>1. /\ pc = "accept" /\ snap.job \in Jobs
        /\ \/ Goto("settle", snap) /\ snap.job \in cached
           \/ Goto("idle", snap) \/ Return
    BY <1>0, <1>13 DEF RecordAccepted, GotoOrLose
  <2> QED BY <1>0, <1>2, <1>3, <2>1 DEF Goto, PollerMove, PC
<1>14. CASE RecordSettled
  BY <1>0, <1>2, <1>4, <1>14 DEF RecordSettled, PC
<1>15. CASE ReleaseHold \/ ClearMarker
  BY <1>2, <1>15 DEF ReleaseHold, ClearMarker
<1>16. CASE CancelTick
  <2>1. [NoSnap EXCEPT !.job = marker] \in Snaps /\ [NoSnap EXCEPT !.job = marker].job = marker
    BY DEF NoSnap, Snaps, None, Status, GatewayTypes
  <2>2. marker \in Jobs
    BY <1>16 DEF CancelTick, GatewayTypes
  <2>3. Goto("fence", [NoSnap EXCEPT !.job = marker]) \/ Return \/ UNCHANGED <<pc, snap>>
    BY <1>16 DEF CancelTick
  <2> QED BY <1>1, <1>2, <1>3, <2>1, <2>2, <2>3 DEF PC
<1>17. CASE FenceTick
  BY <1>0, <1>4, <1>17 DEF FenceTick, PC
<1>18. CASE CancelTarget
  <2>1. /\ pc = "target" /\ snap.job \in Jobs
        /\ \/ Quiet(snap.job) /\ Goto("clear", snap)
           \/ Goto("receipt", Intent(snap.job)) \/ Return \/ UNCHANGED <<pc, snap>>
    BY <1>0, <1>18 DEF CancelTarget
  <2>2. CASE Quiet(snap.job) /\ Goto("clear", snap)
    BY <1>0, <2>1, <2>2 DEF Quiet, Settled, Goto, PollerMove, PC
  <2> QED BY <1>1, <1>2, <1>3, <2>1, <2>2, IntentTypes DEF PC
<1>19. CASE PeekNothing
  BY <1>1, <1>19 DEF PeekNothing
<1>20. ASSUME NEW j \in Jobs,
              \/ SignalReady(j) \/ SubmitPrompt(j) \/ PromptLost(j) \/ DomainCall(j)
              \/ CallAccounted(j) \/ DeliverTerminal(j) \/ UserCancel(j)
       PROVE Move
  BY <1>1, <1>20 DEF SignalReady, SubmitPrompt, PromptLost, DomainCall, CallAccounted,
     DeliverTerminal, UserCancel, gateway
<1>21. CASE \/ RevokePermission \/ TaskEnds \/ OrdinaryTurn \/ CloseGap \/ ProofLost
            \/ RunEnds \/ UserTarget \/ UserFence \/ UserStop \/ IdleRelease \/ RestoreSession
            \/ AdapterCrash
  BY <1>1, <1>21 DEF RevokePermission, TaskEnds, OrdinaryTurn, CloseGap, ProofLost, RunEnds,
     UserTarget, UserFence, UserStop, IdleRelease, RestoreSession, AdapterCrash, gateway
<1>22. CASE GatewayCrash
  BY <1>2, <1>22 DEF GatewayCrash
<1> QED
  BY <1>5, <1>6, <1>7, <1>8, <1>9, <1>10, <1>11, <1>12, <1>13, <1>14, <1>15, <1>16,
     <1>17, <1>18, <1>19, <1>20, <1>21, <1>22
  DEF Next, PollerStep

\* Every step keeps the ledger's types.
LEMMA NextBackendTypes ==
    ASSUME BackendTypes, AdapterTypes, GatewayTypes, HistoryTypes, Next
    PROVE  BackendTypes'
<1>1. /\ entry' \in [Jobs -> Status] /\ attempts' \in [Jobs -> 0..1] /\ cancelAt' \subseteq Jobs
      /\ root' \in [Jobs -> {"none", "active", "closed"}] /\ liable' \subseteq Jobs
  BY EveryLedgerMove, EveryRunMove
<1>2. /\ ledger' \in Seq(Jobs)
      /\ IsFiniteSet(Reserved') /\ Len(ledger') = Cardinality(Reserved')
  <2>1. CASE UNCHANGED ledger /\ Reserved' = Reserved
    BY <2>1 DEF BackendTypes
  <2>2. ASSUME NEW j \in Jobs \ Reserved,
               ledger' = Append(ledger, j), Reserved' = Reserved \cup {j}
        PROVE  /\ ledger' \in Seq(Jobs)
               /\ IsFiniteSet(Reserved') /\ Len(ledger') = Cardinality(Reserved')
    <3>1. IsFiniteSet(Reserved) /\ ledger \in Seq(Jobs) /\ Len(ledger) = Cardinality(Reserved)
      BY DEF BackendTypes
    <3>2. /\ IsFiniteSet(Reserved \cup {j})
          /\ Cardinality(Reserved \cup {j}) = Cardinality(Reserved) + 1
      BY <2>2, <3>1, FS_AddElement
    <3> QED BY <2>2, <3>1, <3>2
  <2> QED BY <2>1, <2>2, LedgerGrows
<1>3. ready' \subseteq Jobs /\ bound' \subseteq Jobs
  <2>1. CASE UNCHANGED <<ready, bound>>
    BY <2>1 DEF BackendTypes
  <2>2. ASSUME NEW j \in Jobs, SignalReady(j) PROVE ready' \subseteq Jobs /\ bound' \subseteq Jobs
    BY <2>2 DEF SignalReady, BackendTypes
  <2>3. CASE RecordAccepted
    BY <2>3 DEF RecordAccepted, BackendTypes, GatewayTypes
  <2>4. CASE ~RecordAccepted /\ \A j \in Jobs : ~SignalReady(j)
    <3>1. UNCHANGED <<ready, bound>>
      BY <2>4 DEF Next, PollerStep, Peek, PeekNothing, Reserve, ReadClaim, HoldSession,
         ReadReceipt, Dispatch, PostPrompt, AwaitPrompt, RecordSettled, ReleaseHold,
         CancelTick, FenceTick, CancelTarget, ClearMarker, SubmitPrompt, PromptLost, DomainCall,
         CallAccounted, DeliverTerminal, CloseRoot, AckTerminal, UserCancel, RevokePermission,
         TaskEnds, OrdinaryTurn, CloseGap, ProofLost, RunEnds, UserTarget, UserFence, UserStop,
         IdleRelease, RestoreSession, GatewayCrash, AdapterCrash, backend
    <3> QED BY <2>1, <3>1
  <2> QED BY <2>2, <2>3, <2>4
<1>4. revoked' \in BOOLEAN /\ taskActive' \in BOOLEAN
  <2>1. revoked' \in {revoked, TRUE} /\ taskActive' \in {taskActive, FALSE}
    BY DEF Next, PollerStep, Peek, PeekNothing, Reserve, ReadClaim, HoldSession,
       ReadReceipt, Dispatch, PostPrompt, AwaitPrompt, RecordAccepted, RecordSettled,
       ReleaseHold, CancelTick, FenceTick, CancelTarget, ClearMarker, SignalReady,
       SubmitPrompt, PromptLost, DomainCall, CallAccounted, DeliverTerminal, CloseRoot,
       AckTerminal, UserCancel, RevokePermission, TaskEnds, OrdinaryTurn, CloseGap, ProofLost,
       RunEnds, UserTarget, UserFence, UserStop, IdleRelease, RestoreSession, GatewayCrash,
       AdapterCrash, backend
  <2> QED BY <2>1 DEF BackendTypes
<1> QED BY <1>1, <1>2, <1>3, <1>4 DEF BackendTypes

\* The session, its hold and its stop, the marker and the cancel request.
HandlerTypes ==
    /\ session \in BOOLEAN /\ cancelling \in BOOLEAN /\ rested \in BOOLEAN
    /\ hold \in Jobs \cup {None} /\ marker \in Jobs \cup {None}
    /\ target \in Jobs \cup {None}
    /\ handler \in {"idle", "target", "fence", "fencestop", "stop"}
    /\ handler # "idle" => target \in Jobs

\* Every step keeps the Gateway's types.
LEMMA NextGatewayTypes ==
    ASSUME BackendTypes, AdapterTypes, GatewayTypes, HistoryTypes, Next
    PROVE  GatewayTypes'
<1>1. pc' \in PC /\ snap' \in Snaps /\ (pc' # "idle" => snap'.job \in Jobs)
  BY EveryPollerMove
<1>2. HandlerTypes /\ (pc # "idle" => snap.job \in Jobs)
  BY DEF GatewayTypes, HandlerTypes
<1>3. HandlerTypes'
  <2>1. ASSUME UNCHANGED <<session, hold, cancelling, marker, rested, handler, target>>
        PROVE  HandlerTypes'
    BY <1>2, <2>1 DEF HandlerTypes
  <2>2. CASE \/ Peek \/ ReadClaim \/ Dispatch \/ PostPrompt \/ AwaitPrompt
             \/ RecordAccepted \/ RecordSettled \/ FenceTick
    BY <2>1, <2>2 DEF Peek, ReadClaim, Dispatch, PostPrompt, AwaitPrompt, RecordAccepted,
       RecordSettled, FenceTick
  <2>3. CASE PeekNothing
    BY <1>2, <2>3 DEF PeekNothing, HandlerTypes
  <2>4. CASE Reserve
    <3>1. /\ UNCHANGED <<hold, cancelling, marker, handler, target>>
          /\ session' \in BOOLEAN /\ rested' \in BOOLEAN
      BY <1>2, <2>4 DEF Reserve, Attach, HandlerTypes
    <3> QED BY <1>2, <3>1 DEF HandlerTypes
  <2>5. CASE HoldSession
    <3>1. /\ UNCHANGED <<handler, target>> /\ snap.job \in Jobs
          /\ marker' \in {marker, snap.job}
          /\ \/ UNCHANGED <<hold, cancelling>>
             \/ \E stopped \in BOOLEAN :
                  hold' = snap.job /\ cancelling' = (cancelling \/ stopped)
          /\ Attach \/ (rested' = session /\ UNCHANGED session)
      BY <1>2, <2>5 DEF HoldSession
    <3>2. session' \in BOOLEAN /\ rested' \in BOOLEAN /\ cancelling' \in BOOLEAN
      BY <1>2, <3>1 DEF Attach, HandlerTypes
    <3>3. hold' \in Jobs \cup {None} /\ marker' \in Jobs \cup {None}
      BY <1>2, <3>1 DEF HandlerTypes
    <3> QED BY <1>2, <3>1, <3>2, <3>3 DEF HandlerTypes
  <2>6. ASSUME NEW j, Finish(j) \/ UNCHANGED <<hold, cancelling>>,
               UNCHANGED <<session, handler, target>>,
               rested' \in BOOLEAN, marker' \in {marker, None}
        PROVE  HandlerTypes'
    BY <1>2, <2>6 DEF Finish, HandlerTypes
  <2>7. CASE ReadReceipt
    BY <2>6, <2>7 DEF ReadReceipt
  <2>8. CASE ReleaseHold \/ CancelTarget
    <3>1. rested \in BOOLEAN
      BY <1>2 DEF HandlerTypes
    <3> QED BY <2>6, <2>8, <3>1 DEF ReleaseHold, CancelTarget
  <2>9. CASE ClearMarker
    <3>1. rested \in BOOLEAN
      BY <1>2 DEF HandlerTypes
    <3> QED BY <2>6, <2>9, <3>1 DEF ClearMarker
  <2>10. CASE CancelTick
    <3>1. /\ UNCHANGED <<marker, handler, target>>
          /\ session' \in BOOLEAN /\ rested' \in BOOLEAN
      BY <1>2, <2>10 DEF CancelTick, Attach, HandlerTypes
    <3>2. (hold' = marker /\ cancelling' = TRUE) \/ UNCHANGED <<hold, cancelling>>
      BY <2>10 DEF CancelTick
    <3> QED BY <1>2, <3>1, <3>2 DEF HandlerTypes
  <2>11. ASSUME NEW j \in Jobs,
                \/ SignalReady(j) \/ SubmitPrompt(j) \/ PromptLost(j) \/ DomainCall(j)
                \/ CallAccounted(j) \/ DeliverTerminal(j)
         PROVE  HandlerTypes'
    BY <2>1, <2>11 DEF SignalReady, SubmitPrompt, PromptLost, DomainCall, CallAccounted,
       DeliverTerminal, gateway
  <2>12. ASSUME NEW j \in Jobs, UserCancel(j) PROVE HandlerTypes'
    BY <1>2, <2>12 DEF UserCancel, HandlerTypes
  <2>13. CASE UserTarget
    BY <1>2, <2>13 DEF UserTarget, HandlerTypes
  <2>14. CASE UserFence \/ UserStop
    BY <1>2, <2>14 DEF UserFence, UserStop, HandlerTypes
  <2>15. CASE \/ RevokePermission \/ TaskEnds \/ OrdinaryTurn \/ CloseGap \/ ProofLost
              \/ RunEnds \/ AdapterCrash
    BY <2>1, <2>15 DEF RevokePermission, TaskEnds, OrdinaryTurn, CloseGap, ProofLost, RunEnds,
       AdapterCrash, gateway
  <2>16. CASE IdleRelease
    BY <1>2, <2>16 DEF IdleRelease, HandlerTypes
  <2>17. CASE RestoreSession \/ GatewayCrash
    BY <1>2, <2>17 DEF RestoreSession, GatewayCrash, HandlerTypes
  <2> QED
    BY <2>2, <2>3, <2>4, <2>5, <2>7, <2>8, <2>9, <2>10, <2>11, <2>12, <2>13, <2>14, <2>15,
       <2>16, <2>17
    DEF Next, PollerStep
<1> QED BY <1>1, <1>3 DEF GatewayTypes, HandlerTypes, Snaps

\* Every step keeps the types of the requests, the runs and the faults.
LEMMA NextHistoryTypes ==
    ASSUME BackendTypes, AdapterTypes, GatewayTypes, HistoryTypes, Next
    PROVE  HistoryTypes'
<1>1. post' \in [Jobs -> Post] /\ runs' \in [Jobs -> Nat] /\ live' \subseteq Jobs
  BY EveryRunMove
<1>2. lost' \in {lost, TRUE}
  BY DEF Next, PollerStep, Peek, PeekNothing, Reserve, ReadClaim, HoldSession,
     ReadReceipt, Dispatch, PostPrompt, AwaitPrompt, RecordAccepted, RecordSettled,
     ReleaseHold, CancelTick, FenceTick, CancelTarget, ClearMarker, SignalReady,
     SubmitPrompt, PromptLost, DomainCall, CallAccounted, DeliverTerminal, UserCancel,
     RevokePermission, TaskEnds, OrdinaryTurn, CloseGap, ProofLost, RunEnds, UserTarget,
     UserFence, UserStop, IdleRelease, RestoreSession, GatewayCrash, AdapterCrash, history
<1>3. Fault \/ NoFault
  BY DEF Next, PollerStep, Peek, PeekNothing, Reserve, ReadClaim, HoldSession,
     ReadReceipt, Dispatch, PostPrompt, AwaitPrompt, RecordAccepted, RecordSettled,
     ReleaseHold, CancelTick, FenceTick, CancelTarget, ClearMarker, SignalReady,
     SubmitPrompt, PromptLost, DomainCall, CallAccounted, DeliverTerminal, UserCancel, GotoOrLose,
     RevokePermission, TaskEnds, OrdinaryTurn, CloseGap, ProofLost, RunEnds, UserTarget,
     UserFence, UserStop, IdleRelease, RestoreSession, GatewayCrash, AdapterCrash, history,
     NoFault
<1>4. faults' \in 0..MaxFaults
  BY <1>3, MaxFaultsAssumption DEF Fault, NoFault, HistoryTypes
<1>5. lost' \in BOOLEAN
  BY <1>2 DEF HistoryTypes
<1> QED BY <1>1, <1>4, <1>5 DEF HistoryTypes

----------------------------------------------------------------------------
(* The inductive invariant is inductive *)

\* A run that is over stays so: the only request that could start it again
\* would be one for a Job without a run.
LEMMA OverStays ==
    ASSUME IInv, Next, NEW j \in Jobs, Over(j)
    PROVE  Over(j)'
<1>1. RunMove(j)
  BY EveryRunMove DEF IInv
<1>2. post[j] # "sent"
  BY DEF IInv, SentOnce, Over
<1>3. root'[j] \in {root[j], "closed"} /\ runs'[j] = runs[j] /\ (j \in live' => j \in live)
  BY <1>1, <1>2 DEF RunMove
<1> QED BY <1>3 DEF Over

\* A run that is over and proven is never doubted again.
LEMMA ProvenStays ==
    ASSUME IInv, Next, NEW j \in Jobs, Over(j), Proven(j)
    PROVE  Proven(j)'
<1>1. ProofMove /\ RootMove
  BY EveryProofMove, EveryRunMove DEF IInv
<1>2. post[j] # "sent" /\ runs[j] = 1
  BY DEF IInv, SentOnce, Over
<1>3. j \notin shelved'
  <2>1. Receipt(j) # "unknown"
    BY DEF Proven, Receipt
  <2> QED BY <1>1, <2>1 DEF ProofMove, Proven
<1>4. ASSUME current' = j PROVE j \in cached' /\ ~running' /\ "unproven" \notin gaps'
  <2>1. j # None
    BY JobsAssumption DEF None
  <2>2. current = j
    BY <1>1, <1>2, <1>4, <2>1 DEF RootMove
  <2> QED BY <1>1, <1>2, <1>4, <2>2 DEF ProofMove, Proven
<1> QED BY <1>3, <1>4 DEF Proven

\* Every step keeps the invariant.
LEMMA NextIInv == IInv /\ Next => IInv'
<1> SUFFICES ASSUME IInv, Next PROVE IInv'
  OBVIOUS
<1>1. BackendTypes' /\ AdapterTypes' /\ GatewayTypes' /\ HistoryTypes'
  BY NextBackendTypes, NextGatewayTypes, NextHistoryTypes, EveryRunMove DEF IInv
<1>2. \A j \in Jobs : /\ LedgerMove(j) /\ RunMove(j)
                      /\ attempts[j] \in 0..1 /\ attempts'[j] \in 0..1
                      /\ runs[j] \in Nat /\ post[j] \in Post
  BY <1>1, EveryLedgerMove, EveryRunMove DEF IInv, BackendTypes, HistoryTypes
<1>3. RootMove /\ PollerMove
  BY EveryRunMove, EveryPollerMove DEF IInv
<1>3a. ProofMove
  BY EveryProofMove DEF IInv
<1>4. \A j \in Jobs : attempts[j] = 0 =>
         runs[j] = 0 /\ post[j] = "none" /\ ~(pc = "post" /\ snap.job = j)
  BY DEF IInv, Fenced, SentOnce
<1>5. Fenced'
  <2> SUFFICES ASSUME NEW j \in Jobs
               PROVE  /\ attempts'[j] = 0 <=> entry'[j] \in {"none", "reserved", "cancelled"}
                      /\ attempts'[j] = 0 => runs'[j] = 0 /\ post'[j] = "none"
    BY DEF Fenced
  <2>1. attempts'[j] = 0 <=> entry'[j] \in {"none", "reserved", "cancelled"}
    BY <1>2 DEF IInv, Fenced, LedgerMove, MaySettle
  <2>2. attempts'[j] = 0 => attempts[j] = 0
    BY <1>2 DEF LedgerMove
  <2>3. attempts[j] = 0 => runs'[j] = 0 /\ post'[j] = "none"
    BY <1>2, <1>4 DEF RunMove
  <2> QED BY <2>1, <2>2, <2>3
<1>6. SentOnce'
  <2>1. ASSUME pc' = "post"
        PROVE  /\ attempts'[snap'.job] = 1
               /\ runs'[snap'.job] = 0 /\ post'[snap'.job] = "none"
    <3>1. snap.job \in Jobs /\ snap' = snap
      BY <1>3, <2>1 DEF PollerMove, IInv, GatewayTypes
    <3>2. runs[snap.job] = 0 /\ post[snap.job] = "none"
      BY <1>3, <1>4, <2>1, <3>1 DEF PollerMove, IInv, SentOnce
    <3>3. attempts'[snap.job] = 1
      BY <1>2, <1>3, <2>1, <3>1 DEF PollerMove, LedgerMove, IInv, SentOnce
    <3>4. runs'[snap.job] = 0 /\ post'[snap.job] = "none"
      BY <1>2, <2>1, <3>1, <3>2 DEF RunMove
    <3> QED BY <3>1, <3>3, <3>4
  <2>2. ASSUME NEW j \in Jobs, post'[j] = "sent" PROVE runs'[j] = 0
    <3>1. RunMove(j)
      BY <1>2
    <3> QED BY <2>2, <3>1 DEF RunMove, IInv, SentOnce
  <2> QED BY <2>1, <2>2 DEF SentOnce
<1>7. AtMostOneRun'
  <2> SUFFICES ASSUME NEW j \in Jobs PROVE runs'[j] <= 1
    BY DEF AtMostOneRun
  <2>1. RunMove(j) /\ runs[j] <= 1
    BY <1>2 DEF IInv, AtMostOneRun
  <2> QED BY <1>2, <2>1 DEF RunMove, IInv, SentOnce
<1>8. CurrentRoot'
  <2>1. \A j \in live' : runs'[j] = 1
    <3> SUFFICES ASSUME NEW j \in live' PROVE runs'[j] = 1
      OBVIOUS
    <3>1. j \in Jobs
      BY <1>1 DEF HistoryTypes
    <3>2. RunMove(j)
      BY <1>2, <3>1
    <3>3. j \in live => runs[j] = 1
      BY DEF IInv, CurrentRoot
    <3> QED BY <1>2, <3>1, <3>2, <3>3 DEF RunMove, IInv, SentOnce
  <2>2. ASSUME current' # None
        PROVE  /\ runs'[current'] = 1
               /\ acked' => root'[current'] = "closed"
               /\ exited' => current' \notin live'
    <3>1. current' \in Jobs
      BY <1>1, <2>2 DEF AdapterTypes
    <3>2. CASE current' = current
      <4>1. /\ runs[current] = 1 /\ (acked => root[current] = "closed")
            /\ exited => current \notin live
        BY <2>2, <3>2 DEF IInv, CurrentRoot
      <4>2. post[current] # "sent" /\ RunMove(current)
        BY <1>2, <3>1, <3>2, <4>1 DEF IInv, SentOnce
      <4>3. /\ runs'[current] = 1
            /\ root[current] = "closed" => root'[current] = "closed"
            /\ current \notin live => current \notin live'
        BY <4>1, <4>2 DEF RunMove
      <4> QED BY <1>3, <2>2, <3>2, <4>1, <4>2, <4>3 DEF RootMove
    <3>3. CASE current' # current
      <4>1. /\ post[current'] = "sent" /\ ~acked' /\ ~exited'
            /\ runs'[current'] = runs[current'] + 1
        BY <1>3, <2>2, <3>3 DEF RootMove
      <4> QED BY <3>1, <4>1 DEF IInv, SentOnce
    <3> QED BY <3>2, <3>3
  <2> QED BY <2>1, <2>2 DEF CurrentRoot
<1>9. SettlementIsOver'
  <2> DEFINE Sure(j) == Over(j) /\ Proven(j)
  <2>0. ASSUME NEW j \in Jobs, Sure(j) PROVE Over(j)' /\ Proven(j)'
    BY <2>0, OverStays, ProvenStays
  <2>1. ASSUME NEW j \in cached' PROVE Over(j)' /\ Proven(j)'
    <3>1. j \in Jobs
      BY <1>1 DEF AdapterTypes
    <3>2. CASE j \in cached
      BY <2>0, <3>1, <3>2 DEF IInv, SettlementIsOver
    <3>3. CASE j \notin cached
      <4>1. j = current /\ exited /\ acked /\ Receipt(j) = "settled"
        BY <1>3, <1>3a, <2>1, <3>3 DEF RootMove, ProofMove
      <4>2. current # None
        BY <3>1, <4>1, JobsAssumption DEF None
      <4>3. Over(j)
        BY <4>1, <4>2 DEF IInv, CurrentRoot, Over
      <4>4. j \notin shelved /\ ~running /\ gaps = {}
        BY <3>3, <4>1 DEF Receipt
      <4>5. Over(j)'
        BY <3>1, <4>3, OverStays
      <4>6. post[j] # "sent"
        BY <3>1, <4>3 DEF IInv, SentOnce, Over
      <4>7. Proven(j)'
        <5>1. j \notin shelved'
          BY <1>3a, <4>1, <4>4 DEF ProofMove
        <5>2. ASSUME current' = j PROVE ~running' /\ "unproven" \notin gaps'
          BY <1>3a, <3>1, <4>1, <4>4, <4>6, <5>2 DEF ProofMove
        <5> QED BY <2>1, <5>1, <5>2 DEF Proven
      <4> QED BY <4>5, <4>7
    <3> QED BY <3>2, <3>3
  <2>2. ASSUME pc' = "settle" PROVE Over(snap.job)' /\ Proven(snap.job)'
    <3>1. snap' = snap /\ snap.job \in Jobs
      BY <1>3, <2>2 DEF PollerMove, IInv, GatewayTypes
    <3>2. Sure(snap.job)
      BY <1>3, <2>2, <3>1 DEF PollerMove, IInv, SettlementIsOver
    <3>3. \A j \in Jobs : Sure(j) => Over(j)' /\ Proven(j)'
      BY <2>0
    <3> HIDE DEF Sure
    <3> QED BY <3>1, <3>2, <3>3 DEF Over, Proven
  <2>3. ASSUME NEW j \in Jobs, entry'[j] = "settled"
        PROVE  Over(j)' /\ Proven(j)' /\ j \notin liable'
    <3>1. Sure(j) /\ j \notin liable
      BY <1>2, <2>3 DEF LedgerMove, MaySettle, TerminalSafe, IInv, SettlementIsOver
    <3>2. j \notin liable'
      BY <1>3a, <3>1 DEF ProofMove, Over
    <3> QED BY <2>0, <3>1, <3>2
  <2>4. ASSUME pc' = "clear" PROVE entry'[snap'.job] \in Settled
    <3>1. snap' = snap /\ snap.job \in Jobs
      BY <1>3, <2>4 DEF PollerMove, IInv, GatewayTypes
    <3>2. entry[snap.job] \in Settled
      BY <1>3, <2>4, <3>1 DEF PollerMove, IInv, SettlementIsOver
    <3>3. LedgerMove(snap.job)
      BY <1>2, <3>1
    <3> QED BY <3>1, <3>2, <3>3 DEF LedgerMove, MaySettle, Settled
  <2> QED BY <2>1, <2>2, <2>3, <2>4 DEF SettlementIsOver, Over, Proven
<1> QED BY <1>1, <1>5, <1>6, <1>7, <1>8, <1>9 DEF IInv

\* The invariant holds of every reachable state.
LEMMA Invariance == Spec => []IInv
<1>1. Init => IInv
  <2> SUFFICES ASSUME Init PROVE IInv
    OBVIOUS
  <2>1. Fenced /\ SentOnce /\ AtMostOneRun /\ CurrentRoot /\ SettlementIsOver
    BY DEF Init, Fenced, SentOnce, AtMostOneRun, CurrentRoot, SettlementIsOver
  <2> QED BY <2>1, InitTypes DEF IInv
<1>2. IInv /\ UNCHANGED vars => IInv'
  <2> SUFFICES ASSUME IInv, UNCHANGED vars PROVE IInv'
    OBVIOUS
  <2>1. BackendTypes' /\ AdapterTypes' /\ GatewayTypes' /\ HistoryTypes'
    BY DEF IInv, vars, BackendTypes, Reserved, AdapterTypes, GatewayTypes, HistoryTypes
  <2>2. Fenced' /\ SentOnce' /\ AtMostOneRun' /\ CurrentRoot' /\ SettlementIsOver'
    BY DEF IInv, vars, Fenced, SentOnce, AtMostOneRun, CurrentRoot, SettlementIsOver, Over,
       Proven
  <2> QED BY <2>1, <2>2 DEF IInv
<1>3. IInv /\ [Next]_vars => IInv'
  BY <1>2, NextIInv
<1> QED BY <1>1, <1>3, PTL DEF Spec

----------------------------------------------------------------------------
(* The theorems *)

\* The ledger, the adapter, the Gateway and the requests keep their types.
THEOREM TypeCorrect == Spec => []TypeOK
<1>1. IInv => TypeOK
  BY TypesTogether DEF IInv
<1> QED BY <1>1, Invariance, PTL

\* However often the Gateway and the adapter restart, and whichever answers are
\* lost, one ready signal starts the model at most once.
THEOREM SignalsRunOnce == Spec => []AtMostOneRun
<1>1. IInv => AtMostOneRun
  BY DEF IInv
<1> QED BY <1>1, Invariance, PTL

\* A reservation that the ledger calls cancelled was never sent and never ran.
THEOREM CancellationIsEffective == Spec => []CancelledNeverRuns
<1>1. IInv => CancelledNeverRuns
  BY DEF IInv, Fenced, CancelledNeverRuns
<1> QED BY <1>1, Invariance, PTL

\* A settled row's process is gone, its root is closed, its calls are accounted
\* for and its run is proven.
THEOREM SettlementIsFinal == Spec => []SettledIsOver
<1>1. IInv => SettledIsOver
  BY DEF IInv, SettlementIsOver, Over, Proven, Unproven, SettledIsOver
<1> QED BY <1>1, Invariance, PTL

\* The marker of a cancellation goes only when its continuation is cancelled or
\* settled, does not run and has no request on its way.
THEOREM CancellationEndsQuiet == Spec => ClearedIsQuiet
<1> DEFINE Quiet1(j) ==
      marker = j /\ marker' # j =>
          entry'[j] \in Settled /\ j \notin live' /\ post'[j] # "sent"
<1>1. ASSUME IInv, Next, NEW j \in Jobs PROVE Quiet1(j)
  <2> SUFFICES ASSUME marker = j, marker' # j
               PROVE  entry'[j] \in Settled /\ j \notin live' /\ post'[j] # "sent"
    OBVIOUS
  <2>1. pc = "clear" /\ snap.job = j /\ UNCHANGED <<entry, live, post>>
    <3>1. j # None
      BY JobsAssumption DEF None
    <3>2. ~HoldSession
      <4> SUFFICES ASSUME HoldSession PROVE FALSE
        OBVIOUS
      <4>1. marker' \in {marker, snap.job} /\ (marker' # marker => marker \in {None, snap.job})
        BY DEF HoldSession
      <4> QED BY <3>1, <4>1
    <3>3. \A k \in Jobs : ~UserCancel(k)
      BY <3>1 DEF UserCancel
    <3>4. ClearMarker
      BY <1>1, <3>2, <3>3 DEF Next, PollerStep, Peek, PeekNothing, Reserve, ReadClaim,
         ReadReceipt, Dispatch, PostPrompt, AwaitPrompt, RecordAccepted, RecordSettled,
         ReleaseHold, CancelTick, FenceTick, CancelTarget, SignalReady,
         SubmitPrompt, PromptLost, DomainCall, CallAccounted, DeliverTerminal,
         RevokePermission, TaskEnds, OrdinaryTurn, CloseGap, ProofLost, RunEnds, UserTarget,
         UserFence, UserStop, IdleRelease, RestoreSession, GatewayCrash, AdapterCrash, gateway
    <3> QED BY <3>4 DEF ClearMarker, backend, history
  <2>2. entry[j] \in Settled
    BY <1>1, <2>1 DEF IInv, SettlementIsOver
  <2>3. CASE entry[j] = "cancelled"
    <3>1. runs[j] = 0 /\ post[j] = "none"
      BY <1>1, <2>3 DEF IInv, Fenced
    <3> QED BY <1>1, <2>1, <2>2, <3>1 DEF IInv, CurrentRoot
  <2>4. CASE entry[j] = "settled"
    <3>1. j \notin live /\ runs[j] = 1
      BY <1>1, <2>4 DEF IInv, SettlementIsOver, Over
    <3> QED BY <1>1, <2>1, <2>2, <3>1 DEF IInv, SentOnce
  <2> QED BY <2>2, <2>3, <2>4 DEF Settled
<1>2. IInv /\ [Next]_vars => [\A j \in Jobs : Quiet1(j)]_vars
  BY <1>1
<1> QED BY <1>2, Invariance, PTL DEF Spec, ClearedIsQuiet

----------------------------------------------------------------------------
(* The protocol implements ContinuationPromise *)

\* No step changes a row of the ledger and a run: the processes cannot commit
\* together, and never need to.
LEMMA LedgerOrRuns ==
    ASSUME Next
    PROVE  UNCHANGED entry \/ UNCHANGED <<runs, live>>
<1>1. CASE \/ Reserve \/ ReadReceipt \/ Dispatch \/ RecordAccepted \/ RecordSettled
           \/ FenceTick \/ UserFence \/ RevokePermission
  BY <1>1 DEF Reserve, ReadReceipt, Dispatch, RecordAccepted, RecordSettled, FenceTick,
     UserFence, RevokePermission, history
<1>2. CASE \/ Peek \/ PeekNothing \/ ReadClaim \/ HoldSession \/ PostPrompt \/ AwaitPrompt
           \/ ReleaseHold \/ CancelTick \/ CancelTarget \/ ClearMarker
  BY <1>2 DEF Peek, PeekNothing, ReadClaim, HoldSession, PostPrompt, AwaitPrompt,
     ReleaseHold, CancelTick, CancelTarget, ClearMarker, backend
<1>3. ASSUME NEW j \in Jobs,
             \/ SignalReady(j) \/ SubmitPrompt(j) \/ PromptLost(j) \/ DomainCall(j)
             \/ CallAccounted(j) \/ DeliverTerminal(j) \/ UserCancel(j)
      PROVE UNCHANGED entry
  BY <1>3 DEF SignalReady, SubmitPrompt, PromptLost, DomainCall, CallAccounted, DeliverTerminal,
     CloseRoot, AckTerminal, UserCancel, backend
<1>4. CASE \/ TaskEnds \/ OrdinaryTurn \/ CloseGap \/ ProofLost \/ RunEnds \/ UserTarget
           \/ UserStop \/ IdleRelease \/ RestoreSession \/ GatewayCrash \/ AdapterCrash
  BY <1>4 DEF TaskEnds, OrdinaryTurn, CloseGap, ProofLost, RunEnds, UserTarget, UserStop,
     IdleRelease, RestoreSession, GatewayCrash, AdapterCrash, backend
<1> QED BY <1>1, <1>2, <1>3, <1>4 DEF Next, PollerStep

\* A process that starts is the one of a run that starts.
LEMMA RunsAreLive ==
    ASSUME AdapterTypes, HistoryTypes, Next, NEW j \in Jobs, runs'[j] # runs[j]
    PROVE  j \in live'
<1>1. ASSUME NEW k \in Jobs, SubmitPrompt(k) PROVE j \in live'
  BY <1>1 DEF SubmitPrompt, StartRoot, HistoryTypes
<1>2. CASE ~\E k \in Jobs : SubmitPrompt(k)
  <2>1. UNCHANGED runs
    BY <1>2 DEF Next, PollerStep, Peek, PeekNothing, Reserve, ReadClaim, HoldSession,
       ReadReceipt, Dispatch, PostPrompt, AwaitPrompt, RecordAccepted, RecordSettled,
       ReleaseHold, CancelTick, FenceTick, CancelTarget, ClearMarker, SignalReady,
       PromptLost, DomainCall, CallAccounted, DeliverTerminal, UserCancel,
       RevokePermission, TaskEnds, OrdinaryTurn, CloseGap, ProofLost, RunEnds, UserTarget,
       UserFence, UserStop, IdleRelease, RestoreSession, GatewayCrash, AdapterCrash, history
  <2> QED BY <2>1
<1> QED BY <1>1, <1>2

\* Backend, Gateway and adapter together keep what ContinuationPromise promises
\* for each signal: every step of theirs moves it along one transition, or not.
THEOREM ImplementsPromise == Spec => PromiseSpec
<1> DEFINE Step(j) == Promise!SignalStep(j)
<1>1. Init => Promise!Init
  BY DEF Init, Promise!Init, Commitment
<1>2. ASSUME IInv, Next, NEW j \in Jobs PROVE Step(j)
  <2> USE DEF Promise!SignalStep, Promise!Commits, Commitment
  <2>1. /\ LedgerMove(j) /\ RunMove(j)
        /\ entry[j] \in Status /\ runs[j] \in Nat /\ post[j] \in Post
        /\ UNCHANGED entry \/ UNCHANGED <<runs, live>>
        /\ runs'[j] # runs[j] => j \in live'
    BY <1>2, EveryLedgerMove, EveryRunMove, LedgerOrRuns, RunsAreLive
    DEF IInv, BackendTypes, HistoryTypes
  <2>2. CASE UNCHANGED <<runs, live>>
    <3>1. entry[j] = "settled" \/ (pc = "settle" /\ snap.job = j) => runs[j] = 1 /\ j \notin live
      BY <1>2 DEF IInv, SettlementIsOver, Over
    <3> QED
      BY <2>1, <2>2, <3>1 DEF LedgerMove, MaySettle, Promise!Reserve, Promise!Cancel,
         Promise!Dispatch, Promise!Settle
  <2>3. CASE UNCHANGED entry /\ runs'[j] = runs[j]
    <3>1. j \in live' => j \in live
      BY <2>1, <2>3 DEF RunMove
    <3> QED BY <2>3, <3>1 DEF Promise!End
  <2>4. CASE UNCHANGED entry /\ runs'[j] # runs[j]
    <3>1. post[j] = "sent" /\ runs'[j] = runs[j] + 1
      BY <2>1, <2>4 DEF RunMove
    <3>2. runs[j] = 0 /\ entry[j] \notin {"none", "reserved", "cancelled"}
      BY <1>2, <3>1 DEF IInv, SentOnce, Fenced
    <3>3. entry[j] # "settled"
      BY <1>2, <3>2 DEF IInv, SettlementIsOver, Over
    <3>4. entry[j] \in {"outcome_unknown", "accepted"}
      BY <2>1, <3>2, <3>3 DEF Status, Settled
    <3> QED BY <2>1, <2>4, <3>1, <3>2, <3>4 DEF Promise!Start
  <2> QED BY <2>1, <2>2, <2>3, <2>4
<1>3. IInv /\ [Next]_vars => [Promise!Next]_(Promise!vars)
  <2>1. CASE IInv /\ Next
    BY <1>2, <2>1 DEF Promise!Next
  <2>2. CASE UNCHANGED vars
    BY <2>2 DEF vars, Promise!vars, Commitment
  <2> QED BY <2>1, <2>2
<1> QED BY <1>1, <1>3, Invariance, PTL DEF Spec, PromiseSpec, Promise!Spec
=============================================================================
